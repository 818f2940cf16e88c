SPECIFICATION Spec
CONSTANTS
    NumItems = 3
    Bosh = {1}
    Malformed = {}
    RetryMax = 1
    FlushDuration = 15
INVARIANT PrefixAdded
