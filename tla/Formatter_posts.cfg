SPECIFICATION FairSpec
CONSTANTS
    NumItems = 5
    Bosh = {1}
    Malformed = {5}
    RetryMax = 3
    FlushDuration = 15
INVARIANTS
    TypeOK
    SplitPartitions
    UnsentExact
    CopiesBounded
    RetriesWithinFlush
PROPERTY PostingEnds
