CONSTANTS
    a1 = a1
    a2 = a2
    s1 = s1
    s2 = s2
    o1 = o1
    Apps = {a1, a2}
    Spaces = {s1, s2}
    Orgs = {o1}
    SpaceOf <- TwoSpaces
    OrgOf <- OneOrg
    batchSize = 1
    Rank <- Ranks
    LevelsOf <- EveryLabel
    MaxPages = 5
    MaxWorkers = 4
    MaxEntries = 5
    apiBatchSize = 2
SPECIFICATION ListingSpec
INVARIANTS ListingTypeOK LabelPrecedence EveryPageOnce PagesAddUp
PROPERTIES StableAppsComplete FallbackOnlyOnce PagingEnds
