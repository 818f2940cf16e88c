SPECIFICATION FairSpec
CONSTANTS
    Workers = {w1, w2}
    Apps = {a1}
    Hosts = {h1, h2}
    MaxVersion = 3
    Incomplete = {2}
    Updater = updater
    Nobody = nobody
INVARIANTS
    TypeOK
    PackagesTagged
    HostMatchesEnvelope
    WarmedUpMeansLoaded
PROPERTIES
    CacheConverges
    UpdaterStops
