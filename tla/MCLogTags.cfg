CONSTANTS
    a1 = a1
    a2 = a2
    l1 = l1
    l2 = l2
    l3 = l3
    w1 = w1
    w2 = w2
    Workers = {w1, w2}
    Apps = {a1, a2}
    Logs = {l1, l2, l3}
    AppOf <- FromApps
    MaxSets = 1
    Spares = {2, 3}
SPECIFICATION Spec
SYMMETRY SameWorkers
INVARIANTS TypeOK OwnInstanceIndex OnlyTagsOfItsApp
CHECK_DEADLOCK FALSE
