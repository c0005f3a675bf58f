SPECIFICATION Spec
CONSTANTS
    Conns = {c1, c2}
    IDs = {i1, i2}
    Objs = {o1, o2, o3}
    Keys = {k1}
    IPs = {p1, p2}
    NoID = NoID
    NoObj = NoObj
    NoIP = NoIP
    Configs <- ValidatingConfigs
    Keepalives <- ShortKeepalives
    MaxTime = 2
    TimeHalf = 4
    FreshIDs = TRUE
SYMMETRY Symmetry
INVARIANTS
    PrivateData
PROPERTIES
    LeavesForAReason
    ImplementsStore
