SPECIFICATION Spec
CONSTANTS
    Conns = {c1, c2}
    IDs = {i1, i2}
    Objs = {o1, o2, o3}
    Keys = {}
    IPs = {p1, p2}
    NoID = NoID
    NoObj = NoObj
    NoIP = NoIP
    Configs <- MixedConfigs
    Keepalives <- WrappingKeepalives
    MaxTime = 1
    TimeHalf = 4
    FreshIDs = FALSE
SYMMETRY Symmetry
INVARIANTS
    TypeOK
    LiveBinding
    ValidateIP
    CookieNamesSession
    OnlyIssuedIDs
PROPERTIES
    NeverRevived
