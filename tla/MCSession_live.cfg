SPECIFICATION FairSpec
CONSTANTS
    Conns = {c1, c2}
    IDs = {i1, i2}
    Objs = {o1, o2, o3}
    Keys = {}
    IPs = {p1}
    NoID = NoID
    NoObj = NoObj
    NoIP = NoIP
    Configs <- StrictConfig
    Keepalives <- ShortKeepalives
    MaxTime = 1
    TimeHalf = 4
    FreshIDs = FALSE
PROPERTIES
    StartReturns
