SPECIFICATION Spec
CONSTANTS
    alice = alice
    bob = bob
    Requests = {r1, r2}
    Clients = {c1, c2}
    Sessions = {s1, s2}
    Users <- MCUsers
    Paths <- AreaPaths
    Extension <- MCExtension
    Files <- MCFiles
    Headers <- WellFormed
    Since = {0}
    Lists <- OneList
    MaxAuth = 3
    NoSession = NoSession
    NoUser = NoUser
    NoRequest = NoRequest
SYMMETRY Symmetry
INVARIANTS
    RememberedUser
    AuthGuard
