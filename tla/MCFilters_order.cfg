SPECIFICATION Spec
CONSTANTS
    alice = alice
    bob = bob
    Requests = {r1}
    Clients = {c1}
    Sessions = {s1, s2}
    Users <- MCUsers
    Paths <- MCPaths
    Extension <- MCExtension
    Files <- MCFiles
    Headers <- AllForms
    Since = {0, 1}
    Lists <- SameAuth
    MaxAuth = 3
    NoSession = NoSession
    NoUser = NoUser
    NoRequest = NoRequest
SYMMETRY Symmetry
INVARIANTS
    TypeOK
    AnswerAgrees
