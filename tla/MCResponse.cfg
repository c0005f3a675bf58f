SPECIFICATION Spec
CONSTANTS
    Bytes = {"a", "b"}
    NUL = "NUL"
    Names = {"X-A", "x-a"}
    Lower <- LowerCase
    Values = {"v"}
    Statuses = {404}
    CookieNames = {"k"}
    Cookies <- TwoCookies
    DefaultCookie <- Unset
    Files <- TwoFiles
    Contents <- TwoBodies
    MaxCalls = 5
    None = None
INVARIANTS
    TypeOK
PROPERTIES
    ImplementsOutput
