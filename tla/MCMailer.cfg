SPECIFICATION Spec
CONSTANTS
    Emails = {e1, e2}
    Senders = {s1, s2}
    WithDomain = {s1}
    NoAddress = NoAddress
    Settings <- FourSettings
    MaxQueue = 2
    MaxPasses = 2
    None = None
SYMMETRY EmailSymmetry
INVARIANTS
    TypeOK
    PassComplete
    SameMailAgain
    TlsHonoured
