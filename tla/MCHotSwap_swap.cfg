SPECIFICATION Spec
CONSTANTS
    Workers = {w1, w2}
    Main = Main
    NoThread = NoThread
    SignalThreads <- AllThreads
    Apps = {a1, a2}
    MaxGen = 3
CHECK_DEADLOCK FALSE
SYMMETRY Symmetry
INVARIANTS
    TypeOK
    SnapshotConsistent
    CodeMapped
    InitBeforeServing
