SPECIFICATION FairSpec
CONSTANTS
    Workers = {w1, w2}
    Main = Main
    NoThread = NoThread
    SignalThreads <- MainOnly
    Apps = {a1, a2}
    MaxGen = 2
PROPERTIES
    RequestAnswered
