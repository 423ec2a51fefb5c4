SPECIFICATION FairSpec
CONSTANTS
    c1 = c1
    c2 = c2
    c3 = c3
    A = A
    B = B
    Call = {c1, c2, c3}
    Config = {A}
    MaxRefs = 2
    NoCall = NoCall
    NoConfig = NoConfig
INVARIANTS TypeOK AtomicSnapshot OneGeneration ClientsOfOneCall
PROPERTIES EveryCallReturns
