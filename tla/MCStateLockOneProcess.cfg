SPECIFICATION FairSpec
CONSTANTS
    p1 = p1
    p2 = p2
    c1 = c1
    c2 = c2
    k1 = k1
    Proc = {p1}
    Call = {c1, c2}
    ProcOf <- OneProcess
    ResourceID = {a}
    Blob = {k1}
    LockBlob <- SameBlob
    Store = {s1, s2}
    LeaseID = {l1, l2, l3, l4, l5}
    MaxStray = 0
    NoStore = NoStore
    NoCall = NoCall
    NoLease = NoLease
    NoResource = NoResource
    Nobody = Nobody
    Gone = Gone
INVARIANTS HolderHasID
PROPERTIES EveryCallReturns
