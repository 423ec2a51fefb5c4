SPECIFICATION Spec
CONSTANTS
    p1 = p1
    p2 = p2
    c1 = c1
    c2 = c2
    k1 = k1
    Proc = {p1, p2}
    Call = {c1, c2}
    ProcOf <- TwoProcesses
    ResourceID = {a_slash_b, a_b}
    Blob = {k1}
    LockBlob <- SameBlob
    Store = {s1, s2}
    LeaseID = {l1, l2, l3}
    MaxStray = 1
    NoStore = NoStore
    NoCall = NoCall
    NoLease = NoLease
    NoResource = NoResource
    Nobody = Nobody
    Gone = Gone
INVARIANTS TypeOK LockInv MutualExclusion
PROPERTIES OnlyHolderReleases ImplementsLeaseLock
