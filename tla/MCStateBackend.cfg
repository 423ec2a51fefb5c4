SPECIFICATION Spec
CONSTANTS
    c1 = c1
    c2 = c2
    r1 = r1
    r1_alias = r1_alias
    b1 = b1
    k1 = k1
    s1 = s1
    s2 = s2
    Call = {c1, c2}
    ResourceID = {r1, r1_alias}
    Blob = {b1}
    StateBlob <- OneStateBlob
    Status = {active, failed}
    AnyStatus = AnyStatus
    MaxLate = 1
    NoBlob = NoBlob
    Corrupt = Corrupt
    NoResource = NoResource
    NoStatus = NoStatus
    Target <- Targets
    LockName = {k1}
    LockBlob <- OneLockBlob
    Store = {s1, s2}
    StoreOf <- Stores
    Nobody = Nobody
    Gone = Gone
INVARIANTS NoLostUpdate
