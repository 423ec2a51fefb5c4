SPECIFICATION SpecStore
CONSTANTS
    r1 = r1
    r1_alias = r1_alias
    r2 = r2
    b1 = b1
    b2 = b2
    c1 = c1
    c2 = c2
    active = active
    failed = failed
    Call = {c1, c2}
    ResourceID = {r1, r2}
    Blob = {b1, b2}
    StateBlob <- OneToOne
    Status = {active, failed}
    AnyStatus = AnyStatus
    MaxLate = 1
    NoBlob = NoBlob
    Corrupt = Corrupt
    NoResource = NoResource
    NoStatus = NoStatus
INVARIANTS TypeOK NotFoundIsTrue ListComplete
SYMMETRY Symmetry
