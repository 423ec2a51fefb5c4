SPECIFICATION Spec
CONSTANTS
    v1 = v1  v2 = v2  www = www  mail = mail
    NoValue = NoValue  Empty = Empty  None = None  Removed = Removed
    Malformed = Malformed  Absent = Absent
    Value <- MCValue
    Default = v1
    Records <- MCRecords
    Kinds = {"dns"}
    MaxFaults = 0  MaxDrifts = 0  MaxRemovals = 0  MaxEdits = 1
INVARIANT DestroyDeletes
CHECK_DEADLOCK FALSE
