SPECIFICATION Spec
CONSTANTS
    v1 = v1  v2 = v2  www = www  mail = mail
    NoValue = NoValue  Empty = Empty  None = None  Removed = Removed
    Malformed = Malformed  Absent = Absent
    Value <- MCValue
    Default = v1
    Records <- MCRecords
    Kinds = {"vnet"}
    MaxFaults = 0  MaxDrifts = 0  MaxRemovals = 1  MaxEdits = 0
INVARIANT MissingIsDrift
CHECK_DEADLOCK FALSE
