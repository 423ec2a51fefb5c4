SPECIFICATION LiveSpec
CONSTANTS
    v1 = v1  v2 = v2  www = www  mail = mail
    NoValue = NoValue  Empty = Empty  None = None  Removed = Removed
    Malformed = Malformed  Absent = Absent
    Value <- MCValue
    Default = v1
    Records <- MCRecords
    Kinds <- AllKinds
    MaxFaults = 1  MaxDrifts = 1  MaxRemovals = 1  MaxEdits = 1
INVARIANTS TypeOK Applied Settles Gone
PROPERTIES Converges ScaleKeeps
CHECK_DEADLOCK FALSE
