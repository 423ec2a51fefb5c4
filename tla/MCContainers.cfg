SPECIFICATION LiveSpec
CONSTANTS
    i1 = i1  i2 = i2  o1 = o1  o2 = o2  a1 = a1  a2 = a2  a3 = a3
    j1 = j1  j2 = j2  r1 = r1  r2 = r2  s1 = s1  s2 = s2
    None = None  Absent = Absent  Nothing = Nothing
    Image <- MCImage
    Owner <- MCOwner
    FirstOwner <- MCFirstOwner
    Addr <- MCAddr
    Old = i1  New = i2  Home = a1
    JobCall <- MCJobCall
    JobBase <- MCJobBase
    Subscription <- MCSubscription
    ResourceGroup <- MCResourceGroup
    Services = {"rolling", "bluegreen", "canary", "owners", "jobs"}
    MaxFaults = 2  MaxOthers = 2
    MaxRestarts = 1  MaxRuns = 2  MaxJobFaults = 1
INVARIANTS TypeOK Served DoneIsDeployed OthersKept OwnersListed HandleIsForJob
PROPERTIES PromoteKeeps FinalIsFinal RolledOut JobsReported
CHECK_DEADLOCK FALSE
