CONSTANTS
    Tenant = {a, b}
    Worker = {w1}
    MaxAttempts = 2
    BatchSize = 2
    AdminStatus = {"archived"}
    MaxJobs = 2
    MaxPort = 4
    MaxSettings = 2
    MaxFaults = 1
    None = None
SPECIFICATION FairSpec
INVARIANT TypeOK
INVARIANT TenantFollowsJob
INVARIANT SettingsReachRuntime
INVARIANT RuntimeIsConsistent
 
CHECK_DEADLOCK FALSE
