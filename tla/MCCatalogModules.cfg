SPECIFICATION Spec
CONSTANTS
    x = x
    y = y
    None = None
    Damaged = Damaged
    MaxStaging = 2
    MaxUpdates = 1
    MaxFaults = 1
    Builds <- MCBuilds
INVARIANTS
    TypeOK
    RegisteredIsTrusted
PROPERTIES
    DirectoriesAreImmutable
    InstalledModuleStaysOrAdvances
    InstalledSurvivesRelaunch
    LifecycleImplemented
CHECK_DEADLOCK FALSE
