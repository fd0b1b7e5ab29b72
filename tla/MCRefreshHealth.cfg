CONSTANTS
    Contents = {c1}
    None = None
    Evidences <- MCEvidences
    Kinds = {"scheduled-off", "scheduled-op", "fixture", "full", "proposal"}
    RefreshAge = 1
    StaleAge = 2
    AssessmentDue = 1
    CertificateDue = 1
    MaxEntries = 1
    RefreshPolicy <- MCRefreshPolicy
    AcquisitionHosts = {"export"}
    Retention = 2
    LocatorWindow = 2
    StatusWindow = 2
    MaxDays = 3
    MaxRuns = 3
    MaxMixed = 2
    MaxDeaths = 1
SPECIFICATION Spec
INVARIANT HealthTypeOK
PROPERTIES OverdueIsExact NothingIsHidden FailureIsShown
CHECK_DEADLOCK FALSE
