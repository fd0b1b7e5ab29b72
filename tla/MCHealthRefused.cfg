CONSTANTS
    Contents = {c1}
    None = None
    Evidences <- MCEvidences
    Kinds = {"scheduled-op", "proposal"}
    RefreshAge = 1
    StaleAge = 2
    AssessmentDue = 1
    CertificateDue = 1
    MaxEntries = 2
    RefreshPolicy <- MCRefreshPolicy
    AcquisitionHosts = {"export"}
    Retention = 2
    LocatorWindow = 2
    StatusWindow = 2
    MaxDays = 2
    MaxRuns = 1
    MaxMixed = 2
    MaxDeaths = 0
SPECIFICATION Spec
PROPERTY FailureAlwaysShown
CHECK_DEADLOCK FALSE
