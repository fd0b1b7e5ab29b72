CONSTANTS
    None = None
    i1 = i1
    i2 = i2
    i3 = i3
    i4 = i4
    Images = {i1, i2, i3, i4}
    Reencoded <- MCReencoded
    Packages <- MCPackages
    Reviewers = {ann}
    MaxAttachments = 2
    MaxAdmissions = 2
    MaxRuns = 2
    MaxReviews = 2
    RefreshAge = 1
    StaleAge = 2
    AssessmentDue = 1
    CertificateDue = 1
    MaxEntries = 2
    RefreshPolicy <- MCRefreshPolicy
    AcquisitionHosts = {"export"}
SPECIFICATION Spec
INVARIANTS IntakeTypeOK EvidenceWasSeen AdmittedOnce
CHECK_DEADLOCK FALSE
