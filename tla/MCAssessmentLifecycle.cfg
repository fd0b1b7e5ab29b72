CONSTANTS
    t1 = t1
    t2 = t2
    c1 = c1
    None = None
    Texts = {t1, t2}
    Certs = {c1}
    Reviewers = {r1, r2}
    Prohibited <- ProhibitedByVersion
    Ambiguous <- AmbiguousByVersion
    Certificate <- CertificateDates
    MaxRecheckAge = 2
    StaleAge = 3
    Snapshots <- Published
    Decisions = {"halal-reviewed", "halal-certified", "unknown"}
    MaxTime = 1
    MaxSnapshots = 3
    MaxReviews = 2
    MaxRestored = 1
SYMMETRY Anonymous
SPECIFICATION Spec
CHECK_DEADLOCK FALSE
INVARIANTS
    LifecycleTypeOK
    NormalizeIsNotRefused
    SupersessionDoesNotFork
    PositiveWasReadTwice
    PositiveIsNotProhibited
    PositiveIsAboutTheSeenText
    WithdrawnStaysWithdrawn
