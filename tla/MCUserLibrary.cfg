SPECIFICATION Spec
CONSTANTS
    Limit = 1
    MaxScans = 2
    MaxConsent = 3
    MaxTaps = 2
INVARIANTS
    LibraryTypeOK
PROPERTIES
    RevokedScansStayOutUnlessThrown
    OnlyNewerEntriesDisplace
CHECK_DEADLOCK FALSE
