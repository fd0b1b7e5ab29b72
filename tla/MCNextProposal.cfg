SPECIFICATION Spec
CONSTANTS
    None = None
    Contents <- MCContents
    Published <- MCPublished
    Kinds <- MCKinds
    Logical <- MCLogical
    MaxRuns = 3
    MaxCrashes = 1
    MaxMerges = 2
INVARIANT
    MaterialChangeIsProposed
CHECK_DEADLOCK FALSE
