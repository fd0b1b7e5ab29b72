CONSTANTS
    None = None
    Products <- MCProducts
    Offers <- MCOffers
    BucketOf <- MCBucketOf
    SelectionPolicy <- MCSelectionPolicy
    MaxRecords = 3
    Versions = {1}
    Snapshots = {0}
    Inputs <- MCInputs
    Bundles <- MCBundles
    MaxCommits = 3
    MaxRuns = 1
    MaxAttempts = 2
    MaxDispatches = 2
SPECIFICATION Spec
INVARIANTS ReleaseTypeOK StableIsReviewed RetailerOnlyAttaches
    BasicIsPlain StableIsKept
CHECK_DEADLOCK FALSE
