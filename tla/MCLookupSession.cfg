SPECIFICATION Spec
CONSTANTS
    DE = DE
    FR = FR
    t1 = t1
    t2 = t2
    Germany = DE
    Bundled = Bundled
    None = None
    Active = Active
    MaxRevision = 2
    Markets <- MCMarkets
    Versions <- MCVersions
    Requests <- MCRequests
INVARIANTS
    LookupTypeOK
    CapturedSourceIsCurrent
    RouterFollowsPreference
    OutcomeIsForLastRequest
    ResultMarketIsSelected
PROPERTIES
    OnlySupersessionStrands
CHECK_DEADLOCK FALSE
