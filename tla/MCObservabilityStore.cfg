SPECIFICATION Spec
CONSTANTS
    None = None
    Unknown = "unknown"
    Blank = ""
    Readers = {r1, r2}
    MaxEvents = 2
    MaxRecorded = 3
    Kinds <- MCKinds
    Verticals <- MCVerticals
    Limits <- MCLimits
    Ids <- MCIds
INVARIANTS
    TypeOK
    RetainsLatest
    AnswersAreOfOneMoment
    HealthRowsExplained
    TotalsAddUp
    FailuresNewestFirst
    DetailMissesOnlyTheEvicted
