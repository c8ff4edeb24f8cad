SPECIFICATION Spec
CONSTANTS
    None = None
    Unknown = "unknown"
    Blank = ""
    id1 = id1
    c1 = c1
    Slots = {s1, s2, s3}
    MaxEvents = 2
    ToolNames <- MCToolNames
    Routes <- MCRoutes
    Clients <- MCClients
    ArgumentCheck <- MCArgumentCheck
    StripLower <- MCStripLower
    Strip <- MCStrip
    Inputs <- MCInputs
SYMMETRY SlotSymmetry
INVARIANTS
    TypeOK
    FilterIsolation
    OnlyCuratedCalls
    AnswerTellsOfTheCall
    RecordedOnceWhenAnswered
    EventTellsOfItsRequest
\* Once every request is answered and the server is down nothing happens.
CHECK_DEADLOCK FALSE
