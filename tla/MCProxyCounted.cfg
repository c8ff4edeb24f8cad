SPECIFICATION Spec
CONSTANTS
    None = None
    Unknown = "unknown"
    Blank = ""
    id1 = id1
    c1 = c1
    Slots = {s1}
    MaxEvents = 2
    ToolNames <- MCToolNames
    Routes <- MCRoutes
    Clients <- MCClients
    ArgumentCheck <- MCArgumentCheck
    StripLower <- MCStripLower
    Strip <- MCStrip
    Inputs <- MCInputs
INVARIANTS
    FailedCallsAreCounted
CHECK_DEADLOCK FALSE
