SPECIFICATION FairSpec
CONSTANTS
    None = None
    Missing = Missing
    FloatMax = 1
    Requests = {r1, r2}
    Clients <- VerticalNames
    Asked <- MCAsked
    AskedNames <- MCAskedNames
    Delaying <- MCDelaying
INVARIANTS
    WholeListing
    ListedIsReadable
PROPERTY SlowVerticalHoldsUpItsOwn
\* Once both requests are answered nothing more happens.
CHECK_DEADLOCK FALSE
