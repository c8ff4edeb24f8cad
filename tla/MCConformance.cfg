CONSTANTS
    Batches <- MCBatches
    Values <- MCValues
    Height <- MCHeight
    Words <- MCWords
    Length <- MCLength
    BlankTexts <- MCBlankTexts
    NameTexts <- MCNameTexts
    VersionTexts <- MCVersionTexts
    PlaceholderTexts <- MCPlaceholderTexts
    UNSAFE_ACTION_TERMS <- MCUnsafe
    INTERNAL_LEAKAGE_TERMS <- MCLeaking
    SENSITIVE_DATA_TERMS <- MCSensitive
    PROHIBITED_SCHEMA_KEYS <- MCProhibited
    CheckSchema <- MCCheckSchema

SPECIFICATION Spec

INVARIANTS
    TypeOK
    AcceptedIsSafe
    AcceptedIsCallable
    MissingIsReportedOnce
    EveryFaultIsReported

CHECK_DEADLOCK FALSE
