SPECIFICATION SystemSpec
CONSTANTS
    None = None
    Unreachable = Unreachable
    Missing = Missing
    Blank = ""
    Sessions = {s1}
    FloatMax <- MCFloatMax
    Verticals <- MCVerticals
    Clients <- VerticalNames
    Tools <- MCTools
    Versions <- MCVersions
    Schemas <- MCSchemas
    PublicNames <- MCPublicNames
    Descriptions <- MCPublicNames
    PublicVersions <- MCPublicVersions
    ContractVersion = "1.0"
    ApprovedMappings = None
    DefaultMappings <- DEFAULT_APPROVED_PUBLIC_MAPPINGS
    Conforms <- MCConforms
    Values <- MCValues
    Height <- MCHeight
    Words <- MCWords
    Length <- MCLength
    BlankTexts = {}
    NameTexts <- MCNameTexts
    VersionTexts <- MCVersions
    PlaceholderTexts = {}
    UNSAFE_ACTION_TERMS <- UnsafeActionTerms
    INTERNAL_LEAKAGE_TERMS <- InternalLeakageTerms
    SENSITIVE_DATA_TERMS <- SensitiveDataTerms
    PROHIBITED_SCHEMA_KEYS <- ProhibitedSchemaKeys
    CheckSchema <- MCCheckSchema
    Listings <- MCListings
    Surfaces <- MCSurfaces
    CalledNames <- MCCalledNames
    ArgumentSets <- MCArgumentSets
    StripLower <- MCStripLower
INVARIANTS
    ListingTellsWhatIsCallable
    RejectionGuidanceIsTrue
    ToolCountsAddUp
    SandboxTemplatesWork
\* Once the client has called nothing more happens.
CHECK_DEADLOCK FALSE
