SPECIFICATION FairSpec
CONSTANTS
    None = None
    Unreachable = Unreachable
    Missing = Missing
    Verticals <- MCVerticals
    Clients <- MCClients
    Tools <- MCTools
    Versions <- MCVersions
    Schemas <- MCSchemas
    PublicNames <- MCPublicNames
    Descriptions <- MCDescriptions
    PublicVersions <- MCPublicVersions
    ContractVersion = "internal-1"
    ApprovedMappings <- MCApproved
    DefaultMappings <- MCDefault
    Conforms <- MCConforms
    Listings <- MCListings
INVARIANTS
    TypeOK
    ReportTellsWhatIsPublished
    RegistryAgrees
    NoPartialCatalog
PROPERTIES
    ImplementsCuratedCatalog
    StartupEnds
\* A built (or failed) catalog has no further step.
CHECK_DEADLOCK FALSE
