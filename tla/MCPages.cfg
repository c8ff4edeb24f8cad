SPECIFICATION Spec
CONSTANTS
    None = None
    Files <- MCFiles
    MaxLoads = 3
INVARIANTS
    SettledPaneIsUsable
    ShowsTheLatest
