SPECIFICATION Spec
CONSTANTS
    None = None
    Files <- MCFiles
    MaxLoads = 1
INVARIANT LinkedPagesOpen
