SPECIFICATION Spec
CONSTANTS
    MaxEvents = 2
    MaxStarts = 4
    MaxCalls = 4
INVARIANTS
    TypeOK
    MonitoringCoversBothSurfaces
    OneManagerWhileUp
    FirstSuccessServes
PROPERTIES
    NothingRunsTwice
\* After the last startup and call of the bounds nothing happens.
CHECK_DEADLOCK FALSE
