SPECIFICATION FairSpec
CONSTANTS
    Suite <- MCSuite
    Aborts = TRUE
    Connectors <- MCConnectors
    AsksConnector = TRUE
    LoneFaults = {"op"}
    AgreedFaults = {"check", "error", "part"}
    LeftOpen = {}
    LeftOver = {}
    MaxFaults = 1
INVARIANTS
    NoFalseAlarm
    FilesReleased
    TestsReleaseFiles
    OneWayAccess
PROPERTY
    Terminates
