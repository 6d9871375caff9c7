SPECIFICATION Spec
CONSTANTS
    Suite <- MCSuite
    Aborts = FALSE
    Connectors <- MCConnectors
    AsksConnector = TRUE
    LoneFaults = {"check", "ignore", "skip", "error", "part"}
    AgreedFaults = {}
    LeftOpen <- MCLeftOpen
    LeftOver <- MCLeftOver
    MaxFaults = 1
INVARIANTS
    TypeOK
    NoFalseAlarm
    FilesReleased
    TestsReleaseFiles
    FilesRemoved
    TestsRemoveFiles
