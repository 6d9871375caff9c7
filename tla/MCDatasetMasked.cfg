SPECIFICATION FairSpec
CONSTANTS
    Suite <- DatasetSuite
    Aborts = FALSE
    Connectors <- MCConnectors
    AsksConnector = TRUE
    LoneFaults = {"op"}
    AgreedFaults = {}
    LeftOpen = {}
    LeftOver = {}
    MaxFaults = 1
PROPERTY
    FailureHeard
