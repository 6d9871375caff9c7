SPECIFICATION Spec
CONSTANTS
    Suite <- SkippingSuite
    Aborts = FALSE
    Connectors <- MCConnectors
    AsksConnector = FALSE
    LoneFaults = {}
    AgreedFaults = {}
    LeftOpen <- MCLeftOpen
    LeftOver <- MCLeftOver
    MaxFaults = 0
INVARIANT
    SupportedTestsRun
