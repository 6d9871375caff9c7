CONSTANTS
    N = 3
    ConnectorSet = FALSE
    LocalFaults = {"fapl"}
    AgreedFaults = {}
    PartialFaults = {}
    MaxFaults = 1
SPECIFICATION FairSpec
PROPERTY
    SplitErrorShared
