CONSTANTS
    N = 4
    ConnectorSet = FALSE
    LocalFaults = {"pclose"}
    AgreedFaults = {}
    PartialFaults = {"delete"}
    MaxFaults = 2
SPECIFICATION FairSpec
PROPERTY
    Terminates
