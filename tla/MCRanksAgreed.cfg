CONSTANTS
    N = 3
    ConnectorSet = TRUE
    LocalFaults = {"copy_connector_string", "get_connector_name", "create_fapl",
                   "check_vol_register", "get_capability_flags",
                   "create_test_container"}
    AgreedFaults = {"create", "open", "close", "delete"}
    PartialFaults = {"delete"}
    MaxFaults = 2
SPECIFICATION FairSpec
INVARIANTS
    TypeOK
    CallsMatch
    NoneStranded
    FailTogether
    ReportIsRight
    ErrorIsCollective
    UnsupportedRunsNoTest
PROPERTIES
    Terminates
    ActAsOne
