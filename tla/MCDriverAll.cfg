CONSTANTS
    Procs = {"client", "server", "client_helper", "client_init"}
    Lines = {"plain", "error", "ready"}
    TimeOut = 2
    MaxLines = 1
    PipeCap = 1
    Forking = {}
    StartWait = 1
    PollWait = 1
    ExitWait = 1
    AllowErrorInOutput = TRUE
    IgnoreServerResult = TRUE
    Horizon = 0
SPECIFICATION Spec
INVARIANTS
    NothingLeftRunning

PROPERTY
    Supervises
