CONSTANTS
    Procs = {"client", "server", "client_init"}
    Lines = {"plain", "error", "ready"}
    TimeOut = 2
    MaxLines = 1
    PipeCap = 1
    Forking = {"client"}
    StartWait = 2
    PollWait = 1
    ExitWait = 1
    AllowErrorInOutput = FALSE
    IgnoreServerResult = FALSE
    Horizon = 7
SPECIFICATION FairSpec
INVARIANT
    BoundedRun
PROPERTY
    Terminates
