CONSTANTS
    Procs = {"client", "server"}
    Lines = {"plain", "error", "ready"}
    TimeOut = 2
    MaxLines = 1
    PipeCap = 1
    Forking = {}
    StartWait = 2
    PollWait = 1
    ExitWait = 1
    AllowErrorInOutput = FALSE
    IgnoreServerResult = FALSE
    Horizon = 0
SPECIFICATION Spec
INVARIANT
    NoStraySignal
