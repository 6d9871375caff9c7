CONSTANTS
    Procs = {"client", "server"}
    Lines = {"plain", "error", "ready"}
    TimeOut = 3
    MaxLines = 2
    PipeCap = 2
    Forking = {"server"}
    StartWait = 2
    PollWait = 1
    ExitWait = 1
    AllowErrorInOutput = FALSE
    IgnoreServerResult = FALSE
    Horizon = 0
SPECIFICATION Spec
INVARIANTS
    TypeOK
    VerdictSound
    VerdictJustified
    StrayOnlyWithoutClient
    NothingLeftRunning
PROPERTY
    NoKillUnderClient
