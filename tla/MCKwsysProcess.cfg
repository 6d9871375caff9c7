CONSTANTS
    Procs = {p1, p2}
    Lines = {l}
    TimeOut = 2
    MaxLines = 2
    PipeCap = 1
    Forking = {p1}
SPECIFICATION ProcSpec
INVARIANTS
    ProcTypeOK
    SettledMeansCollected
    UncollectedIsTracked
    ExitedMeansDrained
