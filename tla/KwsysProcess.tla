---------------------------- MODULE KwsysProcess ----------------------------
(***************************************************************************)
(* The process handles of driver/kwsys/ProcessUNIX.c as the test driver    *)
(* uses them: one command per handle, one thread, stdout and stderr merged *)
(* into one pipe of lines.  Part of the state is the library's (state,     *)
(* killed, expired, forkPid, left), part is the operating system's (child, *)
(* reaped, descendant, pipe).  A call that blocks in the code is here one  *)
(* action per thing that can happen inside it; the caller says which call  *)
(* it is in.                                                               *)
(***************************************************************************)
EXTENDS Integers, Sequences

CONSTANTS
    Procs,      \* the process handles
    Lines,      \* the kinds of line a child can write
    TimeOut,    \* process time-out in ticks, 0 = none
    MaxLines,   \* BOUND: lines one child writes in a behaviour
    PipeCap,    \* lines the operating system's pipe holds
    Forking     \* children that may leave a descendant behind

ASSUME TimeOutAssumption == TimeOut \in Nat
ASSUME BoundsAssumption == MaxLines \in Nat /\ PipeCap \in Nat \ {0}
ASSUME ForkingAssumption == Forking \subseteq Procs

VARIABLES
    state,      \* cp->State
    killed,     \* cp->Killed
    expired,    \* cp->TimeoutExpired
    forkPid,    \* cp->ForkPIDs[0] # 0
    left,       \* ticks until the process time-out
    child,      \* the child process itself
    reaped,     \* waitpid has collected the child: its PID is free again
    descendant, \* a process the child started still holds its output pipes
    pipe,       \* written by the child, not yet read
    budget,     \* lines the child may still write (see MaxLines)
    stray       \* handles that signalled a PID they had already reaped

handleVars == <<state, killed, expired, forkPid, left>>
osVars == <<child, reaped, descendant, pipe, budget, stray>>
procVars == <<handleVars, osVars>>

Final == {"Exited", "Exception", "Expired", "Killed"}
HandleState == {"Starting", "Error", "Executing", "Freed"} \cup Final
Dead == {"exit0", "exit1", "signal"}
ChildState == {"none", "running"} \cup Dead

ProcTypeOK ==
    /\ state \in [Procs -> HandleState]
    /\ killed \in [Procs -> BOOLEAN]
    /\ expired \in [Procs -> BOOLEAN]
    /\ forkPid \in [Procs -> BOOLEAN]
    /\ left \in [Procs -> 0..TimeOut]
    /\ child \in [Procs -> ChildState]
    /\ reaped \in [Procs -> BOOLEAN]
    /\ descendant \in [Procs -> BOOLEAN]
    /\ pipe \in [Procs -> Seq(Lines)]
    /\ budget \in [Procs -> 0..MaxLines]
    /\ stray \in SUBSET Procs

\* kwsysProcess_New and SetTimeout, for every handle.
ProcInit ==
    /\ state = [p \in Procs |-> "Starting"]
    /\ killed = [p \in Procs |-> FALSE]
    /\ expired = [p \in Procs |-> FALSE]
    /\ forkPid = [p \in Procs |-> FALSE]
    /\ left = [p \in Procs |-> TimeOut]
    /\ child = [p \in Procs |-> "none"]
    /\ reaped = [p \in Procs |-> FALSE]
    /\ descendant = [p \in Procs |-> FALSE]
    /\ pipe = [p \in Procs |-> << >>]
    /\ budget = [p \in Procs |-> MaxLines]
    /\ stray = {}

-----------------------------------------------------------------------------
(* What a call can see. *)

\* The pipes are open on the library's side: the early return of WaitForData.
Waitable(p) == state[p] = "Executing" /\ ~killed[p] /\ ~expired[p]

Writing(p) == child[p] = "running" \/ descendant[p]

\* FAULTY: the signal pipe is not one of PipesLeft.
EofWithoutSignalPipe(p) == pipe[p] = << >> /\ ~Writing(p)

\* FAULTY: the pipes are taken for closed when the child is gone.
EofOfChild(p) == pipe[p] = << >> /\ child[p] # "running" /\ reaped[p]

\* stdout, stderr and the signal pipe have all closed: PipesLeft = 0.
Eof(p) == pipe[p] = << >> /\ ~Writing(p) /\ reaped[p]

DeadlineReached(p) == TimeOut > 0 /\ left[p] = 0

\* WaitForData returns Pipe_None.
NoMoreData(p) == ~Waitable(p) \/ Eof(p)

\* select() would report a descriptor, or the process time-out is over.
Stirring(p) ==
    \/ NoMoreData(p)
    \/ pipe[p] # << >>
    \/ child[p] \in Dead /\ ~reaped[p]
    \/ DeadlineReached(p)

-----------------------------------------------------------------------------
(* The library's operations. *)

\* FAULTY: Killed and TimeoutExpired of the earlier run are kept.
ExecuteKeepingFlags(p) ==
    /\ state[p] \notin {"Executing", "Freed"}
    /\ state' = [state EXCEPT ![p] = "Executing"]
    /\ forkPid' = [forkPid EXCEPT ![p] = TRUE]
    /\ left' = [left EXCEPT ![p] = TimeOut]
    /\ child' = [child EXCEPT ![p] = "running"]
    /\ reaped' = [reaped EXCEPT ![p] = FALSE]
    /\ descendant' = [descendant EXCEPT ![p] = FALSE]
    /\ pipe' = [pipe EXCEPT ![p] = << >>]
    /\ UNCHANGED <<killed, expired, budget, stray>>

\* kwsysProcess_Execute on any handle that is not executing, exec succeeds:
\* the flags of an earlier run are reset, the pipes and the child are new.
ExecuteOK(p) ==
    /\ state[p] \notin {"Executing", "Freed"}
    /\ state' = [state EXCEPT ![p] = "Executing"]
    /\ killed' = [killed EXCEPT ![p] = FALSE]
    /\ expired' = [expired EXCEPT ![p] = FALSE]
    /\ forkPid' = [forkPid EXCEPT ![p] = TRUE]
    /\ left' = [left EXCEPT ![p] = TimeOut]
    /\ child' = [child EXCEPT ![p] = "running"]
    /\ reaped' = [reaped EXCEPT ![p] = FALSE]
    /\ descendant' = [descendant EXCEPT ![p] = FALSE]
    /\ pipe' = [pipe EXCEPT ![p] = << >>]
    /\ UNCHANGED <<budget, stray>>

\* kwsysProcess_Execute: chdir, fork or exec fails; kwsysProcessCleanup(cp, 1)
\* reaps whatever was forked.
ExecuteFails(p) ==
    /\ state[p] \notin {"Executing", "Freed"}
    /\ state' = [state EXCEPT ![p] = "Error"]
    /\ killed' = [killed EXCEPT ![p] = FALSE]
    /\ expired' = [expired EXCEPT ![p] = FALSE]
    /\ forkPid' = [forkPid EXCEPT ![p] = FALSE]
    /\ UNCHANGED <<left, osVars>>

\* FAULTY: output restarts the process time-out.
ReadLinesRestarting(p, n) ==
    /\ Waitable(p)
    /\ n \in 1..Len(pipe[p])
    /\ pipe' = [pipe EXCEPT ![p] = SubSeq(@, n + 1, Len(@))]
    /\ left' = [left EXCEPT ![p] = TimeOut]
    /\ UNCHANGED <<state, killed, expired, forkPid, child, reaped, descendant,
                   budget, stray>>

\* WaitForData reads n lines that are in the pipe.
ReadLines(p, n) ==
    /\ Waitable(p)
    /\ n \in 1..Len(pipe[p])
    /\ pipe' = [pipe EXCEPT ![p] = SubSeq(@, n + 1, Len(@))]
    /\ UNCHANGED <<handleVars, child, reaped, descendant, budget, stray>>

\* The signal pipe has a byte: kwsysProcessDestroy collects the child.
Reap(p) ==
    /\ Waitable(p)
    /\ child[p] \in Dead /\ ~reaped[p]
    /\ reaped' = [reaped EXCEPT ![p] = TRUE]
    /\ forkPid' = [forkPid EXCEPT ![p] = FALSE]
    /\ UNCHANGED <<state, killed, expired, left, child, descendant, pipe,
                   budget, stray>>

\* FAULTY: the child is signalled and not waited for.
TerminateUnwaited(p) ==
    /\ pipe' = [pipe EXCEPT ![p] = << >>]
    /\ IF forkPid[p]
       THEN child' = [child EXCEPT ![p] = IF @ = "running" THEN "signal" ELSE @]
       ELSE UNCHANGED child
    /\ UNCHANGED <<state, forkPid, left, descendant, reaped, budget, stray>>

\* Close the read ends, signal the process tree below the PID, waitpid it.
\* The PID is left in ForkPIDs, so a second call signals it again.
Terminate(p) ==
    /\ pipe' = [pipe EXCEPT ![p] = << >>]
    /\ IF forkPid[p]
       THEN /\ child' = [child EXCEPT ![p] = IF @ = "running" THEN "signal" ELSE @]
            /\ descendant' = [descendant EXCEPT ![p] = @ /\ child[p] # "running"]
            /\ reaped' = [reaped EXCEPT ![p] = TRUE]
            /\ stray' = IF reaped[p] THEN stray \cup {p} ELSE stray
       ELSE UNCHANGED <<child, descendant, reaped, stray>>
    /\ UNCHANGED <<state, forkPid, left, budget>>

\* kwsysProcess_Kill on an executing process.
KillExecuting(p) ==
    /\ state[p] = "Executing"
    /\ killed' = [killed EXCEPT ![p] = TRUE]
    /\ UNCHANGED expired
    /\ Terminate(p)

\* kwsysProcess_Kill.
Kill(p) ==
    \/ KillExecuting(p)
    \/ state[p] # "Executing" /\ UNCHANGED procVars

\* FAULTY: Killed is reset and TimeoutExpired is not set.
ExpireForgotten(p) ==
    /\ Waitable(p)
    /\ DeadlineReached(p)
    /\ UNCHANGED <<killed, expired>>
    /\ Terminate(p)

\* The process time-out found by WaitForData: Kill, then Killed = 0 and
\* TimeoutExpired = 1.  Data in the pipe are lost.
Expire(p) ==
    /\ Waitable(p)
    /\ DeadlineReached(p)
    /\ expired' = [expired EXCEPT ![p] = TRUE]
    /\ UNCHANGED killed
    /\ Terminate(p)

\* The state WaitForExit settles on once WaitForData has returned Pipe_None.
Outcome(p) ==
    IF killed[p] THEN "Killed"
    ELSE IF expired[p] THEN "Expired"
    ELSE IF child[p] = "signal" THEN "Exception"
    ELSE "Exited"

\* kwsysProcess_WaitForExit returns 1.
FinishExit(p) ==
    /\ state[p] = "Executing"
    /\ NoMoreData(p)
    /\ state' = [state EXCEPT ![p] = Outcome(p)]
    /\ forkPid' = [forkPid EXCEPT ![p] = FALSE]
    /\ UNCHANGED <<killed, expired, left, osVars>>

\* FAULTY: Delete does not wait for a process that is executing.
FreeUnwaited(p) ==
    /\ state[p] # "Freed"
    /\ state' = [state EXCEPT ![p] = "Freed"]
    /\ UNCHANGED <<killed, expired, forkPid, left, osVars>>

\* kwsysProcess_Delete once the process is no longer executing.
Free(p) ==
    /\ state[p] \notin {"Executing", "Freed"}
    /\ state' = [state EXCEPT ![p] = "Freed"]
    /\ UNCHANGED <<killed, expired, forkPid, left, osVars>>

\* FAULTY: the time left is not clamped.
ClockTickPastZero ==
    /\ left' = [p \in Procs |-> IF state[p] = "Executing" THEN left[p] - 1
                                ELSE left[p]]
    /\ UNCHANGED <<state, killed, expired, forkPid, osVars>>

\* One tick of the clock: the process time-outs run from Execute on.
ClockTick ==
    /\ left' = [p \in Procs |-> IF state[p] = "Executing" /\ left[p] > 0
                                THEN left[p] - 1 ELSE left[p]]
    /\ UNCHANGED <<state, killed, expired, forkPid, osVars>>

-----------------------------------------------------------------------------
(* The children: external programs, modelled by what the library sees.     *)

Write(p, l) ==
    /\ Writing(p) /\ Waitable(p)
    /\ budget[p] > 0 /\ Len(pipe[p]) < PipeCap
    /\ pipe' = [pipe EXCEPT ![p] = Append(@, l)]
    /\ budget' = [budget EXCEPT ![p] = @ - 1]
    /\ UNCHANGED <<handleVars, child, reaped, descendant, stray>>

Exit(p, how) ==
    /\ child[p] = "running"
    /\ how \in Dead
    /\ child' = [child EXCEPT ![p] = how]
    /\ \E leaves \in BOOLEAN :
          /\ leaves => p \in Forking
          /\ descendant' = [descendant EXCEPT ![p] = leaves]
    /\ UNCHANGED <<handleVars, reaped, pipe, budget, stray>>

DescendantEnds(p) ==
    /\ descendant[p]
    /\ descendant' = [descendant EXCEPT ![p] = FALSE]
    /\ UNCHANGED <<handleVars, child, reaped, pipe, budget, stray>>

ChildStep ==
    \E p \in Procs :
        \/ \E l \in Lines : Write(p, l)
        \/ \E how \in Dead : Exit(p, how)
        \/ DescendantEnds(p)

-----------------------------------------------------------------------------
(* The library under any caller that makes legal calls. *)

CallStep(p) ==
    \/ ExecuteOK(p)
    \/ ExecuteFails(p)
    \/ \E n \in 1..PipeCap : ReadLines(p, n)
    \/ Reap(p)
    \/ KillExecuting(p)
    \/ Expire(p)
    \/ FinishExit(p)
    \/ Free(p)

ProcNext == ChildStep \/ ClockTick \/ \E p \in Procs : CallStep(p)

ProcSpec == ProcInit /\ [][ProcNext]_procVars

-----------------------------------------------------------------------------

(* Once WaitForExit has settled a handle its child is dead and collected,  *)
(* whichever way the wait ended (kwsysProcess_WaitForExit, Kill, the       *)
(* process time-out): the library never forgets a live child.              *)
SettledMeansCollected ==
    \A p \in Procs : state[p] \in Final => child[p] \in Dead /\ reaped[p]

(* A child that runs, or died and was not waited for, is always reachable  *)
(* through a handle that is Executing and still holds its PID.             *)
UncollectedIsTracked ==
    \A p \in Procs : child[p] # "none" /\ ~reaped[p] =>
        state[p] = "Executing" /\ forkPid[p] /\ ~killed[p] /\ ~expired[p]

(* "Exited" is reported only when every line the child and its descendants *)
(* wrote has been taken out of the pipe and none of them can write again:  *)
(* no output of a normally ended child is lost (WaitForData's loop over    *)
(* PipesLeft).                                                             *)
ExitedMeansDrained ==
    \A p \in Procs : state[p] \in {"Exited", "Exception"} =>
        pipe[p] = << >> /\ ~Writing(p)

(* No handle signals a PID after waitpid has returned it to the system:    *)
(* the handler and Interrupt check ForkPIDs to "Make sure the PID is still *)
(* valid" (ProcessUNIX.c).                                                 *)
NoStraySignal == stray = {}

=============================================================================
