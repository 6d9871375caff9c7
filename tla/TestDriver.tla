----------------------------- MODULE TestDriver -----------------------------
(***************************************************************************)
(* H5VLTestDriver::Main (driver/h5vl_test_driver.cxx): start the server,   *)
(* the client helper, the client initialiser and the client, watch their   *)
(* output, wait for them, and return a verdict on the test.  The handles   *)
(* and the children are those of KwsysProcess; an action here is a step of *)
(* the driver's one thread, a step of a child, or a tick of the clock,     *)
(* which advances only while the driver is blocked in a call.              *)
(***************************************************************************)
EXTENDS KwsysProcess, FiniteSets

CONSTANTS
    StartWait,          \* the 100 s WaitForAndPrintLine allows per line
    PollWait,           \* the 0.1 s allowed per line of the client
    ExitWait,           \* ServerExitTimeOut
    AllowErrorInOutput, \* --allow-errors
    IgnoreServerResult, \* --allow-server-errors
    Horizon             \* BOUND: ticks counted from the start of the driver

AllProcs == {"server", "client_helper", "client_init", "client"}
AllLines == {"plain", "error", "ready"}

ASSUME DriverProcs == "client" \in Procs /\ Procs \subseteq AllProcs
ASSUME DriverLines == Lines = AllLines
ASSUME DriverWaits ==
    /\ StartWait \in Nat \ {0} /\ PollWait \in Nat \ {0}
    /\ ExitWait \in Nat \ {0} /\ Horizon \in Nat
ASSUME DriverFlags ==
    AllowErrorInOutput \in BOOLEAN /\ IgnoreServerResult \in BOOLEAN

VARIABLES
    phase,        \* where Main is
    cur,          \* the process a Start* method is starting
    buf,          \* the ...StdOut/...StdErr vectors: lines read, not yet taken
    wait,         \* ticks left of the time-out of the call Main is in
    clientPipe,   \* FALSE: clientPipe = Pipe_None
    mpiError,     \* an error string was seen
    plan,         \* the calls Main has left to make before it returns
    started,      \* the client was started: Main went past its -1 returns
    clientResult, serverResult,
    verdict,      \* what Main returns
    erred,        \* history: who wrote an error line
    elapsed       \* history: ticks since the start

driverVars == <<phase, cur, buf, wait, clientPipe, mpiError, plan, started,
                clientResult, serverResult, verdict>>
history == <<erred, elapsed>>
vars == <<procVars, driverVars, history>>

NoLimit == -1
NoVerdict == 2
Waits == {NoLimit} \cup 0..StartWait \cup 0..PollWait \cup 0..ExitWait

-----------------------------------------------------------------------------
(* The calls of an orderly or a failed end, in the order Main makes them.  *)

Call(name, p, limit) == [name |-> name, of |-> p, within |-> limit]
Calls == [name : {"WaitForExit", "Kill", "Delete", "ReportStatus"},
          of : AllProcs, within : {NoLimit, ExitWait}]

Stop(p) == <<Call("Kill", p, NoLimit), Call("WaitForExit", p, NoLimit)>>

CleanProcesses ==
    <<Call("Delete", "client", NoLimit), Call("Delete", "client_helper", NoLimit),
      Call("Delete", "client_init", NoLimit), Call("Delete", "server", NoLimit)>>

\* FAULTY: the client's result is taken before it is waited for.
ConclusionReportingEarly ==
    <<Call("ReportStatus", "client", NoLimit),
      Call("WaitForExit", "client", NoLimit),
      Call("WaitForExit", "server", ExitWait),
      Call("WaitForExit", "client_helper", NoLimit),
      Call("ReportStatus", "server", NoLimit),
      Call("Kill", "server", NoLimit)>> \o CleanProcesses

\* What is left to do when the client's output has ended.
Conclusion ==
    <<Call("WaitForExit", "client", NoLimit),
      Call("WaitForExit", "server", ExitWait),
      Call("WaitForExit", "client_helper", NoLimit),
      Call("ReportStatus", "client", NoLimit),
      Call("ReportStatus", "server", NoLimit),
      Call("Kill", "server", NoLimit)>> \o CleanProcesses

\* What is left to do when p could not be started.  The client initialiser
\* is the one that is not killed.
Abandon(p) ==
    CASE p = "server" -> <<Call("Kill", p, NoLimit)>> \o CleanProcesses
      [] p = "client_helper" ->
            <<Call("Kill", p, NoLimit)>> \o Stop("server") \o CleanProcesses
      [] p = "client_init" ->
            Stop("server") \o Stop("client_helper") \o CleanProcesses
      [] p = "client" ->
            <<Call("Kill", p, NoLimit)>> \o Stop("server")
            \o Stop("client_helper") \o Stop("client_init") \o CleanProcesses

Limit(calls) == IF calls = << >> THEN NoLimit ELSE Head(calls).within

-----------------------------------------------------------------------------

TypeOK ==
    /\ ProcTypeOK
    /\ phase \in {"start", "await", "pollClient", "pollServer", "end", "done"}
    /\ cur \in AllProcs
    /\ buf \in [Procs -> Seq(Lines)]
    /\ wait \in Waits
    /\ clientPipe \in BOOLEAN
    /\ mpiError \in BOOLEAN
    /\ plan \in Seq(Calls)
    /\ started \in BOOLEAN
    /\ clientResult \in {0, 1}
    /\ serverResult \in {0, 1}
    /\ verdict \in {-1, 0, 1, NoVerdict}
    /\ erred \in SUBSET Procs
    /\ elapsed \in 0..Horizon

Init ==
    /\ ProcInit
    /\ phase = "start"
    /\ cur = "server"
    /\ buf = [p \in Procs |-> << >>]
    /\ wait = NoLimit
    /\ clientPipe = TRUE
    /\ mpiError = FALSE
    /\ plan = << >>
    /\ started = FALSE
    /\ clientResult = 1
    /\ serverResult = 0
    /\ verdict = NoVerdict
    /\ erred = {}
    /\ elapsed = 0

-----------------------------------------------------------------------------
(* WaitForAndPrintLine, as the outcomes of one call. *)

\* A line: one already buffered, or the first of those now read.
TakeLine(p, l) ==
    /\ p \in Procs
    /\ \/ /\ buf[p] # << >>
          /\ l = Head(buf[p])
          /\ buf' = [buf EXCEPT ![p] = Tail(@)]
          /\ UNCHANGED procVars
       \/ /\ buf[p] = << >>
          /\ \E n \in 1..PipeCap :
                /\ ReadLines(p, n)
                /\ l = Head(pipe[p])
                /\ buf' = [buf EXCEPT ![p] = SubSeq(pipe[p], 2, n)]

\* Pipe_None: no such process, or nothing buffered and no more data.
NoLine(p) ==
    /\ p \in Procs => buf[p] = << >> /\ NoMoreData(p)
    /\ UNCHANGED <<procVars, buf>>

\* Pipe_Timeout.
LineTimesOut(p) ==
    /\ p \in Procs
    /\ buf[p] = << >> /\ ~Stirring(p) /\ wait = 0
    /\ UNCHANGED <<procVars, buf>>

HasError(l) == l = "error" /\ ~AllowErrorInOutput

-----------------------------------------------------------------------------
(* StartServer, StartClientHelper, StartClientInit, StartClient. *)

\* FAULTY: the client helper is never started.
FollowingWithoutHelper(p) == CASE p = "server" -> "client_init"
              [] p = "client_helper" -> "client_init"
              [] p = "client_init" -> "client"

Following(p) == CASE p = "server" -> "client_helper"
              [] p = "client_helper" -> "client_init"
              [] p = "client_init" -> "client"

EndWith(calls) ==
    /\ phase' = "end"
    /\ plan' = calls
    /\ wait' = Limit(calls)

\* No such process was asked for.
SkipStart ==
    /\ phase = "start" /\ cur \notin Procs
    /\ cur' = Following(cur)
    /\ UNCHANGED <<procVars, phase, buf, wait, clientPipe, mpiError, plan,
                   started, clientResult, serverResult, verdict, history>>

\* Execute, then wait for the first line, or poll the client.
StartProcess ==
    /\ phase = "start" /\ cur \in Procs
    /\ ExecuteOK(cur)
    /\ IF cur = "client"
       THEN phase' = "pollClient" /\ wait' = PollWait /\ started' = TRUE
       ELSE phase' = "await" /\ wait' = StartWait /\ UNCHANGED started
    /\ UNCHANGED <<cur, buf, clientPipe, mpiError, plan, clientResult,
                   serverResult, verdict, history>>

\* Execute leaves the handle in the Error state.  The others read Pipe_None
\* from it, the client's state is looked at.
StartFails ==
    /\ phase = "start" /\ cur \in Procs
    /\ ExecuteFails(cur)
    /\ EndWith(Abandon(cur))
    /\ UNCHANGED <<cur, buf, clientPipe, mpiError, started, clientResult,
                   serverResult, verdict, history>>

\* A line arrives: the message (or the token) that ends the wait, or another
\* one, after which the wait starts afresh.
AwaitedLine ==
    /\ phase = "await"
    /\ \E l \in Lines :
          /\ TakeLine(cur, l)
          /\ IF l = "ready"
             THEN phase' = "start" /\ cur' = Following(cur) /\ wait' = NoLimit
             ELSE wait' = StartWait /\ UNCHANGED <<phase, cur>>
    /\ UNCHANGED <<clientPipe, mpiError, plan, started, clientResult,
                   serverResult, verdict, history>>

NeverStarted ==
    /\ phase = "await"
    /\ NoLine(cur) \/ LineTimesOut(cur)
    /\ EndWith(Abandon(cur))
    /\ UNCHANGED <<cur, clientPipe, mpiError, started, clientResult,
                   serverResult, verdict, history>>

-----------------------------------------------------------------------------
(* The loop that reports the output of the client and of the server. *)

\* FAULTY: a later line hides an error string.
PollClientForgetting ==
    /\ phase = "pollClient"
    /\ \/ \E l \in Lines : /\ TakeLine("client", l)
                           /\ mpiError' = HasError(l)
                           /\ clientPipe' = TRUE
       \/ LineTimesOut("client") /\ clientPipe' = TRUE /\ UNCHANGED mpiError
       \/ NoLine("client") /\ clientPipe' = FALSE /\ UNCHANGED mpiError
    /\ phase' = "pollServer"
    /\ wait' = IF clientPipe' THEN 0 ELSE ExitWait
    /\ UNCHANGED <<cur, plan, started, clientResult, serverResult, verdict,
                   history>>

PollClient ==
    /\ phase = "pollClient"
    /\ \/ \E l \in Lines : /\ TakeLine("client", l)
                           /\ mpiError' = (mpiError \/ HasError(l))
                           /\ clientPipe' = TRUE
       \/ LineTimesOut("client") /\ clientPipe' = TRUE /\ UNCHANGED mpiError
       \/ NoLine("client") /\ clientPipe' = FALSE /\ UNCHANGED mpiError
    /\ phase' = "pollServer"
    /\ wait' = IF clientPipe' THEN 0 ELSE ExitWait
    /\ UNCHANGED <<cur, plan, started, clientResult, serverResult, verdict,
                   history>>

\* FAULTY: a server that has ended is cleaned up at once.
PollServerCleaningUp ==
    /\ phase = "pollServer"
    /\ \/ /\ \E l \in Lines : /\ TakeLine("server", l)
                              /\ mpiError' = (mpiError \/ HasError(l))
          /\ phase' = "pollClient" /\ wait' = PollWait /\ UNCHANGED plan
       \/ /\ LineTimesOut("server")
          /\ phase' = "pollClient" /\ wait' = PollWait
          /\ UNCHANGED <<plan, mpiError>>
       \/ /\ NoLine("server") /\ UNCHANGED mpiError
          /\ EndWith(Stop("server") \o Conclusion)
    /\ UNCHANGED <<cur, clientPipe, started, clientResult, serverResult,
                   verdict, history>>

PollServer ==
    /\ phase = "pollServer"
    /\ \/ \E l \in Lines : /\ TakeLine("server", l)
                           /\ mpiError' = (mpiError \/ HasError(l))
       \/ LineTimesOut("server") /\ UNCHANGED mpiError
       \/ NoLine("server") /\ UNCHANGED mpiError
    /\ IF clientPipe
       THEN phase' = "pollClient" /\ wait' = PollWait /\ UNCHANGED plan
       ELSE EndWith(Conclusion)
    /\ UNCHANGED <<cur, clientPipe, started, clientResult, serverResult,
                   verdict, history>>

-----------------------------------------------------------------------------
(* The end: the calls of the plan, one after the other. *)

Calling(name) == phase = "end" /\ plan # << >> /\ Head(plan).name = name

Return == plan' = Tail(plan) /\ wait' = Limit(Tail(plan))

\* The call has nothing to wait for: no handle, or it is not executing.
NotExecuting(p) == p \notin Procs \/ (p \in Procs /\ state[p] # "Executing")

\* WaitForExit returns 1 at once, or 1 with the outcome, or 0.
CallWaitForExit ==
    /\ Calling("WaitForExit")
    /\ LET p == Head(plan).of IN
          \/ NotExecuting(p) /\ UNCHANGED procVars
          \/ p \in Procs /\ FinishExit(p)
          \/ /\ p \in Procs /\ state[p] = "Executing"
             /\ ~Stirring(p) /\ wait = 0
             /\ UNCHANGED procVars
    /\ Return
    /\ UNCHANGED <<phase, cur, buf, clientPipe, mpiError, started,
                   clientResult, serverResult, verdict, history>>

CallKill ==
    /\ Calling("Kill")
    /\ LET p == Head(plan).of IN
          IF p \in Procs THEN Kill(p) ELSE UNCHANGED procVars
    /\ Return
    /\ UNCHANGED <<phase, cur, buf, clientPipe, mpiError, started,
                   clientResult, serverResult, verdict, history>>

\* Delete: an executing process is waited for before its handle is freed.
CallDelete ==
    /\ Calling("Delete")
    /\ LET p == Head(plan).of IN
          \/ p \notin Procs /\ UNCHANGED procVars /\ Return
          \/ p \in Procs /\ Free(p) /\ Return
          \/ p \in Procs /\ FinishExit(p) /\ UNCHANGED <<plan, wait>>
    /\ UNCHANGED <<phase, cur, buf, clientPipe, mpiError, started,
                   clientResult, serverResult, verdict, history>>

\* 1 unless the process exited by itself.
ReportStatus(p) ==
    IF state[p] = "Exited" /\ child[p] = "exit0" THEN 0 ELSE 1

CallReportStatus ==
    /\ Calling("ReportStatus")
    /\ LET p == Head(plan).of IN
          /\ clientResult' = IF p = "client" THEN ReportStatus(p) ELSE clientResult
          /\ serverResult' = IF p = "server" /\ p \in Procs THEN ReportStatus(p)
                             ELSE serverResult
    /\ Return
    /\ UNCHANGED <<procVars, phase, cur, buf, clientPipe, mpiError, started,
                   verdict, history>>

\* What Main returns: -1, the server's result, mpiError, the client's result.
MainReturns ==
    /\ phase = "end" /\ plan = << >>
    /\ phase' = "done"
    /\ verdict' =
          IF ~started THEN -1
          ELSE IF serverResult # 0 /\ ~IgnoreServerResult THEN serverResult
          ELSE IF mpiError THEN 1
          ELSE clientResult
    /\ UNCHANGED <<procVars, cur, buf, wait, clientPipe, mpiError, plan,
                   started, clientResult, serverResult, history>>

-----------------------------------------------------------------------------
(* Inside a call that waits: WaitForData runs for one process. *)

Awaits(p) ==
    \/ phase = "await" /\ p = cur /\ buf[p] = << >>
    \/ phase = "pollClient" /\ p = "client" /\ buf[p] = << >>
    \/ phase = "pollServer" /\ p = "server" /\ buf[p] = << >>
    \/ (Calling("WaitForExit") \/ Calling("Delete")) /\ p = Head(plan).of

\* WaitForExit ignores what it reads.
Discard(p) ==
    /\ phase = "end" /\ Awaits(p)
    /\ \E n \in 1..PipeCap : ReadLines(p, n)
    /\ UNCHANGED <<driverVars, history>>

WaitForData(p) ==
    /\ Awaits(p)
    /\ Reap(p) \/ Expire(p)
    /\ UNCHANGED <<driverVars, history>>

Tick ==
    /\ \E p \in Procs : Awaits(p) /\ ~Stirring(p) /\ wait # 0
    /\ ClockTick
    /\ wait' = IF wait = NoLimit THEN wait ELSE wait - 1
    /\ elapsed' = IF elapsed < Horizon THEN elapsed + 1 ELSE elapsed
    /\ UNCHANGED <<phase, cur, buf, clientPipe, mpiError, plan, started,
                   clientResult, serverResult, verdict, erred>>

ChildWrites ==
    /\ \E p \in Procs, l \in Lines :
          /\ Write(p, l)
          /\ erred' = IF l = "error" THEN erred \cup {p} ELSE erred
    /\ UNCHANGED <<driverVars, elapsed>>

ChildEnds ==
    /\ \E p \in Procs : (\E how \in Dead : Exit(p, how)) \/ DescendantEnds(p)
    /\ UNCHANGED <<driverVars, history>>

DriverStep ==
    \/ SkipStart \/ StartProcess \/ StartFails
    \/ AwaitedLine \/ NeverStarted
    \/ PollClient \/ PollServer
    \/ CallWaitForExit \/ CallKill \/ CallDelete \/ CallReportStatus
    \/ MainReturns
    \/ \E p \in Procs : Discard(p) \/ WaitForData(p)

\* Main has returned; what the children leave behind may go on.
Terminated == phase = "done" /\ UNCHANGED vars

Next == DriverStep \/ Tick \/ ChildWrites \/ ChildEnds \/ Terminated

Spec == Init /\ [][Next]_vars

\* The driver's thread is scheduled and time goes on.  Nothing is assumed of
\* the children.
Fairness == WF_vars(DriverStep) /\ WF_vars(Tick)

FairSpec == Spec /\ Fairness

-----------------------------------------------------------------------------

(* A test that passes really passed: Main returns 0 only if the client     *)
(* ended by itself with status 0, no line it or its descendants ever wrote *)
(* had an error string (unless --allow-errors), and the server, if its     *)
(* result counts, ended by itself with status 0 before it was killed.      *)
VerdictSound ==
    phase = "done" /\ verdict = 0 =>
        /\ child["client"] = "exit0" /\ ~killed["client"] /\ ~expired["client"]
        /\ ~AllowErrorInOutput => "client" \notin erred
        /\ "server" \in Procs /\ ~IgnoreServerResult =>
              child["server"] = "exit0" /\ ~killed["server"] /\ ~expired["server"]

(* A test that fails failed for a reason: Main returns 1 only if the       *)
(* client or a server whose result counts ended badly or was stopped by    *)
(* the driver, or one of the two wrote an error line that is not allowed.  *)
EndedBadly(p) == child[p] # "exit0" \/ killed[p] \/ expired[p]

VerdictJustified ==
    phase = "done" /\ verdict = 1 =>
        \/ EndedBadly("client")
        \/ "server" \in Procs /\ ~IgnoreServerResult /\ EndedBadly("server")
        \/ ~AllowErrorInOutput /\ erred \cap {"client", "server"} # {}

(* The driver never leaves a process behind: when Main returns, by any of  *)
(* its paths, every child it executed is dead and collected, also those it *)
(* gave up on (a client initialiser without a token, a helper nobody polls *)
(* any more).                                                              *)
NothingLeftRunning ==
    phase = "done" =>
        \A p \in Procs : child[p] = "none" \/ (child[p] \in Dead /\ reaped[p])

(* The driver never calls Kill on another process while the client is      *)
(* running: server and helpers live as long as the client needs them, or   *)
(* to the end of their own time-out.                                       *)
NoKillUnderClient ==
    [][\A p \in Procs : killed'[p] /\ ~killed[p] => child["client"] # "running"]_vars

(* Once the client was started the driver signals no PID it has waited     *)
(* for: the one handle its end kills has gone through WaitForExit, which   *)
(* has settled it if its time-out or its own end had stopped it before.    *)
(* (NoStraySignal itself fails, on the way out of a failed start.)         *)
StrayOnlyWithoutClient == started => stray = {}

(* The whole run is bounded by the processes' own time-outs, one after the *)
(* other: each start takes at most one time-out and so does the client,    *)
(* and by the time it ends the server, started first, has used up its own, *)
(* so that ServerExitTimeOut (a last poll and a WaitForExit) adds nothing. *)
BoundedRun ==
    TimeOut > 0 => elapsed <= Cardinality(Procs) * TimeOut

(* With a time-out set, Main returns whatever the children do: hang, keep  *)
(* writing, or leave descendants that hold the pipes.                      *)
Terminates == <>(phase = "done")

(* The driver implements Supervision: a child is live from Execute until   *)
(* it is collected, the lead is the client.                                *)
StageOf(p) ==
    IF child[p] = "none" THEN "idle" ELSE IF reaped[p] THEN "gone" ELSE "live"

LeadOf ==
    CASE child["client"] \in {"none", "running"} -> "unknown"
      [] child["client"] = "exit0" -> "right"
      [] child["client"] \in {"exit1", "signal"} -> "wrong"

OutcomeOf ==
    CASE verdict = NoVerdict -> "none"
      [] verdict = 0 -> "pass"
      [] verdict \in {-1, 1} -> "fail"

Super == INSTANCE Supervision WITH
    Workers <- Procs, Lead <- "client",
    stage <- [p \in Procs |-> StageOf(p)], lead <- LeadOf, outcome <- OutcomeOf

Supervises == Super!Spec

=============================================================================
