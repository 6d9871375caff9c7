----------------------- MODULE TestDriverOrderProofs ------------------------
(***************************************************************************)
(* In which order the test driver starts, awaits and ends its processes,   *)
(* and what follows from that order for any helpers, time-outs, flags and  *)
(* children: nothing is killed under the client, the run is bounded by the *)
(* time-outs, a failed test failed for a reason, no PID is signalled twice *)
(* once the client was started, and the driver implements Supervision.     *)
(***************************************************************************)
EXTENDS TestDriverProofs, FiniteSetTheorems

\* The processes whose turn to start comes before p's.
Earlier(p) ==
    CASE p = "server" -> {}
      [] p = "client_helper" -> {"server"}
      [] p = "client_init" -> {"server", "client_helper"}
      [] p = "client" -> {"server", "client_helper", "client_init"}

\* p has not been touched yet.
Fresh(p) == state[p] = "Starting" /\ child[p] = "none" /\ left[p] = TimeOut

\* A process is executed when its turn comes, and once.
Order ==
    /\ phase = "start" =>
          \A p \in Procs : IF p \in Earlier(cur) THEN child[p] # "none" ELSE Fresh(p)
    /\ phase = "await" =>
          \A p \in Procs : IF p \in Earlier(cur) \cup {cur} THEN child[p] # "none"
                           ELSE Fresh(p)
    /\ \A p \in Procs : IF started THEN child[p] # "none"
                        ELSE p = "client" => child[p] = "none"
    /\ \A p \in Procs : child[p] # "none" =>
          state[p] \in Final \cup {"Executing", "Freed"}
    /\ phase \notin {"end", "done"} => \A p \in Procs : state[p] # "Freed"
    /\ verdict = NoVerdict <=> phase # "done"

\* What the settled state of a handle says of its child, and a PID that was
\* waited for is no longer held unless the child was stopped.
Told(p) ==
    /\ state[p] = "Exception" => child[p] = "signal"
    /\ state[p] = "Expired" => expired[p]
    /\ state[p] = "Killed" => killed[p]
    /\ Waitable(p) /\ reaped[p] => ~forkPid[p]

\* p ended badly or was stopped, and that is final.
Bad(p) == child[p] \in {"exit1", "signal"} \/ killed[p] \/ expired[p]

\* Main has made the calls of the orderly end before its k-th.
StillToMake(k) ==
    /\ Len(plan) = 11 - k
    /\ \A i \in 1..Len(plan) : plan[i] = Conclusion[k + i - 1]

\* What those calls have brought about.
Made(k) ==
    /\ StillToMake(k)
    /\ k = 1 => wait = NoLimit
    /\ k > 1 => state["client"] # "Executing"
    /\ k > 4 => (clientResult = 1 => Bad("client"))
    /\ k <= 5 => serverResult = 0
    /\ "server" \notin Procs => serverResult = 0
    /\ "server" \in Procs =>
          /\ k \in 3..6 /\ state["server"] = "Executing" => Waitable("server")
          /\ k = 6 /\ serverResult = 1 =>
                 Bad("server") \/ state["server"] = "Executing"
          /\ k > 6 /\ serverResult = 1 => Bad("server")
    /\ k <= 7 => \A p \in Procs : state[p] # "Freed"

Ending ==
    /\ phase = "end" /\ started => \E k \in 1..11 : Made(k)
    /\ phase \notin {"end", "done"} => serverResult = 0

\* Every error string that is on its way or was seen was written by the
\* process it is attributed to.
Overheard ==
    /\ mpiError => ~AllowErrorInOutput /\ erred \cap {"client", "server"} # {}
    /\ \A p \in Procs :
          Says("error", buf[p]) \/ Says("error", pipe[p]) => p \in erred

\* VerdictJustified, with reasons that are final.
Judged ==
    verdict = 1 =>
        \/ Bad("client")
        \/ "server" \in Procs /\ ~IgnoreServerResult /\ Bad("server")
        \/ ~AllowErrorInOutput /\ erred \cap {"client", "server"} # {}

Unstray == started \/ phase \notin {"end", "done"} => stray = {}

\* The time p has used of its own time-out.
Used(p) == IF p \in Procs THEN TimeOut - left[p] ELSE 0

Bounded ==
    TimeOut > 0 => elapsed <= Used("server") + Used("client_helper")
                              + Used("client_init") + Used("client")

OrderInv ==
    /\ Order /\ (\A p \in Procs : Told(p)) /\ Ending /\ Overheard /\ Judged
    /\ Unstray /\ Bounded

-----------------------------------------------------------------------------
(* What a step that executes nothing does to one handle. *)

\* Only two actions of Main touch a handle that may be executed again.
LEMMA OnlyStartsExecute ==
    ASSUME Next, ~StartProcess, ~StartFails
    PROVE  [LaterNext]_procVars
<1>1. CASE phase # "start"
    BY <1>1, NoLaterExecute
<1>2. CASE phase = "start"
    <2>1. CASE DriverStep
        <3>1. \A p \in Procs : ~Discard(p) /\ ~WaitForData(p)
            BY <1>2 DEF Discard, WaitForData, Awaits, Calling
        <3>2. SkipStart
            BY <1>2, <2>1, <3>1
               DEF DriverStep, AwaitedLine, NeverStarted, PollClient, PollServer,
                   CallWaitForExit, CallKill, CallDelete, CallReportStatus,
                   MainReturns, Calling
        <3> QED BY <3>2 DEF SkipStart
    <2>2. CASE Tick
        BY <2>2 DEF Tick, LaterNext
    <2>3. CASE ChildWrites
        BY <2>3 DEF ChildWrites, LaterNext, ChildStep
    <2>4. CASE ChildEnds
        BY <2>4 DEF ChildEnds, LaterNext, ChildStep
    <2>5. CASE Terminated
        BY <2>5 DEF Terminated, vars
    <2> QED BY <2>1, <2>2, <2>3, <2>4, <2>5 DEF Next
<1> QED BY <1>1, <1>2

Known == Final \cup {"Executing", "Freed"}

\* What such a step keeps of handle q.
Keeps(q) ==
    /\ child'[q] = "none" <=> child[q] = "none"
    /\ left'[q] \in 0..left[q]
    /\ state[q] # "Executing" => left'[q] = left[q] /\ state'[q] # "Executing"
    /\ state[q] = "Starting" => state'[q] \in {"Starting", "Freed"}
    /\ state[q] \in Known => state'[q] \in Known
    /\ Bad(q) => Bad(q)'
    /\ Told(q) => Told(q)'

LEMMA SameKeeps ==
    ASSUME ProcTypeOK, NEW q \in Procs,
           state'[q] = state[q], killed'[q] = killed[q], expired'[q] = expired[q],
           forkPid'[q] = forkPid[q], left'[q] = left[q], child'[q] = child[q],
           reaped'[q] = reaped[q]
    PROVE  Keeps(q)
<1>1. left[q] \in 0..left[q]
    BY TimeOutAssumption DEF ProcTypeOK
<1> QED BY <1>1 DEF Keeps, Bad, Told, Waitable

LEMMA LaterKeeps ==
    ASSUME LibraryInv, [LaterNext]_procVars, NEW q \in Procs
    PROVE  Keeps(q)
<1>0. /\ ProcTypeOK /\ HandleInv(q)
      /\ left[q] \in 0..left[q] /\ left[q] \in Nat
    BY TimeOutAssumption DEF LibraryInv, ProcTypeOK
<1>1. ASSUME NEW p \in Procs, LaterStep(p)
      PROVE  Keeps(q)
    <2>1. CASE p # q
        BY <1>0, <1>1, <2>1, SameKeeps
           DEF LaterStep, ReadLines, Reap, KillExecuting, Expire, Terminate,
               FinishExit, Free, handleVars, osVars, ProcTypeOK
    <2>2. CASE p = q
        <3>1. ASSUME NEW n \in 1..PipeCap, ReadLines(q, n)
              PROVE  Keeps(q)
            BY <1>0, <3>1, SameKeeps DEF ReadLines, handleVars
        <3>2. CASE Reap(q)
            BY <1>0, <3>2 DEF Reap, Keeps, Bad, Told, Waitable, ProcTypeOK, Final
        <3>3. CASE KillExecuting(q)
            <4>1. /\ state' = state /\ state[q] = "Executing" /\ left' = left
                  /\ killed'[q] /\ UNCHANGED expired
                  /\ child'[q] = "none" <=> child[q] = "none"
                BY <1>0, <3>3 DEF KillExecuting, Terminate, ProcTypeOK
            <4> QED BY <1>0, <4>1 DEF Keeps, Bad, Told, Waitable, Known
        <3>4. CASE Expire(q)
            <4>1. /\ state' = state /\ state[q] = "Executing" /\ left' = left
                  /\ expired'[q] /\ UNCHANGED killed
                  /\ child'[q] = "none" <=> child[q] = "none"
                BY <1>0, <3>4 DEF Expire, Waitable, Terminate, ProcTypeOK
            <4> QED BY <1>0, <4>1 DEF Keeps, Bad, Told, Waitable, Known
        <3>5. CASE FinishExit(q)
            <4>1. /\ state[q] = "Executing" /\ state'[q] = Outcome(q)
                  /\ UNCHANGED <<killed, expired, left, child, reaped>>
                BY <1>0, <3>5 DEF FinishExit, osVars, ProcTypeOK
            <4>2. Outcome(q) \in Final
                BY DEF Outcome, Final
            <4> QED BY <1>0, <4>1, <4>2
                    DEF Keeps, Bad, Told, Waitable, Known, Outcome, Final
        <3>6. CASE Free(q)
            <4>1. /\ state[q] # "Executing" /\ state'[q] = "Freed"
                  /\ UNCHANGED <<killed, expired, left, child, reaped>>
                BY <1>0, <3>6 DEF Free, osVars, ProcTypeOK
            <4> QED BY <1>0, <3>6, <4>1 DEF Keeps, Bad, Told, Waitable, Known
        <3> QED BY <1>1, <2>2, <3>1, <3>2, <3>3, <3>4, <3>5, <3>6 DEF LaterStep
    <2> QED BY <2>1, <2>2
<1>2. ASSUME NEW p \in Procs, NEW l \in Lines, Write(p, l)
      PROVE  Keeps(q)
    BY <1>0, <1>2, SameKeeps DEF Write, handleVars
<1>3. ASSUME NEW p \in Procs, NEW how \in Dead, Exit(p, how)
      PROVE  Keeps(q)
    <2>1. CASE p # q
        BY <1>0, <1>3, <2>1, SameKeeps DEF Exit, handleVars, ProcTypeOK
    <2>2. CASE p = q
        <3>1. /\ UNCHANGED <<state, killed, expired, forkPid, left, reaped>>
              /\ child[q] = "running" /\ child'[q] \in Dead
            BY <1>0, <1>3, <2>2 DEF Exit, handleVars, ProcTypeOK
        <3> QED BY <1>0, <3>1
                DEF Keeps, Bad, Told, Waitable, Dead
    <2> QED BY <2>1, <2>2
<1>4. ASSUME NEW p \in Procs, DescendantEnds(p)
      PROVE  Keeps(q)
    BY <1>0, <1>4, SameKeeps DEF DescendantEnds, handleVars
<1>5. CASE ClockTick
    <2>1. /\ UNCHANGED <<state, killed, expired, forkPid, child, reaped>>
          /\ left'[q] = IF state[q] = "Executing" /\ left[q] > 0
                        THEN left[q] - 1 ELSE left[q]
        BY <1>5 DEF ClockTick, osVars
    <2>2. left'[q] \in 0..left[q]
        BY <1>0, <2>1
    <2> QED BY <2>1, <2>2 DEF Keeps, Bad, Told, Waitable
<1>6. CASE UNCHANGED procVars
    BY <1>0, <1>6, SameKeeps DEF procVars, handleVars, osVars
<1> QED BY <1>1, <1>2, <1>3, <1>4, <1>5, <1>6 DEF LaterNext, ChildStep

\* Until the end Main frees nothing, and settles nothing but a failed start.
LEMMA StateStaysUntilTheEnd ==
    ASSUME Inv, Next, ~StartProcess, ~StartFails, phase \notin {"end", "done"}
    PROVE  state' = state
<1>1. ProcTypeOK /\ buf \in [Procs -> Seq(Lines)]
    BY DEF Inv, LibraryInv, DriverInv, DriverTypes
<1>2. CASE SkipStart
    BY <1>2 DEF SkipStart, procVars, handleVars
<1>3. CASE AwaitedLine
    BY <1>1, <1>3, TakeLineTypes DEF AwaitedLine, handleVars
<1>4. CASE NeverStarted
    BY <1>4 DEF NeverStarted, NoLine, LineTimesOut, procVars, handleVars
<1>5. CASE PollClient \/ PollServer
    BY <1>1, <1>5, TakeLineTypes
       DEF PollClient, PollServer, NoLine, LineTimesOut, procVars, handleVars
<1>6. CASE \/ \E p \in Procs : Discard(p) \/ WaitForData(p)
           \/ Tick \/ ChildWrites \/ ChildEnds \/ Terminated
    BY <1>6, InsideCalls
<1>7. ~CallWaitForExit /\ ~CallKill /\ ~CallDelete /\ ~CallReportStatus
      /\ ~MainReturns
    BY DEF CallWaitForExit, CallKill, CallDelete, CallReportStatus, MainReturns,
           Calling
<1> QED BY <1>2, <1>3, <1>4, <1>5, <1>6, <1>7 DEF Next, DriverStep

LEMMA OrderKept == Inv /\ Order /\ [Next]_vars => Order'
<1> SUFFICES ASSUME Inv, Order, [Next]_vars PROVE Order'
    OBVIOUS
<1>1. /\ ProcTypeOK /\ LibraryInv /\ DriverTypes /\ Control
      /\ "client" \in Procs /\ Procs \subseteq AllProcs
    BY DriverProcs DEF Inv, LibraryInv, DriverInv
<1>2. \A p \in AllProcs : p # "client" =>
          /\ Earlier(Following(p)) = Earlier(p) \cup {p}
          /\ "client" \notin Earlier(p)
    BY DEF Earlier, Following, AllProcs
<1>3. Procs \subseteq Earlier("client") \cup {"client"}
    BY <1>1 DEF Earlier, AllProcs
<1>4. CASE SkipStart
    <2>1. cur \in AllProcs /\ cur # "client" /\ cur \notin Procs
        BY <1>1, <1>4 DEF SkipStart, DriverTypes
    <2>2. Earlier(cur') = Earlier(cur) \cup {cur}
        BY <1>2, <1>4, <2>1 DEF SkipStart
    <2> QED BY <1>4, <2>1, <2>2
            DEF SkipStart, Order, Fresh, procVars, handleVars, osVars
<1>5. CASE StartProcess
    <2>1. /\ cur \in Procs /\ phase = "start" /\ cur' = cur /\ ~started
          /\ child' = [child EXCEPT ![cur] = "running"]
          /\ state' = [state EXCEPT ![cur] = "Executing"]
          /\ left' = [left EXCEPT ![cur] = TimeOut]
          /\ verdict' = verdict /\ phase' \in {"await", "pollClient"}
          /\ phase' = "pollClient" <=> cur = "client"
          /\ started' <=> cur = "client"
        BY <1>1, <1>5 DEF StartProcess, ExecuteOK, Control, DriverTypes
    <2>2. \A p \in Procs : p # cur => child'[p] = child[p] /\ state'[p] = state[p]
                                      /\ left'[p] = left[p]
        BY <1>1, <2>1 DEF ProcTypeOK
    <2>3. child'[cur] = "running" /\ state'[cur] = "Executing"
        BY <1>1, <2>1 DEF ProcTypeOK
    <2>4. phase' = "await" =>
              \A p \in Procs : IF p \in Earlier(cur') \cup {cur'}
                               THEN child'[p] # "none" ELSE Fresh(p)'
        BY <2>1, <2>2, <2>3 DEF Order, Fresh
    <2>5. \A p \in Procs : IF started' THEN child'[p] # "none"
                           ELSE p = "client" => child'[p] = "none"
        BY <1>1, <1>3, <2>1, <2>2, <2>3 DEF Order
    <2> QED BY <2>1, <2>2, <2>3, <2>4, <2>5 DEF Order, Final
<1>6. CASE StartFails
    <2>1. /\ cur \in Procs /\ phase = "start" /\ phase' = "end"
          /\ started' = started /\ verdict' = verdict /\ child' = child
          /\ state' = [state EXCEPT ![cur] = "Error"]
        BY <1>6 DEF StartFails, ExecuteFails, EndWith, osVars
    <2>2. cur \notin Earlier(cur)
        BY <1>1, <2>1 DEF Earlier, AllProcs
    <2>3. child[cur] = "none"
        BY <2>1, <2>2 DEF Order, Fresh
    <2> QED BY <1>1, <2>1, <2>3 DEF Order, ProcTypeOK
<1>7. ASSUME Next, ~SkipStart, ~StartProcess, ~StartFails
      PROVE  Order'
    <2>1. \A p \in Procs : Keeps(p)
        BY <1>1, <1>7, OnlyStartsExecute, LaterKeeps
    <2>2. \A p \in Procs : child[p] # "none" /\ state[p] \in Known =>
                               state'[p] \in Known
        BY <2>1 DEF Keeps
    <2>3. started' = started
        BY <1>7, InsideCalls
           DEF Next, DriverStep, AwaitedLine, NeverStarted, PollClient,
               PollServer, CallWaitForExit, CallKill, CallDelete,
               CallReportStatus, MainReturns
    <2>4. \A p \in Procs : IF started' THEN child'[p] # "none"
                           ELSE p = "client" => child'[p] = "none"
        BY <2>1, <2>3 DEF Keeps, Order
    <2>5. \A p \in Procs : child'[p] # "none" =>
              state'[p] \in Final \cup {"Executing", "Freed"}
        BY <2>1, <2>2 DEF Keeps, Order, Known
    <2>6. phase' \notin {"end", "done"} => phase \notin {"end", "done"}
        BY <1>7, InsideCalls
           DEF Next, DriverStep, AwaitedLine, NeverStarted, PollClient,
               PollServer, CallWaitForExit, CallKill, CallDelete,
               CallReportStatus, MainReturns, Calling
    <2>7. phase' \notin {"end", "done"} => state' = state
        BY <1>7, <2>6, StateStaysUntilTheEnd
    <2>8. phase' \notin {"end", "done"} => \A p \in Procs : state'[p] # "Freed"
        BY <2>6, <2>7 DEF Order
    <2>9. verdict' = NoVerdict <=> phase' # "done"
        <3>1. CASE MainReturns
            BY <1>1, <3>1 DEF MainReturns, DriverTypes, NoVerdict
        <3>2. CASE ~MainReturns
            <4>1. verdict' = verdict /\ (phase' = "done" <=> phase = "done")
                BY <1>7, <3>2, InsideCalls
                   DEF Next, DriverStep, AwaitedLine, NeverStarted, PollClient,
                       PollServer, CallWaitForExit, CallKill, CallDelete,
                       CallReportStatus, Calling, EndWith
            <4> QED BY <4>1 DEF Order
        <3> QED BY <3>1, <3>2
    <2>10. CASE AwaitedLine
        <3>1. /\ phase = "await" /\ cur \in Procs \ {"client"}
              /\ \/ phase' = "start" /\ cur' = Following(cur)
                 \/ phase' = "await" /\ cur' = cur
            BY <1>1, <2>10 DEF AwaitedLine, Control
        <3>2. \A p \in Procs : Fresh(p) => Fresh(p)'
            BY <2>1, <2>6, <2>7, <3>1 DEF Fresh, Keeps
        <3>3. \A p \in Procs : IF p \in Earlier(cur) \cup {cur}
                               THEN child'[p] # "none" ELSE Fresh(p)'
            BY <2>1, <3>1, <3>2 DEF Order, Keeps
        <3>4. cur' = Following(cur) => Earlier(cur') = Earlier(cur) \cup {cur}
            BY <1>1, <1>2, <3>1
        <3> QED BY <2>4, <2>5, <2>8, <2>9, <3>1, <3>3, <3>4 DEF Order
    <2>11. CASE ~AwaitedLine
        <3>1. phase' \in {"start", "await"} => phase' = phase /\ cur' = cur
            BY <1>7, <2>11, InsideCalls
               DEF Next, DriverStep, NeverStarted, PollClient, PollServer,
                   CallWaitForExit, CallKill, CallDelete, CallReportStatus,
                   MainReturns, Calling, EndWith
        <3>2. phase' \in {"start", "await"} =>
                  \A p \in Procs : Fresh(p) => Fresh(p)'
            BY <2>1, <2>7 DEF Fresh, Keeps
        <3> QED BY <2>1, <2>4, <2>5, <2>8, <2>9, <3>1, <3>2 DEF Order, Keeps
    <2> QED BY <2>10, <2>11
<1>8. CASE UNCHANGED vars
    BY <1>8 DEF vars, driverVars, procVars, handleVars, osVars, Order, Fresh
<1> QED BY <1>4, <1>5, <1>6, <1>7, <1>8

-----------------------------------------------------------------------------
(* The orderly end, call by call. *)

LEMMA ConclusionCalls ==
    /\ Conclusion \in Seq(Calls) /\ Len(Conclusion) = 10
    /\ Conclusion[1] = Call("WaitForExit", "client", NoLimit)
    /\ Conclusion[2] = Call("WaitForExit", "server", ExitWait)
    /\ Conclusion[3] = Call("WaitForExit", "client_helper", NoLimit)
    /\ Conclusion[4] = Call("ReportStatus", "client", NoLimit)
    /\ Conclusion[5] = Call("ReportStatus", "server", NoLimit)
    /\ Conclusion[6] = Call("Kill", "server", NoLimit)
    /\ \A k \in 7..10 : Conclusion[k].name = "Delete"
<1> DEFINE First == <<Call("WaitForExit", "client", NoLimit),
                      Call("WaitForExit", "server", ExitWait),
                      Call("WaitForExit", "client_helper", NoLimit),
                      Call("ReportStatus", "client", NoLimit),
                      Call("ReportStatus", "server", NoLimit),
                      Call("Kill", "server", NoLimit)>>
<1>1. /\ "client" \in AllProcs /\ "server" \in AllProcs
      /\ "client_helper" \in AllProcs
    BY DEF AllProcs
<1>2. First \in Seq(Calls) /\ CleanProcesses \in Seq(Calls)
    BY <1>1, CallTypes, CleanDeletes
<1>3. /\ Len(First) = 6
      /\ First[1] = Call("WaitForExit", "client", NoLimit)
      /\ First[2] = Call("WaitForExit", "server", ExitWait)
      /\ First[3] = Call("WaitForExit", "client_helper", NoLimit)
      /\ First[4] = Call("ReportStatus", "client", NoLimit)
      /\ First[5] = Call("ReportStatus", "server", NoLimit)
      /\ First[6] = Call("Kill", "server", NoLimit)
    OBVIOUS
<1>4. /\ Len(CleanProcesses) = 4
      /\ CleanProcesses[1].name = "Delete" /\ CleanProcesses[2].name = "Delete"
      /\ CleanProcesses[3].name = "Delete" /\ CleanProcesses[4].name = "Delete"
    BY DEF CleanProcesses, Call
<1>5. Conclusion = First \o CleanProcesses
    BY DEF Conclusion
<1> HIDE DEF First
<1>6. /\ Conclusion \in Seq(Calls)
      /\ Len(Conclusion) = 10
      /\ \A i \in 1..10 : Conclusion[i] = IF i <= 6 THEN First[i]
                                          ELSE CleanProcesses[i - 6]
    <2>1. /\ Conclusion \in Seq(Calls)
          /\ Len(Conclusion) = Len(First) + Len(CleanProcesses)
          /\ \A i \in 1 .. Len(First) + Len(CleanProcesses) :
                 Conclusion[i] = IF i <= Len(First) THEN First[i]
                                 ELSE CleanProcesses[i - Len(First)]
        BY <1>2, <1>5, ConcatProperties
    <2>2. Len(First) = 6 /\ Len(First) + Len(CleanProcesses) = 10
        BY <1>3, <1>4
    <2> QED BY <2>1, <2>2
<1>7. ASSUME NEW k \in 7..10 PROVE Conclusion[k].name = "Delete"
    <2>1. k - 6 \in {1, 2, 3, 4} /\ Conclusion[k] = CleanProcesses[k - 6]
        BY <1>6
    <2> QED BY <1>4, <2>1
<1> QED BY <1>3, <1>6, <1>7

LEMMA StillToMakeAll ==
    ASSUME plan = Conclusion
    PROVE  StillToMake(1)
BY ConclusionCalls DEF StillToMake

\* A call of the orderly end, and what its return leaves of it.
LEMMA MakingCall ==
    ASSUME plan \in Seq(Calls), NEW k \in 1..11, StillToMake(k), plan # << >>
    PROVE  /\ k \in 1..10 /\ k + 1 \in 1..11 /\ Head(plan) = Conclusion[k]
           /\ plan' = Tail(plan) => StillToMake(k + 1)'
<1>1. Len(plan) \in Nat /\ Len(plan) > 0
    OBVIOUS
<1>2. k \in 1..10 /\ k + 1 \in 1..11 /\ (k + 1) - 1 = k
    BY <1>1 DEF StillToMake
<1>3. Head(plan) = plan[1] /\ plan[1] = Conclusion[(k + 1) - 1]
    BY <1>1 DEF StillToMake
<1>4. /\ Len(Tail(plan)) = 11 - (k + 1)
      /\ \A i \in 1..Len(Tail(plan)) : Tail(plan)[i] = Conclusion[(k + 1) + i - 1]
    BY <1>1, <1>2, HeadTailProperties DEF StillToMake
<1> QED BY <1>2, <1>3, <1>4 DEF StillToMake

\* What a process that was executed and does not execute has come to.
LEMMA SettledIsBad ==
    ASSUME ProcTypeOK, Order, NEW p \in Procs, HandleInv(p), Told(p), started,
           state[p] # "Executing", state[p] # "Freed", ReportStatus(p) = 1
    PROVE  Bad(p)
<1>1. child[p] # "none" /\ state[p] \in Final
    BY DEF Order
<1>2. child[p] \in Dead
    BY <1>1 DEF HandleInv, Tracked, Collected, Final
<1> QED BY <1>1, <1>2 DEF ReportStatus, Told, Bad, Final, Dead

\* Inside the calls of the orderly end, what the calls made so far have
\* brought about is kept.
LEMMA MadeKeptInside ==
    ASSUME Inv, NEW k \in 1..11, Made(k), phase = "end", started,
           \/ \E p \in Procs : Discard(p) \/ WaitForData(p)
           \/ Tick \/ ChildWrites \/ ChildEnds \/ Terminated
    PROVE  Made(k)'
<1>1. /\ UNCHANGED <<phase, plan, started, clientResult, serverResult, state>>
      /\ ProcTypeOK /\ plan \in Seq(Calls) /\ "client" \in Procs
    BY InsideCalls, DriverProcs DEF Inv, LibraryInv, DriverInv, DriverTypes
<1>2. ASSUME NEW p \in Procs PROVE Keeps(p)
    BY OnlyStartsExecute, LaterKeeps
       DEF Inv, Next, DriverStep, StartProcess, StartFails
<1>3. StillToMake(k)'
    BY <1>1 DEF Made, StillToMake
<1>4. k = 1 => wait' = NoLimit
    BY DEF Made, Discard, WaitForData, Tick, ChildWrites, ChildEnds, Terminated,
           vars, driverVars
<1>5. ASSUME "server" \in Procs, k \in 3..6, state["server"] = "Executing"
      PROVE  Waitable("server")'
    <2>1. Waitable("server")
        BY <1>5 DEF Made
    <2>2. ~Awaits("server")
        <3>1. CASE plan # << >>
            <4>1. Head(plan) = Conclusion[k]
                BY <1>1, <3>1, MakingCall DEF Made
            <4>2. \/ Head(plan).of = "client_helper"
                  \/ Head(plan).name \in {"ReportStatus", "Kill"}
                BY <1>5, <4>1, ConclusionCalls DEF Call
            <4> QED BY <4>2 DEF Awaits, Calling
        <3>2. CASE plan = << >>
            BY <3>2 DEF Awaits, Calling
        <3> QED BY <3>1, <3>2
    <2>3. UNCHANGED <<killed["server"], expired["server"]>>
        <3>1. ASSUME NEW p \in Procs, Discard(p) \/ WaitForData(p)
              PROVE  UNCHANGED <<killed["server"], expired["server"]>>
            <4>1. p # "server"
                BY <2>2, <3>1 DEF Discard, WaitForData
            <4> QED BY <1>1, <1>5, <3>1, <4>1
                    DEF Discard, ReadLines, WaitForData, Reap, Expire, handleVars,
                        ProcTypeOK
        <3>2. CASE Tick \/ ChildWrites \/ ChildEnds \/ Terminated
            BY <3>2 DEF Tick, ClockTick, ChildWrites, Write, ChildEnds, Exit,
                        DescendantEnds, Terminated, vars, procVars, handleVars
        <3> QED BY <3>1, <3>2
    <2> QED BY <1>1, <2>1, <2>3 DEF Waitable
<1>6. (Bad("client") => Bad("client")')
      /\ ("server" \in Procs => (Bad("server") => Bad("server")'))
    BY <1>1, <1>2 DEF Keeps
<1> QED BY <1>1, <1>3, <1>4, <1>5, <1>6 DEF Made

\* A call of the orderly end brings about what it is for.
LEMMA MadeGoesOn ==
    ASSUME Inv, Order, \A p \in Procs : Told(p), NEW k \in 1..11, Made(k),
           phase = "end", started,
           CallWaitForExit \/ CallKill \/ CallDelete \/ CallReportStatus
    PROVE  \E n \in 1..11 : Made(n)'
<1>1. /\ ProcTypeOK /\ plan \in Seq(Calls) /\ "client" \in Procs /\ plan # << >>
      /\ \A p \in Procs : HandleInv(p)
    BY DriverProcs DEF Inv, LibraryInv, DriverInv, DriverTypes, CallWaitForExit,
                       CallKill, CallDelete, CallReportStatus, Calling
<1>2. /\ k \in 1..10 /\ k + 1 \in 1..11 /\ Head(plan) = Conclusion[k]
      /\ plan' = Tail(plan) => StillToMake(k + 1)'
    BY <1>1, MakingCall DEF Made
<1>3. ASSUME NEW p \in Procs PROVE Keeps(p)
    BY OnlyStartsExecute, LaterKeeps
       DEF Inv, Next, DriverStep, StartProcess, StartFails
<1>4. /\ Bad("client") => Bad("client")'
      /\ state["client"] # "Executing" => state'["client"] # "Executing"
      /\ "server" \in Procs =>
            /\ Bad("server") => Bad("server")'
            /\ state["server"] # "Executing" => state'["server"] # "Executing"
    BY <1>1, <1>3 DEF Keeps
<1>5. CASE CallWaitForExit
    <2>1. Head(plan).name = "WaitForExit" /\ plan' = Tail(plan)
          /\ UNCHANGED <<clientResult, serverResult>>
        BY <1>5 DEF CallWaitForExit, Calling, Return
    <2>2. k \in {1, 2, 3}
        BY <1>2, <2>1, ConclusionCalls DEF Call
    <2>3. /\ UNCHANGED <<killed, expired>>
          /\ (\A p \in Procs : state[p] # "Freed") =>
                 \A p \in Procs : state'[p] # "Freed"
        <3>1. \A p \in Procs : Outcome(p) # "Freed"
            BY DEF Outcome
        <3> QED BY <1>1, <1>5, <3>1 DEF CallWaitForExit, FinishExit, procVars,
                                  handleVars, ProcTypeOK
    <2>4. CASE k = 1
        <3>1. Head(plan).of = "client" /\ wait # 0
            BY <1>2, <2>4, ConclusionCalls DEF Call, Made, NoLimit
        <3>2. Outcome("client") # "Executing"
            BY DEF Outcome
        <3>3. state'["client"] # "Executing"
            BY <1>1, <1>5, <3>1, <3>2
               DEF CallWaitForExit, NotExecuting, FinishExit, procVars, handleVars,
                   ProcTypeOK
        <3> QED BY <1>2, <2>1, <2>3, <2>4, <3>3 DEF Made
    <2>5. CASE k = 2
        <3>1. Head(plan).of = "server"
            BY <1>2, <2>5, ConclusionCalls DEF Call
        <3>2. ASSUME "server" \in Procs, state'["server"] = "Executing"
              PROVE  Waitable("server")'
            <4>1. Outcome("server") # "Executing"
                BY DEF Outcome
            <4>2. ~Stirring("server") /\ UNCHANGED procVars
                BY <1>1, <1>5, <3>1, <3>2, <4>1
                   DEF CallWaitForExit, NotExecuting, FinishExit, procVars,
                       handleVars, ProcTypeOK
            <4> QED BY <4>2 DEF Stirring, NoMoreData, Waitable, procVars,
                                handleVars
        <3> QED BY <1>2, <1>4, <2>1, <2>3, <2>5, <3>2 DEF Made
    <2>6. CASE k = 3
        <3>1. Head(plan).of = "client_helper"
            BY <1>2, <2>6, ConclusionCalls DEF Call
        <3>2. "server" \in Procs => state'["server"] = state["server"]
            BY <1>1, <1>5, <3>1
               DEF CallWaitForExit, FinishExit, procVars, handleVars, ProcTypeOK
        <3> QED BY <1>2, <1>4, <2>1, <2>3, <2>6, <3>2 DEF Made, Waitable
    <2> QED BY <2>2, <2>4, <2>5, <2>6
<1>6. CASE CallKill
    <2>1. Head(plan).name = "Kill" /\ plan' = Tail(plan)
          /\ UNCHANGED <<clientResult, serverResult>>
        BY <1>6 DEF CallKill, Calling, Return
    <2>2. k = 6
        BY <1>2, <2>1, ConclusionCalls DEF Call
    <2>3. Head(plan).of = "server"
        BY <1>2, <2>2, ConclusionCalls DEF Call
    <2>4. state' = state
        BY <1>6 DEF CallKill, Kill, KillExecuting, Terminate, procVars, handleVars
    <2>5. "server" \in Procs /\ state["server"] = "Executing" => Bad("server")'
        BY <1>1, <1>6, <2>3
           DEF CallKill, Kill, KillExecuting, ProcTypeOK, Bad
    <2> QED BY <1>2, <1>4, <2>1, <2>2, <2>4, <2>5 DEF Made
<1>7. CASE CallDelete
    <2>1. /\ Head(plan).name = "Delete" /\ UNCHANGED <<clientResult, serverResult>>
          /\ plan' = Tail(plan) \/ plan' = plan
        BY <1>7 DEF CallDelete, Calling, Return
    <2>2. k \in 7..10
        BY <1>2, <2>1, ConclusionCalls DEF Call
    <2>3. CASE plan' = Tail(plan)
        BY <1>2, <1>4, <2>1, <2>2, <2>3 DEF Made
    <2>4. CASE plan' = plan /\ plan' # Tail(plan)
        <3>1. \A p \in Procs : Outcome(p) # "Freed"
            BY DEF Outcome
        <3>2. (\A p \in Procs : state[p] # "Freed") =>
                  \A p \in Procs : state'[p] # "Freed"
            BY <1>1, <1>7, <2>4, <3>1 DEF CallDelete, Return, FinishExit, ProcTypeOK
        <3>3. StillToMake(k)'
            BY <2>4 DEF Made, StillToMake
        <3> QED BY <1>4, <2>1, <2>2, <3>2, <3>3 DEF Made
    <2> QED BY <2>1, <2>3, <2>4
<1>8. CASE CallReportStatus
    <2>1. Head(plan).name = "ReportStatus" /\ plan' = Tail(plan)
          /\ UNCHANGED procVars
        BY <1>8 DEF CallReportStatus, Calling, Return
    <2>2. k \in {4, 5}
        BY <1>2, <2>1, ConclusionCalls DEF Call
    <2>3. state' = state /\ killed' = killed /\ expired' = expired
        BY <2>1 DEF procVars, handleVars
    <2>4. ASSUME NEW p \in Procs, state[p] # "Executing", ReportStatus(p) = 1
          PROVE  Bad(p)
        BY <1>1, <2>2, <2>4, SettledIsBad DEF Made
    <2>5. CASE k = 4
        <3>1. Head(plan).of = "client"
            BY <1>2, <2>5, ConclusionCalls DEF Call
        <3>2. clientResult' = ReportStatus("client") /\ serverResult' = serverResult
            BY <1>8, <3>1 DEF CallReportStatus
        <3>3. clientResult' = 1 => Bad("client")'
            BY <1>1, <1>4, <2>4, <2>5, <3>2 DEF Made
        <3> QED BY <1>2, <2>1, <2>3, <2>5, <3>2, <3>3 DEF Made, Waitable
    <2>6. CASE k = 5
        <3>1. Head(plan).of = "server"
            BY <1>2, <2>6, ConclusionCalls DEF Call
        <3>2. /\ clientResult' = clientResult
              /\ serverResult' = IF "server" \in Procs THEN ReportStatus("server")
                                 ELSE serverResult
            BY <1>8, <3>1 DEF CallReportStatus
        <3>3. "server" \in Procs /\ serverResult' = 1 =>
                  Bad("server")' \/ state'["server"] = "Executing"
            BY <1>4, <2>3, <2>4, <3>2
        <3> QED BY <1>2, <1>4, <2>1, <2>3, <2>6, <3>2, <3>3 DEF Made, Waitable
    <2> QED BY <2>2, <2>5, <2>6
<1> QED BY <1>5, <1>6, <1>7, <1>8

LEMMA EndingKept ==
    Inv /\ Order /\ (\A p \in Procs : Told(p)) /\ Ending /\ [Next]_vars => Ending'
<1> SUFFICES ASSUME Inv, Order, \A p \in Procs : Told(p), Ending, [Next]_vars
             PROVE  Ending'
    OBVIOUS
<1>1. Control /\ DriverTypes /\ ProcTypeOK
    BY DEF Inv, DriverInv, LibraryInv
<1>2. CASE SkipStart \/ StartProcess \/ AwaitedLine \/ PollClient
    BY <1>2 DEF SkipStart, StartProcess, AwaitedLine, PollClient, Ending
<1>3. CASE StartFails \/ NeverStarted
    BY <1>1, <1>3 DEF StartFails, NeverStarted, EndWith, Control, Ending
<1>4. CASE PollServer
    <2>1. CASE clientPipe
        BY <1>4, <2>1 DEF PollServer, Ending
    <2>2. CASE ~clientPipe
        <3>1. /\ phase' = "end" /\ plan' = Conclusion /\ wait' = Limit(Conclusion)
              /\ serverResult' = 0
            BY <1>4, <2>2 DEF PollServer, EndWith, Ending
        <3>2. wait' = NoLimit
            <4>1. Conclusion # << >> /\ Head(Conclusion) = Conclusion[1]
                <5>1. Conclusion \in Seq(Calls) /\ Len(Conclusion) > 0
                    BY ConclusionCalls
                <5> QED BY <5>1
            <4> QED BY <3>1, <4>1, ConclusionCalls DEF Limit, Call
        <3>3. \A p \in Procs : state'[p] # "Freed"
            <4>1. state' = state
                BY <1>4, StateStaysUntilTheEnd
                   DEF PollServer, Next, DriverStep, StartProcess, StartFails
            <4> QED BY <1>4, <4>1 DEF PollServer, Order
        <3>4. StillToMake(1)'
            BY <3>1, ConclusionCalls DEF StillToMake
        <3>5. Made(1)'
            BY <3>1, <3>2, <3>3, <3>4 DEF Made
        <3> QED BY <3>1, <3>5 DEF Ending
    <2> QED BY <2>1, <2>2
<1>5. CASE CallWaitForExit \/ CallKill \/ CallDelete \/ CallReportStatus
    <2>1. phase = "end" /\ phase' = "end" /\ started' = started
        BY <1>5 DEF CallWaitForExit, CallKill, CallDelete, CallReportStatus, Calling
    <2>2. ASSUME started PROVE \E n \in 1..11 : Made(n)'
        <3>1. PICK k \in 1..11 : Made(k)
            BY <2>1, <2>2 DEF Ending
        <3> QED BY <1>5, <2>1, <2>2, <3>1, MadeGoesOn
    <2> QED BY <2>1, <2>2 DEF Ending
<1>6. CASE MainReturns
    BY <1>6 DEF MainReturns, Ending
<1>7. CASE \/ \E p \in Procs : Discard(p) \/ WaitForData(p)
           \/ Tick \/ ChildWrites \/ ChildEnds \/ Terminated
    <2>1. UNCHANGED <<phase, started, serverResult>>
        BY <1>7, InsideCalls
    <2>2. ASSUME phase = "end", started PROVE \E n \in 1..11 : Made(n)'
        <3>1. PICK k \in 1..11 : Made(k)
            BY <2>2 DEF Ending
        <3> QED BY <1>7, <2>2, <3>1, MadeKeptInside
    <2> QED BY <2>1, <2>2 DEF Ending
<1>8. CASE UNCHANGED vars
    <2>1. /\ UNCHANGED <<phase, plan, wait, started, clientResult, serverResult>>
          /\ UNCHANGED <<state, killed, expired, child>>
        BY <1>8 DEF vars, driverVars, procVars, handleVars, osVars
    <2>2. ASSUME NEW k \in 1..11, Made(k) PROVE Made(k)'
        BY <2>1, <2>2 DEF Made, StillToMake, Bad, Waitable
    <2> QED BY <2>1, <2>2 DEF Ending
<1> QED BY <1>2, <1>3, <1>4, <1>5, <1>6, <1>7, <1>8 DEF Next, DriverStep

LEMMA ToldKept ==
    Inv /\ (\A p \in Procs : Told(p)) /\ [Next]_vars => \A p \in Procs : Told(p)'
<1> SUFFICES ASSUME Inv, \A p \in Procs : Told(p), [Next]_vars, NEW q \in Procs
             PROVE  Told(q)'
    OBVIOUS
<1>1. ProcTypeOK /\ LibraryInv
    BY DEF Inv, LibraryInv
<1>2. CASE StartProcess
    BY <1>1, <1>2 DEF StartProcess, ExecuteOK, Told, Waitable, ProcTypeOK
<1>3. CASE StartFails
    BY <1>1, <1>3 DEF StartFails, ExecuteFails, osVars, Told, Waitable, ProcTypeOK
<1>4. ASSUME Next, ~StartProcess, ~StartFails PROVE Told(q)'
    BY <1>1, <1>4, OnlyStartsExecute, LaterKeeps DEF Keeps
<1>5. CASE UNCHANGED vars
    BY <1>5 DEF vars, procVars, handleVars, osVars, Told, Waitable
<1> QED BY <1>2, <1>3, <1>4, <1>5

-----------------------------------------------------------------------------
(* Stray signals, time, and reasons for a failure. *)

\* A child that was collected and not stopped is not signalled.
LEMMA FirstStopIsNotStray ==
    ASSUME NEW p \in Procs, Waitable(p), Told(p), Terminate(p)
    PROVE  stray' = stray
BY DEF Told, Terminate

LEMMA UnstrayKept ==
    Inv /\ (\A p \in Procs : Told(p)) /\ Ending /\ Unstray /\ [Next]_vars => Unstray'
<1> SUFFICES ASSUME Inv, \A p \in Procs : Told(p), Ending, Unstray, [Next]_vars
             PROVE  Unstray'
    OBVIOUS
<1>1. ProcTypeOK /\ DriverTypes /\ plan \in Seq(Calls)
    BY DEF Inv, LibraryInv, DriverInv, DriverTypes
<1>2. CASE SkipStart \/ StartProcess
    BY <1>2 DEF SkipStart, StartProcess, ExecuteOK, procVars, osVars, Unstray
<1>3. CASE StartFails
    BY <1>3 DEF StartFails, ExecuteFails, EndWith, osVars, Unstray
<1>4. ASSUME NEW p, NEW l, TakeLine(p, l) PROVE stray' = stray
    BY <1>4 DEF TakeLine, ReadLines, procVars, osVars
<1>5. CASE AwaitedLine \/ NeverStarted
    BY <1>4, <1>5 DEF AwaitedLine, NeverStarted, NoLine, LineTimesOut, EndWith,
                      procVars, osVars, Unstray
<1>6. CASE PollClient
    BY <1>4, <1>6 DEF PollClient, NoLine, LineTimesOut, procVars, osVars, Unstray
<1>7. CASE PollServer
    BY <1>4, <1>7 DEF PollServer, NoLine, LineTimesOut, procVars, osVars, Unstray
<1>8. CASE CallWaitForExit \/ CallDelete \/ CallReportStatus \/ MainReturns
    BY <1>8 DEF CallWaitForExit, CallDelete, CallReportStatus, MainReturns, Calling,
                FinishExit, Free, procVars, osVars, Unstray
<1>9. CASE CallKill
    <2>1. phase = "end" /\ phase' = "end" /\ started' = started /\ plan # << >>
          /\ Head(plan).name = "Kill"
        BY <1>9 DEF CallKill, Calling
    <2>2. CASE ~started
        BY <2>1, <2>2 DEF Unstray
    <2>3. CASE started
        <3>1. PICK k \in 1..11 : Made(k)
            BY <2>1, <2>3 DEF Ending
        <3>2. k \in 1..10 /\ Head(plan) = Conclusion[k]
            BY <1>1, <2>1, <3>1, MakingCall DEF Made
        <3>3. k = 6 /\ Head(plan).of = "server"
            BY <2>1, <3>2, ConclusionCalls DEF Call
        <3>4. ASSUME "server" \in Procs, KillExecuting("server")
              PROVE  stray' = stray
            <4>1. Waitable("server")
                BY <3>1, <3>3, <3>4 DEF Made, KillExecuting
            <4> QED BY <3>4, <4>1, FirstStopIsNotStray DEF KillExecuting
        <3>5. stray' = stray
            BY <1>9, <3>3, <3>4 DEF CallKill, Kill, procVars, osVars
        <3> QED BY <2>1, <2>3, <3>5 DEF Unstray
    <2> QED BY <2>2, <2>3
<1>10. ASSUME NEW p \in Procs, Discard(p) \/ WaitForData(p) PROVE Unstray'
    <2>1. CASE Discard(p)
        BY <2>1 DEF Discard, ReadLines, driverVars, Unstray
    <2>2. CASE WaitForData(p) /\ Reap(p)
        BY <2>2 DEF WaitForData, Reap, driverVars, Unstray
    <2>3. CASE WaitForData(p) /\ Expire(p)
        BY <2>3, FirstStopIsNotStray DEF WaitForData, Expire, driverVars, Unstray
    <2> QED BY <1>10, <2>1, <2>2, <2>3 DEF WaitForData
<1>11. CASE Tick \/ ChildWrites \/ ChildEnds
    BY <1>11 DEF Tick, ClockTick, ChildWrites, Write, ChildEnds, Exit,
                 DescendantEnds, osVars, driverVars, Unstray
<1>12. CASE Terminated \/ UNCHANGED vars
    BY <1>12 DEF Terminated, vars, procVars, osVars, driverVars, Unstray
<1> QED BY <1>2, <1>3, <1>5, <1>6, <1>7, <1>8, <1>9, <1>10, <1>11, <1>12
        DEF Next, DriverStep

\* The clock advances only while a process that has time left is waited for.
LEMMA BoundedKept == Inv /\ Order /\ Bounded /\ [Next]_vars => Bounded'
<1> SUFFICES ASSUME Inv, Order, Bounded, [Next]_vars, TimeOut > 0
             PROVE  elapsed' <= Used("server")' + Used("client_helper")'
                                + Used("client_init")' + Used("client")'
    BY DEF Bounded
<1>1. /\ ProcTypeOK /\ LibraryInv /\ TimeOut \in Nat /\ elapsed \in Nat
      /\ Procs \subseteq AllProcs
      /\ \A p \in Procs : left[p] \in Nat /\ left[p] <= TimeOut
    BY TimeOutAssumption, DriverWaits, DriverProcs
       DEF Inv, LibraryInv, ProcTypeOK, DriverInv, DriverTypes
<1>2. \A p : Used(p) \in Nat
    BY <1>1 DEF Used
<1>3. ASSUME NEW p \in Procs
      PROVE  left'[p] \in Nat /\ left'[p] <= left[p]
    <2>1. CASE StartProcess
        <3>1. left' = [left EXCEPT ![cur] = TimeOut] /\ cur \in Procs
              /\ phase = "start" /\ cur \in AllProcs
            BY <1>1, <2>1 DEF StartProcess, ExecuteOK
        <3>2. left[cur] = TimeOut
            <4>1. cur \notin Earlier(cur)
                BY <3>1 DEF Earlier, AllProcs
            <4> QED BY <3>1, <4>1 DEF Order, Fresh
        <3> QED BY <1>1, <3>1, <3>2 DEF ProcTypeOK
    <2>2. CASE StartFails \/ UNCHANGED vars
        BY <1>1, <2>2 DEF StartFails, ExecuteFails, vars, procVars, handleVars
    <2>3. ASSUME Next, ~StartProcess, ~StartFails
          PROVE  left'[p] \in Nat /\ left'[p] <= left[p]
        <3>1. left'[p] \in 0..left[p]
            BY <1>1, <2>3, OnlyStartsExecute, LaterKeeps DEF Keeps
        <3> QED BY <1>1, <3>1
    <2> QED BY <2>1, <2>2, <2>3
<1>4. \A p : Used(p)' \in Nat /\ Used(p) <= Used(p)'
    BY <1>1, <1>3 DEF Used
<1>5. CASE Tick
    <2>1. PICK p \in Procs : Awaits(p) /\ ~Stirring(p) /\ wait # 0
        BY <1>5 DEF Tick
    <2>2. state[p] = "Executing" /\ left[p] > 0
        BY <1>1, <2>1 DEF Stirring, NoMoreData, Waitable, DeadlineReached
    <2>3. left'[p] = left[p] - 1
        BY <1>5, <2>2 DEF Tick, ClockTick
    <2>4. Used(p)' = Used(p) + 1
        BY <1>1, <2>2, <2>3 DEF Used
    <2>5. p \in {"server", "client_helper", "client_init", "client"}
        BY <1>1 DEF AllProcs
    <2>6. elapsed' <= elapsed + 1
        BY <1>1, <1>5 DEF Tick
    <2>7. elapsed' \in Nat
        BY <1>1, <1>5 DEF Tick
    <2> QED BY <1>1, <1>2, <1>4, <2>4, <2>5, <2>6, <2>7 DEF Bounded
<1>6. CASE ~Tick
    <2>1. elapsed' = elapsed
        BY <1>6 DEF Next, DriverStep, SkipStart, StartProcess, StartFails,
                    AwaitedLine, NeverStarted, PollClient, PollServer,
                    CallWaitForExit, CallKill, CallDelete, CallReportStatus,
                    MainReturns, Discard, WaitForData, ChildWrites, ChildEnds,
                    Terminated, vars, history
    <2> QED BY <1>1, <1>2, <1>4, <2>1 DEF Bounded
<1> QED BY <1>5, <1>6

\* Reading lines leaves only lines that were there.
LEMMA ReadingAddsNone ==
    ASSUME NEW s \in Seq(Lines), NEW n \in 1..Len(s),
           NEW k, Says(k, SubSeq(s, n + 1, Len(s)))
    PROVE  Says(k, s)
<1> DEFINE m == Len(s)
           t == SubSeq(s, n + 1, m)
<1>1. m \in Nat /\ \A i \in n + 1 .. m : s[i] \in Lines
    BY ElementOfSeq
<1>2. /\ Len(t) = IF n + 1 <= m THEN m - (n + 1) + 1 ELSE 0
      /\ \A i \in 1 .. m - (n + 1) + 1 : t[i] = s[n + 1 + i - 1]
    BY <1>1, SubSeqProperties
<1>3. Len(t) = m - n /\ \A i \in 1 .. m - n : t[i] = s[i + n]
    BY <1>1, <1>2
<1>4. PICK i \in 1..Len(t) : t[i] = k
    BY DEF Says
<1>5. i + n \in 1..m /\ s[i + n] = k
    BY <1>1, <1>3, <1>4
<1> QED BY <1>5 DEF Says

\* Taking a line makes none up.
LEMMA TakeLineAddsNone ==
    ASSUME ProcTypeOK, buf \in [Procs -> Seq(Lines)],
           NEW p, NEW l, TakeLine(p, l)
    PROVE  /\ Says(l, buf[p]) \/ Says(l, pipe[p])
           /\ \A k : Says(k, buf'[p]) \/ Says(k, pipe'[p]) =>
                         Says(k, buf[p]) \/ Says(k, pipe[p])
<1>1. p \in Procs /\ buf[p] \in Seq(Lines) /\ pipe[p] \in Seq(Lines)
    BY DEF TakeLine, ProcTypeOK
<1>2. CASE buf[p] # << >>
    <2>1. /\ l = buf[p][1] /\ buf'[p] = Tail(buf[p]) /\ pipe'[p] = pipe[p]
          /\ Len(buf[p]) \in Nat /\ Len(buf[p]) > 0
          /\ Len(Tail(buf[p])) = Len(buf[p]) - 1
          /\ \A i \in 1 .. Len(Tail(buf[p])) : Tail(buf[p])[i] = buf[p][i + 1]
        BY <1>1, <1>2, HeadTailProperties DEF TakeLine, procVars, osVars
    <2>2. Says(l, buf[p])
        BY <2>1 DEF Says
    <2>3. ASSUME NEW k, Says(k, buf'[p]) PROVE Says(k, buf[p])
        <3>1. PICK i \in 1..Len(Tail(buf[p])) : Tail(buf[p])[i] = k
            BY <2>1, <2>3 DEF Says
        <3>2. i + 1 \in 1..Len(buf[p]) /\ buf[p][i + 1] = k
            BY <2>1, <3>1
        <3> QED BY <3>2 DEF Says
    <2> QED BY <2>1, <2>2, <2>3
<1>3. CASE buf[p] = << >>
    <2>1. PICK n \in 1..PipeCap :
              /\ ReadLines(p, n)
              /\ l = Head(pipe[p])
              /\ buf' = [buf EXCEPT ![p] = SubSeq(pipe[p], 2, n)]
        BY <1>3 DEF TakeLine
    <2> DEFINE m == Len(pipe[p])
    <2>2. n \in 1..m /\ m \in Nat /\ l = pipe[p][1]
        BY <1>1, <2>1 DEF ReadLines
    <2>3. \A i \in 2..m : pipe[p][i] \in Lines
        BY <1>1, <2>2, ElementOfSeq
    <2>4. buf'[p] = SubSeq(pipe[p], 2, n) /\ pipe'[p] = SubSeq(pipe[p], n + 1, m)
        BY <1>1, <2>1 DEF ReadLines, ProcTypeOK
    <2>5. /\ Len(SubSeq(pipe[p], 2, n)) = n - 1
          /\ \A i \in 1 .. n - 1 : SubSeq(pipe[p], 2, n)[i] = pipe[p][i + 1]
        <3>1. \A i \in 2..n : pipe[p][i] \in Lines
            BY <2>2, <2>3
        <3>2. /\ Len(SubSeq(pipe[p], 2, n)) = IF 2 <= n THEN n - 2 + 1 ELSE 0
              /\ \A i \in 1 .. n - 2 + 1 :
                    SubSeq(pipe[p], 2, n)[i] = pipe[p][2 + i - 1]
            BY <2>2, <3>1, SubSeqProperties
        <3> QED BY <2>2, <3>2
    <2>6. Says(l, pipe[p])
        <3>1. 1 \in 1..m
            BY <2>2
        <3> QED BY <2>2, <3>1 DEF Says
    <2>7. ASSUME NEW k, Says(k, buf'[p]) PROVE Says(k, pipe[p])
        <3>1. PICK i \in 1 .. n - 1 : SubSeq(pipe[p], 2, n)[i] = k
            BY <2>4, <2>5, <2>7 DEF Says
        <3>2. i + 1 \in 1..m /\ pipe[p][i + 1] = k
            BY <2>2, <2>5, <3>1
        <3> QED BY <3>2 DEF Says
    <2>8. ASSUME NEW k, Says(k, pipe'[p]) PROVE Says(k, pipe[p])
        BY <1>1, <2>2, <2>4, <2>8, ReadingAddsNone
    <2> QED BY <2>6, <2>7, <2>8
<1> QED BY <1>2, <1>3

LEMMA OverheardKept == Inv /\ Overheard /\ [Next]_vars => Overheard'
<1> SUFFICES ASSUME Inv, Overheard, [Next]_vars PROVE Overheard'
    OBVIOUS
<1>1. /\ ProcTypeOK /\ buf \in [Procs -> Seq(Lines)] /\ erred \subseteq Procs
      /\ mpiError \in BOOLEAN /\ "client" \in Procs
    BY DriverProcs DEF Inv, LibraryInv, DriverInv, DriverTypes
<1>2. ASSUME NEW q \in Procs, erred \subseteq erred',
             buf'[q] = buf[q], pipe'[q] = pipe[q] \/ pipe'[q] = << >>
      PROVE  Says("error", buf'[q]) \/ Says("error", pipe'[q]) => q \in erred'
    BY <1>2 DEF Overheard, Says
<1>3. ASSUME NEW p, NEW l, TakeLine(p, l), erred' = erred
      PROVE  /\ l = "error" => p \in erred
             /\ \A q \in Procs :
                    Says("error", buf'[q]) \/ Says("error", pipe'[q]) => q \in erred'
    <2>1. p \in Procs /\ \A q \in Procs : q # p => buf'[q] = buf[q] /\ pipe'[q] = pipe[q]
        BY <1>1, <1>3, TakeLineTypes
    <2>2. /\ Says(l, buf[p]) \/ Says(l, pipe[p])
          /\ Says("error", buf'[p]) \/ Says("error", pipe'[p]) =>
                 Says("error", buf[p]) \/ Says("error", pipe[p])
        BY <1>1, <1>3, TakeLineAddsNone
    <2> QED BY <1>2, <1>3, <2>1, <2>2 DEF Overheard
<1>4. CASE \/ SkipStart \/ StartProcess \/ StartFails \/ NeverStarted
           \/ CallWaitForExit \/ CallKill \/ CallDelete \/ CallReportStatus
           \/ MainReturns \/ Tick \/ ChildEnds \/ Terminated \/ UNCHANGED vars
           \/ \E p \in Procs : WaitForData(p)
    <2>1. UNCHANGED <<mpiError, erred, buf>>
        BY <1>4 DEF SkipStart, StartProcess, StartFails, NeverStarted, NoLine,
                    LineTimesOut, CallWaitForExit, CallKill, CallDelete,
                    CallReportStatus, MainReturns, Tick, ChildEnds, Terminated,
                    WaitForData, vars, driverVars, history
    <2>2. ASSUME NEW q \in Procs
          PROVE  pipe'[q] = pipe[q] \/ pipe'[q] = << >>
        <3>1. CASE StartProcess
            BY <1>1, <3>1 DEF StartProcess, ExecuteOK, ProcTypeOK
        <3>2. CASE CallKill \/ \E p \in Procs : WaitForData(p)
            BY <1>1, <3>2 DEF CallKill, Kill, KillExecuting, WaitForData, Reap,
                              Expire, Terminate, ProcTypeOK, procVars, osVars
        <3>3. CASE ~StartProcess /\ ~CallKill /\ ~\E p \in Procs : WaitForData(p)
            BY <1>4, <3>3
               DEF SkipStart, StartFails, ExecuteFails, NeverStarted, NoLine,
                   LineTimesOut, CallWaitForExit, FinishExit, CallDelete, Free,
                   CallReportStatus, MainReturns, Tick, ClockTick, ChildEnds, Exit,
                   DescendantEnds, Terminated, vars, procVars, osVars
        <3> QED BY <3>1, <3>2, <3>3
    <2> QED BY <1>2, <2>1, <2>2 DEF Overheard
<1>5. CASE AwaitedLine
    BY <1>3, <1>5 DEF AwaitedLine, Overheard, history
<1>6. CASE PollClient \/ PollServer
    <2>1. erred' = erred
        BY <1>6 DEF PollClient, PollServer, history
    <2>2. CASE UNCHANGED <<procVars, buf, mpiError>>
        BY <1>2, <2>1, <2>2 DEF Overheard, procVars, osVars
    <2>3. ASSUME NEW p \in {"client", "server"}, NEW l \in Lines, TakeLine(p, l),
                 mpiError' = (mpiError \/ HasError(l))
          PROVE  Overheard'
        <3>1. mpiError' => ~AllowErrorInOutput /\ erred \cap {"client", "server"} # {}
            BY <1>1, <1>3, <2>1, <2>3 DEF Overheard, HasError
        <3> QED BY <1>3, <2>1, <2>3, <3>1 DEF Overheard
    <2> QED BY <1>6, <2>2, <2>3 DEF PollClient, PollServer, NoLine, LineTimesOut
<1>7. ASSUME NEW p \in Procs, Discard(p) PROVE Overheard'
    <2>1. PICK n \in 1..PipeCap : ReadLines(p, n)
        BY <1>7 DEF Discard
    <2>2. UNCHANGED <<mpiError, erred, buf>>
        BY <1>7 DEF Discard, driverVars, history
    <2>3. ASSUME NEW q \in Procs, Says("error", pipe'[q])
          PROVE  Says("error", pipe[q])
        BY <1>1, <2>1, <2>3, ReadingAddsNone DEF ReadLines, ProcTypeOK
    <2> QED BY <2>2, <2>3 DEF Overheard
<1>8. CASE ChildWrites
    <2>1. PICK p \in Procs, l \in Lines :
              /\ Write(p, l)
              /\ erred' = IF l = "error" THEN erred \cup {p} ELSE erred
        BY <1>8 DEF ChildWrites
    <2>2. buf' = buf /\ mpiError' = mpiError /\ erred \subseteq erred'
        BY <1>8, <2>1 DEF ChildWrites, driverVars
    <2>3. ASSUME NEW q \in Procs, q # p
          PROVE  Says("error", buf'[q]) \/ Says("error", pipe'[q]) => q \in erred'
        BY <1>1, <1>2, <2>1, <2>2, <2>3 DEF Write, ProcTypeOK
    <2>4. Says("error", pipe'[p]) => Says("error", pipe[p]) \/ l = "error"
        <3>1. pipe[p] \in Seq(Lines) /\ pipe'[p] = Append(pipe[p], l)
            BY <1>1, <2>1 DEF Write, ProcTypeOK
        <3>2. /\ Len(pipe[p]) \in Nat /\ Len(pipe'[p]) = Len(pipe[p]) + 1
              /\ pipe'[p][Len(pipe[p]) + 1] = l
              /\ \A i \in 1..Len(pipe[p]) : pipe'[p][i] = pipe[p][i]
            BY <3>1, AppendProperties
        <3>3. \A i \in 1..Len(pipe'[p]) : i = Len(pipe[p]) + 1 \/ i \in 1..Len(pipe[p])
            BY <3>2
        <3> QED BY <3>2, <3>3 DEF Says
    <2>5. Says("error", buf'[p]) \/ Says("error", pipe'[p]) => p \in erred'
        BY <2>1, <2>2, <2>4 DEF Overheard
    <2>6. mpiError' => ~AllowErrorInOutput /\ erred' \cap {"client", "server"} # {}
        BY <2>2 DEF Overheard
    <2> QED BY <2>3, <2>5, <2>6 DEF Overheard
<1> QED BY <1>4, <1>5, <1>6, <1>7, <1>8 DEF Next, DriverStep

LEMMA JudgedKept ==
    Inv /\ Order /\ Ending /\ Overheard /\ Judged /\ [Next]_vars => Judged'
<1> SUFFICES ASSUME Inv, Order, Ending, Overheard, Judged, [Next]_vars,
                    verdict' = 1
             PROVE  \/ Bad("client")'
                    \/ "server" \in Procs /\ ~IgnoreServerResult /\ Bad("server")'
                    \/ ~AllowErrorInOutput /\ erred' \cap {"client", "server"} # {}
    BY DEF Judged
<1>1. DriverTypes /\ LibraryInv /\ "client" \in Procs
    BY DriverProcs DEF Inv, DriverInv
<1>2. CASE MainReturns
    <2>1. /\ phase = "end" /\ plan = << >> /\ started
          /\ UNCHANGED <<killed, expired, child, erred>>
          /\ \/ serverResult # 0 /\ ~IgnoreServerResult
             \/ mpiError
             \/ clientResult = 1
        BY <1>2 DEF MainReturns, procVars, handleVars, osVars, history
    <2>2. PICK k \in 1..11 : Made(k)
        BY <2>1 DEF Ending
    <2>3. k = 11
        BY <2>1, <2>2 DEF Made, StillToMake
    <2>4. clientResult = 1 => Bad("client")
        BY <2>2, <2>3 DEF Made
    <2>5. serverResult # 0 => "server" \in Procs /\ Bad("server")
        BY <1>1, <2>2, <2>3 DEF Made, DriverTypes
    <2> QED BY <2>1, <2>4, <2>5 DEF Overheard, Bad
<1>3. CASE ~MainReturns
    <2>1. verdict' = verdict
        BY <1>3, InsideCalls
           DEF Next, DriverStep, SkipStart, StartProcess, StartFails, AwaitedLine,
               NeverStarted, PollClient, PollServer, CallWaitForExit, CallKill,
               CallDelete, CallReportStatus
    <2>2. verdict = 1 /\ phase = "done"
        BY <1>1, <2>1 DEF Order, NoVerdict
    <2>3. ASSUME NEW p \in Procs, Bad(p) PROVE Bad(p)'
        <3>1. CASE Next
            <4>1. Keeps(p)
                BY <1>1, <2>2, <3>1, OnlyStartsExecute, LaterKeeps
                   DEF StartProcess, StartFails
            <4> QED BY <2>3, <4>1 DEF Keeps
        <3>2. CASE UNCHANGED vars
            BY <2>3, <3>2 DEF vars, procVars, handleVars, osVars, Bad
        <3> QED BY <3>1, <3>2
    <2>4. erred \subseteq erred'
        <3>1. CASE ChildWrites
            BY <3>1 DEF ChildWrites
        <3>2. CASE ~ChildWrites
            BY <2>2, <3>2
               DEF Next, DriverStep, SkipStart, StartProcess, StartFails,
                   AwaitedLine, NeverStarted, PollClient, PollServer,
                   CallWaitForExit, CallKill, CallDelete, CallReportStatus,
                   MainReturns, Calling, Discard, WaitForData, Tick, ChildEnds,
                   Terminated, vars, history
        <3> QED BY <3>1, <3>2
    <2> QED BY <1>1, <2>2, <2>3, <2>4 DEF Judged
<1> QED BY <1>2, <1>3

-----------------------------------------------------------------------------

LEMMA OrderStarts == Init => OrderInv
<1> SUFFICES ASSUME Init PROVE OrderInv
    OBVIOUS
<1>1. \A p \in Procs : /\ Fresh(p) /\ ~killed[p] /\ ~expired[p]
                       /\ buf[p] = << >> /\ pipe[p] = << >>
    BY DEF Init, ProcInit, Fresh
<1>2. Order
    BY <1>1 DEF Init, Earlier, Fresh, Order, Final, NoVerdict
<1>3. \A p \in Procs : Told(p)
    BY <1>1 DEF Fresh, Told, Waitable
<1>4. Ending /\ Judged /\ Unstray
    BY DEF Init, ProcInit, Ending, Judged, NoVerdict, Unstray
<1>5. Overheard
    BY <1>1 DEF Init, Overheard, Says
<1>6. Bounded
    <2>1. TimeOut - TimeOut = 0
        BY TimeOutAssumption
    <2>2. \A p \in Procs : left[p] = TimeOut
        BY <1>1 DEF Fresh
    <2>3. \A p : Used(p) = 0
        BY <2>1, <2>2 DEF Used
    <2> QED BY <2>3 DEF Init, Bounded
<1> QED BY <1>2, <1>3, <1>4, <1>5, <1>6 DEF OrderInv

LEMMA OrderInvKept == Inv /\ OrderInv /\ [Next]_vars => OrderInv'
BY OrderKept, ToldKept, EndingKept, OverheardKept, JudgedKept, UnstrayKept,
   BoundedKept DEF OrderInv

LEMMA OrderInvHolds == Spec => [](Inv /\ OrderInv)
<1>1. Init => Inv /\ OrderInv
    BY DriverStarts, OrderStarts
<1>2. Inv /\ OrderInv /\ [Next]_vars => (Inv /\ OrderInv)'
    BY InvKept, OrderInvKept
<1> QED BY <1>1, <1>2, PTL DEF Spec

-----------------------------------------------------------------------------

(* A test that fails failed for a reason: when Main returns 1, the client  *)
(* or a server that counts ended badly or was stopped, or one of the two   *)
(* wrote an error line that is not allowed.                                *)
THEOREM FailedTestsFailed == Spec => []VerdictJustified
<1>1. Inv /\ OrderInv => VerdictJustified
    BY DEF OrderInv, Judged, VerdictJustified, Bad, EndedBadly
<1> QED BY <1>1, OrderInvHolds, PTL

(* Whatever the processes and their time-outs, a PID that was waited for   *)
(* can be signalled only by a driver that never started the client.        *)
THEOREM NoStrayOnceStarted == Spec => []StrayOnlyWithoutClient
<1>1. Inv /\ OrderInv => StrayOnlyWithoutClient
    BY DEF OrderInv, Unstray, StrayOnlyWithoutClient
<1> QED BY <1>1, OrderInvHolds, PTL

\* Kill is only called when the client was not started or has settled.
LEMMA KillsAfterTheClient ==
    ASSUME Inv, OrderInv, CallKill
    PROVE  child["client"] # "running"
<1>1. phase = "end" /\ plan # << >> /\ Head(plan).name = "Kill"
    BY DEF CallKill, Calling
<1>2. "client" \in Procs /\ HandleInv("client") /\ plan \in Seq(Calls)
    BY DriverProcs DEF Inv, LibraryInv, DriverInv, DriverTypes
<1>3. CASE ~started
    BY <1>2, <1>3 DEF OrderInv, Order
<1>4. CASE started
    <2>1. PICK k \in 1..11 : Made(k)
        BY <1>1, <1>4 DEF OrderInv, Ending
    <2>2. k \in 1..10 /\ Head(plan) = Conclusion[k]
        BY <1>1, <1>2, <2>1, MakingCall DEF Made
    <2>3. k # 1
        BY <1>1, <2>2, ConclusionCalls DEF Call
    <2>4. state["client"] # "Executing"
        BY <2>1, <2>2, <2>3 DEF Made
    <2> QED BY <1>2, <2>4 DEF HandleInv, Tracked, Collected, Dead
<1> QED BY <1>3, <1>4

(* Server and helpers live as long as the client needs them: Kill is       *)
(* called only on the way out of Main, when the client was not started or  *)
(* WaitForExit has settled it.                                             *)
THEOREM NothingIsKilledUnderTheClient == Spec => NoKillUnderClient
<1>1. ASSUME Inv, OrderInv, [Next]_vars, NEW p \in Procs, killed'[p], ~killed[p]
      PROVE  child["client"] # "running"
    <2>1. CallKill
        <3>1. ProcTypeOK /\ buf \in [Procs -> Seq(Lines)]
            BY <1>1 DEF Inv, LibraryInv, DriverInv, DriverTypes
        <3>2. killed' # killed
            BY <1>1
        <3>3. ~StartProcess /\ ~StartFails
            BY <1>1, <3>1 DEF StartProcess, ExecuteOK, StartFails, ExecuteFails,
                              ProcTypeOK
        <3>4. ASSUME NEW q, NEW l, TakeLine(q, l) PROVE killed' = killed
            BY <3>1, <3>4, TakeLineTypes DEF handleVars
        <3> QED BY <1>1, <3>2, <3>3, <3>4
                DEF Next, DriverStep, SkipStart, AwaitedLine, NeverStarted, NoLine,
                    LineTimesOut, PollClient, PollServer, CallWaitForExit,
                    FinishExit, CallDelete, Free, CallReportStatus, MainReturns,
                    Discard, ReadLines, WaitForData, Reap, Expire, Tick, ClockTick,
                    ChildWrites, Write, ChildEnds, Exit, DescendantEnds, Terminated,
                    vars, procVars, handleVars
    <2> QED BY <1>1, <2>1, KillsAfterTheClient
<1>2. Inv /\ OrderInv /\ [Next]_vars =>
          [\A p \in Procs : killed'[p] /\ ~killed[p] => child["client"] # "running"]_vars
    BY <1>1
<1> QED BY <1>2, OrderInvHolds, PTL DEF Spec, NoKillUnderClient

One(p) == IF p \in Procs THEN 1 ELSE 0
Among(S) == Procs \cap S

LEMMA CountOneMore ==
    ASSUME NEW S, NEW p, p \notin S, IsFiniteSet(Among(S)),
           NEW n \in Nat, Cardinality(Among(S)) = n
    PROVE  /\ IsFiniteSet(Among(S \cup {p}))
           /\ Cardinality(Among(S \cup {p})) = n + One(p)
           /\ n + One(p) \in Nat
<1>1. CASE p \in Procs
    <2>1. Among(S \cup {p}) = Among(S) \cup {p} /\ p \notin Among(S)
        BY <1>1 DEF Among
    <2>2. One(p) = 1 /\ n + 1 \in Nat
        BY <1>1 DEF One
    <2>3. /\ IsFiniteSet(Among(S) \cup {p})
          /\ Cardinality(Among(S) \cup {p}) =
                 IF p \in Among(S) THEN Cardinality(Among(S))
                 ELSE Cardinality(Among(S)) + 1
        BY FS_AddElement
    <2>4. Cardinality(Among(S) \cup {p}) = n + 1
        BY <2>1, <2>3
    <2> QED BY <2>1, <2>2, <2>3, <2>4, Zenon
<1>2. CASE p \notin Procs
    <2>1. Among(S \cup {p}) = Among(S)
        BY <1>2 DEF Among
    <2>2. One(p) = 0 /\ n + One(p) = n
        BY <1>2 DEF One
    <2> QED BY <2>1, <2>2, Zenon
<1> QED BY <1>1, <1>2

\* Each of the four names counts once.
LEMMA CountProcs ==
    Cardinality(Procs) = One("server") + One("client_helper")
                         + One("client_init") + One("client")
<1> DEFINE S1 == {} \cup {"server"}
           S2 == S1 \cup {"client_helper"}
           S3 == S2 \cup {"client_init"}
           S4 == S3 \cup {"client"}
<1>1. Among({}) = {} /\ Among(S4) = Procs
    BY DriverProcs DEF Among, AllProcs
<1>2. /\ "client_helper" \notin S1
      /\ "client_init" \notin S2 /\ "client" \notin S3
    OBVIOUS
<1>3. IsFiniteSet(Among({})) /\ Cardinality(Among({})) = 0
    BY <1>1, FS_EmptySet
<1>4. /\ IsFiniteSet(Among(S1)) /\ 0 + One("server") \in Nat
      /\ Cardinality(Among(S1)) = 0 + One("server")
    BY <1>3, CountOneMore
<1> HIDE DEF S1
<1>5. /\ IsFiniteSet(Among(S2)) /\ 0 + One("server") + One("client_helper") \in Nat
      /\ Cardinality(Among(S2)) = 0 + One("server") + One("client_helper")
    BY <1>2, <1>4, CountOneMore
<1> HIDE DEF S2
<1>6. /\ IsFiniteSet(Among(S3))
      /\ 0 + One("server") + One("client_helper") + One("client_init") \in Nat
      /\ Cardinality(Among(S3)) = 0 + One("server") + One("client_helper")
                                  + One("client_init")
    BY <1>2, <1>5, CountOneMore
<1> HIDE DEF S3
<1>7. Cardinality(Among(S4)) = 0 + One("server") + One("client_helper")
                               + One("client_init") + One("client")
    BY <1>2, <1>6, CountOneMore
<1> QED BY <1>1, <1>7 DEF One

(* With a process time-out set, the driver waits at most one time-out per  *)
(* process altogether: time passes only while it waits for a process that  *)
(* has some of its own left, and none is started twice.                    *)
THEOREM RunIsBounded == Spec => []BoundedRun
<1> DEFINE Names == {"server", "client_helper", "client_init", "client"}
<1>1. ASSUME Inv, OrderInv, TimeOut > 0
      PROVE  elapsed <= Cardinality(Procs) * TimeOut
    <2>1. TimeOut \in Nat /\ elapsed \in Nat
        BY <1>1, TimeOutAssumption, DriverWaits DEF Inv, DriverInv, DriverTypes
    <2>2. ASSUME NEW p \in Names
          PROVE  /\ Used(p) \in Nat /\ One(p) \in Nat
                 /\ Used(p) <= One(p) * TimeOut
        <3>1. CASE p \in Procs
            <4>1. left[p] \in Nat /\ left[p] <= TimeOut
                BY <1>1, <2>1, <3>1 DEF Inv, LibraryInv, ProcTypeOK
            <4> QED BY <2>1, <3>1, <4>1 DEF Used, One
        <3>2. CASE p \notin Procs
            BY <2>1, <3>2 DEF Used, One
        <3> QED BY <3>1, <3>2
    <2>3. Cardinality(Procs) = One("server") + One("client_helper")
                               + One("client_init") + One("client")
        BY CountProcs
    <2>4. elapsed <= Used("server") + Used("client_helper")
                     + Used("client_init") + Used("client")
        BY <1>1 DEF OrderInv, Bounded
    <2>5. Cardinality(Procs) * TimeOut =
              One("server") * TimeOut + One("client_helper") * TimeOut
              + One("client_init") * TimeOut + One("client") * TimeOut
        BY <2>1, <2>2, <2>3
    <2> QED BY <2>1, <2>2, <2>4, <2>5
<1>2. Inv /\ OrderInv => BoundedRun
    BY <1>1 DEF BoundedRun
<1> QED BY <1>2, OrderInvHolds, PTL

-----------------------------------------------------------------------------
(* Every step of the driver is one of Supervision or a stutter. *)

\* What Supervision sees does not change.
Unseen ==
    /\ \A p \in Procs : child'[p] = child[p] /\ reaped'[p] = reaped[p]
    /\ verdict' = verdict

LEMMA UnseenStutters ==
    ASSUME Unseen
    PROVE  UNCHANGED Super!superVars
<1>1. "client" \in Procs
    BY DriverProcs
<1>2. \A p \in Procs : StageOf(p)' = StageOf(p)
    BY DEF Unseen, StageOf
<1>3. LeadOf' = LeadOf
    BY <1>1 DEF Unseen, LeadOf
<1>4. OutcomeOf' = OutcomeOf
    BY DEF Unseen, OutcomeOf
<1> QED BY <1>2, <1>3, <1>4 DEF Super!superVars

\* A child leaves Supervision's sight when it is collected: it was dead, or
\* it is stopped and counts as ended badly.
LEMMA CollectingIsSeen ==
    ASSUME ProcTypeOK, NEW p \in Procs, verdict = NoVerdict, verdict' = verdict,
           child[p] # "none", ~reaped[p], reaped'[p],
           child'[p] = IF child[p] = "running" THEN "signal" ELSE child[p],
           \A q \in Procs : q # p => child'[q] = child[q] /\ reaped'[q] = reaped[q]
    PROVE  Super!Collect(p)
<1>1. "client" \in Procs
    BY DriverProcs
<1>2. StageOf(p) = "live" /\ StageOf(p)' = "gone"
    BY DEF StageOf
<1>3. \A q \in Procs : q # p => StageOf(q)' = StageOf(q)
    BY DEF StageOf
<1>4. [q \in Procs |-> StageOf(q)]' =
          [[q \in Procs |-> StageOf(q)] EXCEPT ![p] = "gone"]
    BY <1>2, <1>3
<1>5. LeadOf' = IF p = "client" /\ LeadOf = "unknown" THEN "wrong" ELSE LeadOf
    <2>1. child["client"] \in ChildState
        BY <1>1 DEF ProcTypeOK
    <2> QED BY <1>1, <2>1 DEF LeadOf, ChildState, Dead
<1>6. OutcomeOf = "none" /\ OutcomeOf' = OutcomeOf
    BY DEF OutcomeOf, NoVerdict
<1> QED BY <1>2, <1>4, <1>5, <1>6 DEF Super!Collect

LEMMA StoppingIsSeen ==
    ASSUME ProcTypeOK, NEW p \in Procs, HandleInv(p), state[p] = "Executing",
           Terminate(p), verdict = NoVerdict, verdict' = verdict
    PROVE  Super!Collect(p) \/ UNCHANGED Super!superVars
<1>1. child[p] # "none" /\ (reaped[p] => child[p] \in Dead)
    BY DEF HandleInv, HasChild, Collected
<1>2. \A q \in Procs : q # p => child'[q] = child[q] /\ reaped'[q] = reaped[q]
    BY DEF Terminate, ProcTypeOK
<1>3. CASE forkPid[p] /\ ~reaped[p]
    BY <1>1, <1>2, <1>3, CollectingIsSeen DEF Terminate, ProcTypeOK
<1>4. CASE forkPid[p] /\ reaped[p]
    <2>1. child'[p] = child[p] /\ reaped'[p] = reaped[p]
        BY <1>1, <1>4 DEF Terminate, ProcTypeOK, Dead
    <2> QED BY <1>2, <2>1, UnseenStutters DEF Unseen
<1>5. CASE ~forkPid[p]
    BY <1>5, UnseenStutters DEF Terminate, Unseen
<1> QED BY <1>3, <1>4, <1>5 DEF ProcTypeOK

LEMMA SupervisionStarts == Init => Super!Init
<1> SUFFICES ASSUME Init PROVE Super!Init
    OBVIOUS
<1>1. \A p \in Procs : StageOf(p) = "idle"
    BY DEF Init, ProcInit, StageOf
<1>2. LeadOf = "unknown" /\ OutcomeOf = "none"
    BY DriverProcs DEF Init, ProcInit, LeadOf, OutcomeOf, NoVerdict
<1> QED BY <1>1, <1>2 DEF Super!Init

\* A process is executed in its turn: Launch.
LEMMA StartingLaunches ==
    ASSUME Inv, Order, StartProcess, NEW p \in Procs, p = cur
    PROVE  Super!Launch(p)
<1>1. /\ ProcTypeOK /\ phase = "start" /\ p \in AllProcs
      /\ child' = [child EXCEPT ![p] = "running"]
      /\ reaped' = [reaped EXCEPT ![p] = FALSE]
      /\ verdict' = verdict /\ "client" \in Procs /\ Procs \subseteq AllProcs
    BY DriverProcs
       DEF Inv, LibraryInv, DriverInv, DriverTypes, StartProcess, ExecuteOK
<1>2. child[p] = "none"
    <2>1. p \notin Earlier(p)
        BY <1>1 DEF Earlier, AllProcs
    <2> QED BY <1>1, <2>1 DEF Order, Fresh
<1>3. StageOf(p) = "idle" /\ StageOf(p)' = "live"
    BY <1>1, <1>2 DEF StageOf, ProcTypeOK
<1>4. \A q \in Procs : q # p => StageOf(q)' = StageOf(q)
    BY <1>1 DEF StageOf, ProcTypeOK
<1>5. [q \in Procs |-> StageOf(q)]' =
          [[q \in Procs |-> StageOf(q)] EXCEPT ![p] = "live"]
    BY <1>3, <1>4
<1>6. p = "client" => \A q \in Procs \ {"client"} : StageOf(q) # "idle"
    BY <1>1 DEF Order, Earlier, AllProcs, StageOf
<1>7. LeadOf' = LeadOf
    BY <1>1, <1>2 DEF LeadOf, ProcTypeOK
<1>8. OutcomeOf = "none" /\ OutcomeOf' = OutcomeOf
    BY <1>1 DEF OutcomeOf, Order, NoVerdict
<1> QED BY <1>1, <1>3, <1>5, <1>6, <1>7, <1>8 DEF Super!Launch

\* Main returns when everything is collected: Judge.
LEMMA ReturningJudges ==
    ASSUME Inv, Order, Inv', MainReturns
    PROVE  Super!Judge
<1>1. /\ phase = "end" /\ phase' = "done" /\ plan = << >>
      /\ UNCHANGED <<child, reaped, killed, expired, state, started>>
      /\ LibraryInv /\ ProcTypeOK /\ Cleanup /\ "client" \in Procs
    BY DriverProcs
       DEF Inv, LibraryInv, DriverInv, MainReturns, procVars, handleVars, osVars
<1>2. ASSUME NEW p \in Procs
      PROVE  child[p] # "none" => reaped[p]
    <2>1. state[p] = "Freed"
        BY <1>1 DEF Cleanup, Has
    <2> QED BY <1>1, <2>1 DEF LibraryInv, HandleInv, Tracked
<1>3. \A p \in Procs : StageOf(p) # "live" /\ StageOf(p)' = StageOf(p)
    BY <1>1, <1>2 DEF StageOf
<1>4. LeadOf' = LeadOf
    BY <1>1 DEF LeadOf
<1>5. verdict' \in {-1, 0, 1}
    BY <1>1 DEF MainReturns, Inv, DriverInv, DriverTypes
<1>6. OutcomeOf = "none" /\ OutcomeOf' \in {"pass", "fail"}
      /\ (OutcomeOf' = "pass" => verdict' = 0)
    BY <1>1, <1>5 DEF Order, OutcomeOf, NoVerdict
<1>7. ASSUME verdict' = 0
      PROVE  LeadOf = "right" /\ \A p \in Procs : StageOf(p) = "gone"
    <2>1. started /\ clientResult' = 0
        BY <1>1, <1>7 DEF Inv, DriverInv, Pass
    <2>2. child["client"] = "exit0"
        BY <1>1, <2>1 DEF Inv, DriverInv, Results, Well
    <2>3. \A p \in Procs : child[p] # "none"
        BY <2>1 DEF Order
    <2> QED BY <1>2, <2>2, <2>3 DEF LeadOf, StageOf
<1> QED BY <1>3, <1>4, <1>6, <1>7 DEF Super!Judge, Super!superVars

\* The client's own end is seen before it is collected: LeadEnds.
LEMMA EndingIsSeen ==
    ASSUME Inv, Order, NEW p \in Procs, NEW how \in Dead, Exit(p, how),
           verdict' = verdict
    PROVE  Super!LeadEnds \/ UNCHANGED Super!superVars
<1>1. /\ ProcTypeOK /\ child[p] = "running" /\ HandleInv(p) /\ reaped' = reaped
      /\ child' = [child EXCEPT ![p] = how] /\ "client" \in Procs
    BY DriverProcs DEF Inv, LibraryInv, Exit
<1>2. ~reaped[p] /\ state[p] = "Executing"
    BY <1>1 DEF HandleInv, Collected, Tracked, Dead
<1>3. \A q \in Procs : StageOf(q)' = StageOf(q)
    BY <1>1 DEF StageOf, ProcTypeOK, Dead
<1>4. OutcomeOf = "none" /\ OutcomeOf' = OutcomeOf
    <2>1. phase # "done"
        BY <1>2 DEF Inv, DriverInv, Cleanup
    <2> QED BY <2>1 DEF Order, OutcomeOf, NoVerdict
<1>5. CASE p = "client"
    <2>1. StageOf("client") = "live" /\ LeadOf = "unknown"
        BY <1>1, <1>2, <1>5 DEF StageOf, LeadOf
    <2>2. LeadOf' \in {"right", "wrong"}
        BY <1>1, <1>5 DEF LeadOf, ProcTypeOK, Dead
    <2> QED BY <1>1, <1>3, <1>4, <2>1, <2>2 DEF Super!LeadEnds
<1>6. CASE p # "client"
    <2>1. LeadOf' = LeadOf
        BY <1>1, <1>6 DEF LeadOf, ProcTypeOK
    <2> QED BY <1>3, <1>4, <2>1 DEF Super!superVars
<1> QED BY <1>5, <1>6

LEMMA StepsAreSupervised ==
    ASSUME Inv, Order, Inv', [Next]_vars
    PROVE  [Super!Next]_Super!superVars
<1>1. /\ LibraryInv /\ ProcTypeOK /\ buf \in [Procs -> Seq(Lines)]
      /\ \A p \in Procs : HandleInv(p)
    BY DEF Inv, LibraryInv, DriverInv, DriverTypes
<1>2. ASSUME UNCHANGED <<child, reaped, verdict>>
      PROVE  [Super!Next]_Super!superVars
    BY <1>2, UnseenStutters DEF Unseen
<1>3. ASSUME NEW p, NEW l, TakeLine(p, l)
      PROVE  UNCHANGED <<child, reaped>>
    BY <1>1, <1>3, TakeLineTypes
<1>4. CASE SkipStart \/ NeverStarted \/ CallReportStatus \/ CallWaitForExit
           \/ CallDelete \/ Tick \/ ChildWrites \/ Terminated \/ UNCHANGED vars
    BY <1>2, <1>4
       DEF SkipStart, NeverStarted, NoLine, LineTimesOut, CallReportStatus,
           CallWaitForExit, CallDelete, FinishExit, Free, Tick, ClockTick,
           ChildWrites, Write, Terminated, vars, driverVars, procVars, osVars
<1>5. CASE StartFails
    BY <1>2, <1>5 DEF StartFails, ExecuteFails, osVars
<1>6. CASE AwaitedLine \/ PollClient \/ PollServer
    BY <1>2, <1>3, <1>6
       DEF AwaitedLine, PollClient, PollServer, NoLine, LineTimesOut, procVars,
           osVars
<1>7. CASE StartProcess
    <2>1. PICK p \in Procs : p = cur
        BY <1>7 DEF StartProcess
    <2> QED BY <1>7, <2>1, StartingLaunches DEF Super!Next
<1>8. CASE MainReturns
    BY <1>8, ReturningJudges DEF Super!Next
<1>9. CASE CallKill
    <2>1. verdict' = verdict /\ verdict = NoVerdict
        BY <1>9 DEF CallKill, Calling, Order
    <2>2. CASE UNCHANGED procVars
        BY <1>2, <2>1, <2>2 DEF procVars, osVars
    <2>3. ASSUME NEW p \in Procs, KillExecuting(p)
          PROVE  [Super!Next]_Super!superVars
        BY <1>1, <2>1, <2>3, StoppingIsSeen DEF KillExecuting, Super!Next
    <2> QED BY <1>9, <2>2, <2>3 DEF CallKill, Kill
<1>10. ASSUME NEW p \in Procs, Discard(p)
       PROVE  [Super!Next]_Super!superVars
    BY <1>2, <1>10 DEF Discard, ReadLines, driverVars
<1>11. ASSUME NEW p \in Procs, WaitForData(p)
       PROVE  [Super!Next]_Super!superVars
    <2>1. verdict' = verdict /\ verdict = NoVerdict
        BY <1>11 DEF WaitForData, Awaits, Calling, driverVars, Order
    <2>2. CASE Reap(p)
        BY <1>1, <2>1, <2>2, CollectingIsSeen
           DEF Reap, ProcTypeOK, Dead, Super!Next
    <2>3. CASE Expire(p)
        BY <1>1, <2>1, <2>3, StoppingIsSeen DEF Expire, Waitable, Super!Next
    <2> QED BY <1>11, <2>2, <2>3 DEF WaitForData
<1>12. CASE ChildEnds
    <2>1. verdict' = verdict
        BY <1>12 DEF ChildEnds, driverVars
    <2>2. ASSUME NEW p \in Procs, NEW how \in Dead, Exit(p, how)
          PROVE  [Super!Next]_Super!superVars
        BY <2>1, <2>2, EndingIsSeen DEF Super!Next
    <2>3. ASSUME NEW p \in Procs, DescendantEnds(p)
          PROVE  [Super!Next]_Super!superVars
        BY <1>2, <2>1, <2>3 DEF DescendantEnds
    <2> QED BY <1>12, <2>2, <2>3 DEF ChildEnds
<1> QED BY <1>4, <1>5, <1>6, <1>7, <1>8, <1>9, <1>10, <1>11, <1>12
        DEF Next, DriverStep

(* The driver implements Supervision: every process is launched at most    *)
(* once and the client after all the others, and the verdict is given when *)
(* all of them are collected, a pass only if the client was right.         *)
THEOREM DriverSupervises == Spec => Supervises
<1>1. Inv /\ OrderInv /\ (Inv /\ OrderInv)' /\ [Next]_vars =>
          [Super!Next]_Super!superVars
    BY StepsAreSupervised DEF OrderInv
<1> QED BY <1>1, SupervisionStarts, OrderInvHolds, PTL
        DEF Spec, Supervises, Super!Spec

=============================================================================
