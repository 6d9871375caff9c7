-------------------------- MODULE TestDriverProofs --------------------------
(***************************************************************************)
(* What holds of the test driver for any set of helper processes, any      *)
(* time-outs and flags, and children that do what they like: it leaves     *)
(* nothing running, and a test it passes has passed.                       *)
(***************************************************************************)
EXTENDS TestDriver, KwsysProcessProofs

-----------------------------------------------------------------------------
(* The library under the driver. *)

(* Every step of the driver is a step of the library or leaves it alone.   *)
LEMMA DriverUsesLibrary == [Next]_vars => [ProcNext]_procVars
<1> SUFFICES ASSUME [Next]_vars PROVE [ProcNext]_procVars
    OBVIOUS
<1>1. ASSUME NEW p \in Procs, CallStep(p)
      PROVE  [ProcNext]_procVars
    BY <1>1 DEF ProcNext
<1>2. ASSUME NEW p, NEW l, TakeLine(p, l)
      PROVE  [ProcNext]_procVars
    BY <1>1, <1>2 DEF TakeLine, CallStep
<1>3. CASE DriverStep
    <2>1. CASE SkipStart
        BY <2>1 DEF SkipStart
    <2>2. CASE StartProcess
        BY <1>1, <2>2 DEF StartProcess, CallStep
    <2>3. CASE StartFails
        BY <1>1, <2>3 DEF StartFails, CallStep
    <2>4. CASE AwaitedLine
        BY <1>2, <2>4 DEF AwaitedLine
    <2>5. CASE NeverStarted
        BY <2>5 DEF NeverStarted, NoLine, LineTimesOut
    <2>6. CASE PollClient
        BY <1>2, <2>6 DEF PollClient, NoLine, LineTimesOut
    <2>7. CASE PollServer
        BY <1>2, <2>7 DEF PollServer, NoLine, LineTimesOut
    <2>8. CASE CallWaitForExit
        BY <1>1, <2>8 DEF CallWaitForExit, CallStep
    <2>9. CASE CallKill
        BY <1>1, <2>9 DEF CallKill, Kill, CallStep
    <2>10. CASE CallDelete
        BY <1>1, <2>10 DEF CallDelete, CallStep
    <2>11. CASE CallReportStatus
        BY <2>11 DEF CallReportStatus
    <2>12. CASE MainReturns
        BY <2>12 DEF MainReturns
    <2>13. ASSUME NEW p \in Procs, Discard(p) \/ WaitForData(p)
           PROVE  [ProcNext]_procVars
        BY <1>1, <2>13 DEF Discard, WaitForData, CallStep
    <2> QED BY <1>3, <2>1, <2>2, <2>3, <2>4, <2>5, <2>6, <2>7, <2>8, <2>9,
               <2>10, <2>11, <2>12, <2>13 DEF DriverStep
<1>4. CASE Tick
    BY <1>4 DEF Tick, ProcNext
<1>5. CASE ChildWrites
    BY <1>5 DEF ChildWrites, ProcNext, ChildStep
<1>6. CASE ChildEnds
    BY <1>6 DEF ChildEnds, ProcNext, ChildStep
<1>7. CASE Terminated \/ UNCHANGED vars
    BY <1>7 DEF Terminated, vars
<1> QED BY <1>3, <1>4, <1>5, <1>6, <1>7 DEF Next

(* The library's invariant holds under the driver.                         *)
LEMMA LibraryInvHolds == Spec => []LibraryInv
<1>1. Init => LibraryInv
    BY LibraryStarts DEF Init
<1> QED BY <1>1, DriverUsesLibrary, LibraryKept, PTL DEF Spec

(* The driver is one of the callers ProcSpec allows: whatever it does to    *)
(* the library, and its children meanwhile, is a behaviour of the library,  *)
(* for any subset of processes, any time-outs and flags.                    *)
THEOREM DriverIsACaller == Spec => ProcSpec
<1>1. Init => ProcInit
    BY DEF Init
<1> QED BY <1>1, DriverUsesLibrary, PTL DEF Spec, ProcSpec

-----------------------------------------------------------------------------
(* The inductive invariant of the driver. *)

DriverTypes ==
    /\ phase \in {"start", "await", "pollClient", "pollServer", "end", "done"}
    /\ cur \in AllProcs
    /\ buf \in [Procs -> Seq(Lines)]
    /\ wait \in Waits
    /\ clientPipe \in BOOLEAN
    /\ mpiError \in BOOLEAN
    /\ plan \in Seq(Calls)
    /\ started \in BOOLEAN
    /\ clientResult \in {0, 1}
    /\ serverResult \in {0, 1}
    /\ verdict \in {-1, 0, 1, NoVerdict}
    /\ erred \in SUBSET Procs
    /\ elapsed \in 0..Horizon

Has(c, calls) == \E i \in 1..Len(calls) : calls[i] = c
Says(l, lines) == \E i \in 1..Len(lines) : lines[i] = l

DeleteOf(p) == Call("Delete", p, NoLimit)
ReportOf(p) == Call("ReportStatus", p, NoLimit)

\* Where Main can be, and what it has done by then.
Control ==
    /\ phase = "await" => cur \in Procs \ {"client"}
    /\ phase \in {"start", "await"} => ~started
    /\ phase \in {"pollClient", "pollServer"} =>
          started /\ state["client"] = "Executing"
    /\ ~started => state["client"] \in {"Starting", "Error", "Freed"}
    /\ phase \notin {"end", "done"} => clientResult = 1
    /\ phase = "done" => plan = << >>

\* Every handle is freed, or its Delete is still to come.
Cleanup ==
    /\ phase = "end" =>
          \A p \in Procs : state[p] = "Freed" \/ Has(DeleteOf(p), plan)
    /\ phase = "done" => \A p \in Procs : state[p] = "Freed"

\* p writes no more and its pipe is empty, unless it was stopped.
Silent(p) ==
    \/ pipe[p] = << >> /\ ~Writing(p)
    \/ killed[p] \/ expired[p]

\* Nothing of the client's output is left, unless it was stopped.
Spent == buf["client"] = << >> /\ Silent("client")

\* Main leaves its loop when the client's output is spent.
Drain ==
    /\ phase = "pollServer" /\ ~clientPipe => Spent
    /\ phase \in {"end", "done"} /\ started => Spent

\* An error string of the client is on its way, seen, or lost with the client.
Heard ==
    /\ ~started => "client" \notin erred
    /\ "client" \in erred /\ ~AllowErrorInOutput =>
          \/ mpiError
          \/ killed["client"] \/ expired["client"]
          \/ Says("error", buf["client"]) \/ Says("error", pipe["client"])

\* p ended by itself, with status 0, and that is final.
Well(p) ==
    /\ state[p] \in {"Exited", "Freed"}
    /\ child[p] = "exit0" /\ ~killed[p] /\ ~expired[p]

\* The results Main goes by are those of finished processes.
Results ==
    /\ clientResult = 0 => Well("client")
    /\ phase \in {"end", "done"} /\ started /\ "server" \in Procs =>
          Has(ReportOf("server"), plan) \/ (serverResult = 0 => Well("server"))

\* A pass is only given at the end, on these grounds.
Pass ==
    verdict = 0 =>
        /\ phase = "done" /\ started /\ clientResult = 0 /\ ~mpiError
        /\ serverResult = 0 \/ IgnoreServerResult

DriverInv ==
    DriverTypes /\ Control /\ Cleanup /\ Drain /\ Heard /\ Results /\ Pass

-----------------------------------------------------------------------------
(* Sequences of calls and of lines. *)

LEMMA HasInConcat ==
    ASSUME NEW c, NEW s \in Seq(Calls), NEW t \in Seq(Calls)
    PROVE  /\ s \o t \in Seq(Calls)
           /\ Has(c, s) \/ Has(c, t) => Has(c, s \o t)
<1>1. /\ s \o t \in Seq(Calls)
      /\ Len(s \o t) = Len(s) + Len(t) /\ Len(s) \in Nat /\ Len(t) \in Nat
      /\ \A i \in 1 .. Len(s) + Len(t) :
            (s \o t)[i] = IF i <= Len(s) THEN s[i] ELSE t[i - Len(s)]
    BY ConcatProperties
<1>2. ASSUME Has(c, s) PROVE Has(c, s \o t)
    <2>1. PICK i \in 1..Len(s) : s[i] = c
        BY <1>2 DEF Has
    <2>2. i \in 1..Len(s) + Len(t) /\ (s \o t)[i] = c
        BY <1>1, <2>1
    <2> QED BY <1>1, <2>2 DEF Has
<1>3. ASSUME Has(c, t) PROVE Has(c, s \o t)
    <2>1. PICK i \in 1..Len(t) : t[i] = c
        BY <1>3 DEF Has
    <2>2. /\ Len(s) + i \in 1..Len(s) + Len(t)
          /\ ~(Len(s) + i <= Len(s)) /\ (Len(s) + i) - Len(s) = i
        BY <1>1, <2>1
    <2>3. (s \o t)[Len(s) + i] = c
        BY <1>1, <2>1, <2>2
    <2> QED BY <1>1, <2>2, <2>3 DEF Has
<1> QED BY <1>1, <1>2, <1>3

\* The first call is made; every other one is still to come.
LEMMA HasInTail ==
    ASSUME NEW c, NEW s \in Seq(Calls), s # << >>
    PROVE  /\ Tail(s) \in Seq(Calls) /\ Head(s) \in Calls
           /\ Has(c, s) /\ Head(s) # c => Has(c, Tail(s))
<1>1. /\ Head(s) \in Calls /\ Head(s) = s[1]
      /\ Tail(s) \in Seq(Calls) /\ Len(s) \in Nat /\ Len(s) > 0
      /\ Len(Tail(s)) = Len(s) - 1
      /\ \A i \in 1 .. Len(Tail(s)) : Tail(s)[i] = s[i + 1]
    BY HeadTailProperties
<1>2. ASSUME Has(c, s), Head(s) # c PROVE Has(c, Tail(s))
    <2>1. PICK i \in 1..Len(s) : s[i] = c
        BY <1>2 DEF Has
    <2>2. i - 1 \in 1..Len(Tail(s)) /\ (i - 1) + 1 = i
        BY <1>1, <1>2, <2>1
    <2>3. Tail(s)[i - 1] = c
        BY <1>1, <2>1, <2>2
    <2> QED BY <2>2, <2>3 DEF Has
<1> QED BY <1>1, <1>2

LEMMA CallTypes ==
    ASSUME NEW p \in AllProcs,
           NEW name \in {"WaitForExit", "Kill", "Delete", "ReportStatus"},
           NEW limit \in {NoLimit, ExitWait}
    PROVE  Call(name, p, limit) \in Calls
BY DEF Call, Calls

LEMMA StopTypes == ASSUME NEW p \in AllProcs PROVE Stop(p) \in Seq(Calls)
<1>1. Call("Kill", p, NoLimit) \in Calls /\ Call("WaitForExit", p, NoLimit) \in Calls
    BY CallTypes
<1> QED BY <1>1 DEF Stop

\* CleanProcesses deletes every handle.
LEMMA CleanDeletes ==
    /\ CleanProcesses \in Seq(Calls)
    /\ \A p \in AllProcs : Has(DeleteOf(p), CleanProcesses)
<1>1. \A p \in AllProcs : DeleteOf(p) \in Calls
    BY CallTypes DEF DeleteOf
<1>2. CleanProcesses = <<DeleteOf("client"), DeleteOf("client_helper"),
                         DeleteOf("client_init"), DeleteOf("server")>>
    BY DEF CleanProcesses, DeleteOf
<1>3. CleanProcesses \in Seq(Calls)
    BY <1>1, <1>2 DEF AllProcs
<1>4. /\ Len(CleanProcesses) = 4
      /\ CleanProcesses[1] = DeleteOf("client")
      /\ CleanProcesses[2] = DeleteOf("client_helper")
      /\ CleanProcesses[3] = DeleteOf("client_init")
      /\ CleanProcesses[4] = DeleteOf("server")
    BY <1>2
<1>5. ASSUME NEW p \in AllProcs PROVE Has(DeleteOf(p), CleanProcesses)
    <2>1. PICK i \in 1..4 : CleanProcesses[i] = DeleteOf(p)
        BY <1>4 DEF AllProcs
    <2> QED BY <1>4, <2>1 DEF Has
<1> QED BY <1>3, <1>5

LEMMA ThenClean ==
    ASSUME NEW s \in Seq(Calls)
    PROVE  /\ s \o CleanProcesses \in Seq(Calls)
           /\ \A q \in AllProcs : Has(DeleteOf(q), s \o CleanProcesses)
<1>1. CleanProcesses \in Seq(Calls)
    BY CleanDeletes
<1>2. s \o CleanProcesses \in Seq(Calls)
    BY <1>1, HasInConcat
<1>3. ASSUME NEW q \in AllProcs
      PROVE  Has(DeleteOf(q), s \o CleanProcesses)
    <2>1. Has(DeleteOf(q), CleanProcesses)
        BY CleanDeletes
    <2> QED BY <1>1, <2>1, HasInConcat
<1> QED BY <1>2, <1>3

\* Every end of Main deletes every handle.
LEMMA AbandonDeletes ==
    ASSUME NEW p \in AllProcs
    PROVE  /\ Abandon(p) \in Seq(Calls)
           /\ \A q \in AllProcs : Has(DeleteOf(q), Abandon(p))
<1> DEFINE Kills(r) == <<Call("Kill", r, NoLimit)>>
<1>1. \A r \in AllProcs : Kills(r) \in Seq(Calls) /\ Stop(r) \in Seq(Calls)
    BY CallTypes, StopTypes
<1>2. {"server", "client_helper", "client_init", "client"} = AllProcs
    BY DEF AllProcs
<1> HIDE DEF Kills
<1>3. CASE p = "server"
    <2>1. Abandon(p) = Kills("server") \o CleanProcesses
        BY <1>3 DEF Abandon, Kills
    <2> QED BY <1>1, <1>2, <2>1, ThenClean
<1>4. CASE p = "client_helper"
    <2>1. Abandon(p) = (Kills("client_helper") \o Stop("server")) \o CleanProcesses
        BY <1>4 DEF Abandon, Kills
    <2>2. Kills("client_helper") \o Stop("server") \in Seq(Calls)
        BY <1>1, <1>2, HasInConcat
    <2> QED BY <2>1, <2>2, ThenClean
<1>5. CASE p = "client_init"
    <2>1. Abandon(p) = (Stop("server") \o Stop("client_helper")) \o CleanProcesses
        BY <1>5 DEF Abandon
    <2>2. Stop("server") \o Stop("client_helper") \in Seq(Calls)
        BY <1>1, <1>2, HasInConcat
    <2> QED BY <2>1, <2>2, ThenClean
<1>6. CASE p = "client"
    <2>1. Abandon(p) = (((Kills("client") \o Stop("server")) \o Stop("client_helper"))
                        \o Stop("client_init")) \o CleanProcesses
        BY <1>6 DEF Abandon, Kills
    <2>2. Kills("client") \o Stop("server") \in Seq(Calls)
        BY <1>1, <1>2, HasInConcat
    <2>3. (Kills("client") \o Stop("server")) \o Stop("client_helper") \in Seq(Calls)
        BY <1>1, <1>2, <2>2, HasInConcat
    <2>4. ((Kills("client") \o Stop("server")) \o Stop("client_helper"))
          \o Stop("client_init") \in Seq(Calls)
        BY <1>1, <1>2, <2>3, HasInConcat
    <2> QED BY <2>1, <2>4, ThenClean
<1> QED BY <1>2, <1>3, <1>4, <1>5, <1>6

LEMMA ConclusionReportsAndDeletes ==
    /\ Conclusion \in Seq(Calls)
    /\ \A q \in AllProcs : Has(DeleteOf(q), Conclusion)
    /\ Has(ReportOf("server"), Conclusion)
<1> DEFINE First == <<Call("WaitForExit", "client", NoLimit),
                      Call("WaitForExit", "server", ExitWait),
                      Call("WaitForExit", "client_helper", NoLimit),
                      Call("ReportStatus", "client", NoLimit),
                      Call("ReportStatus", "server", NoLimit),
                      Call("Kill", "server", NoLimit)>>
<1>1. /\ "client" \in AllProcs /\ "server" \in AllProcs
      /\ "client_helper" \in AllProcs
    BY DEF AllProcs
<1>2. First \in Seq(Calls)
    BY <1>1, CallTypes
<1>3. Len(First) = 6 /\ First[5] = ReportOf("server")
    BY DEF ReportOf
<1>4. Conclusion = First \o CleanProcesses
    BY DEF Conclusion
<1> HIDE DEF First
<1>5. Has(ReportOf("server"), First)
    BY <1>3 DEF Has
<1>6. Has(ReportOf("server"), Conclusion)
    BY <1>2, <1>4, <1>5, CleanDeletes, HasInConcat
<1> QED BY <1>2, <1>4, <1>6, ThenClean

LEMMA LimitTypes ==
    ASSUME NEW calls \in Seq(Calls)
    PROVE  Limit(calls) \in Waits
<1>1. CASE calls = << >>
    BY <1>1 DEF Limit, Waits
<1>2. CASE calls # << >>
    <2>1. Head(calls).within \in {NoLimit, ExitWait}
        BY <1>2, HasInTail DEF Calls
    <2> QED BY <1>2, <2>1, DriverWaits DEF Limit, Waits
<1> QED BY <1>1, <1>2

-----------------------------------------------------------------------------
(* Once Main is past its starts, nothing is executed any more. *)

LaterStep(p) ==
    \/ \E n \in 1..PipeCap : ReadLines(p, n)
    \/ Reap(p) \/ KillExecuting(p) \/ Expire(p) \/ FinishExit(p) \/ Free(p)

LaterNext == ChildStep \/ ClockTick \/ \E p \in Procs : LaterStep(p)

LEMMA NoLaterExecute ==
    ASSUME Next, phase # "start"
    PROVE  [LaterNext]_procVars
<1>1. ASSUME NEW p \in Procs, LaterStep(p)
      PROVE  [LaterNext]_procVars
    BY <1>1 DEF LaterNext
<1>2. ASSUME NEW p, NEW l, TakeLine(p, l)
      PROVE  [LaterNext]_procVars
    BY <1>1, <1>2 DEF TakeLine, LaterStep
<1>3. CASE DriverStep
    <2>1. CASE SkipStart \/ StartProcess \/ StartFails
        BY <2>1 DEF SkipStart, StartProcess, StartFails
    <2>2. CASE AwaitedLine
        BY <1>2, <2>2 DEF AwaitedLine
    <2>3. CASE NeverStarted
        BY <2>3 DEF NeverStarted, NoLine, LineTimesOut
    <2>4. CASE PollClient
        BY <1>2, <2>4 DEF PollClient, NoLine, LineTimesOut
    <2>5. CASE PollServer
        BY <1>2, <2>5 DEF PollServer, NoLine, LineTimesOut
    <2>6. CASE CallWaitForExit
        BY <1>1, <2>6 DEF CallWaitForExit, LaterStep
    <2>7. CASE CallKill
        BY <1>1, <2>7 DEF CallKill, Kill, LaterStep
    <2>8. CASE CallDelete
        BY <1>1, <2>8 DEF CallDelete, LaterStep
    <2>9. CASE CallReportStatus \/ MainReturns
        BY <2>9 DEF CallReportStatus, MainReturns
    <2>10. ASSUME NEW p \in Procs, Discard(p) \/ WaitForData(p)
           PROVE  [LaterNext]_procVars
        BY <1>1, <2>10 DEF Discard, WaitForData, LaterStep
    <2> QED BY <1>3, <2>1, <2>2, <2>3, <2>4, <2>5, <2>6, <2>7, <2>8, <2>9,
               <2>10 DEF DriverStep
<1>4. CASE Tick
    BY <1>4 DEF Tick, LaterNext
<1>5. CASE ChildWrites
    BY <1>5 DEF ChildWrites, LaterNext, ChildStep
<1>6. CASE ChildEnds
    BY <1>6 DEF ChildEnds, LaterNext, ChildStep
<1>7. CASE Terminated
    BY <1>7 DEF Terminated, vars
<1> QED BY <1>3, <1>4, <1>5, <1>6, <1>7 DEF Next

\* What such a step cannot undo, for one handle.
Stays(q) ==
    /\ state[q] = "Freed" => state'[q] = "Freed"
    /\ state[q] \in {"Starting", "Error", "Freed"} =>
          state'[q] \in {"Starting", "Error", "Freed"}
    /\ Well(q) => Well(q)'
    /\ Silent(q) => Silent(q)'
    /\ killed[q] \/ expired[q] => killed'[q] \/ expired'[q]

LEMMA SameStays ==
    ASSUME NEW q \in Procs,
           state'[q] = state[q], killed'[q] = killed[q], expired'[q] = expired[q],
           child'[q] = child[q], descendant'[q] = descendant[q],
           pipe'[q] = pipe[q]
    PROVE  Stays(q)
BY DEF Stays, Well, Silent, Writing

LEMMA LaterStays ==
    ASSUME LibraryInv, [LaterNext]_procVars, NEW q \in Procs
    PROVE  Stays(q)
<1> USE DEF LibraryInv
<1>0. HandleInv(q)
    OBVIOUS
<1>1. ASSUME NEW p \in Procs, LaterStep(p)
      PROVE  Stays(q)
    <2>1. CASE p # q
        BY <1>1, <2>1, SameStays
           DEF LaterStep, ReadLines, Reap, KillExecuting, Expire, Terminate,
               FinishExit, Free, handleVars, osVars, ProcTypeOK
    <2>2. CASE p = q
        <3>1. ASSUME NEW n \in 1..PipeCap, ReadLines(q, n)
              PROVE  Stays(q)
            <4>1. pipe[q] # << >>
                BY <3>1 DEF ReadLines, ProcTypeOK
            <4> QED BY <3>1, <4>1 DEF ReadLines, Waitable, handleVars, Stays,
                                      Well, Silent, Writing
        <3>2. CASE Reap(q)
            BY <3>2 DEF Reap, Stays, Well, Silent, Writing, Waitable
        <3>3. CASE KillExecuting(q)
            <4>1. state'[q] = "Executing" /\ killed'[q] /\ state[q] = "Executing"
                BY <3>3 DEF KillExecuting, Terminate, ProcTypeOK
            <4> QED BY <4>1 DEF Stays, Well, Silent
        <3>4. CASE Expire(q)
            <4>1. state'[q] = "Executing" /\ expired'[q] /\ state[q] = "Executing"
                BY <3>4 DEF Expire, Waitable, Terminate, ProcTypeOK
            <4> QED BY <4>1 DEF Stays, Well, Silent
        <3>5. CASE FinishExit(q)
            BY <3>5 DEF FinishExit, osVars, Stays, Well, Silent, Writing
        <3>6. CASE Free(q)
            BY <3>6 DEF Free, osVars, ProcTypeOK, Stays, Well, Silent, Writing
        <3> QED BY <1>1, <2>2, <3>1, <3>2, <3>3, <3>4, <3>5, <3>6 DEF LaterStep
    <2> QED BY <2>1, <2>2
<1>2. ASSUME NEW p \in Procs, NEW l \in Lines, Write(p, l)
      PROVE  Stays(q)
    BY <1>2 DEF Write, Waitable, handleVars, ProcTypeOK, Stays, Well, Silent,
                Writing
<1>3. ASSUME NEW p \in Procs, NEW how \in Dead, Exit(p, how)
      PROVE  Stays(q)
    <2>1. CASE p # q
        BY <1>3, <2>1, SameStays DEF Exit, handleVars, ProcTypeOK
    <2>2. CASE p = q
        BY <1>3, <2>2 DEF Exit, handleVars, ProcTypeOK, Stays, Well, Silent,
                          Writing
    <2> QED BY <2>1, <2>2
<1>4. ASSUME NEW p \in Procs, DescendantEnds(p)
      PROVE  Stays(q)
    BY <1>4 DEF DescendantEnds, handleVars, ProcTypeOK, Stays, Well, Silent,
                Writing
<1>5. CASE ClockTick
    BY <1>5, SameStays DEF ClockTick, osVars
<1>6. CASE UNCHANGED procVars
    BY <1>6, SameStays DEF procVars, handleVars, osVars
<1> QED BY <1>1, <1>2, <1>3, <1>4, <1>5, <1>6 DEF LaterNext, ChildStep

-----------------------------------------------------------------------------
(* Taking a line. *)

LEMMA TakeLineTypes ==
    ASSUME ProcTypeOK, buf \in [Procs -> Seq(Lines)],
           NEW p, NEW l, TakeLine(p, l)
    PROVE  /\ p \in Procs /\ l \in Lines
           /\ buf' \in [Procs -> Seq(Lines)]
           /\ \A q \in Procs : q # p => buf'[q] = buf[q] /\ pipe'[q] = pipe[q]
           /\ UNCHANGED <<handleVars, child, reaped, descendant>>
<1>1. p \in Procs
    BY DEF TakeLine
<1>2. CASE buf[p] # << >>
    <2>1. Head(buf[p]) \in Lines /\ Tail(buf[p]) \in Seq(Lines)
        BY <1>1, <1>2, HeadTailProperties
    <2> QED BY <1>1, <1>2, <2>1
            DEF TakeLine, procVars, osVars
<1>3. CASE buf[p] = << >>
    <2>1. PICK n \in 1..PipeCap :
              /\ ReadLines(p, n)
              /\ l = Head(pipe[p])
              /\ buf' = [buf EXCEPT ![p] = SubSeq(pipe[p], 2, n)]
        BY <1>3 DEF TakeLine
    <2>2. pipe[p] \in Seq(Lines) /\ n \in 1..Len(pipe[p])
        BY <1>1, <2>1 DEF ReadLines, ProcTypeOK
    <2>3. l \in Lines
        BY <2>1, <2>2, HeadTailProperties
    <2>4. \A i \in 2..n : pipe[p][i] \in Lines
        BY <2>2
    <2>5. SubSeq(pipe[p], 2, n) \in Seq(Lines)
        BY <2>2, <2>4, SubSeqProperties
    <2> QED BY <1>1, <2>1, <2>3, <2>5 DEF ReadLines, ProcTypeOK
<1> QED BY <1>2, <1>3

\* A line that p wrote is the one taken, or still comes after it.
LEMMA TakeLineLosesNone ==
    ASSUME ProcTypeOK, buf \in [Procs -> Seq(Lines)],
           NEW p, NEW l, TakeLine(p, l),
           NEW k, Says(k, buf[p]) \/ Says(k, pipe[p]), l # k
    PROVE  Says(k, buf'[p]) \/ Says(k, pipe'[p])
<1>1. p \in Procs
    BY DEF TakeLine
<1>2. CASE buf[p] # << >>
    <2>1. /\ l = buf[p][1] /\ buf'[p] = Tail(buf[p]) /\ pipe'[p] = pipe[p]
          /\ Len(buf[p]) \in Nat /\ Len(Tail(buf[p])) = Len(buf[p]) - 1
          /\ \A i \in 1 .. Len(Tail(buf[p])) : Tail(buf[p])[i] = buf[p][i + 1]
        BY <1>1, <1>2, HeadTailProperties DEF TakeLine, procVars, osVars
    <2>2. ASSUME Says(k, buf[p]) PROVE Says(k, buf'[p])
        <3>1. PICK i \in 1..Len(buf[p]) : buf[p][i] = k
            BY <2>2 DEF Says
        <3>2. i - 1 \in 1..Len(Tail(buf[p])) /\ (i - 1) + 1 = i
            BY <2>1, <3>1
        <3>3. buf'[p][i - 1] = k
            BY <2>1, <3>1, <3>2
        <3> QED BY <2>1, <3>2, <3>3 DEF Says
    <2> QED BY <2>1, <2>2
<1>3. CASE buf[p] = << >>
    <2>1. PICK n \in 1..PipeCap :
              /\ ReadLines(p, n)
              /\ l = Head(pipe[p])
              /\ buf' = [buf EXCEPT ![p] = SubSeq(pipe[p], 2, n)]
        BY <1>3 DEF TakeLine
    <2> DEFINE m == Len(pipe[p])
    <2>2. pipe[p] \in Seq(Lines) /\ n \in 1..m /\ m \in Nat /\ l = pipe[p][1]
        BY <1>1, <2>1 DEF ReadLines, ProcTypeOK
    <2>3. \A i \in 2..m : pipe[p][i] \in Lines
        BY <2>2
    <2>4. buf'[p] = SubSeq(pipe[p], 2, n) /\ pipe'[p] = SubSeq(pipe[p], n + 1, m)
        BY <1>1, <2>1 DEF ReadLines, ProcTypeOK
    <2>5. /\ Len(SubSeq(pipe[p], 2, n)) = n - 1
          /\ \A i \in 1 .. n - 1 : SubSeq(pipe[p], 2, n)[i] = pipe[p][i + 1]
        <3>1. \A i \in 2..n : pipe[p][i] \in Lines
            BY <2>2, <2>3
        <3>2. /\ Len(SubSeq(pipe[p], 2, n)) = IF 2 <= n THEN n - 2 + 1 ELSE 0
              /\ \A i \in 1 .. n - 2 + 1 :
                    SubSeq(pipe[p], 2, n)[i] = pipe[p][2 + i - 1]
            BY <2>2, <3>1, SubSeqProperties
        <3> QED BY <2>2, <3>2
    <2>6. /\ Len(SubSeq(pipe[p], n + 1, m)) = m - n
          /\ \A i \in 1 .. m - n : SubSeq(pipe[p], n + 1, m)[i] = pipe[p][i + n]
        <3>1. \A i \in n + 1 .. m : pipe[p][i] \in Lines
            BY <2>2, <2>3
        <3>2. /\ Len(SubSeq(pipe[p], n + 1, m))
                     = IF n + 1 <= m THEN m - (n + 1) + 1 ELSE 0
              /\ \A i \in 1 .. m - (n + 1) + 1 :
                    SubSeq(pipe[p], n + 1, m)[i] = pipe[p][n + 1 + i - 1]
            BY <2>2, <3>1, SubSeqProperties
        <3> QED BY <2>2, <3>2
    <2>7. PICK j \in 1..m : pipe[p][j] = k
        BY <1>3 DEF Says
    <2>8. j # 1
        BY <2>2, <2>7
    <2>9. CASE j <= n
        <3>1. j - 1 \in 1..n - 1 /\ (j - 1) + 1 = j
            BY <2>2, <2>7, <2>8, <2>9
        <3>2. buf'[p][j - 1] = k /\ j - 1 \in 1..Len(buf'[p])
            BY <2>4, <2>5, <2>7, <3>1
        <3> QED BY <3>2 DEF Says
    <2>10. CASE ~(j <= n)
        <3>1. j - n \in 1..m - n /\ (j - n) + n = j
            BY <2>2, <2>7, <2>10
        <3>2. pipe'[p][j - n] = k /\ j - n \in 1..Len(pipe'[p])
            BY <2>4, <2>6, <2>7, <3>1
        <3> QED BY <3>2 DEF Says
    <2> QED BY <2>9, <2>10
<1> QED BY <1>2, <1>3

-----------------------------------------------------------------------------
(* The invariant is kept, part by part. *)

Inv == LibraryInv /\ DriverInv

LEMMA WaitTypes ==
    /\ NoLimit \in Waits /\ StartWait \in Waits /\ PollWait \in Waits
    /\ ExitWait \in Waits /\ 0 \in Waits
    /\ \A w \in Waits : w # 0 /\ w # NoLimit => w - 1 \in Waits
BY DriverWaits DEF Waits, NoLimit

LEMMA EndWithTypes ==
    ASSUME NEW calls \in Seq(Calls), EndWith(calls)
    PROVE  phase' = "end" /\ plan' = calls /\ plan' \in Seq(Calls) /\ wait' \in Waits
BY LimitTypes DEF EndWith

LEMMA ReturnTypes ==
    ASSUME NEW name, Calling(name), plan \in Seq(Calls), Return
    PROVE  /\ plan' = Tail(plan) /\ plan' \in Seq(Calls) /\ wait' \in Waits
           /\ Head(plan) \in Calls
BY HasInTail, LimitTypes DEF Calling, Return

LEMMA DriverTypesKept == Inv /\ [Next]_vars => DriverTypes'
<1> SUFFICES ASSUME Inv, [Next]_vars PROVE DriverTypes'
    OBVIOUS
<1>1. DriverTypes /\ ProcTypeOK /\ Control
    BY DEF Inv, DriverInv, LibraryInv
<1> USE <1>1
<1>2. CASE SkipStart
    <2>1. cur # "client"
        BY <1>2, DriverProcs DEF SkipStart
    <2>2. cur' \in AllProcs
        BY <1>2, <2>1 DEF SkipStart, Following, AllProcs, DriverTypes
    <2> QED BY <1>2, <2>2 DEF SkipStart, DriverTypes, history
<1>3. CASE StartProcess
    <2>1. /\ phase' \in {"await", "pollClient"} /\ wait' \in Waits
          /\ started' \in BOOLEAN
        BY <1>3, WaitTypes DEF StartProcess, DriverTypes
    <2> QED BY <1>3, <2>1 DEF StartProcess, DriverTypes, history
<1>4. CASE StartFails
    <2>1. phase' = "end" /\ plan' \in Seq(Calls) /\ wait' \in Waits
        BY <1>4, EndWithTypes, AbandonDeletes DEF StartFails, DriverTypes
    <2> QED BY <1>4, <2>1 DEF StartFails, DriverTypes, history
<1>5. CASE AwaitedLine
    <2>1. buf' \in [Procs -> Seq(Lines)]
        BY <1>5, TakeLineTypes DEF AwaitedLine, DriverTypes
    <2>2. cur # "client"
        BY <1>5 DEF AwaitedLine, Control
    <2>3. cur' \in AllProcs /\ wait' \in Waits /\ phase' \in {"start", "await"}
        BY <1>5, <2>2, WaitTypes
           DEF AwaitedLine, Following, AllProcs, DriverTypes
    <2> QED BY <1>5, <2>1, <2>3 DEF AwaitedLine, DriverTypes, history
<1>6. CASE NeverStarted
    <2>1. phase' = "end" /\ plan' \in Seq(Calls) /\ wait' \in Waits
        BY <1>6, EndWithTypes, AbandonDeletes DEF NeverStarted, DriverTypes
    <2>2. buf' = buf
        BY <1>6 DEF NeverStarted, NoLine, LineTimesOut
    <2> QED BY <1>6, <2>1, <2>2 DEF NeverStarted, DriverTypes, history
<1>7. CASE PollClient
    <2>1. buf' \in [Procs -> Seq(Lines)]
        BY <1>7, TakeLineTypes DEF PollClient, NoLine, LineTimesOut, DriverTypes
    <2>2. clientPipe' \in BOOLEAN /\ mpiError' \in BOOLEAN
        BY <1>7 DEF PollClient, DriverTypes, HasError
    <2>3. wait' \in Waits
        BY <1>7, WaitTypes DEF PollClient
    <2> QED BY <1>7, <2>1, <2>2, <2>3 DEF PollClient, DriverTypes, history
<1>8. CASE PollServer
    <2>1. buf' \in [Procs -> Seq(Lines)]
        BY <1>8, TakeLineTypes DEF PollServer, NoLine, LineTimesOut, DriverTypes
    <2>2. mpiError' \in BOOLEAN
        BY <1>8 DEF PollServer, DriverTypes, HasError
    <2>3. /\ phase' \in {"pollClient", "end"} /\ plan' \in Seq(Calls)
          /\ wait' \in Waits
        BY <1>8, WaitTypes, EndWithTypes, ConclusionReportsAndDeletes
           DEF PollServer, DriverTypes
    <2> QED BY <1>8, <2>1, <2>2, <2>3 DEF PollServer, DriverTypes, history
<1>9. CASE CallWaitForExit
    BY <1>9, ReturnTypes DEF CallWaitForExit, DriverTypes, history
<1>10. CASE CallKill
    BY <1>10, ReturnTypes DEF CallKill, DriverTypes, history
<1>11. CASE CallDelete
    <2>1. plan' \in Seq(Calls) /\ wait' \in Waits
        BY <1>11, ReturnTypes DEF CallDelete, DriverTypes
    <2> QED BY <1>11, <2>1 DEF CallDelete, DriverTypes, history
<1>12. CASE CallReportStatus
    <2>1. clientResult' \in {0, 1} /\ serverResult' \in {0, 1}
        BY <1>12 DEF CallReportStatus, ReportStatus, DriverTypes
    <2>2. plan' \in Seq(Calls) /\ wait' \in Waits
        BY <1>12, ReturnTypes DEF CallReportStatus, DriverTypes
    <2> QED BY <1>12, <2>1, <2>2 DEF CallReportStatus, DriverTypes, history
<1>13. CASE MainReturns
    <2>1. verdict' \in {-1, 0, 1, NoVerdict}
        BY <1>13 DEF MainReturns, DriverTypes
    <2> QED BY <1>13, <2>1 DEF MainReturns, DriverTypes, history
<1>14. ASSUME NEW p \in Procs, Discard(p) \/ WaitForData(p)
       PROVE  DriverTypes'
    BY <1>14 DEF Discard, WaitForData, DriverTypes, driverVars, history
<1>15. CASE Tick
    <2>1. wait \in Waits /\ wait # 0
        BY <1>15 DEF Tick, DriverTypes
    <2>2. wait' \in Waits
        BY <1>15, <2>1, WaitTypes DEF Tick
    <2>3. elapsed' \in 0..Horizon
        BY <1>15, DriverWaits DEF Tick, DriverTypes
    <2> QED BY <1>15, <2>2, <2>3 DEF Tick, DriverTypes
<1>16. CASE ChildWrites
    BY <1>16 DEF ChildWrites, DriverTypes, driverVars
<1>17. CASE ChildEnds
    BY <1>17 DEF ChildEnds, DriverTypes, driverVars, history
<1>18. CASE Terminated \/ UNCHANGED vars
    BY <1>18 DEF Terminated, vars, DriverTypes, driverVars, history
<1> QED BY <1>2, <1>3, <1>4, <1>5, <1>6, <1>7, <1>8, <1>9, <1>10, <1>11,
           <1>12, <1>13, <1>14, <1>15, <1>16, <1>17, <1>18 DEF Next, DriverStep

\* The steps that leave Main where it is.
LEMMA InsideCalls ==
    ASSUME \/ \E p \in Procs : Discard(p) \/ WaitForData(p)
           \/ Tick \/ ChildWrites \/ ChildEnds
           \/ Terminated \/ UNCHANGED vars
    PROVE  /\ UNCHANGED <<phase, cur, buf, clientPipe, mpiError, plan, started,
                          clientResult, serverResult, verdict>>
           /\ state' = state
<1>1. ASSUME NEW p \in Procs, Discard(p)
      PROVE  state' = state /\ UNCHANGED driverVars
    BY <1>1 DEF Discard, ReadLines, handleVars
<1>2. ASSUME NEW p \in Procs, WaitForData(p)
      PROVE  state' = state /\ UNCHANGED driverVars
    BY <1>2 DEF WaitForData, Reap, Expire, Terminate
<1>3. CASE Tick
    BY <1>3 DEF Tick, ClockTick
<1>4. CASE ChildWrites
    BY <1>4 DEF ChildWrites, Write, driverVars, handleVars
<1>5. CASE ChildEnds
    BY <1>5 DEF ChildEnds, Exit, DescendantEnds, driverVars, handleVars
<1>6. CASE Terminated \/ UNCHANGED vars
    BY <1>6 DEF Terminated, vars, driverVars, procVars, handleVars
<1> QED BY <1>1, <1>2, <1>3, <1>4, <1>5, <1>6 DEF driverVars

LEMMA ControlKept == Inv /\ [Next]_vars => Control'
<1> SUFFICES ASSUME Inv, [Next]_vars PROVE Control'
    OBVIOUS
<1>1. DriverTypes /\ ProcTypeOK /\ Control /\ "client" \in Procs
    BY DriverProcs DEF Inv, DriverInv, LibraryInv
<1> DEFINE Idle == {"Starting", "Error", "Freed"}
<1>2. ASSUME Next, phase # "start", state["client"] \in Idle
      PROVE  state'["client"] \in Idle
    BY <1>1, <1>2, NoLaterExecute, LaterStays DEF Inv, Stays
<1>3. CASE SkipStart
    BY <1>1, <1>3 DEF SkipStart, Control, procVars, handleVars
<1>4. CASE StartProcess
    <2>1. CASE cur = "client"
        BY <1>1, <1>4, <2>1 DEF StartProcess, ExecuteOK, Control, ProcTypeOK
    <2>2. CASE cur # "client"
        BY <1>1, <1>4, <2>2 DEF StartProcess, ExecuteOK, Control, ProcTypeOK
    <2> QED BY <2>1, <2>2
<1>5. CASE StartFails
    BY <1>1, <1>5 DEF StartFails, ExecuteFails, EndWith, Control, ProcTypeOK
<1>6. CASE AwaitedLine
    <2>1. state' = state
        BY <1>1, <1>6, TakeLineTypes DEF AwaitedLine, DriverTypes, handleVars
    <2> QED BY <1>1, <1>6, <2>1 DEF AwaitedLine, Control
<1>7. CASE NeverStarted
    BY <1>1, <1>7 DEF NeverStarted, NoLine, LineTimesOut, EndWith, Control,
                      procVars, handleVars
<1>8. CASE PollClient
    <2>1. state' = state
        BY <1>1, <1>8, TakeLineTypes
           DEF PollClient, NoLine, LineTimesOut, DriverTypes, procVars, handleVars
    <2> QED BY <1>1, <1>8, <2>1 DEF PollClient, Control
<1>9. CASE PollServer
    <2>1. state' = state
        BY <1>1, <1>9, TakeLineTypes
           DEF PollServer, NoLine, LineTimesOut, DriverTypes, procVars, handleVars
    <2> QED BY <1>1, <1>9, <2>1 DEF PollServer, EndWith, Control
<1>10. CASE CallWaitForExit \/ CallKill \/ CallDelete \/ CallReportStatus
    <2>1. phase = "end" /\ phase' = "end" /\ started' = started
        BY <1>10 DEF CallWaitForExit, CallKill, CallDelete, CallReportStatus,
                     Calling
    <2>2. Next
        BY <1>10 DEF Next, DriverStep
    <2> QED BY <1>1, <1>2, <2>1, <2>2 DEF Control
<1>11. CASE MainReturns
    BY <1>1, <1>11 DEF MainReturns, Control, procVars, handleVars
<1>12. CASE \/ \E p \in Procs : Discard(p) \/ WaitForData(p)
            \/ Tick \/ ChildWrites \/ ChildEnds
            \/ Terminated \/ UNCHANGED vars
    BY <1>1, <1>12, InsideCalls DEF Control
<1> QED BY <1>3, <1>4, <1>5, <1>6, <1>7, <1>8, <1>9, <1>10, <1>11, <1>12
        DEF Next, DriverStep

LEMMA CleanupKept == Inv /\ [Next]_vars => Cleanup'
<1> SUFFICES ASSUME Inv, [Next]_vars PROVE Cleanup'
    OBVIOUS
<1>1. /\ DriverTypes /\ ProcTypeOK /\ Cleanup /\ LibraryInv /\ Control
      /\ Procs \subseteq AllProcs
    BY DriverProcs DEF Inv, DriverInv, LibraryInv
<1>2. ASSUME NEW calls \in Seq(Calls), EndWith(calls),
             \A q \in AllProcs : Has(DeleteOf(q), calls)
      PROVE  Cleanup'
    BY <1>1, <1>2 DEF EndWith, Cleanup
<1>3. CASE SkipStart \/ StartProcess \/ AwaitedLine \/ PollClient
    BY <1>3 DEF SkipStart, StartProcess, AwaitedLine, PollClient, Cleanup
<1>4. CASE StartFails \/ NeverStarted
    BY <1>1, <1>2, <1>4, AbandonDeletes DEF StartFails, NeverStarted, DriverTypes
<1>5. CASE PollServer
    <2>1. CASE clientPipe
        BY <1>5, <2>1 DEF PollServer, Cleanup
    <2>2. CASE ~clientPipe
        BY <1>2, <1>5, <2>2, ConclusionReportsAndDeletes DEF PollServer
    <2> QED BY <2>1, <2>2
<1>6. CASE CallWaitForExit \/ CallKill \/ CallReportStatus
    <2>1. /\ phase = "end" /\ phase' = "end" /\ plan # << >>
          /\ Head(plan).name # "Delete" /\ plan' = Tail(plan) /\ Next
        BY <1>6 DEF CallWaitForExit, CallKill, CallReportStatus, Calling, Return,
                    Next, DriverStep
    <2>2. ASSUME NEW q \in Procs
          PROVE  state'[q] = "Freed" \/ Has(DeleteOf(q), plan')
        <3>1. CASE state[q] = "Freed"
            BY <1>1, <2>1, <3>1, NoLaterExecute, LaterStays DEF Stays
        <3>2. CASE Has(DeleteOf(q), plan)
            <4>1. Head(plan) # DeleteOf(q)
                BY <2>1 DEF DeleteOf, Call
            <4> QED BY <1>1, <2>1, <3>2, <4>1, HasInTail DEF DriverTypes
        <3> QED BY <1>1, <2>1, <3>1, <3>2 DEF Cleanup
    <2> QED BY <2>1, <2>2 DEF Cleanup
<1>7. CASE CallDelete
    <2>1. phase = "end" /\ phase' = "end" /\ plan # << >> /\ Next
        BY <1>7 DEF CallDelete, Calling, Next, DriverStep
    <2>2. ASSUME NEW q \in Procs
          PROVE  state'[q] = "Freed" \/ Has(DeleteOf(q), plan')
        <3>1. CASE state[q] = "Freed"
            BY <1>1, <2>1, <3>1, NoLaterExecute, LaterStays DEF Stays
        <3>2. CASE Has(DeleteOf(q), plan) /\ Head(plan).of # q
            <4>1. Head(plan) # DeleteOf(q)
                BY <3>2 DEF DeleteOf, Call
            <4>2. plan' = plan \/ plan' = Tail(plan)
                BY <1>7 DEF CallDelete, Return
            <4> QED BY <1>1, <2>1, <3>2, <4>1, <4>2, HasInTail DEF DriverTypes
        <3>3. CASE Has(DeleteOf(q), plan) /\ Head(plan).of = q
            <4>1. Free(q) \/ plan' = plan
                BY <1>7, <3>3 DEF CallDelete
            <4>2. CASE Free(q)
                BY <1>1, <4>2 DEF Free, ProcTypeOK
            <4> QED BY <3>3, <4>1, <4>2
        <3> QED BY <1>1, <2>1, <3>1, <3>2, <3>3 DEF Cleanup
    <2> QED BY <2>1, <2>2 DEF Cleanup
<1>8. CASE MainReturns
    <2>1. phase = "end" /\ plan = << >> /\ phase' = "done" /\ state' = state
        BY <1>8 DEF MainReturns, procVars, handleVars
    <2>2. \A q \in Procs : ~Has(DeleteOf(q), plan)
        BY <2>1 DEF Has
    <2> QED BY <1>1, <2>1, <2>2 DEF Cleanup
<1>9. CASE \/ \E p \in Procs : Discard(p) \/ WaitForData(p)
           \/ Tick \/ ChildWrites \/ ChildEnds
           \/ Terminated \/ UNCHANGED vars
    BY <1>1, <1>9, InsideCalls DEF Cleanup
<1> QED BY <1>3, <1>4, <1>5, <1>6, <1>7, <1>8, <1>9 DEF Next, DriverStep

LEMMA DrainKept == Inv /\ [Next]_vars => Drain'
<1> SUFFICES ASSUME Inv, [Next]_vars PROVE Drain'
    OBVIOUS
<1>1. /\ DriverTypes /\ ProcTypeOK /\ Drain /\ LibraryInv /\ Control
      /\ "client" \in Procs
    BY DriverProcs DEF Inv, DriverInv, LibraryInv
<1>2. ASSUME Next, phase # "start", buf'["client"] = buf["client"], Spent
      PROVE  Spent'
    BY <1>1, <1>2, NoLaterExecute, LaterStays DEF Stays, Spent
<1>3. CASE SkipStart \/ StartProcess \/ AwaitedLine
    BY <1>3 DEF SkipStart, StartProcess, AwaitedLine, Drain
<1>4. CASE StartFails \/ NeverStarted
    BY <1>1, <1>4 DEF StartFails, NeverStarted, EndWith, Drain, Control
<1>5. CASE PollClient
    <2>1. CASE clientPipe'
        BY <1>5, <2>1 DEF PollClient, Drain
    <2>2. CASE ~clientPipe'
        <3>1. NoLine("client") /\ state["client"] = "Executing"
            BY <1>1, <1>5, <2>2 DEF PollClient, Control
        <3>2. Spent
            BY <1>1, <3>1 DEF NoLine, NoMoreData, Waitable, Eof, Spent, Silent
        <3>3. Next /\ phase # "start" /\ buf' = buf
            BY <1>5, <3>1 DEF PollClient, NoLine, Next, DriverStep
        <3> QED BY <1>2, <1>5, <3>2, <3>3 DEF PollClient, Drain
    <2> QED BY <2>1, <2>2
<1>6. CASE PollServer
    <2>1. CASE clientPipe
        BY <1>6, <2>1 DEF PollServer, Drain
    <2>2. CASE ~clientPipe
        <3>1. Spent
            BY <1>1, <1>6, <2>2 DEF PollServer, Drain
        <3>2. buf'["client"] = buf["client"]
            BY <1>1, <1>6, TakeLineTypes
               DEF PollServer, NoLine, LineTimesOut, DriverTypes
        <3>3. Next /\ phase # "start"
            BY <1>6 DEF PollServer, Next, DriverStep
        <3> QED BY <1>2, <1>6, <2>2, <3>1, <3>2, <3>3
                DEF PollServer, EndWith, Drain
    <2> QED BY <2>1, <2>2
<1>7. CASE CallWaitForExit \/ CallKill \/ CallDelete \/ CallReportStatus
           \/ MainReturns
    <2>1. /\ phase = "end" /\ phase' \in {"end", "done"} /\ started' = started
          /\ buf' = buf /\ Next
        BY <1>7 DEF CallWaitForExit, CallKill, CallDelete, CallReportStatus,
                    MainReturns, Calling, Next, DriverStep
    <2> QED BY <1>1, <1>2, <2>1 DEF Drain
<1>8. CASE \/ \E p \in Procs : Discard(p) \/ WaitForData(p)
           \/ Tick \/ ChildWrites \/ ChildEnds
           \/ Terminated
    <2>1. UNCHANGED <<phase, buf, clientPipe, started>> /\ Next
        BY <1>8, InsideCalls DEF Next, DriverStep
    <2> QED BY <1>1, <1>2, <2>1 DEF Drain
<1>9. CASE UNCHANGED vars
    BY <1>1, <1>9 DEF vars, driverVars, procVars, handleVars, osVars, Drain,
                      Spent, Silent, Writing
<1> QED BY <1>3, <1>4, <1>5, <1>6, <1>7, <1>8, <1>9 DEF Next, DriverStep

LEMMA ResultsKept == Inv /\ [Next]_vars => Results'
<1> SUFFICES ASSUME Inv, [Next]_vars PROVE Results'
    OBVIOUS
<1>1. /\ DriverTypes /\ ProcTypeOK /\ Results /\ LibraryInv /\ Control
      /\ "client" \in Procs
    BY DriverProcs DEF Inv, DriverInv, LibraryInv
<1>2. ASSUME NEW q \in Procs, Next, phase # "start", Well(q)
      PROVE  Well(q)'
    BY <1>1, <1>2, NoLaterExecute, LaterStays DEF Stays
<1>3. ASSUME NEW q \in Procs, ReportStatus(q) = 0
      PROVE  Well(q)
    <2>1. HandleInv(q)
        BY <1>1 DEF LibraryInv
    <2> QED BY <1>3, <2>1 DEF ReportStatus, Well, HandleInv, Drained
<1>4. CASE SkipStart \/ StartProcess \/ AwaitedLine \/ PollClient
    BY <1>1, <1>4 DEF SkipStart, StartProcess, AwaitedLine, PollClient, Control,
                      Results
<1>5. CASE StartFails \/ NeverStarted
    BY <1>1, <1>5 DEF StartFails, NeverStarted, EndWith, Control, Results
<1>6. CASE PollServer
    BY <1>1, <1>6, ConclusionReportsAndDeletes
       DEF PollServer, EndWith, Control, Results
<1>7. CASE CallWaitForExit \/ CallKill \/ CallDelete \/ MainReturns
    <2>1. /\ phase = "end" /\ Next
          /\ UNCHANGED <<started, clientResult, serverResult>>
        BY <1>7 DEF CallWaitForExit, CallKill, CallDelete, MainReturns, Calling,
                    Next, DriverStep
    <2>2. clientResult' = 0 => Well("client")'
        BY <1>1, <1>2, <2>1 DEF Results
    <2>3. Has(ReportOf("server"), plan) => Has(ReportOf("server"), plan')
        <3>1. CASE plan' = plan
            BY <3>1
        <3>2. CASE plan # << >> /\ plan' = Tail(plan)
            <4>1. Head(plan).name # "ReportStatus"
                BY <1>7, <3>2 DEF CallWaitForExit, CallKill, CallDelete,
                                  MainReturns, Calling
            <4>2. Head(plan) # ReportOf("server")
                BY <4>1 DEF ReportOf, Call
            <4> QED BY <1>1, <3>2, <4>2, HasInTail DEF DriverTypes
        <3> QED BY <1>7, <3>1, <3>2 DEF CallWaitForExit, CallKill, CallDelete,
                                  MainReturns, Calling, Return
    <2> QED BY <1>1, <1>2, <2>1, <2>2, <2>3 DEF Results
<1>8. CASE CallReportStatus
    <2>1. /\ phase = "end" /\ phase' = "end" /\ plan # << >>
          /\ plan' = Tail(plan) /\ started' = started
          /\ UNCHANGED <<state, killed, expired, child>>
        BY <1>8 DEF CallReportStatus, Calling, Return, procVars, handleVars, osVars
    <2>2. \A q \in Procs : Well(q) => Well(q)'
        BY <2>1 DEF Well
    <2>3. clientResult' = 0 => Well("client")'
        <3>1. clientResult' = 0 => clientResult = 0 \/ ReportStatus("client") = 0
            BY <1>8 DEF CallReportStatus
        <3> QED BY <1>1, <1>3, <2>2, <3>1 DEF Results
    <2>4. CASE Head(plan) = ReportOf("server") /\ "server" \in Procs
        <3>1. serverResult' = ReportStatus("server")
            BY <1>8, <2>4 DEF CallReportStatus, ReportOf, Call
        <3> QED BY <1>3, <2>2, <2>3, <2>4, <3>1 DEF Results
    <2>5. CASE Head(plan) # ReportOf("server") /\ "server" \in Procs
        <3>1. Has(ReportOf("server"), plan) => Has(ReportOf("server"), plan')
            BY <1>1, <2>1, <2>5, HasInTail DEF DriverTypes
        <3>2. serverResult' = 0 => serverResult = 0 \/ ReportStatus("server") = 0
            BY <1>8 DEF CallReportStatus
        <3> QED BY <1>1, <1>3, <2>1, <2>2, <2>3, <2>5, <3>1, <3>2 DEF Results
    <2> QED BY <2>3, <2>4, <2>5 DEF Results
<1>9. CASE \/ \E p \in Procs : Discard(p) \/ WaitForData(p)
           \/ Tick \/ ChildWrites \/ ChildEnds
           \/ Terminated
    <2>1. UNCHANGED <<phase, plan, started, clientResult, serverResult>> /\ Next
        BY <1>9, InsideCalls DEF Next, DriverStep
    <2>2. CASE phase \in {"end", "done"}
        BY <1>1, <1>2, <2>1, <2>2 DEF Results
    <2>3. CASE phase \notin {"end", "done"}
        BY <1>1, <2>1, <2>3 DEF Control, Results
    <2> QED BY <2>2, <2>3
<1>10. CASE UNCHANGED vars
    BY <1>1, <1>10 DEF vars, driverVars, procVars, handleVars, osVars, Results,
                       Well
<1> QED BY <1>4, <1>5, <1>6, <1>7, <1>8, <1>9, <1>10 DEF Next, DriverStep

LEMMA PassKept == Inv /\ [Next]_vars => Pass'
<1> SUFFICES ASSUME Inv, [Next]_vars PROVE Pass'
    OBVIOUS
<1>1. Pass /\ DriverTypes
    BY DEF Inv, DriverInv
<1>2. CASE SkipStart \/ StartProcess \/ StartFails \/ AwaitedLine
           \/ NeverStarted \/ PollClient \/ PollServer \/ CallWaitForExit
           \/ CallKill \/ CallDelete \/ CallReportStatus
    <2>1. phase # "done" /\ verdict' = verdict
        BY <1>2 DEF SkipStart, StartProcess, StartFails, AwaitedLine,
                    NeverStarted, PollClient, PollServer, CallWaitForExit,
                    CallKill, CallDelete, CallReportStatus, Calling
    <2> QED BY <1>1, <2>1 DEF Pass
<1>3. CASE MainReturns
    BY <1>1, <1>3 DEF MainReturns, Pass, DriverTypes
<1>4. CASE \/ \E p \in Procs : Discard(p) \/ WaitForData(p)
           \/ Tick \/ ChildWrites \/ ChildEnds
           \/ Terminated \/ UNCHANGED vars
    BY <1>1, <1>4, InsideCalls DEF Pass
<1> QED BY <1>2, <1>3, <1>4 DEF Next, DriverStep

LEMMA HeardKept == Inv /\ [Next]_vars => Heard'
<1> SUFFICES ASSUME Inv, [Next]_vars PROVE Heard'
    OBVIOUS
<1>1. /\ DriverTypes /\ ProcTypeOK /\ Heard /\ Control /\ Drain
      /\ "client" \in Procs
    BY DriverProcs DEF Inv, DriverInv, LibraryInv
<1>2. ASSUME erred' = erred, started' = started, mpiError => mpiError',
             killed["client"] \/ expired["client"] =>
                 killed'["client"] \/ expired'["client"],
             \/ killed'["client"] \/ expired'["client"]
             \/ /\ buf'["client"] = buf["client"]
                /\ pipe'["client"] = pipe["client"]
      PROVE  Heard'
    BY <1>1, <1>2 DEF Heard
<1>3. CASE SkipStart
    BY <1>2, <1>3 DEF SkipStart, procVars, handleVars, osVars, history
<1>4. CASE StartProcess
    <2>1. CASE cur = "client"
        <3>1. "client" \notin erred'
            BY <1>1, <1>4 DEF StartProcess, Control, Heard, history
        <3> QED BY <3>1 DEF Heard
    <2>2. CASE cur # "client"
        BY <1>1, <1>2, <1>4, <2>2 DEF StartProcess, ExecuteOK, ProcTypeOK, history
    <2> QED BY <2>1, <2>2
<1>5. CASE StartFails
    <2>1. CASE cur = "client"
        <3>1. "client" \notin erred'
            BY <1>1, <1>5 DEF StartFails, Control, Heard, history
        <3> QED BY <3>1 DEF Heard
    <2>2. CASE cur # "client"
        BY <1>1, <1>2, <1>5, <2>2
           DEF StartFails, ExecuteFails, osVars, ProcTypeOK, history
    <2> QED BY <2>1, <2>2
<1>6. CASE AwaitedLine
    BY <1>1, <1>2, <1>6, TakeLineTypes
       DEF AwaitedLine, Control, DriverTypes, handleVars, history
<1>7. CASE NeverStarted
    BY <1>2, <1>7 DEF NeverStarted, NoLine, LineTimesOut, procVars, handleVars,
                      osVars, history
<1>8. CASE PollClient
    <2>1. CASE NoLine("client") \/ LineTimesOut("client")
        <3>1. mpiError' = mpiError \/ mpiError'
            BY <1>1, <1>8 DEF PollClient, DriverTypes
        <3>2. mpiError => mpiError'
            BY <1>8 DEF PollClient
        <3> QED BY <1>2, <1>8, <2>1, <3>2
                DEF PollClient, NoLine, LineTimesOut, procVars, handleVars,
                    osVars, history
    <2>2. ASSUME NEW l \in Lines, TakeLine("client", l),
                 mpiError' = (mpiError \/ HasError(l))
          PROVE  Heard'
        <3>1. UNCHANGED <<erred, started, killed, expired>>
            BY <1>1, <1>8, <2>2, TakeLineTypes
               DEF PollClient, DriverTypes, handleVars, history
        <3>2. ASSUME "client" \in erred, ~AllowErrorInOutput,
                     ~mpiError', ~killed["client"], ~expired["client"]
              PROVE  Says("error", buf'["client"]) \/ Says("error", pipe'["client"])
            <4>1. Says("error", buf["client"]) \/ Says("error", pipe["client"])
                BY <1>1, <2>2, <3>2 DEF Heard
            <4>2. l # "error"
                BY <2>2, <3>2 DEF HasError
            <4> QED BY <1>1, <2>2, <4>1, <4>2, TakeLineLosesNone DEF DriverTypes
        <3> QED BY <1>1, <3>1, <3>2 DEF Heard
    <2> QED BY <1>8, <2>1, <2>2 DEF PollClient
<1>9. CASE PollServer
    <2>1. /\ buf'["client"] = buf["client"] /\ pipe'["client"] = pipe["client"]
          /\ UNCHANGED <<killed, expired>>
        BY <1>1, <1>9, TakeLineTypes
           DEF PollServer, NoLine, LineTimesOut, DriverTypes, procVars,
               handleVars, osVars
    <2>2. mpiError => mpiError'
        BY <1>9 DEF PollServer
    <2> QED BY <1>2, <1>9, <2>1, <2>2 DEF PollServer, history
<1>10. CASE CallWaitForExit \/ CallReportStatus \/ MainReturns
    <2>1. UNCHANGED <<erred, started, mpiError, buf, killed, expired, pipe>>
        BY <1>10 DEF CallWaitForExit, CallReportStatus, MainReturns, FinishExit,
                     procVars, handleVars, osVars, history
    <2> QED BY <1>2, <2>1
<1>11. CASE CallDelete
    <2>1. UNCHANGED <<erred, started, mpiError, buf, killed, expired, pipe>>
        BY <1>11 DEF CallDelete, FinishExit, Free, procVars, handleVars, osVars,
                     history
    <2> QED BY <1>2, <2>1
<1>12. CASE CallKill
    <2>1. UNCHANGED <<erred, started, mpiError, buf>>
        BY <1>12 DEF CallKill, history
    <2>2. CASE UNCHANGED procVars
        BY <1>2, <2>1, <2>2 DEF procVars, handleVars, osVars
    <2>3. ASSUME NEW p \in Procs, KillExecuting(p)
          PROVE  Heard'
        BY <1>1, <1>2, <2>1, <2>3 DEF KillExecuting, Terminate, ProcTypeOK
    <2> QED BY <1>12, <2>2, <2>3 DEF CallKill, Kill
<1>13. ASSUME NEW p \in Procs, Discard(p)
       PROVE  Heard'
    <2>1. PICK n \in 1..PipeCap : ReadLines(p, n)
        BY <1>13 DEF Discard
    <2>2. p # "client"
        <3>1. SUFFICES ASSUME p = "client" PROVE FALSE
            OBVIOUS
        <3>2. /\ Waitable("client") /\ n \in 1..Len(pipe["client"])
              /\ phase = "end"
            BY <1>13, <2>1, <3>1 DEF ReadLines, Discard
        <3>3. started
            BY <1>1, <3>2 DEF Waitable, Control, DriverTypes
        <3>4. pipe["client"] = << >>
            BY <1>1, <3>2, <3>3 DEF Drain, Spent, Silent, Waitable
        <3> QED BY <3>2, <3>4
    <2> QED BY <1>1, <1>2, <1>13, <2>1, <2>2
            DEF Discard, ReadLines, handleVars, driverVars, history, ProcTypeOK
<1>14. ASSUME NEW p \in Procs, WaitForData(p)
       PROVE  Heard'
    <2>1. UNCHANGED <<erred, started, mpiError, buf>>
        BY <1>14 DEF WaitForData, driverVars, history
    <2>2. CASE Reap(p)
        BY <1>2, <2>1, <2>2 DEF Reap
    <2>3. CASE Expire(p)
        BY <1>1, <1>2, <2>1, <2>3 DEF Expire, Terminate, ProcTypeOK
    <2> QED BY <1>14, <2>2, <2>3 DEF WaitForData
<1>15. CASE Tick
    BY <1>2, <1>15 DEF Tick, ClockTick, osVars
<1>16. CASE ChildWrites
    <2>1. PICK p \in Procs, l \in Lines :
              /\ Write(p, l)
              /\ erred' = IF l = "error" THEN erred \cup {p} ELSE erred
        BY <1>16 DEF ChildWrites
    <2>2. UNCHANGED <<started, mpiError, buf, killed, expired>>
        BY <1>16, <2>1 DEF ChildWrites, Write, driverVars, handleVars
    <2>3. CASE p # "client"
        BY <1>1, <2>1, <2>2, <2>3 DEF Write, ProcTypeOK, Heard
    <2>4. CASE p = "client"
        <3>1. started
            BY <1>1, <2>1, <2>4 DEF Write, Waitable, Control, DriverTypes
        <3>2. /\ pipe["client"] \in Seq(Lines)
              /\ pipe'["client"] = Append(pipe["client"], l)
            BY <1>1, <2>1, <2>4 DEF Write, ProcTypeOK
        <3>3. /\ Len(pipe["client"]) \in Nat
              /\ Len(pipe'["client"]) = Len(pipe["client"]) + 1
              /\ pipe'["client"][Len(pipe["client"]) + 1] = l
              /\ \A i \in 1..Len(pipe["client"]) :
                     pipe'["client"][i] = pipe["client"][i]
            BY <3>2, AppendProperties
        <3>4. l = "error" => Says("error", pipe'["client"])
            BY <3>3 DEF Says
        <3>5. Says("error", pipe["client"]) => Says("error", pipe'["client"])
            BY <3>3 DEF Says
        <3> QED BY <1>1, <2>1, <2>2, <2>4, <3>1, <3>4, <3>5 DEF Heard
    <2> QED BY <2>3, <2>4
<1>17. CASE ChildEnds
    BY <1>2, <1>17 DEF ChildEnds, Exit, DescendantEnds, driverVars, handleVars,
                       history
<1>18. CASE Terminated \/ UNCHANGED vars
    BY <1>2, <1>18 DEF Terminated, vars, driverVars, procVars, handleVars,
                       osVars, history
<1> QED BY <1>3, <1>4, <1>5, <1>6, <1>7, <1>8, <1>9, <1>10, <1>11, <1>12,
           <1>13, <1>14, <1>15, <1>16, <1>17, <1>18 DEF Next, DriverStep

-----------------------------------------------------------------------------
(* The driver starts in the invariant and never leaves it. *)

LEMMA DriverStarts == Init => Inv
<1> SUFFICES ASSUME Init PROVE Inv
    OBVIOUS
<1>1. LibraryInv
    BY LibraryStarts DEF Init
<1>2. "client" \in Procs /\ Procs \subseteq AllProcs
    BY DriverProcs
<1>3. DriverTypes
    <2>1. buf \in [Procs -> Seq(Lines)] /\ plan \in Seq(Calls)
        BY DEF Init
    <2>2. wait \in Waits /\ elapsed \in 0..Horizon
        BY WaitTypes, DriverWaits DEF Init
    <2> QED BY <2>1, <2>2 DEF Init, DriverTypes, AllProcs
<1>4. Control /\ Cleanup /\ Drain /\ Heard /\ Results
    BY <1>2 DEF Init, ProcInit, Control, Cleanup, Drain, Heard, Results
<1>5. Pass
    BY DEF Init, Pass, NoVerdict
<1> QED BY <1>1, <1>3, <1>4, <1>5 DEF Inv, DriverInv

LEMMA InvKept == Inv /\ [Next]_vars => Inv'
<1> SUFFICES ASSUME Inv, [Next]_vars PROVE Inv'
    OBVIOUS
<1>1. LibraryInv'
    BY DriverUsesLibrary, LibraryKept DEF Inv
<1>2. DriverTypes' /\ Control' /\ Cleanup' /\ Drain'
    BY DriverTypesKept, ControlKept, CleanupKept, DrainKept
<1>3. Heard' /\ Results' /\ Pass'
    BY HeardKept, ResultsKept, PassKept
<1> QED BY <1>1, <1>2, <1>3 DEF Inv, DriverInv

LEMMA InvHolds == Spec => []Inv
BY DriverStarts, InvKept, PTL DEF Spec

-----------------------------------------------------------------------------

(* The variables of the driver and of the library keep their types.        *)
THEOREM DriverTypeCorrect == Spec => []TypeOK
<1>1. Inv => TypeOK
    BY DEF Inv, LibraryInv, DriverInv, DriverTypes, TypeOK
<1> QED BY <1>1, InvHolds, PTL

(* Whatever the helpers, the time-outs and the children, and by whichever  *)
(* path Main returns, no child is left behind running or as a zombie.      *)
THEOREM DriverLeavesNothingRunning == Spec => []NothingLeftRunning
<1>1. Inv => NothingLeftRunning
    <2> SUFFICES ASSUME Inv, phase = "done", NEW p \in Procs, child[p] # "none"
                 PROVE  child[p] \in Dead /\ reaped[p]
        BY DEF NothingLeftRunning
    <2>1. state[p] = "Freed"
        BY DEF Inv, DriverInv, Cleanup
    <2>2. HandleInv(p)
        BY DEF Inv, LibraryInv
    <2> QED BY <2>1, <2>2 DEF HandleInv, Tracked, Collected
<1> QED BY <1>1, InvHolds, PTL

(* A test the driver passes has passed: its client ended by itself with    *)
(* status 0 and wrote no error string, and so did end its server, if that  *)
(* counts (H5VLTestDriver::Main).                                          *)
THEOREM PassedTestsPassed == Spec => []VerdictSound
<1>1. Inv => VerdictSound
    <2> SUFFICES ASSUME Inv, phase = "done", verdict = 0
                 PROVE  /\ Well("client")
                        /\ ~AllowErrorInOutput => "client" \notin erred
                        /\ "server" \in Procs /\ ~IgnoreServerResult =>
                               Well("server")
        BY DEF VerdictSound, Well
    <2>1. /\ started /\ clientResult = 0 /\ ~mpiError
          /\ serverResult = 0 \/ IgnoreServerResult
        BY DEF Inv, DriverInv, Pass
    <2>2. Well("client")
        BY <2>1 DEF Inv, DriverInv, Results
    <2>3. buf["client"] = << >> /\ pipe["client"] = << >>
        BY <2>1, <2>2 DEF Inv, DriverInv, Drain, Spent, Silent, Well
    <2>4. ~Says("error", buf["client"]) /\ ~Says("error", pipe["client"])
        BY <2>3 DEF Says
    <2>5. ~AllowErrorInOutput => "client" \notin erred
        BY <2>1, <2>2, <2>4 DEF Inv, DriverInv, Heard, Well
    <2>6. plan = << >>
        BY DEF Inv, DriverInv, Control
    <2>7. ~Has(ReportOf("server"), plan)
        BY <2>6 DEF Has
    <2>8. "server" \in Procs /\ ~IgnoreServerResult => Well("server")
        BY <2>1, <2>7 DEF Inv, DriverInv, Results
    <2> QED BY <2>2, <2>5, <2>8
<1> QED BY <1>1, InvHolds, PTL

=============================================================================
