------------------------- MODULE KwsysProcessProofs -------------------------
(***************************************************************************)
(* What holds of the process library for any handles, time-out, pipe size  *)
(* and children, whatever legal calls its caller makes.                    *)
(***************************************************************************)
EXTENDS KwsysProcess, SequenceTheorems, TLAPS

\* No child is out of sight: UncollectedIsTracked for one handle.
Tracked(p) ==
    child[p] # "none" /\ ~reaped[p] =>
        state[p] = "Executing" /\ forkPid[p] /\ ~killed[p] /\ ~expired[p]

\* Only a dead child is collected, and a stopped one has been.
Collected(p) ==
    /\ reaped[p] => child[p] \in Dead
    /\ killed[p] \/ expired[p] => reaped[p]

\* A handle that executes or has settled has had a child.
HasChild(p) ==
    state[p] \in Final \cup {"Executing"} => child[p] # "none"

\* ExitedMeansDrained for one handle, which has not been stopped either.
Drained(p) ==
    state[p] \in {"Exited", "Exception"} =>
        pipe[p] = << >> /\ ~Writing(p) /\ ~killed[p] /\ ~expired[p]

HandleInv(p) == Tracked(p) /\ Collected(p) /\ HasChild(p) /\ Drained(p)

\* The inductive invariant of the library.
LibraryInv == ProcTypeOK /\ \A p \in Procs : HandleInv(p)

-----------------------------------------------------------------------------

LEMMA ReadKeepsSeq ==
    ASSUME NEW S, NEW s \in Seq(S), NEW n \in 1..Len(s)
    PROVE  SubSeq(s, n + 1, Len(s)) \in Seq(S)
<1>1. Len(s) \in Nat /\ n + 1 \in Int /\ \A i \in n + 1 .. Len(s) : s[i] \in S
    OBVIOUS
<1> QED BY <1>1, SubSeqProperties

(* The library starts in the invariant.                                    *)
LEMMA LibraryStarts == ProcInit => LibraryInv
BY TimeOutAssumption, BoundsAssumption
   DEF ProcInit, LibraryInv, ProcTypeOK, HandleInv, Tracked, Collected,
       HasChild, Drained, HandleState, ChildState, Final

(* Stopping a child keeps the types of everything it touches.              *)
LEMMA TerminateTypes ==
    ASSUME ProcTypeOK, NEW p \in Procs, Terminate(p)
    PROVE  /\ state' = state /\ forkPid' = forkPid /\ left' = left
           /\ budget' = budget
           /\ pipe' \in [Procs -> Seq(Lines)]
           /\ child' \in [Procs -> ChildState]
           /\ descendant' \in [Procs -> BOOLEAN]
           /\ reaped' \in [Procs -> BOOLEAN]
           /\ stray' \in SUBSET Procs
<1>1. << >> \in Seq(Lines)
    OBVIOUS
<1>2. CASE forkPid[p]
    <2>1. child' \in [Procs -> ChildState]
        BY <1>2 DEF ProcTypeOK, Terminate, ChildState, Dead
    <2>2. descendant' \in [Procs -> BOOLEAN]
        BY <1>2 DEF ProcTypeOK, Terminate
    <2>3. reaped' \in [Procs -> BOOLEAN]
        BY <1>2 DEF ProcTypeOK, Terminate
    <2>4. stray' \in SUBSET Procs
        <3>1. stray' = stray \/ stray' = stray \cup {p}
            BY <1>2 DEF Terminate
        <3> QED BY <3>1 DEF ProcTypeOK
    <2> QED BY <1>1, <2>1, <2>2, <2>3, <2>4 DEF ProcTypeOK, Terminate
<1>3. CASE ~forkPid[p]
    BY <1>1, <1>3 DEF ProcTypeOK, Terminate
<1> QED BY <1>2, <1>3

(* Every step of the library or of a child keeps the types.                *)
LEMMA TypesKept == ProcTypeOK /\ [ProcNext]_procVars => ProcTypeOK'
<1> SUFFICES ASSUME ProcTypeOK, [ProcNext]_procVars
             PROVE  ProcTypeOK'
    OBVIOUS
<1> USE TimeOutAssumption, BoundsAssumption
<1>1. ASSUME NEW p \in Procs, CallStep(p)
      PROVE  ProcTypeOK'
    <2>1. CASE ExecuteOK(p)
        BY <2>1 DEF ProcTypeOK, ExecuteOK, HandleState, ChildState
    <2>2. CASE ExecuteFails(p)
        BY <2>2 DEF ProcTypeOK, ExecuteFails, osVars, HandleState
    <2>3. ASSUME NEW n \in 1..PipeCap, ReadLines(p, n)
          PROVE  ProcTypeOK'
        <3>1. SubSeq(pipe[p], n + 1, Len(pipe[p])) \in Seq(Lines)
            BY <2>3, ReadKeepsSeq DEF ReadLines, ProcTypeOK
        <3> QED BY <2>3, <3>1 DEF ProcTypeOK, ReadLines, handleVars
    <2>4. CASE Reap(p)
        BY <2>4 DEF ProcTypeOK, Reap
    <2>5. CASE KillExecuting(p)
        BY <2>5, TerminateTypes DEF ProcTypeOK, KillExecuting
    <2>6. CASE Expire(p)
        BY <2>6, TerminateTypes DEF ProcTypeOK, Expire
    <2>7. CASE FinishExit(p)
        BY <2>7 DEF ProcTypeOK, FinishExit, Outcome, HandleState, Final, osVars
    <2>8. CASE Free(p)
        BY <2>8 DEF ProcTypeOK, Free, HandleState, osVars
    <2> QED BY <1>1, <2>1, <2>2, <2>3, <2>4, <2>5, <2>6, <2>7, <2>8 DEF CallStep
<1>2. ASSUME ChildStep
      PROVE  ProcTypeOK'
    <2>1. ASSUME NEW p \in Procs, NEW l \in Lines, Write(p, l)
          PROVE  ProcTypeOK'
        <3>1. Append(pipe[p], l) \in Seq(Lines)
            BY <2>1 DEF ProcTypeOK
        <3> QED BY <2>1, <3>1 DEF ProcTypeOK, Write, handleVars
    <2>2. ASSUME NEW p \in Procs, NEW how \in Dead, Exit(p, how)
          PROVE  ProcTypeOK'
        BY <2>2 DEF ProcTypeOK, Exit, handleVars, ChildState, Dead
    <2>3. ASSUME NEW p \in Procs, DescendantEnds(p)
          PROVE  ProcTypeOK'
        BY <2>3 DEF ProcTypeOK, DescendantEnds, handleVars
    <2> QED BY <1>2, <2>1, <2>2, <2>3 DEF ChildStep
<1>3. CASE ClockTick
    BY <1>3 DEF ProcTypeOK, ClockTick, osVars
<1>4. CASE UNCHANGED procVars
    BY <1>4 DEF ProcTypeOK, procVars, handleVars, osVars
<1> QED BY <1>1, <1>2, <1>3, <1>4 DEF ProcNext

-----------------------------------------------------------------------------

(* A handle whose own values do not change keeps its invariant.            *)
LEMMA OthersKept ==
    ASSUME NEW q \in Procs, HandleInv(q),
           state'[q] = state[q], killed'[q] = killed[q],
           expired'[q] = expired[q], forkPid'[q] = forkPid[q],
           child'[q] = child[q], reaped'[q] = reaped[q],
           descendant'[q] = descendant[q], pipe'[q] = pipe[q]
    PROVE  HandleInv(q)'
BY DEF HandleInv, Tracked, Collected, HasChild, Drained, Writing

(* Killing an executing process, or its time-out, leaves the child dead    *)
(* and collected: either its PID is signalled and waited for, or it was    *)
(* collected before.                                                       *)
LEMMA TerminateCollects ==
    ASSUME ProcTypeOK, NEW p \in Procs, HandleInv(p), Terminate(p),
           state[p] = "Executing",
           killed' \in [Procs -> BOOLEAN], expired' \in [Procs -> BOOLEAN]
    PROVE  HandleInv(p)'
<1>1. state' = state /\ forkPid' = forkPid
    BY DEF Terminate
<1>2. CASE forkPid[p]
    <2>1. reaped'[p] /\ child'[p] \in Dead
        BY <1>2 DEF Terminate, ProcTypeOK, HandleInv, HasChild, ChildState, Dead
    <2> QED BY <1>1, <2>1
            DEF HandleInv, Tracked, Collected, HasChild, Drained, Dead
<1>3. CASE ~forkPid[p]
    <2>1. reaped[p] /\ child[p] \in Dead
        BY <1>3 DEF HandleInv, Tracked, HasChild, Collected
    <2>2. reaped' = reaped /\ child' = child
        BY <1>3 DEF Terminate
    <2> QED BY <1>1, <2>1, <2>2
            DEF HandleInv, Tracked, Collected, HasChild, Drained, Dead
<1> QED BY <1>2, <1>3

(* A wait that ends because no pipe is left, or because the child was      *)
(* stopped, has collected the child, and in the first case all its output. *)
LEMMA FinishCollects ==
    ASSUME ProcTypeOK, NEW p \in Procs, HandleInv(p), FinishExit(p)
    PROVE  HandleInv(p)'
<1>1. reaped[p] /\ child[p] \in Dead
    BY DEF FinishExit, NoMoreData, Waitable, Eof, HandleInv, Collected
<1>2. UNCHANGED <<killed, expired, child, reaped, descendant, pipe>>
    BY DEF FinishExit, osVars
<1>3. state'[p] = Outcome(p)
    BY DEF FinishExit, ProcTypeOK
<1>4. ASSUME Outcome(p) \in {"Exited", "Exception"}
      PROVE  pipe[p] = << >> /\ ~Writing(p) /\ ~killed[p] /\ ~expired[p]
    BY <1>4 DEF Outcome, FinishExit, NoMoreData, Waitable, Eof
<1>5. Drained(p)'
    BY <1>2, <1>3, <1>4 DEF Drained, Writing
<1> QED BY <1>1, <1>2, <1>5
        DEF HandleInv, Tracked, Collected, HasChild, Dead

(* Every step of the library or of a child keeps every handle's invariant. *)
LEMMA HandlesKept ==
    ASSUME LibraryInv, [ProcNext]_procVars
    PROVE  \A q \in Procs : HandleInv(q)'
<1> USE DEF LibraryInv
<1> TAKE q \in Procs
<1>0. HandleInv(q)
    OBVIOUS
<1>1. ASSUME NEW p \in Procs, CallStep(p)
      PROVE  HandleInv(q)'
    <2>1. CASE p # q
        BY <1>0, <1>1, <2>1, OthersKept
           DEF CallStep, ExecuteOK, ExecuteFails, ReadLines, Reap, KillExecuting,
               Expire, Terminate, FinishExit, Free, handleVars, osVars, ProcTypeOK
    <2>2. CASE p = q
        <3>1. CASE ExecuteOK(p)
            BY <2>2, <3>1 DEF ExecuteOK, ProcTypeOK, HandleInv, Tracked,
                              Collected, HasChild, Drained, Final
        <3>2. CASE ExecuteFails(p)
            BY <1>0, <2>2, <3>2 DEF ExecuteFails, ProcTypeOK, HandleInv, Tracked,
                              Collected, HasChild, Drained, Final, osVars
        <3>3. ASSUME NEW n \in 1..PipeCap, ReadLines(p, n)
              PROVE  HandleInv(q)'
            BY <1>0, <2>2, <3>3 DEF ReadLines, Waitable, handleVars, HandleInv,
                              Tracked, Collected, HasChild, Drained
        <3>4. CASE Reap(p)
            BY <1>0, <2>2, <3>4 DEF Reap, Waitable, ProcTypeOK, HandleInv,
                              Tracked, Collected, HasChild, Drained
        <3>5. CASE KillExecuting(p)
            <4>1. killed' \in [Procs -> BOOLEAN] /\ expired' \in [Procs -> BOOLEAN]
                BY <3>5 DEF KillExecuting, ProcTypeOK
            <4> QED BY <1>0, <2>2, <3>5, <4>1, TerminateCollects DEF KillExecuting
        <3>6. CASE Expire(p)
            <4>1. killed' \in [Procs -> BOOLEAN] /\ expired' \in [Procs -> BOOLEAN]
                BY <3>6 DEF Expire, ProcTypeOK
            <4> QED BY <1>0, <2>2, <3>6, <4>1, TerminateCollects
                    DEF Expire, Waitable
        <3>7. CASE FinishExit(p)
            BY <1>0, <2>2, <3>7, FinishCollects
        <3>8. CASE Free(p)
            BY <1>0, <2>2, <3>8 DEF Free, ProcTypeOK, HandleInv, Tracked,
                              Collected, HasChild, Drained, Final, osVars
        <3> QED BY <1>1, <3>1, <3>2, <3>3, <3>4, <3>5, <3>6, <3>7, <3>8
                DEF CallStep
    <2> QED BY <2>1, <2>2
<1>2. ASSUME ChildStep
      PROVE  HandleInv(q)'
    <2>1. ASSUME NEW p \in Procs, NEW l \in Lines, Write(p, l)
          PROVE  HandleInv(q)'
        BY <1>0, <2>1 DEF Write, Waitable, handleVars, ProcTypeOK, HandleInv,
                          Tracked, Collected, HasChild, Drained, Writing
    <2>2. ASSUME NEW p \in Procs, NEW how \in Dead, Exit(p, how)
          PROVE  HandleInv(q)'
        <3>1. CASE p # q
            BY <1>0, <2>2, <3>1, OthersKept DEF Exit, handleVars, ProcTypeOK
        <3>2. CASE p = q
            <4>1. child[q] = "running" /\ ~reaped[q]
                BY <1>0, <2>2, <3>2 DEF Exit, HandleInv, Collected, Dead
            <4>2. state[q] = "Executing" /\ forkPid[q] /\ ~killed[q] /\ ~expired[q]
                BY <1>0, <4>1 DEF HandleInv, Tracked
            <4>3. child'[q] \in Dead
                BY <2>2, <3>2 DEF Exit, ProcTypeOK
            <4> QED BY <2>2, <4>1, <4>2, <4>3
                    DEF Exit, handleVars, HandleInv, Tracked, Collected,
                        HasChild, Drained, Dead
        <3> QED BY <3>1, <3>2
    <2>3. ASSUME NEW p \in Procs, DescendantEnds(p)
          PROVE  HandleInv(q)'
        BY <1>0, <2>3 DEF DescendantEnds, handleVars, ProcTypeOK, HandleInv,
                          Tracked, Collected, HasChild, Drained, Writing
    <2> QED BY <1>2, <2>1, <2>2, <2>3 DEF ChildStep
<1>3. CASE ClockTick
    BY <1>0, <1>3, OthersKept DEF ClockTick, osVars
<1>4. CASE UNCHANGED procVars
    BY <1>0, <1>4, OthersKept DEF procVars, handleVars, osVars
<1> QED BY <1>1, <1>2, <1>3, <1>4 DEF ProcNext

(* The library's invariant is kept by every step.                          *)
LEMMA LibraryKept == LibraryInv /\ [ProcNext]_procVars => LibraryInv'
BY TypesKept, HandlesKept DEF LibraryInv

(* ... and implies the library's safety properties.                        *)
LEMMA LibraryImplies ==
    LibraryInv => /\ ProcTypeOK
                  /\ SettledMeansCollected
                  /\ UncollectedIsTracked
                  /\ ExitedMeansDrained
BY DEF LibraryInv, HandleInv, Tracked, Collected, HasChild, Drained, Final,
       SettledMeansCollected, UncollectedIsTracked, ExitedMeansDrained, Dead

-----------------------------------------------------------------------------

(* The variables of the library keep their types (ProcessUNIX.c).          *)
THEOREM LibraryTypes == ProcSpec => []ProcTypeOK
BY LibraryStarts, LibraryKept, LibraryImplies, PTL DEF ProcSpec

(* A settled handle has a dead and collected child: the verdict of         *)
(* kwsysProcess_WaitForExit is never given on a child that lives or is a   *)
(* zombie.                                                                 *)
THEOREM SettledHandlesAreCollected == ProcSpec => []SettledMeansCollected
BY LibraryStarts, LibraryKept, LibraryImplies, PTL DEF ProcSpec

(* Every child that is not collected is held by an executing handle with   *)
(* its PID: kwsysProcess_Kill and Delete reach it.                         *)
THEOREM NoChildIsLost == ProcSpec => []UncollectedIsTracked
BY LibraryStarts, LibraryKept, LibraryImplies, PTL DEF ProcSpec

(* A handle that says Exited or Exception has delivered or discarded by    *)
(* request every line of its child and of the child's descendants.         *)
THEOREM ExitedHandlesAreDrained == ProcSpec => []ExitedMeansDrained
BY LibraryStarts, LibraryKept, LibraryImplies, PTL DEF ProcSpec

=============================================================================
