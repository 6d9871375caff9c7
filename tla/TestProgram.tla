----------------------------- MODULE TestProgram -----------------------------
(***************************************************************************)
(* An HDF5 test program running its tests, rank by rank: every rank walks  *)
(* through the steps of each test (module TestSteps), opens and closes     *)
(* identifiers, and reacts to a failing call the way the source does.      *)
(* Which tests there are is the constant Suite: groups of tests that share *)
(* files, each with the number of ranks it is run on, one for a serial     *)
(* program.  A behaviour is the run of one group.                          *)
(***************************************************************************)
EXTENDS Integers, Sequences, FiniteSets

CONSTANTS
    Suite,          \* group |-> its number of ranks, and the steps of its tests
    Aborts,         \* the check macro ends the program (VRFY) or counts (CHECK)
    Connectors,     \* sets of capability flags a VOL connector may have
    AsksConnector,  \* main calls H5Pget_vol_cap_flags
    LoneFaults,     \* routes of the calls that may fail on one rank alone
    AgreedFaults,   \* routes of the collective calls that may fail, on all their ranks
    MaxFaults,      \* BOUND: failing calls in a behaviour
    LeftOpen,       \* flag and file: without the flag the file is opened and not closed
    LeftOver        \* files that nothing removes

ASSUME AbortsAssumption == Aborts \in BOOLEAN
ASSUME FaultsAssumption == MaxFaults \in Nat

\* The records of module TestSteps.
Assigning == {"create", "open", "new", "find", "make"}
Marks == {"leave", "resume", "passed", "partend", "multiend", "error"}
Operations == Assigning \cup Marks
                \cup {"commit", "close", "use", "together", "sync", "delete", "consensus"}
Communicators == {"world", "parity", "self"}
Routes == {"check", "ignore", "skip", "error", "mute", "part", "op"}
StepRecord ==
    [op : Operations, h : STRING, loc : STRING, uses : SUBSET STRING,
     comm : Communicators, route : Routes,
     when : SUBSET (STRING \X BOOLEAN), needs : SUBSET STRING, ends : SUBSET STRING]
ASSUME SuiteAssumption ==
    \A g \in DOMAIN Suite :
        Suite[g] \in [mpi_size : Nat \ {0}, tests : Seq(Seq(StepRecord))]

Groups == DOMAIN Suite
Main == 0                       \* MAINPROCESS

\* An identifier of the library alone, and a file opened by ranks together.
NoFile == "no file"
Memory == [file |-> NoFile, comm |-> "self"]
Handle(file, comm) == [file |-> file, comm |-> comm]

VARIABLES
    connector,  \* the capability flags of the VOL connector
    group,      \* the group of tests that runs
    test, pc,   \* where a rank is
    held,       \* the open identifiers of a rank, by variable
    missing,    \* variables it could not fill or close, files it could not create or delete
    lost,       \* files a rank holds open through no variable
    files,      \* the files that exist
    chosen,     \* conditions decided so far in the functions being run
    pending,    \* failures remembered for the end of a part or of an operation
    told,       \* a rank has reported a failure since nothing was last amiss
    faults,     \* calls that failed, since then, although they were legal
    aborted     \* MPI_Abort

Ranks == DOMAIN test

program == <<connector, group>>
place == <<test, pc>>
store == <<held, missing, lost, files>>
report == <<pending, told, faults, aborted>>
vars == <<program, place, store, chosen, report>>

Init ==
    /\ connector \in Connectors
    /\ group \in Groups
    /\ test = [r \in 0..Suite[group].mpi_size-1 |-> 1]
    /\ pc = [r \in Ranks |-> 1]
    /\ held = [r \in Ranks |-> << >>]
    /\ missing = [r \in Ranks |-> {}]
    /\ lost = [r \in Ranks |-> {}]
    /\ files = {}
    /\ chosen = {}
    /\ pending = [r \in Ranks |-> {}]
    /\ told = [r \in Ranks |-> FALSE]
    /\ faults = {}
    /\ aborted = FALSE

-----------------------------------------------------------------------------
(* Where a rank is, and whether it makes the call it has come to. *)

Tests == DOMAIN Suite[group].tests
Finished(r) == test[r] \notin Tests
Steps(r) == Suite[group].tests[test[r]]
InTest(r) == ~aborted /\ ~Finished(r) /\ pc[r] <= Len(Steps(r))
Now(r) == Steps(r)[pc[r]]

RoleConditions == {"main", "odd", "second"}
InRole(r, c) ==
    CASE c = "main"   -> r = Main
      [] c = "odd"    -> r % 2 = 1
      [] c = "second" -> r = 1

IsFalse(r, lit) ==
    IF lit[1] \in RoleConditions THEN InRole(r, lit[1]) # lit[2]
    ELSE <<lit[1], ~lit[2]>> \in chosen
IsOpen(lit) ==
    lit[1] \notin RoleConditions /\ {<<lit[1], b>> : b \in BOOLEAN} \cap chosen = {}

\* vol_cap_flags_g, H5VL_CAP_FLAG_NONE until main asks the connector.
FlagsOf(c) == IF AsksConnector THEN c ELSE {}
vol_cap_flags_g == FlagsOf(connector)

\* The connector or the conditions keep r from making call s.
Skipped(r, s) ==
    \/ ~(s.needs \subseteq vol_cap_flags_g)
    \/ \E lit \in s.when : IsFalse(r, lit)
Undecided(s) == {lit \in s.when : IsOpen(lit)}
Makes(r, s) == ~Skipped(r, s) /\ Undecided(s) = {}
AtCall(r) == InTest(r) /\ Makes(r, Now(r))

-----------------------------------------------------------------------------
(* What a call needs, and what it does. *)

OpenHere(r) == DOMAIN held[r] \cup {"H5P_DEFAULT"}
Busy(file) ==
    \E r \in Ranks :
        \/ file \in lost[r]
        \/ \E h \in DOMAIN held[r] : held[r][h].file = file

\* Nothing stands against the call: its identifiers are open, the file it
\* opens exists, the file it creates or deletes is not open.
Legal(r, s) ==
    /\ s.op # "leave" => s.uses \subseteq OpenHere(r)
    /\ s.op \in {"new", "find", "commit"} => s.loc \in DOMAIN held[r]
    /\ s.op \in {"close", "commit"} => s.h \in DOMAIN held[r]
    /\ s.op = "open" => s.loc \in files
    /\ s.op = "create" => ~Busy(s.loc)
    /\ s.op = "delete" => s.loc \in files /\ ~Busy(s.loc)

Assigns(s) == s.op \in Assigning

\* The ranks a call is made with: those of the communicator its file was opened on.
Comm(r, s) ==
    CASE s.op \in {"create", "open", "delete", "sync", "consensus"} -> s.comm
      [] s.op \in {"new", "find", "commit"} ->
           IF s.comm = "self" THEN "self" ELSE held[r][s.loc].comm
      [] s.op = "close" -> held[r][s.h].comm
      [] s.op = "together" -> IF s.h \in DOMAIN held[r] THEN held[r][s.h].comm ELSE "self"
      [] OTHER -> "self"

Group(r, s) ==
    LET comm == Comm(r, s) IN
    CASE comm = "world"  -> Ranks
      [] comm = "parity" -> {q \in Ranks : q % 2 = r % 2}
      [] OTHER           -> {r}

\* What two ranks must agree on to be in the same collective call.
Call(s) == <<s.op, s.h, s.loc>>

\* The other ranks of the group have come to the call.
Joins(q, s, comm) == Legal(q, s) /\ Comm(q, s) = comm
Met(r, s) ==
    \A q \in Group(r, s) \ {r} :
        AtCall(q) /\ Call(Now(q)) = Call(s) /\ Joins(q, Now(q), Comm(r, s))

\* The variables a call assigns or gives up, and those of them that were open.
Given(s) == CASE Assigns(s)     -> {s.h}
              [] s.op = "leave" -> s.uses
              [] OTHER          -> {}
OpenGiven(r, s) == Given(s) \cap DOMAIN held[r]

With(r, new, handle) ==
    [h \in DOMAIN held[r] \cup {new} |-> IF h = new THEN handle ELSE held[r][h]]
Without(r, hs) == [h \in DOMAIN held[r] \ hs |-> held[r][h]]

HeldAfter(r, s) ==
    CASE s.op \in {"create", "open"} -> With(r, s.h, Handle(s.loc, s.comm))
      [] s.op \in {"new", "find", "commit"} ->
           With(r, s.h, Handle(held[r][s.loc].file, Comm(r, s)))
      [] s.op = "make"  -> With(r, s.h, Memory)
      [] s.op = "close" -> Without(r, {s.h})
      [] s.op = "leave" -> Without(r, s.uses)
      [] OTHER -> held[r]

\* Files that stay open when the variable of their handle is assigned or gone.
LostAfter(r, s) == lost[r] \cup ({held[r][h].file : h \in OpenGiven(r, s)} \ {NoFile})

\* What a call is to settle: the variable it fills or closes, the file it creates
\* or deletes.
Yield(s) ==
    (IF Assigns(s) \/ s.op = "close" THEN {s.h} ELSE {})
    \cup (CASE s.op = "create" -> {s.loc}
            [] s.op = "delete" -> {s.loc} \cap files
            [] OTHER -> {})

FilesAfter(s) ==
    CASE s.op = "create" -> files \cup {s.loc}
      [] s.op = "delete" -> files \ {s.loc}
      [] OTHER -> files

\* Rank r is the last to leave a function.
LastToLeave(r, s) ==
    /\ s.op = "leave"
    /\ \A q \in Ranks \ {r} :
         test[q] > test[r] \/ (test[q] = test[r] /\ pc[q] > pc[r])

\* The conditions of a function end with it.
ChosenAfter(r, s) ==
    IF LastToLeave(r, s) THEN {lit \in chosen : lit[1] \notin s.ends} ELSE chosen

\* A failure is over when a function has ended with nothing missing or lost.
Over(r, s) == LastToLeave(r, s) /\ \A q \in Ranks : missing'[q] = {} /\ lost'[q] = {}

-----------------------------------------------------------------------------
(* Where a rank goes. *)

\* The first of the places J, or the end of a test.
FirstOf(steps, J) ==
    IF J = {} THEN Len(steps) + 1 ELSE CHOOSE j \in J : \A k \in J : j <= k
NextStep(steps, i, target) ==
    FirstOf(steps, {j \in i+1..Len(steps) : steps[j].op = target})

\* After call i of a test succeeded: PASSED(); return 0; goes past the error label,
\* END_MULTIPART goes to it when a part has failed.
OnwardFrom(steps, i, failed) ==
    CASE steps[i].op = "passed" -> NextStep(steps, i, "leave")
      [] steps[i].op = "multiend" /\ "part" \in failed -> NextStep(steps, i, "error")
      [] OTHER -> i + 1

\* After it failed.
DivertedFrom(steps, i) ==
    CASE steps[i].route \in {"error", "mute"} -> NextStep(steps, i, "error")
      [] steps[i].route = "part" -> NextStep(steps, i, "partend")
      [] steps[i].route = "op"   -> NextStep(steps, i, "consensus")
      [] steps[i].route = "skip" -> NextStep(steps, i, "resume")
      [] OTHER -> i + 1

Onward(r) == OnwardFrom(Steps(r), pc[r], pending[r])
Diverted(r) == DivertedFrom(Steps(r), pc[r])

Silent(s) == s.route \in {"ignore", "mute", "skip"}

-----------------------------------------------------------------------------
(* Actions. *)

\* r passes over the calls it does not make.
Skip(r) ==
    /\ InTest(r) /\ Skipped(r, Now(r))
    /\ pc' = [pc EXCEPT ![r] =
         FirstOf(Steps(r), {j \in pc[r]..Len(Steps(r)) : ~Skipped(r, Steps(r)[j])})]
    /\ UNCHANGED <<program, test, store, chosen, report>>

Decide(r) ==
    /\ InTest(r) /\ ~Skipped(r, Now(r))
    /\ \E lit \in Undecided(Now(r)), b \in BOOLEAN : chosen' = chosen \cup {<<lit[1], b>>}
    /\ UNCHANGED <<program, place, store, report>>

\* The call is made, by every rank of its group, and succeeds.
Make(r) ==
    LET s == Now(r)
        G == Group(r, s) IN
    /\ AtCall(r) /\ Legal(r, s) /\ s.op # "consensus"
    /\ Met(r, s)
    /\ pc' = [q \in Ranks |-> IF q \in G THEN Onward(q) ELSE pc[q]]
    /\ held' = [q \in Ranks |-> IF q \in G THEN HeldAfter(q, Now(q)) ELSE held[q]]
    /\ missing' = [q \in Ranks |->
         IF q \in G THEN missing[q] \ (Given(Now(q)) \cup Yield(Now(q))) ELSE missing[q]]
    /\ lost' = [q \in Ranks |-> IF q \in G THEN LostAfter(q, Now(q)) ELSE lost[q]]
    /\ files' = FilesAfter(s)
    /\ chosen' = ChosenAfter(r, s)
    /\ IF Over(r, s) THEN told' = [q \in Ranks |-> FALSE] /\ faults' = {}
                     ELSE UNCHANGED <<told, faults>>
    /\ UNCHANGED <<program, test, pending, aborted>>

InConsensus(r) == AtCall(r) /\ Now(r).op = "consensus"

\* FAULTY: a rank goes by its own failure.
FailedItself(r, operator) == "op" \in pending[r]

\* What MPI_Allreduce makes of the failures the ranks remember of an operation; it
\* tells every rank r the same.
Failed(r, operator) ==
    CASE operator = "MPI_LOR"  -> \E q \in Ranks : "op" \in pending[q]
      [] operator = "MPI_LAND" -> \A q \in Ranks : "op" \in pending[q]

\* The end of an operation of some ranks: if the reduction says so all of them go
\* where a failure leads.
Consensus ==
    /\ \A r \in Ranks : InConsensus(r)
    /\ LET failed(r) == Failed(r, Now(r).loc) IN
       /\ pc' = [r \in Ranks |-> IF failed(r) THEN Diverted(r) ELSE pc[r] + 1]
       /\ pending' = [r \in Ranks |->
            (pending[r] \ {"op"}) \cup (IF failed(r) THEN {Now(r).route} \cap {"part"} ELSE {})]
       /\ told' = [r \in Ranks |-> told[r] \/ (failed(r) /\ ~Silent(Now(r)))]
    /\ UNCHANGED <<program, test, store, chosen, faults, aborted>>

\* FAULTY: every failure is remembered, though nothing looks at it again.
RememberedAlways(s) == {s.route}

\* What a rank remembers of a failure, for the end of a part or of an operation.
Remembered(s) == {s.route} \cap {"part", "op"}

\* The ranks of G see their call fail: a variable it would have filled is
\* H5I_INVALID_HID now.
Divert(G) ==
    /\ pc' = [q \in Ranks |-> IF q \in G THEN Diverted(q) ELSE pc[q]]
    /\ held' = [q \in Ranks |->
         IF q \in G /\ Assigns(Now(q)) THEN Without(q, {Now(q).h}) ELSE held[q]]
    /\ missing' = [q \in Ranks |->
         IF q \in G THEN missing[q] \cup Yield(Now(q)) ELSE missing[q]]
    /\ lost' = [q \in Ranks |-> IF q \in G THEN LostAfter(q, Now(q)) ELSE lost[q]]
    /\ told' = [q \in Ranks |-> told[q] \/ (q \in G /\ ~Silent(Now(q)))]
    /\ pending' = [q \in Ranks |->
         IF q \in G THEN pending[q] \cup Remembered(Now(q)) ELSE pending[q]]
    /\ aborted' = (Aborts /\ \E q \in G : Now(q).route = "check")
    /\ UNCHANGED <<program, test, files, chosen>>

\* The call of a rank fails because of what the program did before.
Fail(r) ==
    /\ AtCall(r) /\ ~Legal(r, Now(r))
    /\ Divert({r})
    /\ UNCHANGED faults

\* The call of a group of ranks fails for a reason outside the program, and has
\* no effect.
Break(r) ==
    LET s == Now(r) IN
    /\ Cardinality(faults) < MaxFaults
    /\ AtCall(r) /\ Legal(r, s) /\ s.op \notin Marks \cup {"consensus"}
    /\ \/ s.route \in LoneFaults /\ Group(r, s) = {r}
       \/ s.route \in AgreedFaults /\ Comm(r, s) # "self" /\ Met(r, s)
    /\ Divert(Group(r, s))
    /\ faults' = faults \cup {[route |-> s.route, op |-> s.op]}

\* A rank goes on to the next test.
NextTest(r) ==
    /\ ~aborted /\ ~Finished(r) /\ pc[r] \notin DOMAIN Steps(r)
    /\ test' = [test EXCEPT ![r] = @ + 1]
    /\ pc' = [pc EXCEPT ![r] = 1]
    /\ pending' = [pending EXCEPT ![r] = {}]
    /\ UNCHANGED <<program, store, chosen, told, faults, aborted>>

Done == aborted \/ \A r \in Ranks : Finished(r)
Ended == Done /\ UNCHANGED vars

\* A rank polls for the others inside a collective call.
Waits(r) == AtCall(r) /\ Legal(r, Now(r)) /\ ~Met(r, Now(r))
Polling == (\E r \in Ranks : Waits(r)) /\ UNCHANGED vars

Next ==
    \/ \E r \in Ranks :
        Skip(r) \/ Decide(r) \/ Make(r) \/ Fail(r) \/ Break(r) \/ NextTest(r)
    \/ Consensus \/ Ended \/ Polling

Spec == Init /\ [][Next]_vars

\* Every rank is a process of its own that keeps running, and MPI completes a
\* collective call that all its ranks have entered.  No call has to fail.
Progress ==
    \/ \E r \in Ranks : Skip(r) \/ Decide(r) \/ Make(r) \/ Fail(r) \/ NextTest(r)
    \/ Consensus
FairSpec == Spec /\ WF_vars(Progress)

-----------------------------------------------------------------------------
(* Types. *)

TypeOK ==
    /\ connector \in Connectors /\ group \in Groups
    /\ test \in [Ranks -> Nat \ {0}] /\ pc \in [Ranks -> Nat \ {0}]
    /\ \A r \in Ranks : \A h \in DOMAIN held[r] :
         h \in STRING /\ held[r][h] \in [file : STRING \cup {NoFile}, comm : Communicators]
    /\ missing \in [Ranks -> SUBSET STRING] /\ lost \in [Ranks -> SUBSET STRING]
    /\ files \subseteq STRING /\ chosen \subseteq STRING \X BOOLEAN
    /\ pending \in [Ranks -> SUBSET {"part", "op"}]
    /\ told \in [Ranks -> BOOLEAN] /\ aborted \in BOOLEAN
    /\ faults \subseteq [route : Routes, op : Operations]

-----------------------------------------------------------------------------
(* Properties. *)

(* A test program checks the library, not itself: no rank reports a        *)
(* failure unless a call that was right has failed since everything was    *)
(* last in order.  So whatever the connector lacks, whatever is chosen and *)
(* in whatever order the ranks run, every call of a test finds the         *)
(* identifiers it uses open, closes what is open, and finds or misses the  *)
(* files as it needs them; and a failure in one test does not spoil a      *)
(* later one that starts with nothing left over.                           *)
NoFalseAlarm == \A r \in Ranks : told[r] => faults # {}

\* Files a rank has lost, when no call to close one has failed.
LostByProgram(r) == IF \E f \in faults : f.op = "close" THEN {} ELSE lost[r]

\* Files that are known to stay open for lack of a capability.
NeverClosed(flags) == {l[2] : l \in {x \in LeftOpen : x[1] \notin flags}}

(* No file stays open when its variable is filled again or its function    *)
(* returns, also on the ways out that a failing call opens; but for the    *)
(* files LeftOpen names.                                                   *)
FilesReleased == \A r \in Ranks : LostByProgram(r) \subseteq NeverClosed(vol_cap_flags_g)

(* "Clean up test files, if allowed" (main of testhdf5.c): in the end the   *)
(* functions cleanup_... have removed every file the tests of their group  *)
(* have created, whichever of them ran, but for those LeftOver names and   *)
(* those that are still open.                                              *)
FilesRemoved ==
    (\A r \in Ranks : Finished(r)) /\ faults = {} /\ <<"HDF5_NOCLEANUP", TRUE>> \notin chosen =>
        files \subseteq LeftOver \cup NeverClosed(vol_cap_flags_g)

(* A rank opens a file by itself only while no other rank has it open      *)
(* through MPI, which would not see the other's changes: what rank 0       *)
(* prepares alone is separated from the collective accesses by the         *)
(* barriers and reductions of the tests.                                   *)
OneWayAccess ==
    \A r \in Ranks : AtCall(r) /\ Now(r).op \in {"create", "open"} /\ Now(r).comm = "self" =>
        \A q \in Ranks \ {r} : \A h \in DOMAIN held[q] :
            held[q][h].file = Now(r).loc => held[q][h].comm = "self"

(* No rank waits for ever: the program ends on every rank, although an     *)
(* operation in BEGIN_INDEPENDENT_OP may fail on one rank alone and a      *)
(* collective call on all of its ranks.                                    *)
Terminates == <>Done

-----------------------------------------------------------------------------
(* What the steps of the tests say by themselves, before any of them is    *)
(* run.  A survey gives, for every rank, test and place, a set of entries  *)
(* that say which variables may hold a file there: var holds file, if all  *)
(* of the decisions in given have been made and the rank remembers the     *)
(* failures in pending; late if a call to close it has failed.  The survey *)
(* is Sound when it starts each test where the last one ended and every    *)
(* call, whether it is passed over, succeeds or fails, leads from what     *)
(* may be open before it to what may be open after it.                     *)

Entry(var, file, late) == [var |-> var, file |-> file, late |-> late]
Foreseen(entries, entry, given, failed) ==
    \E e \in entries :
        /\ Entry(e.var, e.file, e.late) = entry
        /\ e.given \subseteq given /\ e.pending = failed

\* The decisions a step waits for, and what keeps rank r from ever making it.
Decisions(s) == {lit \in s.when : lit[1] \notin RoleConditions}
Never(r, s, flags) ==
    \/ ~(s.needs \subseteq flags)
    \/ \E lit \in s.when : lit[1] \in RoleConditions /\ InRole(r, lit[1]) # lit[2]
Opposite(lit) == <<lit[1], ~lit[2]>>

\* The call may fail and the program go on; the failures remembered then.
MayFail(s) ==
    /\ s.op \notin Marks \cup {"consensus"} \/ (s.op # "leave" /\ s.uses # {})
    /\ ~(Aborts /\ s.route = "check")

\* Where a rank may be after making call i, and what it remembers there.
Outcomes(steps, i, failed) ==
    LET s == steps[i]
        Way(next, remembered) == [pc |-> next, pending |-> remembered] IN
    (IF s.op = "consensus"
     THEN {Way(DivertedFrom(steps, i), (failed \ {"op"}) \cup ({s.route} \cap {"part"}))}
          \cup (IF s.loc = "MPI_LOR" /\ "op" \in failed
                THEN {} ELSE {Way(i + 1, failed \ {"op"})})
     ELSE {Way(OnwardFrom(steps, i, failed), failed)})
    \cup (IF MayFail(s) THEN {Way(DivertedFrom(steps, i), failed \cup Remembered(s))} ELSE {})

\* The decisions that outlive a call.
Lasting(s, given) == IF s.op = "leave" THEN {lit \in given : lit[1] \notin s.ends} ELSE given

\* What can be remembered in a test at all.
Memories(steps) == SUBSET ({"part", "op"} \cap {steps[i].route : i \in DOMAIN steps})

\* The entries that can be so where call s is made.
Possible(entries, s) ==
    {e \in entries : \A lit \in Decisions(s) : Opposite(lit) \notin e.given}

\* Call i is passed over for want of a decision, or for good.
PassesOver(r, steps, i, flags, at) ==
    \A e \in at[i] :
        LET next(given) ==
              Foreseen(at[i + 1], Entry(e.var, e.file, e.late), given, e.pending) IN
        IF Never(r, steps[i], flags) THEN next(e.given)
        ELSE \A lit \in Decisions(steps[i]) :
               lit \in e.given \/ next(e.given \cup {Opposite(lit)})

\* Call i is made: what it assigns or gives up is not open, but for files that are
\* known to stay open or whose closing failed; what is open stays so until it is
\* closed, for which nothing else is needed.
Carries(steps, i, flags, at) ==
    LET s == steps[i]
        Opened(var, file, given, failed) ==
            Foreseen(at[OnwardFrom(steps, i, failed)], Entry(var, file, FALSE), given, failed) IN
    /\ \A e \in Possible(at[i], s) :
         LET given == e.given \cup Decisions(s) IN
         /\ e.var \in Given(s) => e.late \/ e.file \in NeverClosed(flags)
         /\ e.var \notin Given(s) /\ ~(s.op = "close" /\ e.var = s.h) =>
              \A way \in Outcomes(steps, i, e.pending) :
                Foreseen(at[way.pc], Entry(e.var, e.file, e.late), Lasting(s, given), way.pending)
         /\ s.op = "close" /\ e.var = s.h /\ MayFail(s) =>
              Foreseen(at[DivertedFrom(steps, i)], Entry(e.var, e.file, TRUE), given,
                       e.pending \cup Remembered(s))
         /\ s.op \in {"new", "find", "commit"} /\ e.var = s.loc =>
              Opened(s.h, e.file, given, e.pending)
    /\ s.op = "close" => s.uses = {}
    /\ s.op \in {"create", "open"} =>
         \A failed \in Memories(steps) : Opened(s.h, s.loc, Decisions(s), failed)

\* The decisions an entry rests on do not end with a function others may still be in.
Undisturbed(tests, at) ==
    LET leaves == {p \in UNION {{t} \X DOMAIN tests[t] : t \in DOMAIN tests} :
                     tests[p[1]][p[2]].op = "leave"} IN
    \A t \in DOMAIN tests : \A i \in 1..Len(tests[t])+1 : \A e \in at[t][i] :
        e.given # {} =>
            \A p \in leaves : p[1] < t \/ (p[1] = t /\ p[2] < i) =>
                \A lit \in e.given : lit[1] \notin tests[p[1]][p[2]].ends

\* The variables of the tests, and the files they create or delete.
Variables(tests) ==
    UNION {{tests[t][i].h : i \in DOMAIN tests[t]} : t \in DOMAIN tests}
Created(tests) ==
    UNION {{tests[t][i].loc : i \in {j \in DOMAIN tests[t] :
                                       tests[t][j].op \in {"create", "delete"}}} :
           t \in DOMAIN tests}

Sound(survey, tests, mpi_size, flags) ==
    /\ Variables(tests) \cap Created(tests) = {}
    /\ \A r \in 0..mpi_size-1 : \A t \in DOMAIN tests :
         LET at == survey[r][t] IN
         /\ \A i \in DOMAIN tests[t] :
              /\ PassesOver(r, tests[t], i, flags, at)
              /\ Never(r, tests[t][i], flags) \/ Carries(tests[t], i, flags, at)
         /\ t + 1 \in DOMAIN tests =>
              \A e \in at[Len(tests[t]) + 1] :
                Foreseen(survey[r][t + 1][1], Entry(e.var, e.file, e.late), e.given, {})
    /\ mpi_size > 1 => \A r \in 0..mpi_size-1 : Undisturbed(tests, survey[r])

-----------------------------------------------------------------------------
(* What the steps of a serial program say of the files it leaves.  Here an *)
(* entry stands for a file that may exist; it has the file for its var.    *)

\* Files that are known to stay.
NeverRemoved(flags) == LeftOver \cup NeverClosed(flags)

\* Call i is made: a file that exists stays until it is removed, for which nothing
\* has to be closed before and nothing else is needed.
Keeps(steps, i, flags, open, at) ==
    LET s == steps[i] IN
    /\ \A e \in Possible(at[i], s) :
         \/ s.op = "delete" /\ e.var = s.loc
         \/ \A way \in Outcomes(steps, i, e.pending) :
              Foreseen(at[way.pc], Entry(e.var, e.file, e.late),
                       Lasting(s, e.given \cup Decisions(s)), way.pending)
    /\ s.op = "create" =>
         \A failed \in Memories(steps) :
           Foreseen(at[OnwardFrom(steps, i, failed)], Entry(s.loc, NoFile, FALSE),
                    Decisions(s), failed)
    /\ s.op = "delete" /\ s.loc \notin NeverRemoved(flags) =>
         /\ s.uses = {}
         /\ \A e \in Possible(open[i], s) : e.file = s.loc => e.late

\* What may be open and what may exist, for every test and place: in the end there is
\* nothing that is to be removed.
Tidy(standing, open, tests, flags) ==
    LET exempt(e) ==
          \/ e.var \in NeverRemoved(flags)
          \/ <<"HDF5_NOCLEANUP", TRUE>> \in e.given IN
    /\ NoFile \notin Created(tests)
    /\ \A t \in DOMAIN tests :
        /\ \A i \in DOMAIN tests[t] :
             /\ Created(tests) \cap Given(tests[t][i]) = {}
             /\ PassesOver(Main, tests[t], i, flags, standing[t])
             /\ \/ Never(Main, tests[t][i], flags)
                \/ Keeps(tests[t], i, flags, open[t], standing[t])
        /\ \A e \in standing[t][Len(tests[t]) + 1] :
             IF t + 1 \in DOMAIN tests
             THEN Foreseen(standing[t + 1][1], Entry(e.var, e.file, e.late), e.given, {})
             ELSE exempt(e)

-----------------------------------------------------------------------------
(* What comments and messages of the code say, and the code does not do.   *)

(* "API functions for iterate aren't supported with this connector", says  *)
(* tattr.c:7163 of a test it skips: a test the connector supports is run.  *)
SupportedTestsRun ==
    \A r \in Ranks : InTest(r) /\ Now(r).needs \subseteq connector =>
        Now(r).needs \subseteq vol_cap_flags_g

(* "dataset write on rank 0 failed!" (test_write_dataset_data_verification): *)
(* after the reduction every rank knows that a rank has failed.            *)
FailureHeard ==
    [][Consensus /\ (\E r \in Ranks : "op" \in pending[r])
        => \A r \in Ranks : pc'[r] = Diverted(r)]_vars
=============================================================================
