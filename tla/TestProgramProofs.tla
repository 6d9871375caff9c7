-------------------------- MODULE TestProgramProofs --------------------------
(***************************************************************************)
(* What holds of a test program with any tests, on any number of ranks,    *)
(* with any connector, conditions and faults.                              *)
(***************************************************************************)
EXTENDS TestProgram, WellFoundedInduction, TLAPS

\* What TypeOK says, part by part.
ProgramOK == connector \in Connectors /\ group \in Groups
PlaceOK == test \in [Ranks -> Nat \ {0}] /\ pc \in [Ranks -> Nat \ {0}]
HandleSet == [file : STRING \cup {NoFile}, comm : Communicators]
HeldOK == \A r \in Ranks : \A h \in DOMAIN held[r] : h \in STRING /\ held[r][h] \in HandleSet
StoreOK ==
    /\ missing \in [Ranks -> SUBSET STRING] /\ lost \in [Ranks -> SUBSET STRING]
    /\ files \subseteq STRING /\ chosen \subseteq STRING \X BOOLEAN
ReportOK ==
    /\ pending \in [Ranks -> SUBSET {"part", "op"}]
    /\ told \in [Ranks -> BOOLEAN] /\ aborted \in BOOLEAN
    /\ faults \subseteq [route : Routes, op : Operations]

LEMMA TypeParts == TypeOK <=> ProgramOK /\ PlaceOK /\ HeldOK /\ StoreOK /\ ReportOK
BY DEF TypeOK, ProgramOK, PlaceOK, HeldOK, HandleSet, StoreOK, ReportOK

-----------------------------------------------------------------------------
(* The steps of a test, and where a rank goes from one. *)

LEMMA MinExists ==
    ASSUME NEW J \in SUBSET Nat, J # {}
    PROVE  \E j \in J : \A k \in J : j <= k
<1>1. PICK m \in J : \A k \in J : <<k, m>> \notin OpToRel(<, Nat)
    BY WFMin, NatLessThanWellFounded, Zenon
<1>2. \A k \in J : ~(k < m)
    BY <1>1, Zenon DEF OpToRel
<1> QED BY <1>2

LEMMA StepIsRecord ==
    ASSUME ProgramOK, PlaceOK, NEW r \in Ranks, InTest(r)
    PROVE  Now(r) \in StepRecord
<1>1. Suite[group] \in [mpi_size : Nat \ {0}, tests : Seq(Seq(StepRecord))]
    BY SuiteAssumption DEF ProgramOK, Groups
<1>2. Suite[group].tests \in Seq(Seq(StepRecord))
    BY <1>1
<1>3. test[r] \in DOMAIN Suite[group].tests
    BY DEF InTest, Finished, Tests
<1>4. Steps(r) \in Seq(StepRecord)
    BY <1>2, <1>3 DEF Steps
<1>5. pc[r] \in 1..Len(Steps(r))
    BY <1>4 DEF InTest, PlaceOK
<1> QED BY <1>4, <1>5 DEF Now

LEMMA LengthIsNatural ==
    ASSUME ProgramOK, PlaceOK, NEW r \in Ranks, ~Finished(r)
    PROVE  Len(Steps(r)) \in Nat
<1>1. Suite[group] \in [mpi_size : Nat \ {0}, tests : Seq(Seq(StepRecord))]
    BY SuiteAssumption DEF ProgramOK, Groups
<1>2. Suite[group].tests \in Seq(Seq(StepRecord))
    BY <1>1
<1>3. Steps(r) \in Seq(StepRecord)
    BY <1>2 DEF Steps, Finished, Tests
<1> QED BY <1>3

\* FirstOf is the least of the places, or the one past the end.
LEMMA FirstOfPlaces ==
    ASSUME NEW steps, Len(steps) \in Nat, NEW lo \in Nat \ {0}, lo <= Len(steps) + 1,
           NEW J \in SUBSET (lo..Len(steps))
    PROVE  /\ FirstOf(steps, J) \in lo..Len(steps)+1
           /\ \A k \in J : FirstOf(steps, J) <= k
<1>1. CASE J = {}
    BY <1>1 DEF FirstOf
<1>2. CASE J # {}
    <2>1. \E j \in J : \A k \in J : j <= k
        BY <1>2, MinExists
    <2>2. FirstOf(steps, J) = CHOOSE j \in J : \A k \in J : j <= k
        BY <1>2 DEF FirstOf
    <2>3. FirstOf(steps, J) \in J /\ \A k \in J : FirstOf(steps, J) <= k
        BY <2>1, <2>2, Zenon
    <2>4. J \subseteq lo..Len(steps)+1
        OBVIOUS
    <2> QED BY <2>3, <2>4, Zenon
<1> QED BY <1>1, <1>2

\* A rank only goes forward, and no further than past the last step.
LEMMA WaysLeadOn ==
    ASSUME NEW steps, Len(steps) \in Nat, NEW i \in 1..Len(steps), NEW failed
    PROVE  /\ OnwardFrom(steps, i, failed) \in i+1..Len(steps)+1
           /\ DivertedFrom(steps, i) \in i+1..Len(steps)+1
<1>1. ASSUME NEW target
      PROVE  NextStep(steps, i, target) \in i+1..Len(steps)+1
    <2>1. {j \in i+1..Len(steps) : steps[j].op = target} \in SUBSET ((i+1)..Len(steps))
        OBVIOUS
    <2>2. i + 1 \in Nat \ {0} /\ i + 1 <= Len(steps) + 1
        OBVIOUS
    <2> QED BY <2>1, <2>2, FirstOfPlaces DEF NextStep
<1>2. OnwardFrom(steps, i, failed) \in
          {i + 1, NextStep(steps, i, "leave"), NextStep(steps, i, "error")}
    BY Zenon DEF OnwardFrom
<1>3. DivertedFrom(steps, i) \in {i + 1} \cup {NextStep(steps, i, target) :
                                 target \in {"error", "partend", "consensus", "resume"}}
    BY DEF DivertedFrom
<1>4. i + 1 \in i+1..Len(steps)+1
    OBVIOUS
<1> QED BY <1>1, <1>2, <1>3, <1>4

LEMMA WaysArePlaces ==
    ASSUME ProgramOK, PlaceOK, NEW r \in Ranks, InTest(r)
    PROVE  Onward(r) \in Nat \ {0} /\ Diverted(r) \in Nat \ {0}
<1>1. Len(Steps(r)) \in Nat /\ pc[r] \in 1..Len(Steps(r))
    <2>1. Len(Steps(r)) \in Nat
        BY LengthIsNatural DEF InTest
    <2> QED BY <2>1 DEF InTest, PlaceOK
<1>2. /\ Onward(r) \in pc[r]+1..Len(Steps(r))+1
      /\ Diverted(r) \in pc[r]+1..Len(Steps(r))+1
    BY <1>1, WaysLeadOn DEF Onward, Diverted
<1> QED BY <1>1, <1>2

-----------------------------------------------------------------------------
(* What a call does to the variables of its rank. *)

HandlesOK(f) == \A h \in DOMAIN f : h \in STRING /\ f[h] \in HandleSet

LEMMA StepFields ==
    ASSUME NEW s \in StepRecord
    PROVE  /\ s.op \in Operations /\ s.h \in STRING /\ s.loc \in STRING
           /\ s.uses \subseteq STRING /\ s.comm \in Communicators /\ s.route \in Routes
           /\ s.when \subseteq STRING \X BOOLEAN
BY DEF StepRecord

LEMMA CallTypes ==
    ASSUME StoreOK, NEW s \in StepRecord
    PROVE  /\ Yield(s) \subseteq STRING /\ FilesAfter(s) \subseteq STRING
           /\ Remembered(s) \subseteq {"part", "op"}
<1>1. s.h \in STRING /\ s.loc \in STRING /\ files \subseteq STRING
    BY StepFields DEF StoreOK
<1>2. Yield(s) \subseteq {s.h, s.loc}
    BY DEF Yield
<1>3. FilesAfter(s) \subseteq files \cup {s.loc}
    BY DEF FilesAfter
<1> QED BY <1>1, <1>2, <1>3 DEF Remembered

LEMMA LostTypes ==
    ASSUME HeldOK, StoreOK, NEW r \in Ranks, NEW s
    PROVE  LostAfter(r, s) \subseteq STRING
<1>1. lost[r] \subseteq STRING
    BY DEF StoreOK
<1>2. \A h \in OpenGiven(r, s) : held[r][h].file \in STRING \cup {NoFile}
    BY DEF OpenGiven, HeldOK, HandleSet
<1> QED BY <1>1, <1>2 DEF LostAfter

LEMMA WithoutTypes ==
    ASSUME HeldOK, NEW r \in Ranks, NEW hs
    PROVE  HandlesOK(Without(r, hs))
BY DEF HandlesOK, Without, HeldOK

LEMMA HeldTypes ==
    ASSUME HeldOK, NEW r \in Ranks, NEW s \in StepRecord, Legal(r, s)
    PROVE  HandlesOK(HeldAfter(r, s))
<1>1. \A handle \in HandleSet : HandlesOK(With(r, s.h, handle))
    BY StepFields DEF HandlesOK, With, HeldOK
<1>2. Handle(s.loc, s.comm) \in HandleSet /\ Memory \in HandleSet
    BY StepFields DEF Handle, Memory, HandleSet, Communicators
<1>3. ASSUME s.op \in {"new", "find", "commit"}
      PROVE  Handle(held[r][s.loc].file, Comm(r, s)) \in HandleSet
    <2>1. held[r][s.loc] \in HandleSet
        BY <1>3 DEF Legal, HeldOK
    <2>2. Comm(r, s) = IF s.comm = "self" THEN "self" ELSE held[r][s.loc].comm
        BY <1>3, Zenon DEF Comm
    <2> QED BY <2>1, <2>2 DEF Handle, HandleSet, Communicators
<1>4. HandlesOK(held[r])
    BY DEF HandlesOK, HeldOK
<1>5. \/ HeldAfter(r, s) = With(r, s.h, Handle(s.loc, s.comm))
      \/ /\ s.op \in {"new", "find", "commit"}
         /\ HeldAfter(r, s) = With(r, s.h, Handle(held[r][s.loc].file, Comm(r, s)))
      \/ HeldAfter(r, s) = With(r, s.h, Memory)
      \/ HeldAfter(r, s) = Without(r, {s.h})
      \/ HeldAfter(r, s) = Without(r, s.uses)
      \/ HeldAfter(r, s) = held[r]
    BY Zenon DEF HeldAfter
<1> QED BY <1>1, <1>2, <1>3, <1>4, <1>5, WithoutTypes

-----------------------------------------------------------------------------
(* The actions. *)

LEMMA InitTypes == Init => TypeOK
<1> SUFFICES ASSUME Init PROVE TypeOK
    OBVIOUS
<1>1. Suite[group] \in [mpi_size : Nat \ {0}, tests : Seq(Seq(StepRecord))]
    BY SuiteAssumption DEF Init, Groups
<1>2. PlaceOK
    BY <1>1 DEF Init, PlaceOK, Ranks
<1>3. HeldOK
    BY DEF Init, HeldOK
<1>4. ProgramOK /\ StoreOK /\ ReportOK
    BY DEF Init, ProgramOK, StoreOK, ReportOK
<1> QED BY <1>2, <1>3, <1>4, TypeParts

LEMMA SkipTypes ==
    ASSUME TypeOK, NEW r \in Ranks, Skip(r)
    PROVE  TypeOK'
<1> USE TypeParts
<1> DEFINE J == {j \in pc[r]..Len(Steps(r)) : ~Skipped(r, Steps(r)[j])}
<1>1. ~Finished(r) /\ pc[r] \in Nat \ {0}
    BY DEF Skip, InTest, PlaceOK
<1>2. Len(Steps(r)) \in Nat
    BY <1>1, LengthIsNatural
<1>3. pc[r] <= Len(Steps(r)) + 1 /\ J \in SUBSET (pc[r]..Len(Steps(r)))
    BY <1>1, <1>2 DEF Skip, InTest
<1> HIDE DEF J
<1>4. FirstOf(Steps(r), J) \in Nat \ {0}
    <2>1. FirstOf(Steps(r), J) \in pc[r]..Len(Steps(r))+1
        BY <1>1, <1>2, <1>3, FirstOfPlaces
    <2> QED BY <1>1, <1>2, <2>1
<1>5. /\ pc' = [pc EXCEPT ![r] = FirstOf(Steps(r), J)]
      /\ UNCHANGED <<program, test, store, chosen, report>>
    BY DEF Skip, J
<1>6. PlaceOK'
    BY <1>4, <1>5 DEF PlaceOK, Ranks
<1>7. ProgramOK' /\ HeldOK' /\ StoreOK' /\ ReportOK'
    BY <1>5 DEF ProgramOK, HeldOK, StoreOK, ReportOK, Ranks, program, store, report
<1> QED BY <1>6, <1>7, TypeParts, PTL

LEMMA DecideTypes ==
    ASSUME TypeOK, NEW r \in Ranks, Decide(r)
    PROVE  TypeOK'
<1> USE TypeParts
<1>1. InTest(r) /\ UNCHANGED <<program, place, store, report>>
    BY DEF Decide
<1>2. chosen' \subseteq STRING \X BOOLEAN
    <2>1. PICK lit \in Undecided(Now(r)), b \in BOOLEAN : chosen' = chosen \cup {<<lit[1], b>>}
        BY DEF Decide
    <2>2. Now(r).when \subseteq STRING \X BOOLEAN
        BY <1>1, StepIsRecord, StepFields
    <2>3. lit[1] \in STRING
        BY <2>1, <2>2 DEF Undecided
    <2> QED BY <2>1, <2>3 DEF StoreOK
<1>3. ProgramOK' /\ PlaceOK' /\ HeldOK' /\ StoreOK' /\ ReportOK'
    BY <1>1, <1>2 DEF ProgramOK, PlaceOK, HeldOK, StoreOK, ReportOK, Ranks,
                      program, place, store, report
<1> QED BY <1>3, TypeParts, PTL
\* Every rank of a call that completes has come to it.
LEMMA GroupIsThere ==
    ASSUME NEW r \in Ranks, AtCall(r), Legal(r, Now(r)), Met(r, Now(r))
    PROVE  \A q \in Ranks : q \in Group(r, Now(r)) => InTest(q) /\ Legal(q, Now(q))
BY DEF Met, Joins, AtCall

LEMMA MakeTypes ==
    ASSUME TypeOK, NEW r \in Ranks, Make(r)
    PROVE  TypeOK'
<1> USE TypeParts
<1> DEFINE s == Now(r)
           G == Group(r, s)
<1>1. InTest(r) /\ AtCall(r) /\ Legal(r, s) /\ Met(r, s)
    BY DEF Make, AtCall
<1>2. \A q \in Ranks : q \in G => InTest(q) /\ Legal(q, Now(q)) /\ Now(q) \in StepRecord
    BY <1>1, GroupIsThere, StepIsRecord
<1>3. /\ pc' = [q \in Ranks |-> IF q \in G THEN Onward(q) ELSE pc[q]]
      /\ held' = [q \in Ranks |-> IF q \in G THEN HeldAfter(q, Now(q)) ELSE held[q]]
      /\ missing' = [q \in Ranks |->
           IF q \in G THEN missing[q] \ (Given(Now(q)) \cup Yield(Now(q))) ELSE missing[q]]
      /\ lost' = [q \in Ranks |-> IF q \in G THEN LostAfter(q, Now(q)) ELSE lost[q]]
      /\ files' = FilesAfter(s)
      /\ chosen' = ChosenAfter(r, s)
      /\ \/ told' = [q \in Ranks |-> FALSE] /\ faults' = {}
         \/ UNCHANGED <<told, faults>>
      /\ UNCHANGED <<program, test, pending, aborted>>
    BY Zenon DEF Make
<1> HIDE DEF s, G
<1>4. Ranks' = Ranks
    BY <1>3 DEF Ranks
<1>5. PlaceOK'
    <2>1. \A q \in Ranks : q \in G => Onward(q) \in Nat \ {0}
        BY <1>2, WaysArePlaces
    <2> QED BY <2>1, <1>3, <1>4 DEF PlaceOK
<1>6. HeldOK'
    <2>1. \A q \in Ranks : HandlesOK(held'[q])
        <3>1. \A q \in Ranks : q \in G => HandlesOK(HeldAfter(q, Now(q)))
            BY <1>2, HeldTypes
        <3>2. \A q \in Ranks : HandlesOK(held[q])
            BY DEF HeldOK, HandlesOK
        <3> QED BY <3>1, <3>2, <1>3
    <2> QED BY <2>1, <1>4 DEF HeldOK, HandlesOK
<1>7. StoreOK'
    <2>1. missing' \in [Ranks -> SUBSET STRING]
        BY <1>3 DEF StoreOK
    <2>2. lost' \in [Ranks -> SUBSET STRING]
        BY <1>3, LostTypes DEF StoreOK
    <2>3. files' \subseteq STRING
        <3>1. s \in StepRecord
            BY <1>1, StepIsRecord DEF s
        <3> QED BY <1>3, <3>1, CallTypes
    <2>4. chosen' \subseteq STRING \X BOOLEAN
        BY <1>3 DEF ChosenAfter, StoreOK
    <2> QED BY <2>1, <2>2, <2>3, <2>4, <1>4 DEF StoreOK
<1>8. ProgramOK' /\ ReportOK'
    BY <1>3, <1>4 DEF ProgramOK, ReportOK, program
<1> QED BY <1>5, <1>6, <1>7, <1>8, TypeParts, PTL

LEMMA ConsensusTypes ==
    ASSUME TypeOK, Consensus
    PROVE  TypeOK'
<1> USE TypeParts
<1> DEFINE failed(r) == Failed(r, Now(r).loc)
<1>1. \A r \in Ranks : InTest(r)
    BY DEF Consensus, InConsensus, AtCall
<1>2. /\ pc' = [r \in Ranks |-> IF failed(r) THEN Diverted(r) ELSE pc[r] + 1]
      /\ pending' = [r \in Ranks |->
           (pending[r] \ {"op"}) \cup (IF failed(r) THEN {Now(r).route} \cap {"part"} ELSE {})]
      /\ told' = [r \in Ranks |-> told[r] \/ (failed(r) /\ ~Silent(Now(r)))]
      /\ UNCHANGED <<program, test, store, chosen, faults, aborted>>
    BY Zenon DEF Consensus
<1> HIDE DEF failed
<1>3. Ranks' = Ranks
    BY <1>2 DEF Ranks
<1>4. PlaceOK'
    <2>1. \A r \in Ranks : Diverted(r) \in Nat \ {0} /\ pc[r] + 1 \in Nat \ {0}
        BY <1>1, WaysArePlaces DEF PlaceOK
    <2> QED BY <2>1, <1>2, <1>3 DEF PlaceOK
<1>5. told' \in [Ranks -> BOOLEAN]
    <2>1. \A r \in Ranks : (told[r] \/ (failed(r) /\ ~Silent(Now(r)))) \in BOOLEAN
        OBVIOUS
    <2> QED BY <2>1, <1>2, Zenon
<1>6. ReportOK'
    BY <1>2, <1>3, <1>5 DEF ReportOK
<1>7. ProgramOK' /\ HeldOK' /\ StoreOK'
    BY <1>2, <1>3 DEF ProgramOK, HeldOK, StoreOK, program, store
<1> QED BY <1>4, <1>6, <1>7, TypeParts, PTL

LEMMA DivertTypes ==
    ASSUME TypeOK, NEW G, \A q \in Ranks : q \in G => InTest(q), Divert(G)
    PROVE  ProgramOK' /\ PlaceOK' /\ HeldOK' /\ StoreOK' /\ Ranks' = Ranks
           /\ pending' \in [Ranks -> SUBSET {"part", "op"}]
           /\ told' \in [Ranks -> BOOLEAN] /\ aborted' \in BOOLEAN
<1> USE TypeParts
<1>1. /\ pc' = [q \in Ranks |-> IF q \in G THEN Diverted(q) ELSE pc[q]]
      /\ held' = [q \in Ranks |->
           IF q \in G /\ Assigns(Now(q)) THEN Without(q, {Now(q).h}) ELSE held[q]]
      /\ missing' = [q \in Ranks |->
           IF q \in G THEN missing[q] \cup Yield(Now(q)) ELSE missing[q]]
      /\ lost' = [q \in Ranks |-> IF q \in G THEN LostAfter(q, Now(q)) ELSE lost[q]]
      /\ told' = [q \in Ranks |-> told[q] \/ (q \in G /\ ~Silent(Now(q)))]
      /\ pending' = [q \in Ranks |->
           IF q \in G THEN pending[q] \cup Remembered(Now(q)) ELSE pending[q]]
      /\ aborted' = (Aborts /\ \E q \in G : Now(q).route = "check")
      /\ UNCHANGED <<program, test, files, chosen>>
    BY Zenon DEF Divert
<1>2. \A q \in Ranks : q \in G => Now(q) \in StepRecord
    BY StepIsRecord
<1>3. Ranks' = Ranks
    BY <1>1 DEF Ranks
<1>4. PlaceOK'
    <2>1. \A q \in Ranks : q \in G => Diverted(q) \in Nat \ {0}
        BY WaysArePlaces
    <2> QED BY <2>1, <1>1, <1>3 DEF PlaceOK
<1>5. HeldOK'
    <2>1. \A q \in Ranks : HandlesOK(held'[q])
        <3>1. \A q \in Ranks : HandlesOK(Without(q, {Now(q).h}))
            BY WithoutTypes
        <3>2. \A q \in Ranks : HandlesOK(held[q])
            BY DEF HeldOK, HandlesOK
        <3> QED BY <3>1, <3>2, <1>1
    <2> QED BY <2>1, <1>3 DEF HeldOK, HandlesOK
<1>6. StoreOK'
    <2>1. missing' \in [Ranks -> SUBSET STRING]
        BY <1>1, <1>2, CallTypes DEF StoreOK
    <2>2. lost' \in [Ranks -> SUBSET STRING]
        BY <1>1, LostTypes DEF StoreOK
    <2> QED BY <2>1, <2>2, <1>1, <1>3 DEF StoreOK
<1>7. pending' \in [Ranks -> SUBSET {"part", "op"}]
    BY <1>1, <1>2, CallTypes DEF ReportOK
<1>8. told' \in [Ranks -> BOOLEAN]
    <2>1. \A q \in Ranks : (told[q] \/ (q \in G /\ ~Silent(Now(q)))) \in BOOLEAN
        OBVIOUS
    <2> QED BY <2>1, <1>1, Zenon
<1>9. aborted' \in BOOLEAN
    BY <1>1, Zenon
<1> QED BY <1>1, <1>3, <1>4, <1>5, <1>6, <1>7, <1>8, <1>9 DEF ProgramOK, program

LEMMA FailTypes ==
    ASSUME TypeOK, NEW r \in Ranks, Fail(r)
    PROVE  TypeOK'
<1>1. Divert({r}) /\ faults' = faults
    BY DEF Fail
<1>2. \A q \in Ranks : q \in {r} => InTest(q)
    BY DEF Fail, AtCall
<1>3. ProgramOK' /\ PlaceOK' /\ HeldOK' /\ StoreOK' /\ ReportOK'
    BY <1>1, <1>2, DivertTypes, TypeParts DEF ReportOK
<1> QED BY <1>3, TypeParts, PTL

LEMMA BreakTypes ==
    ASSUME TypeOK, NEW r \in Ranks, Break(r)
    PROVE  TypeOK'
<1>1. /\ AtCall(r) /\ Divert(Group(r, Now(r)))
      /\ faults' = faults \cup {[route |-> Now(r).route, op |-> Now(r).op]}
    BY Zenon DEF Break
<1>2. \A q \in Ranks : q \in Group(r, Now(r)) => InTest(q)
    BY DEF Break, AtCall, Met
<1>3. Now(r).route \in Routes /\ Now(r).op \in Operations
    BY <1>1, StepIsRecord, StepFields, TypeParts DEF AtCall
<1>4. ProgramOK' /\ PlaceOK' /\ HeldOK' /\ StoreOK' /\ ReportOK'
    BY <1>1, <1>2, <1>3, DivertTypes, TypeParts DEF ReportOK
<1> QED BY <1>4, TypeParts, PTL

LEMMA NextTestTypes ==
    ASSUME TypeOK, NEW r \in Ranks, NextTest(r)
    PROVE  TypeOK'
<1>1. /\ test' = [test EXCEPT ![r] = @ + 1] /\ pc' = [pc EXCEPT ![r] = 1]
      /\ pending' = [pending EXCEPT ![r] = {}]
      /\ UNCHANGED <<program, store, chosen, told, faults, aborted>>
    BY DEF NextTest
<1>2. PlaceOK' /\ Ranks' = Ranks
    BY <1>1, TypeParts DEF PlaceOK, Ranks
<1>3. ReportOK'
    BY <1>1, <1>2, TypeParts DEF ReportOK
<1>4. ProgramOK' /\ HeldOK' /\ StoreOK'
    BY <1>1, <1>2, TypeParts DEF ProgramOK, HeldOK, StoreOK, program, store
<1> QED BY <1>2, <1>3, <1>4, TypeParts, PTL

LEMMA StepKeepsTypes == TypeOK /\ [Next]_vars => TypeOK'
<1> SUFFICES ASSUME TypeOK, [Next]_vars PROVE TypeOK'
    OBVIOUS
<1>1. ASSUME NEW r \in Ranks, Skip(r) \/ Decide(r) \/ Make(r) PROVE TypeOK'
    BY <1>1, SkipTypes, DecideTypes, MakeTypes
<1>2. ASSUME NEW r \in Ranks, Fail(r) \/ Break(r) \/ NextTest(r) PROVE TypeOK'
    BY <1>2, FailTypes, BreakTypes, NextTestTypes
<1>3. CASE Consensus
    BY <1>3, ConsensusTypes
<1>4. CASE UNCHANGED vars
    <2>1. ProgramOK' /\ PlaceOK' /\ HeldOK' /\ StoreOK' /\ ReportOK'
        BY <1>4, TypeParts DEF ProgramOK, PlaceOK, HeldOK, StoreOK, ReportOK, Ranks,
                               vars, program, place, store, report
    <2> QED BY <2>1, TypeParts, PTL
<1> QED BY <1>1, <1>2, <1>3, <1>4 DEF Next, Ended, Polling

(* Every identifier a rank holds belongs to a file that has a name, every  *)
(* rank is at a step or past the last one of a test, and what is           *)
(* remembered of a failure is one of the two things an end looks at,       *)
(* whatever the tests, their communicators and their failures are.         *)
THEOREM TestProgramTypeCorrect == Spec => []TypeOK
BY InitTypes, StepKeepsTypes, PTL DEF Spec

-----------------------------------------------------------------------------
(* What is open, and what a survey of the tests foresees. *)

\* A handle that is open is foreseen; or it is late, and there is an excuse.
Explained(entries, h, file, given, failed, excused) ==
    \/ Foreseen(entries, Entry(h, file, FALSE), given, failed)
    \/ excused /\ Foreseen(entries, Entry(h, file, TRUE), given, failed)

LEMMA ForeseenFields ==
    ASSUME NEW entries, NEW h, NEW file, NEW late, NEW given, NEW failed
    PROVE  Foreseen(entries, Entry(h, file, late), given, failed) <=>
             \E e \in entries : /\ e.var = h /\ e.file = file /\ e.late = late
                                /\ e.given \subseteq given /\ e.pending = failed
BY DEF Foreseen, Entry

LEMMA ForeseenByMore ==
    ASSUME NEW entries, NEW h, NEW file, NEW late, NEW given, NEW failed,
           NEW more, given \subseteq more,
           Foreseen(entries, Entry(h, file, late), given, failed)
    PROVE  Foreseen(entries, Entry(h, file, late), more, failed)
BY ForeseenFields

\* What a call of a sound survey does with an entry that tells the truth.
LEMMA EntryIsCarried ==
    ASSUME NEW steps, NEW i, NEW flags, NEW at, Carries(steps, i, flags, at),
           NEW given, NEW failed, NEW h, NEW file, NEW late,
           Decisions(steps[i]) \subseteq given,
           \A lit \in Decisions(steps[i]) : Opposite(lit) \notin given,
           Foreseen(at[i], Entry(h, file, late), given, failed)
    PROVE  LET s == steps[i] IN
           /\ h \in Given(s) => late \/ file \in NeverClosed(flags)
           /\ h \notin Given(s) /\ ~(s.op = "close" /\ h = s.h) =>
                \A way \in Outcomes(steps, i, failed) :
                  Foreseen(at[way.pc], Entry(h, file, late), Lasting(s, given), way.pending)
           /\ s.op = "close" /\ h = s.h /\ MayFail(s) =>
                Foreseen(at[DivertedFrom(steps, i)], Entry(h, file, TRUE), given,
                         failed \cup Remembered(s))
           /\ s.op \in {"new", "find", "commit"} /\ h = s.loc =>
                Foreseen(at[OnwardFrom(steps, i, failed)], Entry(s.h, file, FALSE), given, failed)
<1> DEFINE s == steps[i]
<1>1. PICK e \in at[i] : /\ e.var = h /\ e.file = file /\ e.late = late
                         /\ e.given \subseteq given /\ e.pending = failed
    BY ForeseenFields
<1> DEFINE known == e.given \cup Decisions(s)
<1>2. \A lit \in Decisions(s) : Opposite(lit) \notin e.given
    BY <1>1
<1>3. /\ h \in Given(s) => late \/ file \in NeverClosed(flags)
      /\ h \notin Given(s) /\ ~(s.op = "close" /\ h = s.h) =>
           \A way \in Outcomes(steps, i, failed) :
             Foreseen(at[way.pc], Entry(h, file, late), Lasting(s, known), way.pending)
      /\ s.op = "close" /\ h = s.h /\ MayFail(s) =>
           Foreseen(at[DivertedFrom(steps, i)], Entry(h, file, TRUE), known,
                    failed \cup Remembered(s))
      /\ s.op \in {"new", "find", "commit"} /\ h = s.loc =>
           Foreseen(at[OnwardFrom(steps, i, failed)], Entry(s.h, file, FALSE), known, failed)
    BY <1>1, <1>2, Zenon DEF Carries, Possible
<1>4. known \subseteq given /\ Lasting(s, known) \subseteq Lasting(s, given)
    BY <1>1 DEF Lasting
<1> HIDE DEF known, s
<1> SUFFICES /\ h \in Given(s) => late \/ file \in NeverClosed(flags)
             /\ h \notin Given(s) /\ ~(s.op = "close" /\ h = s.h) =>
                  \A way \in Outcomes(steps, i, failed) :
                    Foreseen(at[way.pc], Entry(h, file, late), Lasting(s, given), way.pending)
             /\ s.op = "close" /\ h = s.h /\ MayFail(s) =>
                  Foreseen(at[DivertedFrom(steps, i)], Entry(h, file, TRUE), given,
                           failed \cup Remembered(s))
             /\ s.op \in {"new", "find", "commit"} /\ h = s.loc =>
                  Foreseen(at[OnwardFrom(steps, i, failed)], Entry(s.h, file, FALSE),
                           given, failed)
    BY DEF s
<1>5. ASSUME h \notin Given(s), ~(s.op = "close" /\ h = s.h),
             NEW way \in Outcomes(steps, i, failed)
      PROVE  Foreseen(at[way.pc], Entry(h, file, late), Lasting(s, given), way.pending)
    BY <1>3, <1>4, <1>5, ForeseenByMore
<1>6. ASSUME s.op = "close", h = s.h, MayFail(s)
      PROVE  Foreseen(at[DivertedFrom(steps, i)], Entry(h, file, TRUE), given,
                      failed \cup Remembered(s))
    BY <1>3, <1>4, <1>6, ForeseenByMore
<1>7. ASSUME s.op \in {"new", "find", "commit"}, h = s.loc
      PROVE  Foreseen(at[OnwardFrom(steps, i, failed)], Entry(s.h, file, FALSE), given, failed)
    BY <1>3, <1>4, <1>7, ForeseenByMore
<1> QED BY <1>3, <1>5, <1>6, <1>7, Zenon

\* A file that a call creates or opens is foreseen after it.
LEMMA OpenedIsForeseen ==
    ASSUME NEW steps, NEW i, NEW flags, NEW at, Carries(steps, i, flags, at),
           NEW given, Decisions(steps[i]) \subseteq given,
           NEW failed \in Memories(steps), steps[i].op \in {"create", "open"}
    PROVE  Foreseen(at[OnwardFrom(steps, i, failed)],
                    Entry(steps[i].h, steps[i].loc, FALSE), given, failed)
<1>1. Foreseen(at[OnwardFrom(steps, i, failed)], Entry(steps[i].h, steps[i].loc, FALSE),
               Decisions(steps[i]), failed)
    BY Zenon DEF Carries
<1> QED BY <1>1, ForeseenByMore

\* What is foreseen at a call that is passed over is foreseen at the next.
LEMMA EntryIsPassedOn ==
    ASSUME NEW r, NEW steps, NEW i, NEW flags, NEW at, PassesOver(r, steps, i, flags, at),
           NEW given, \A lit \in given : Opposite(lit) \notin given,
           NEW failed, NEW h, NEW file, NEW late,
           \/ Never(r, steps[i], flags)
           \/ \E lit \in Decisions(steps[i]) : Opposite(lit) \in given,
           Foreseen(at[i], Entry(h, file, late), given, failed)
    PROVE  Foreseen(at[i + 1], Entry(h, file, late), given, failed)
<1>1. PICK e \in at[i] : /\ e.var = h /\ e.file = file /\ e.late = late
                         /\ e.given \subseteq given /\ e.pending = failed
    BY ForeseenFields
<1>2. CASE Never(r, steps[i], flags)
    <2>1. Foreseen(at[i + 1], Entry(h, file, late), e.given, failed)
        BY <1>1, <1>2, Zenon DEF PassesOver
    <2> QED BY <1>1, <2>1, ForeseenByMore
<1>3. CASE ~Never(r, steps[i], flags)
    <2>1. PICK lit \in Decisions(steps[i]) : Opposite(lit) \in given
        BY <1>3
    <2>2. lit \notin e.given
        BY <1>1, <2>1
    <2>3. Foreseen(at[i + 1], Entry(h, file, late), e.given \cup {Opposite(lit)}, failed)
        BY <1>1, <1>3, <2>2, Zenon DEF PassesOver
    <2>4. e.given \cup {Opposite(lit)} \subseteq given
        BY <1>1, <2>1
    <2> QED BY <2>3, <2>4, ForeseenByMore
<1> QED BY <1>2, <1>3

-----------------------------------------------------------------------------
(* The course of a rank: what holds of places, decisions, names and        *)
(* memories, whatever the calls do.                                        *)

GroupTests == Suite[group].tests
RanksOK == Ranks = 0..Suite[group].mpi_size-1
WithinTests == \A r \in Ranks : ~Finished(r) => pc[r] \in 1..Len(Steps(r))+1
DecisionsAgree == \A lit \in chosen : Opposite(lit) \notin chosen
HeldAreVariables == \A r \in Ranks : DOMAIN held[r] \subseteq Variables(GroupTests)
MemoriesOK == \A r \in Ranks : ~Finished(r) => pending[r] \in Memories(Steps(r))
CourseOK ==
    TypeOK /\ RanksOK /\ WithinTests /\ DecisionsAgree /\ HeldAreVariables /\ MemoriesOK

LEMMA StepInTest ==
    ASSUME TypeOK, NEW r \in Ranks, InTest(r)
    PROVE  /\ Now(r) \in StepRecord /\ Len(Steps(r)) \in Nat
           /\ pc[r] \in 1..Len(Steps(r)) /\ pc[r] \in DOMAIN Steps(r)
           /\ test[r] \in DOMAIN GroupTests /\ Steps(r) = GroupTests[test[r]]
           /\ Now(r) = Steps(r)[pc[r]]
           /\ ~Finished(r)
<1>1. ProgramOK /\ PlaceOK /\ ~Finished(r) /\ pc[r] <= Len(Steps(r))
    BY TypeParts DEF InTest
<1>2. GroupTests \in Seq(Seq(StepRecord))
    BY <1>1, SuiteAssumption DEF ProgramOK, Groups, GroupTests
<1>3. test[r] \in DOMAIN GroupTests /\ Steps(r) = GroupTests[test[r]]
    BY <1>1 DEF Finished, Tests, GroupTests, Steps
<1>4. Steps(r) \in Seq(StepRecord)
    BY <1>2, <1>3
<1>5. Len(Steps(r)) \in Nat /\ pc[r] \in 1..Len(Steps(r)) /\ pc[r] \in DOMAIN Steps(r)
    BY <1>1, <1>4 DEF PlaceOK
<1> QED BY <1>1, <1>3, <1>4, <1>5, StepIsRecord DEF Now

LEMMA TestHasSteps ==
    ASSUME TypeOK, NEW r \in Ranks, ~Finished(r)
    PROVE  /\ Steps(r) \in Seq(StepRecord) /\ Len(Steps(r)) \in Nat
           /\ DOMAIN Steps(r) = 1..Len(Steps(r))
           /\ test[r] \in DOMAIN GroupTests /\ Steps(r) = GroupTests[test[r]]
<1>1. ProgramOK /\ PlaceOK
    BY TypeParts
<1>2. GroupTests \in Seq(Seq(StepRecord))
    BY <1>1, SuiteAssumption DEF ProgramOK, Groups, GroupTests
<1>3. test[r] \in DOMAIN GroupTests /\ Steps(r) = GroupTests[test[r]]
    BY <1>1 DEF Finished, Tests, GroupTests, Steps
<1> QED BY <1>2, <1>3

\* The variable of a step is one of the variables of the tests.
LEMMA StepVariable ==
    ASSUME TypeOK, NEW r \in Ranks, InTest(r)
    PROVE  Now(r).h \in Variables(GroupTests)
BY StepInTest DEF Variables

\* A rank knows all of the decisions a call it makes waits for, and none of them is
\* against it; one it passes over it may never make, or a decision is against it.
LEMMA DecisionsOfCall ==
    ASSUME TypeOK, NEW r \in Ranks, NEW s \in StepRecord
    PROVE  /\ Makes(r, s) => /\ ~Never(r, s, vol_cap_flags_g)
                             /\ Decisions(s) \subseteq chosen
                             /\ \A lit \in Decisions(s) : Opposite(lit) \notin chosen
           /\ Skipped(r, s) => \/ Never(r, s, vol_cap_flags_g)
                               \/ \E lit \in Decisions(s) : Opposite(lit) \in chosen
<1>1. s.when \subseteq STRING \X BOOLEAN
    BY StepFields
<1>2. ASSUME Makes(r, s)
      PROVE  /\ ~Never(r, s, vol_cap_flags_g)
             /\ Decisions(s) \subseteq chosen
             /\ \A lit \in Decisions(s) : Opposite(lit) \notin chosen
    <2>1. ~Skipped(r, s) /\ Undecided(s) = {}
        BY <1>2 DEF Makes
    <2>2. s.needs \subseteq vol_cap_flags_g /\ \A lit \in s.when : ~IsFalse(r, lit)
        BY <2>1 DEF Skipped
    <2>3. ~Never(r, s, vol_cap_flags_g)
        BY <2>2 DEF Never, IsFalse
    <2>4. ASSUME NEW lit \in Decisions(s)
          PROVE  lit \in chosen /\ Opposite(lit) \notin chosen
        <3>1. lit \in s.when /\ lit[1] \notin RoleConditions
            BY <2>4 DEF Decisions
        <3>2. <<lit[1], ~lit[2]>> \notin chosen
            BY <2>2, <3>1 DEF IsFalse
        <3>3. {<<lit[1], b>> : b \in BOOLEAN} \cap chosen # {}
            BY <2>1, <3>1 DEF Undecided, IsOpen
        <3>4. PICK b \in BOOLEAN : <<lit[1], b>> \in chosen
            BY <3>3
        <3>5. lit = <<lit[1], lit[2]>> /\ lit[2] \in BOOLEAN
            BY <1>1, <3>1
        <3>6. b = lit[2]
            <4>1. b # ~lit[2]
                BY <3>2, <3>4
            <4> QED BY <3>5, <4>1, Zenon
        <3> QED BY <3>2, <3>4, <3>5, <3>6, Zenon DEF Opposite
    <2> QED BY <2>3, <2>4
<1>3. ASSUME Skipped(r, s)
      PROVE  \/ Never(r, s, vol_cap_flags_g)
             \/ \E lit \in Decisions(s) : Opposite(lit) \in chosen
    <2>1. CASE ~(s.needs \subseteq vol_cap_flags_g)
        BY <2>1 DEF Never
    <2>2. CASE \E lit \in s.when : IsFalse(r, lit)
        <3>1. PICK lit \in s.when : IsFalse(r, lit)
            BY <2>2
        <3> QED BY <3>1, Zenon DEF IsFalse, Never, Decisions, Opposite
    <2> QED BY <1>3, <2>1, <2>2 DEF Skipped
<1> QED BY <1>2, <1>3

LEMMA TestsAreSequences ==
    ASSUME TypeOK
    PROVE  GroupTests \in Seq(Seq(StepRecord))
BY TypeParts, SuiteAssumption DEF ProgramOK, Groups, GroupTests

LEMMA CourseAtFirst == Init => CourseOK
<1> SUFFICES ASSUME Init PROVE CourseOK
    OBVIOUS
<1>1. TypeOK
    BY InitTypes
<1>2. Suite[group] \in [mpi_size : Nat \ {0}, tests : Seq(Seq(StepRecord))]
    BY SuiteAssumption DEF Init, Groups
<1>3. RanksOK
    BY <1>2 DEF Init, RanksOK, Ranks
<1>4. WithinTests
    <2>1. \A r \in Ranks : pc[r] = 1
        BY DEF Init
    <2> QED BY <1>1, <2>1, TestHasSteps DEF WithinTests
<1>5. DecisionsAgree
    BY DEF Init, DecisionsAgree
<1>6. HeldAreVariables
    BY DEF Init, HeldAreVariables
<1>7. MemoriesOK
    BY DEF Init, MemoriesOK, Memories
<1> QED BY <1>1, <1>3, <1>4, <1>5, <1>6, <1>7 DEF CourseOK

\* What is known of the ranks when no test is begun, and a rank is where it was or has
\* gone on within its test.
LEMMA CourseWithinTests ==
    ASSUME CourseOK, TypeOK', UNCHANGED <<program, test>>,
           \A q \in Ranks : ~Finished(q) => pc'[q] \in 1..Len(Steps(q))+1,
           DecisionsAgree',
           \A q \in Ranks : DOMAIN held'[q] \subseteq Variables(GroupTests),
           \A q \in Ranks : ~Finished(q) => pending'[q] \in Memories(Steps(q))
    PROVE  CourseOK'
<1>1. Ranks' = Ranks /\ group' = group /\ GroupTests' = GroupTests
    BY DEF program, Ranks, GroupTests
<1>2. ASSUME NEW q \in Ranks PROVE Steps(q)' = Steps(q) /\ Finished(q)' = Finished(q)
    BY DEF program, Steps, Finished, Tests
<1>3. RanksOK' /\ HeldAreVariables'
    BY <1>1 DEF CourseOK, RanksOK, HeldAreVariables
<1>4. WithinTests' /\ MemoriesOK'
    BY <1>1, <1>2 DEF WithinTests, MemoriesOK
<1> QED BY <1>3, <1>4 DEF CourseOK

LEMMA SkipKeepsCourse ==
    ASSUME CourseOK, TypeOK', NEW r \in Ranks, Skip(r)
    PROVE  CourseOK'
<1> DEFINE J == {j \in pc[r]..Len(Steps(r)) : ~Skipped(r, Steps(r)[j])}
<1>1. /\ InTest(r) /\ pc' = [pc EXCEPT ![r] = FirstOf(Steps(r), J)]
      /\ UNCHANGED <<program, test, store, chosen, report>>
    BY DEF Skip
<1>2. Len(Steps(r)) \in Nat /\ pc[r] \in 1..Len(Steps(r))
    BY <1>1, StepInTest DEF CourseOK
<1>3. pc[r] \in Nat \ {0} /\ pc[r] <= Len(Steps(r)) + 1 /\ J \in SUBSET (pc[r]..Len(Steps(r)))
    BY <1>2
<1> HIDE DEF J
<1>4. FirstOf(Steps(r), J) \in 1..Len(Steps(r))+1
    <2>1. FirstOf(Steps(r), J) \in pc[r]..Len(Steps(r))+1
        BY <1>2, <1>3, FirstOfPlaces
    <2> QED BY <1>2, <2>1
<1>5. \A q \in Ranks : ~Finished(q) => pc'[q] \in 1..Len(Steps(q))+1
    BY <1>1, <1>4, TypeParts DEF CourseOK, WithinTests, PlaceOK
<1>6. chosen' = chosen /\ held' = held /\ pending' = pending /\ UNCHANGED <<program, test>>
    BY <1>1 DEF store, report
<1>7. DecisionsAgree'
    BY <1>6 DEF DecisionsAgree, CourseOK
<1> QED BY <1>5, <1>6, <1>7, CourseWithinTests DEF CourseOK, HeldAreVariables, MemoriesOK

LEMMA DecideKeepsCourse ==
    ASSUME CourseOK, TypeOK', NEW r \in Ranks, Decide(r)
    PROVE  CourseOK'
<1>1. PICK lit \in Undecided(Now(r)), b \in BOOLEAN : chosen' = chosen \cup {<<lit[1], b>>}
    BY DEF Decide
<1>2. {<<lit[1], x>> : x \in BOOLEAN} \cap chosen = {}
    BY <1>1 DEF Undecided, IsOpen
<1>3. chosen \subseteq STRING \X BOOLEAN
    BY TypeParts DEF CourseOK, StoreOK
<1>4. ASSUME NEW old \in chosen' PROVE Opposite(old) \notin chosen'
    <2>1. CASE old = <<lit[1], b>>
        <3>1. Opposite(old) = <<lit[1], ~b>>
            BY <2>1 DEF Opposite
        <3>2. <<lit[1], ~b>> \notin chosen
            BY <1>2
        <3>3. <<lit[1], ~b>> # <<lit[1], b>>
            OBVIOUS
        <3> QED BY <1>1, <3>1, <3>2, <3>3
    <2>2. CASE old \in chosen
        <3>1. Opposite(old) \notin chosen
            BY <2>2 DEF CourseOK, DecisionsAgree
        <3>2. Opposite(old) # <<lit[1], b>>
            <4>1. old = <<old[1], old[2]>> /\ old[2] \in BOOLEAN
                BY <1>3, <2>2
            <4>2. SUFFICES ASSUME Opposite(old) = <<lit[1], b>> PROVE FALSE
                OBVIOUS
            <4>3. old[1] = lit[1]
                BY <4>2 DEF Opposite
            <4> QED BY <1>2, <2>2, <4>1, <4>3
        <3> QED BY <1>1, <3>1, <3>2
    <2> QED BY <1>1, <2>1, <2>2
<1>5. UNCHANGED <<program, test, pc, held, pending>>
    BY DEF Decide, place, store, report
<1>6. DecisionsAgree'
    BY <1>4 DEF DecisionsAgree
<1> QED BY <1>5, <1>6, CourseWithinTests DEF CourseOK, HeldAreVariables, MemoriesOK, WithinTests

\* A call adds no other variable than its own to those that hold something.
LEMMA HeldNames ==
    ASSUME NEW r \in Ranks, NEW s
    PROVE  DOMAIN HeldAfter(r, s) \subseteq DOMAIN held[r] \cup {s.h}
<1>1. \/ \E handle : HeldAfter(r, s) = With(r, s.h, handle)
      \/ \E hs : HeldAfter(r, s) = Without(r, hs)
      \/ HeldAfter(r, s) = held[r]
    BY Zenon DEF HeldAfter
<1>2. \A handle : DOMAIN With(r, s.h, handle) \subseteq DOMAIN held[r] \cup {s.h}
    BY DEF With
<1>3. \A hs : DOMAIN Without(r, hs) \subseteq DOMAIN held[r]
    BY DEF Without
<1> QED BY <1>1, <1>2, <1>3

LEMMA PlacesAhead ==
    ASSUME CourseOK, NEW r \in Ranks, InTest(r)
    PROVE  /\ Onward(r) \in 1..Len(Steps(r))+1 /\ Diverted(r) \in 1..Len(Steps(r))+1
           /\ pc[r] + 1 \in 1..Len(Steps(r))+1
<1>1. Len(Steps(r)) \in Nat /\ pc[r] \in 1..Len(Steps(r))
    BY StepInTest DEF CourseOK
<1>2. /\ Onward(r) \in pc[r]+1..Len(Steps(r))+1
      /\ Diverted(r) \in pc[r]+1..Len(Steps(r))+1
    BY <1>1, WaysLeadOn DEF Onward, Diverted
<1> QED BY <1>1, <1>2

\* What a call, its failure and a reduction leave remembered can be remembered.
LEMMA MemoriesGrow ==
    ASSUME CourseOK, NEW r \in Ranks, InTest(r)
    PROVE  /\ pending[r] \in Memories(Steps(r))
           /\ pending[r] \cup Remembered(Now(r)) \in Memories(Steps(r))
           /\ (pending[r] \ {"op"}) \cup ({Now(r).route} \cap {"part"}) \in Memories(Steps(r))
           /\ pending[r] \ {"op"} \in Memories(Steps(r))
<1>1. pc[r] \in DOMAIN Steps(r) /\ Now(r) = Steps(r)[pc[r]] /\ ~Finished(r)
    BY StepInTest DEF CourseOK
<1>2. pending[r] \in Memories(Steps(r))
    BY <1>1 DEF CourseOK, MemoriesOK
<1>3. Now(r).route \in {Steps(r)[i].route : i \in DOMAIN Steps(r)}
    BY <1>1
<1> QED BY <1>2, <1>3 DEF Memories, Remembered

LEMMA MakeKeepsCourse ==
    ASSUME CourseOK, TypeOK', NEW r \in Ranks, Make(r)
    PROVE  CourseOK'
<1> DEFINE G == Group(r, Now(r))
<1>1. AtCall(r) /\ Legal(r, Now(r)) /\ Met(r, Now(r))
    BY DEF Make
<1>2. \A q \in Ranks : q \in G => InTest(q)
    BY <1>1, GroupIsThere
<1>3. /\ pc' = [q \in Ranks |-> IF q \in G THEN Onward(q) ELSE pc[q]]
      /\ held' = [q \in Ranks |-> IF q \in G THEN HeldAfter(q, Now(q)) ELSE held[q]]
      /\ chosen' = ChosenAfter(r, Now(r))
      /\ UNCHANGED <<program, test, pending, aborted>>
    BY Zenon DEF Make
<1> HIDE DEF G
<1>4. \A q \in Ranks : ~Finished(q) => pc'[q] \in 1..Len(Steps(q))+1
    BY <1>2, <1>3, PlacesAhead DEF CourseOK, WithinTests
<1>5. DecisionsAgree'
    BY <1>3 DEF ChosenAfter, CourseOK, DecisionsAgree
<1>6. ASSUME NEW q \in Ranks PROVE DOMAIN held'[q] \subseteq Variables(GroupTests)
    <2>1. CASE q \in G
        BY <1>2, <1>3, <2>1, HeldNames, StepVariable DEF CourseOK, HeldAreVariables
    <2>2. CASE q \notin G
        BY <1>3, <2>2 DEF CourseOK, HeldAreVariables
    <2> QED BY <2>1, <2>2
<1>7. \A q \in Ranks : ~Finished(q) => pending'[q] \in Memories(Steps(q))
    BY <1>3 DEF CourseOK, MemoriesOK
<1> QED BY <1>3, <1>4, <1>5, <1>6, <1>7, CourseWithinTests

LEMMA ConsensusKeepsCourse ==
    ASSUME CourseOK, TypeOK', Consensus
    PROVE  CourseOK'
<1> DEFINE failed(r) == Failed(r, Now(r).loc)
<1>1. \A r \in Ranks : InTest(r)
    BY DEF Consensus, InConsensus, AtCall
<1>2. /\ pc' = [r \in Ranks |-> IF failed(r) THEN Diverted(r) ELSE pc[r] + 1]
      /\ pending' = [r \in Ranks |->
           (pending[r] \ {"op"}) \cup (IF failed(r) THEN {Now(r).route} \cap {"part"} ELSE {})]
      /\ UNCHANGED <<program, test, store, chosen, faults, aborted>>
    BY Zenon DEF Consensus
<1> HIDE DEF failed
<1>3. \A q \in Ranks : ~Finished(q) => pc'[q] \in 1..Len(Steps(q))+1
    BY <1>1, <1>2, PlacesAhead
<1>4. DecisionsAgree' /\ \A q \in Ranks : DOMAIN held'[q] \subseteq Variables(GroupTests)
    BY <1>2 DEF CourseOK, DecisionsAgree, HeldAreVariables, store
<1>5. \A q \in Ranks : ~Finished(q) => pending'[q] \in Memories(Steps(q))
    BY <1>1, <1>2, MemoriesGrow
<1> QED BY <1>2, <1>3, <1>4, <1>5, CourseWithinTests

LEMMA DivertKeepsCourse ==
    ASSUME CourseOK, TypeOK', NEW G, \A q \in Ranks : q \in G => InTest(q), Divert(G)
    PROVE  CourseOK'
<1>1. /\ pc' = [q \in Ranks |-> IF q \in G THEN Diverted(q) ELSE pc[q]]
      /\ held' = [q \in Ranks |->
           IF q \in G /\ Assigns(Now(q)) THEN Without(q, {Now(q).h}) ELSE held[q]]
      /\ pending' = [q \in Ranks |->
           IF q \in G THEN pending[q] \cup Remembered(Now(q)) ELSE pending[q]]
      /\ UNCHANGED <<program, test, files, chosen>>
    BY Zenon DEF Divert
<1>2. \A q \in Ranks : ~Finished(q) => pc'[q] \in 1..Len(Steps(q))+1
    BY <1>1, PlacesAhead DEF CourseOK, WithinTests
<1>3. DecisionsAgree'
    BY <1>1 DEF CourseOK, DecisionsAgree
<1>4. \A q \in Ranks : DOMAIN held'[q] \subseteq Variables(GroupTests)
    BY <1>1 DEF CourseOK, HeldAreVariables, Without
<1>5. \A q \in Ranks : ~Finished(q) => pending'[q] \in Memories(Steps(q))
    BY <1>1, MemoriesGrow DEF CourseOK, MemoriesOK
<1> QED BY <1>1, <1>2, <1>3, <1>4, <1>5, CourseWithinTests

LEMMA NextTestKeepsCourse ==
    ASSUME CourseOK, TypeOK', NEW r \in Ranks, NextTest(r)
    PROVE  CourseOK'
<1>1. /\ test' = [test EXCEPT ![r] = @ + 1] /\ pc' = [pc EXCEPT ![r] = 1]
      /\ pending' = [pending EXCEPT ![r] = {}]
      /\ UNCHANGED <<program, store, chosen>>
    BY DEF NextTest
<1>2. PlaceOK /\ ReportOK
    BY TypeParts DEF CourseOK
<1>3. Ranks' = Ranks /\ group' = group /\ GroupTests' = GroupTests
    BY <1>1, <1>2 DEF program, Ranks, GroupTests, PlaceOK
<1>4. RanksOK' /\ DecisionsAgree' /\ HeldAreVariables'
    BY <1>1, <1>3 DEF CourseOK, RanksOK, DecisionsAgree, HeldAreVariables, store
<1>5. ASSUME NEW q \in Ranks, ~Finished(q)'
      PROVE  pc'[q] \in 1..Len(Steps(q)')+1 /\ pending'[q] \in Memories(Steps(q)')
    <2>1. CASE q = r
        <3>1. pc'[q] = 1 /\ pending'[q] = {}
            BY <1>1, <1>2, <2>1 DEF PlaceOK, ReportOK
        <3>2. Steps(q)' = GroupTests[test'[q]] /\ test'[q] \in DOMAIN GroupTests
            BY <1>3, <1>5 DEF Steps, Finished, Tests, GroupTests
        <3>3. Steps(q)' \in Seq(StepRecord)
            BY <3>2, TestsAreSequences DEF CourseOK
        <3> QED BY <3>1, <3>3 DEF Memories
    <2>2. CASE q # r
        <3>1. test'[q] = test[q] /\ pc'[q] = pc[q] /\ pending'[q] = pending[q]
            BY <1>1, <1>2, <2>2 DEF PlaceOK, ReportOK
        <3>2. Steps(q)' = Steps(q) /\ ~Finished(q)
            BY <1>3, <1>5, <3>1 DEF Steps, Finished, Tests
        <3> QED BY <3>1, <3>2 DEF CourseOK, WithinTests, MemoriesOK
    <2> QED BY <2>1, <2>2
<1>6. WithinTests' /\ MemoriesOK'
    BY <1>3, <1>5 DEF WithinTests, MemoriesOK
<1> QED BY <1>4, <1>6 DEF CourseOK

LEMMA StepKeepsCourse == CourseOK /\ [Next]_vars => CourseOK'
<1> SUFFICES ASSUME CourseOK, [Next]_vars PROVE CourseOK'
    OBVIOUS
<1>1. TypeOK'
    BY StepKeepsTypes DEF CourseOK
<1>2. ASSUME NEW r \in Ranks, Skip(r) \/ Decide(r) \/ Make(r) \/ NextTest(r) PROVE CourseOK'
    BY <1>1, <1>2, SkipKeepsCourse, DecideKeepsCourse, MakeKeepsCourse, NextTestKeepsCourse
<1>3. ASSUME NEW r \in Ranks, Fail(r) \/ Break(r) PROVE CourseOK'
    <2>1. CASE Fail(r)
        BY <1>1, <2>1, DivertKeepsCourse DEF Fail, AtCall
    <2>2. CASE Break(r)
        <3>1. AtCall(r) /\ Divert(Group(r, Now(r)))
            BY <2>2, Zenon DEF Break
        <3>2. \A q \in Ranks : q \in Group(r, Now(r)) => InTest(q)
            BY <2>2, <3>1 DEF Break, AtCall, Met
        <3> QED BY <1>1, <3>1, <3>2, DivertKeepsCourse
    <2> QED BY <1>3, <2>1, <2>2
<1>4. CASE Consensus
    BY <1>1, <1>4, ConsensusKeepsCourse
<1>5. CASE UNCHANGED vars
    BY <1>1, <1>5, CourseWithinTests
       DEF vars, program, place, store, report, CourseOK, WithinTests, DecisionsAgree,
           HeldAreVariables, MemoriesOK
<1> QED BY <1>2, <1>3, <1>4, <1>5 DEF Next, Ended, Polling

-----------------------------------------------------------------------------
(* Every open file is foreseen. *)

AllSound(survey) ==
    \A g \in Groups, c \in Connectors :
        Sound(survey[g][c], Suite[g].tests, Suite[g].mpi_size, FlagsOf(c))

\* What is foreseen for r in its test, place by place.
At(survey, r) == survey[group][connector][r][test[r]]

CloseFailed == \E f \in faults : f.op = "close"
Expected(survey, r) ==
    \A h \in DOMAIN held[r] : held[r][h].file # NoFile =>
        Explained(At(survey, r)[pc[r]], h, held[r][h].file, chosen, pending[r],
                  CloseFailed /\ h \in missing[r])
OpenOK(survey) == aborted \/ \A r \in Ranks : ~Finished(r) => Expected(survey, r)
LostOK == CloseFailed \/ \A r \in Ranks : lost[r] \subseteq NeverClosed(vol_cap_flags_g)
FilesOK(survey) == CourseOK /\ LostOK /\ OpenOK(survey)

LEMMA SurveyIsSound ==
    ASSUME NEW survey, AllSound(survey), CourseOK
    PROVE  Sound(survey[group][connector], GroupTests, Suite[group].mpi_size, vol_cap_flags_g)
BY TypeParts DEF AllSound, CourseOK, ProgramOK, GroupTests, vol_cap_flags_g

LEMMA StepsAreSound ==
    ASSUME NEW survey, AllSound(survey), CourseOK, NEW r \in Ranks, ~Finished(r),
           NEW i \in 1..Len(Steps(r))
    PROVE  /\ PassesOver(r, Steps(r), i, vol_cap_flags_g, At(survey, r))
           /\ \/ Never(r, Steps(r)[i], vol_cap_flags_g)
              \/ Carries(Steps(r), i, vol_cap_flags_g, At(survey, r))
<1>1. /\ test[r] \in DOMAIN GroupTests /\ Steps(r) = GroupTests[test[r]]
      /\ i \in DOMAIN GroupTests[test[r]]
    BY TestHasSteps DEF CourseOK
<1>2. r \in 0..Suite[group].mpi_size-1
    BY DEF CourseOK, RanksOK
<1>3. Sound(survey[group][connector], GroupTests, Suite[group].mpi_size, vol_cap_flags_g)
    BY SurveyIsSound
<1> QED BY <1>1, <1>2, <1>3, Zenon DEF Sound, At

\* A call that is made carries the entries that explain an open handle.
LEMMA CallCarries ==
    ASSUME NEW survey, AllSound(survey), CourseOK, NEW r \in Ranks, AtCall(r)
    PROVE  /\ Carries(Steps(r), pc[r], vol_cap_flags_g, At(survey, r))
           /\ Decisions(Now(r)) \subseteq chosen
           /\ \A lit \in Decisions(Now(r)) : Opposite(lit) \notin chosen
<1>1. InTest(r) /\ Makes(r, Now(r))
    BY DEF AtCall
<1>2. /\ Now(r) \in StepRecord /\ pc[r] \in 1..Len(Steps(r)) /\ ~Finished(r)
      /\ Now(r) = Steps(r)[pc[r]]
    BY <1>1, StepInTest DEF CourseOK
<1> QED BY <1>1, <1>2, StepsAreSound, DecisionsOfCall DEF CourseOK

LEMMA HandleIsCarried ==
    ASSUME NEW survey, AllSound(survey), CourseOK, NEW r \in Ranks, AtCall(r),
           NEW h, NEW file, NEW x \in BOOLEAN,
           Explained(At(survey, r)[pc[r]], h, file, chosen, pending[r], x)
    PROVE  LET s == Now(r)
               at == At(survey, r) IN
           /\ h \in Given(s) => x \/ file \in NeverClosed(vol_cap_flags_g)
           /\ h \notin Given(s) /\ ~(s.op = "close" /\ h = s.h) =>
                \A way \in Outcomes(Steps(r), pc[r], pending[r]) :
                  Explained(at[way.pc], h, file, Lasting(s, chosen), way.pending, x)
           /\ s.op = "close" /\ h = s.h /\ MayFail(s) =>
                Foreseen(at[Diverted(r)], Entry(h, file, TRUE), chosen,
                         pending[r] \cup Remembered(s))
           /\ s.op \in {"new", "find", "commit"} /\ h = s.loc =>
                Foreseen(at[Onward(r)], Entry(s.h, file, FALSE), chosen, pending[r])
<1> DEFINE s == Now(r)
           at == At(survey, r)
<1>1. /\ Carries(Steps(r), pc[r], vol_cap_flags_g, at)
      /\ Decisions(Steps(r)[pc[r]]) \subseteq chosen
      /\ \A lit \in Decisions(Steps(r)[pc[r]]) : Opposite(lit) \notin chosen
    BY CallCarries DEF Now
<1> HIDE DEF at
<1>2. ASSUME NEW late \in BOOLEAN, late => x,
             Foreseen(at[pc[r]], Entry(h, file, late), chosen, pending[r])
      PROVE  /\ h \in Given(s) => x \/ file \in NeverClosed(vol_cap_flags_g)
             /\ h \notin Given(s) /\ ~(s.op = "close" /\ h = s.h) =>
                  \A way \in Outcomes(Steps(r), pc[r], pending[r]) :
                    Explained(at[way.pc], h, file, Lasting(s, chosen), way.pending, x)
             /\ s.op = "close" /\ h = s.h /\ MayFail(s) =>
                  Foreseen(at[Diverted(r)], Entry(h, file, TRUE), chosen,
                           pending[r] \cup Remembered(s))
             /\ s.op \in {"new", "find", "commit"} /\ h = s.loc =>
                  Foreseen(at[Onward(r)], Entry(s.h, file, FALSE), chosen, pending[r])
    <2>1. /\ h \in Given(s) => late \/ file \in NeverClosed(vol_cap_flags_g)
          /\ h \notin Given(s) /\ ~(s.op = "close" /\ h = s.h) =>
               \A way \in Outcomes(Steps(r), pc[r], pending[r]) :
                 Foreseen(at[way.pc], Entry(h, file, late), Lasting(s, chosen), way.pending)
          /\ s.op = "close" /\ h = s.h /\ MayFail(s) =>
               Foreseen(at[DivertedFrom(Steps(r), pc[r])], Entry(h, file, TRUE), chosen,
                        pending[r] \cup Remembered(s))
          /\ s.op \in {"new", "find", "commit"} /\ h = s.loc =>
               Foreseen(at[OnwardFrom(Steps(r), pc[r], pending[r])],
                        Entry(s.h, file, FALSE), chosen, pending[r])
        BY <1>1, <1>2, EntryIsCarried, Zenon DEF Now
    <2>2. ASSUME NEW E, NEW given, NEW failed,
                 Foreseen(E, Entry(h, file, late), given, failed)
          PROVE  Explained(E, h, file, given, failed, x)
        <3>1. CASE late = TRUE
            BY <1>2, <2>2, <3>1 DEF Explained
        <3>2. CASE late = FALSE
            BY <2>2, <3>2 DEF Explained
        <3> QED BY <1>2, <3>1, <3>2
    <2> HIDE DEF s
    <2> QED BY <1>2, <2>1, <2>2, Zenon DEF Diverted, Onward
<1>3. \/ Foreseen(at[pc[r]], Entry(h, file, FALSE), chosen, pending[r])
      \/ x /\ Foreseen(at[pc[r]], Entry(h, file, TRUE), chosen, pending[r])
    BY DEF Explained, at
<1> HIDE DEF s
<1> QED BY <1>2, <1>3, Zenon DEF at, s

\* What is open after a call: the handle it gave, or one that was open before.
LEMMA OpenAfterCall ==
    ASSUME NEW r \in Ranks, NEW s, NEW h \in DOMAIN HeldAfter(r, s)
    PROVE  \/ s.op \in {"create", "open"} /\ h = s.h /\ HeldAfter(r, s)[h].file = s.loc
           \/ /\ s.op \in {"new", "find", "commit"} /\ h = s.h
              /\ HeldAfter(r, s)[h].file = held[r][s.loc].file
           \/ HeldAfter(r, s)[h].file = NoFile
           \/ /\ h \in DOMAIN held[r] /\ HeldAfter(r, s)[h] = held[r][h]
              /\ h \notin Given(s) /\ ~(s.op = "close" /\ h = s.h)
<1>1. \A handle : h \in DOMAIN With(r, s.h, handle) =>
          \/ h = s.h /\ With(r, s.h, handle)[h] = handle
          \/ h # s.h /\ h \in DOMAIN held[r] /\ With(r, s.h, handle)[h] = held[r][h]
    BY DEF With
<1>2. \A hs : h \in DOMAIN Without(r, hs) =>
          h \notin hs /\ h \in DOMAIN held[r] /\ Without(r, hs)[h] = held[r][h]
    BY DEF Without
<1>3. CASE Assigns(s)
    <2>1. s.op \in {"create", "open", "new", "find", "make"} /\ Given(s) = {s.h}
        BY <1>3 DEF Assigns, Assigning, Given
    <2>2. CASE s.op \in {"create", "open"}
        <3>1. HeldAfter(r, s) = With(r, s.h, Handle(s.loc, s.comm))
            BY <2>2 DEF HeldAfter
        <3> QED BY <1>1, <2>1, <2>2, <3>1 DEF Handle
    <2>3. CASE s.op \in {"new", "find"}
        <3>1. HeldAfter(r, s) = With(r, s.h, Handle(held[r][s.loc].file, Comm(r, s)))
            BY <2>3 DEF HeldAfter
        <3> QED BY <1>1, <2>1, <2>3, <3>1 DEF Handle
    <2>4. CASE s.op = "make"
        <3>1. HeldAfter(r, s) = With(r, s.h, Memory)
            BY <2>4 DEF HeldAfter
        <3> QED BY <1>1, <2>1, <2>4, <3>1 DEF Memory
    <2> QED BY <2>1, <2>2, <2>3, <2>4
<1>4. CASE s.op = "commit"
    <2>1. HeldAfter(r, s) = With(r, s.h, Handle(held[r][s.loc].file, Comm(r, s)))
        BY <1>4 DEF HeldAfter
    <2>2. Given(s) = {}
        BY <1>4 DEF Given, Assigns, Assigning
    <2> QED BY <1>1, <1>4, <2>1, <2>2 DEF Handle
<1>5. CASE s.op = "close"
    <2>1. HeldAfter(r, s) = Without(r, {s.h}) /\ Given(s) = {}
        BY <1>5 DEF HeldAfter, Given, Assigns, Assigning
    <2> QED BY <1>2, <2>1
<1>6. CASE s.op = "leave"
    <2>1. HeldAfter(r, s) = Without(r, s.uses) /\ Given(s) = s.uses
        BY <1>6 DEF HeldAfter, Given, Assigns, Assigning
    <2> QED BY <1>2, <1>6, <2>1
<1>7. CASE ~Assigns(s) /\ s.op \notin {"commit", "close", "leave"}
    <2>1. HeldAfter(r, s) = held[r] /\ Given(s) = {}
        BY <1>7 DEF HeldAfter, Given, Assigns, Assigning
    <2> QED BY <1>7, <2>1
<1> QED BY <1>3, <1>4, <1>5, <1>6, <1>7

\* A variable is not settled by a call that neither gives it up nor closes it.
LEMMA VariableNotSettled ==
    ASSUME NEW survey, AllSound(survey), CourseOK, NEW r \in Ranks, InTest(r),
           NEW h \in Variables(GroupTests), h \notin Given(Now(r)),
           ~(Now(r).op = "close" /\ h = Now(r).h)
    PROVE  h \notin Yield(Now(r))
<1>1. Variables(GroupTests) \cap Created(GroupTests) = {}
    BY SurveyIsSound DEF Sound
<1>2. Now(r).op \in {"create", "delete"} => Now(r).loc \in Created(GroupTests)
    BY StepInTest DEF CourseOK, Created
<1>3. Yield(Now(r)) \subseteq
          (IF Assigns(Now(r)) \/ Now(r).op = "close" THEN {Now(r).h} ELSE {})
          \cup (IF Now(r).op \in {"create", "delete"} THEN {Now(r).loc} ELSE {})
    BY DEF Yield
<1>4. Assigns(Now(r)) => Given(Now(r)) = {Now(r).h}
    BY DEF Given, Assigns, Assigning
<1> QED BY <1>1, <1>2, <1>3, <1>4

\* After a call that succeeds, what a rank has open is foreseen.
LEMMA SuccessIsForeseen ==
    ASSUME NEW survey, AllSound(survey), CourseOK, NEW r \in Ranks, AtCall(r),
           Legal(r, Now(r)), Now(r).op # "consensus", Expected(survey, r),
           NEW h \in DOMAIN HeldAfter(r, Now(r)), HeldAfter(r, Now(r))[h].file # NoFile
    PROVE  Explained(At(survey, r)[Onward(r)], h, HeldAfter(r, Now(r))[h].file,
                     Lasting(Now(r), chosen), pending[r],
                     CloseFailed /\ h \in missing[r] \ (Given(Now(r)) \cup Yield(Now(r))))
<1> DEFINE s == Now(r)
           at == At(survey, r)
           x(v) == CloseFailed /\ v \in missing[r]
<1>1. InTest(r) /\ ~Finished(r) /\ s = Steps(r)[pc[r]]
    BY StepInTest DEF AtCall, CourseOK
<1> HIDE DEF at
<1>2. CASE s.op \in {"create", "open"} /\ h = s.h /\ HeldAfter(r, s)[h].file = s.loc
    <2>1. Carries(Steps(r), pc[r], vol_cap_flags_g, at) /\ Decisions(s) \subseteq chosen
        BY CallCarries DEF at
    <2>2. pending[r] \in Memories(Steps(r))
        BY <1>1 DEF CourseOK, MemoriesOK
    <2>3. Foreseen(at[OnwardFrom(Steps(r), pc[r], pending[r])], Entry(s.h, s.loc, FALSE),
                   chosen, pending[r])
        BY <1>1, <1>2, <2>1, <2>2, OpenedIsForeseen
    <2>4. Lasting(s, chosen) = chosen
        BY <1>2 DEF Lasting
    <2> QED BY <1>2, <2>3, <2>4 DEF Onward, Explained, at
<1>3. CASE /\ s.op \in {"new", "find", "commit"} /\ h = s.h
           /\ HeldAfter(r, s)[h].file = held[r][s.loc].file
    <2>1. s.loc \in DOMAIN held[r]
        BY <1>3 DEF Legal
    <2>2. Explained(at[pc[r]], s.loc, held[r][s.loc].file, chosen, pending[r], x(s.loc))
        BY <1>3, <2>1 DEF Expected, at
    <2>3. x(s.loc) \in BOOLEAN
        OBVIOUS
    <2> HIDE DEF x
    <2>4. Foreseen(at[Onward(r)], Entry(s.h, held[r][s.loc].file, FALSE), chosen, pending[r])
        BY <1>3, <2>2, <2>3, HandleIsCarried DEF at
    <2>5. Lasting(s, chosen) = chosen
        BY <1>3 DEF Lasting
    <2> QED BY <1>3, <2>4, <2>5 DEF Explained, at
<1>4. CASE /\ h \in DOMAIN held[r] /\ HeldAfter(r, s)[h] = held[r][h]
           /\ h \notin Given(s) /\ ~(s.op = "close" /\ h = s.h)
    <2>1. Explained(at[pc[r]], h, held[r][h].file, chosen, pending[r], x(h))
        BY <1>4 DEF Expected, at
    <2>2. x(h) \in BOOLEAN
        OBVIOUS
    <2>3. x(h) => CloseFailed /\ h \in missing[r] \ (Given(s) \cup Yield(s))
        BY <1>1, <1>4, VariableNotSettled DEF CourseOK, HeldAreVariables
    <2> HIDE DEF x
    <2>4. \A way \in Outcomes(Steps(r), pc[r], pending[r]) :
            Explained(at[way.pc], h, held[r][h].file, Lasting(s, chosen), way.pending, x(h))
        BY <1>4, <2>1, <2>2, HandleIsCarried DEF at
    <2>5. [pc |-> Onward(r), pending |-> pending[r]] \in Outcomes(Steps(r), pc[r], pending[r])
        BY <1>1 DEF Outcomes, Onward
    <2>6. Explained(at[Onward(r)], h, held[r][h].file, Lasting(s, chosen), pending[r], x(h))
        BY <2>4, <2>5
    <2> QED BY <1>4, <2>3, <2>6 DEF Explained, at
<1> QED BY <1>2, <1>3, <1>4, OpenAfterCall

\* What a call gives up while it is open is known to stay open, or late.
LEMMA GivenIsForeseen ==
    ASSUME NEW survey, AllSound(survey), CourseOK, NEW r \in Ranks, AtCall(r),
           Expected(survey, r), LostOK
    PROVE  CloseFailed \/ LostAfter(r, Now(r)) \subseteq NeverClosed(vol_cap_flags_g)
<1> SUFFICES ASSUME ~CloseFailed
             PROVE  LostAfter(r, Now(r)) \subseteq NeverClosed(vol_cap_flags_g)
    OBVIOUS
<1>1. ASSUME NEW h \in OpenGiven(r, Now(r)), held[r][h].file # NoFile
      PROVE  held[r][h].file \in NeverClosed(vol_cap_flags_g)
    <2>1. h \in DOMAIN held[r] /\ h \in Given(Now(r))
        BY DEF OpenGiven
    <2> DEFINE x == CloseFailed /\ h \in missing[r]
    <2>2. Explained(At(survey, r)[pc[r]], h, held[r][h].file, chosen, pending[r], x)
        BY <1>1, <2>1 DEF Expected
    <2>3. x \in BOOLEAN /\ ~x
        OBVIOUS
    <2> HIDE DEF x
    <2> QED BY <2>1, <2>2, <2>3, HandleIsCarried
<1>2. lost[r] \subseteq NeverClosed(vol_cap_flags_g)
    BY DEF LostOK
<1> QED BY <1>1, <1>2 DEF LostAfter

\* The decisions that explain what a rank has open do not end with a function that
\* another rank is the last to leave.
LEMMA DecisionsStay ==
    ASSUME NEW survey, AllSound(survey), CourseOK, NEW r \in Ranks, NEW q \in Ranks,
           q # r, ~Finished(q), InTest(r), LastToLeave(r, Now(r)),
           NEW h, NEW file, NEW x,
           Explained(At(survey, q)[pc[q]], h, file, chosen, pending[q], x)
    PROVE  Explained(At(survey, q)[pc[q]], h, file, ChosenAfter(r, Now(r)), pending[q], x)
<1> DEFINE s == Now(r)
           n == Suite[group].mpi_size
<1>1. /\ s = GroupTests[test[r]][pc[r]] /\ s.op = "leave"
      /\ test[r] \in DOMAIN GroupTests /\ pc[r] \in DOMAIN GroupTests[test[r]]
    BY StepInTest DEF LastToLeave, CourseOK
<1>2. test[q] > test[r] \/ (test[q] = test[r] /\ pc[q] > pc[r])
    BY DEF LastToLeave
<1>3. /\ test[q] \in DOMAIN GroupTests /\ pc[q] \in 1..Len(GroupTests[test[q]])+1
      /\ At(survey, q) = survey[group][connector][q][test[q]]
    BY TestHasSteps DEF CourseOK, WithinTests, At
<1>4. n \in Nat \ {0} /\ q \in 0..n-1 /\ r \in 0..n-1
    BY TypeParts, SuiteAssumption DEF CourseOK, RanksOK, ProgramOK, Groups
<1>5. n > 1
    BY <1>4
<1>6. Undisturbed(GroupTests, survey[group][connector][q])
    BY <1>4, <1>5, SurveyIsSound DEF Sound
<1>7. ASSUME NEW e \in At(survey, q)[pc[q]], e.given \subseteq chosen
      PROVE  e.given \subseteq ChosenAfter(r, s)
    <2>1. CASE e.given = {}
        BY <2>1
    <2>2. CASE e.given # {}
        <3> DEFINE p == <<test[r], pc[r]>>
        <3>1. p \in UNION {{t} \X DOMAIN GroupTests[t] : t \in DOMAIN GroupTests}
            BY <1>1
        <3>2. p[1] = test[r] /\ p[2] = pc[r] /\ GroupTests[p[1]][p[2]] = s
            BY <1>1
        <3>3. p[1] < test[q] \/ (p[1] = test[q] /\ p[2] < pc[q])
            BY <1>2, <3>2, TypeParts DEF CourseOK, PlaceOK
        <3>4. e \in survey[group][connector][q][test[q]][pc[q]]
            BY <1>3
        <3> HIDE DEF p
        <3>5. \A lit \in e.given : lit[1] \notin GroupTests[p[1]][p[2]].ends
            BY <1>1, <1>3, <1>6, <2>2, <3>1, <3>2, <3>3, <3>4, Zenon DEF Undisturbed
        <3> QED BY <1>7, <3>2, <3>5 DEF ChosenAfter
    <2> QED BY <2>1, <2>2
<1> HIDE DEF s
<1>8. ASSUME NEW late, Foreseen(At(survey, q)[pc[q]], Entry(h, file, late), chosen, pending[q])
      PROVE  Foreseen(At(survey, q)[pc[q]], Entry(h, file, late), ChosenAfter(r, s), pending[q])
    BY <1>7, <1>8, ForeseenFields
<1> QED BY <1>8 DEF Explained, s

\* The ranks of a call have come to it, and it is the same operation.
LEMMA GroupCalls ==
    ASSUME NEW r \in Ranks, AtCall(r), Legal(r, Now(r)), Met(r, Now(r))
    PROVE  \A q \in Ranks : q \in Group(r, Now(r)) =>
               AtCall(q) /\ Legal(q, Now(q)) /\ Now(q).op = Now(r).op
BY DEF Met, Joins, Call

\* What explains a handle explains it by more decisions and a wider excuse.
LEMMA ExplainedByMore ==
    ASSUME NEW entries, NEW h, NEW file, NEW given, NEW failed, NEW x,
           Explained(entries, h, file, given, failed, x),
           NEW more, given \subseteq more, NEW y, x => y
    PROVE  Explained(entries, h, file, more, failed, y)
BY ForeseenByMore DEF Explained

\* What has to be shown of a step that stays within the tests.
LEMMA FilesWithinTests ==
    ASSUME NEW survey, CourseOK, UNCHANGED <<program, test>>,
           \A q \in Ranks : ~Finished(q) =>
             \A h \in DOMAIN held'[q] : held'[q][h].file # NoFile =>
               Explained(At(survey, q)[pc'[q]], h, held'[q][h].file, chosen', pending'[q],
                         CloseFailed' /\ h \in missing'[q])
    PROVE  OpenOK(survey)'
<1>1. Ranks' = Ranks
    BY DEF Ranks
<1>2. ASSUME NEW q \in Ranks
      PROVE  Finished(q)' = Finished(q) /\ At(survey, q)' = At(survey, q)
    BY DEF program, Finished, Tests, At
<1>3. ASSUME NEW q \in Ranks, ~Finished(q) PROVE Expected(survey, q)'
    BY <1>2, <1>3 DEF Expected
<1> QED BY <1>1, <1>2, <1>3 DEF OpenOK

LEMMA MakeKeepsFiles ==
    ASSUME NEW survey, AllSound(survey), FilesOK(survey), NEW r \in Ranks, Make(r)
    PROVE  LostOK' /\ OpenOK(survey)'
<1> DEFINE s == Now(r)
           G == Group(r, s)
<1>1. /\ CourseOK /\ LostOK /\ AtCall(r) /\ InTest(r) /\ Legal(r, s) /\ Met(r, s)
      /\ s.op # "consensus"
    BY DEF FilesOK, Make, AtCall
<1>2. \A q \in Ranks : q \in G =>
          /\ AtCall(q) /\ Legal(q, Now(q)) /\ Now(q).op = s.op /\ ~Finished(q)
          /\ Now(q).op # "consensus"
    BY <1>1, GroupCalls DEF AtCall, InTest
<1>3. \A q \in Ranks : ~Finished(q) => Expected(survey, q)
    BY <1>1 DEF FilesOK, OpenOK, InTest
<1>4. /\ pc' = [q \in Ranks |-> IF q \in G THEN Onward(q) ELSE pc[q]]
      /\ held' = [q \in Ranks |-> IF q \in G THEN HeldAfter(q, Now(q)) ELSE held[q]]
      /\ missing' = [q \in Ranks |->
           IF q \in G THEN missing[q] \ (Given(Now(q)) \cup Yield(Now(q))) ELSE missing[q]]
      /\ lost' = [q \in Ranks |-> IF q \in G THEN LostAfter(q, Now(q)) ELSE lost[q]]
      /\ chosen' = ChosenAfter(r, s)
      /\ IF Over(r, s) THEN faults' = {} ELSE faults' = faults
      /\ UNCHANGED <<program, test, pending>>
    BY Zenon DEF Make
<1>5. s.op = "leave" => G = {r}
    BY DEF Group, Comm
<1> HIDE DEF s, G
<1>6. Ranks' = Ranks /\ vol_cap_flags_g' = vol_cap_flags_g
    BY <1>4 DEF program, Ranks, vol_cap_flags_g
<1>7. ASSUME NEW q \in Ranks, NEW h \in missing'[q], CloseFailed PROVE CloseFailed'
    <2>1. ~Over(r, s)
        BY <1>7 DEF Over
    <2> QED BY <1>4, <1>7, <2>1 DEF CloseFailed
<1>8. LostOK'
    <2>1. CASE Over(r, s)
        BY <1>6, <2>1 DEF Over, LostOK
    <2>2. CASE ~Over(r, s)
        <3>1. CloseFailed' = CloseFailed
            BY <1>4, <2>2 DEF CloseFailed
        <3>2. \A q \in Ranks : q \in G =>
                  CloseFailed \/ LostAfter(q, Now(q)) \subseteq NeverClosed(vol_cap_flags_g)
            BY <1>1, <1>2, <1>3, GivenIsForeseen
        <3> QED BY <1>1, <1>4, <1>6, <3>1, <3>2 DEF LostOK
    <2> QED BY <2>1, <2>2
<1>9. ASSUME NEW q \in Ranks, ~Finished(q), NEW h \in DOMAIN held'[q], held'[q][h].file # NoFile
      PROVE  Explained(At(survey, q)[pc'[q]], h, held'[q][h].file, chosen', pending'[q],
                       CloseFailed' /\ h \in missing'[q])
    <2>1. CASE q \in G
        <3>1. /\ held'[q] = HeldAfter(q, Now(q)) /\ pc'[q] = Onward(q) /\ pending'[q] = pending[q]
              /\ missing'[q] = missing[q] \ (Given(Now(q)) \cup Yield(Now(q)))
            BY <1>4, <2>1
        <3>2. Explained(At(survey, q)[pc'[q]], h, held'[q][h].file, Lasting(Now(q), chosen),
                        pending'[q], CloseFailed /\ h \in missing'[q])
            BY <1>1, <1>2, <1>3, <1>9, <2>1, <3>1, SuccessIsForeseen
        <3>3. Lasting(Now(q), chosen) \subseteq chosen'
            <4>1. CASE s.op = "leave"
                BY <1>4, <1>5, <2>1, <4>1 DEF Lasting, ChosenAfter, s
            <4>2. CASE s.op # "leave"
                BY <1>2, <1>4, <2>1, <4>2 DEF Lasting, ChosenAfter, LastToLeave
            <4> QED BY <4>1, <4>2
        <3> QED BY <1>7, <3>2, <3>3, ExplainedByMore
    <2>2. CASE q \notin G
        <3>1. /\ held'[q] = held[q] /\ pc'[q] = pc[q] /\ pending'[q] = pending[q]
              /\ missing'[q] = missing[q]
            BY <1>4, <2>2
        <3>2. Explained(At(survey, q)[pc[q]], h, held'[q][h].file, chosen,
                        pending[q], CloseFailed /\ h \in missing'[q])
            BY <1>3, <1>9, <3>1 DEF Expected
        <3>3. Explained(At(survey, q)[pc[q]], h, held'[q][h].file, chosen',
                        pending[q], CloseFailed /\ h \in missing'[q])
            <4>1. CASE LastToLeave(r, s)
                <5>1. q # r
                    BY <2>2, <1>5, <4>1 DEF LastToLeave
                <5> QED BY <1>1, <1>4, <1>9, <3>2, <4>1, <5>1, DecisionsStay DEF s
            <4>2. CASE ~LastToLeave(r, s)
                BY <1>4, <3>2, <4>2 DEF ChosenAfter
            <4> QED BY <4>1, <4>2
        <3> QED BY <1>7, <3>1, <3>3, ExplainedByMore
    <2> QED BY <2>1, <2>2
<1> QED BY <1>1, <1>4, <1>8, <1>9, FilesWithinTests

\* After a call that fails and lets the program go on, what a rank has open is foreseen.
LEMMA FailureIsForeseen ==
    ASSUME NEW survey, AllSound(survey), CourseOK, NEW r \in Ranks, AtCall(r),
           MayFail(Now(r)), Expected(survey, r),
           NEW h \in DOMAIN held[r], held[r][h].file # NoFile,
           ~(Assigns(Now(r)) /\ h = Now(r).h),
           NEW x \in BOOLEAN, CloseFailed /\ h \in missing[r] => x,
           Now(r).op = "close" /\ h = Now(r).h => x
    PROVE  Explained(At(survey, r)[Diverted(r)], h, held[r][h].file, chosen,
                     pending[r] \cup Remembered(Now(r)), x)
<1> DEFINE s == Now(r)
           at == At(survey, r)
<1>1. InTest(r) /\ s = Steps(r)[pc[r]]
    BY StepInTest DEF AtCall, CourseOK
<1>2. s.op # "leave" /\ Lasting(s, chosen) = chosen /\ h \notin Given(s)
    BY DEF MayFail, Marks, Lasting, Given
<1>3. Explained(at[pc[r]], h, held[r][h].file, chosen, pending[r], x)
    BY ExplainedByMore DEF Expected
<1> HIDE DEF at
<1>4. CASE s.op = "close" /\ h = s.h
    <2>1. Foreseen(at[Diverted(r)], Entry(h, held[r][h].file, TRUE), chosen,
                   pending[r] \cup Remembered(s))
        BY <1>3, <1>4, HandleIsCarried DEF at
    <2> QED BY <1>4, <2>1 DEF Explained, at
<1>5. CASE ~(s.op = "close" /\ h = s.h)
    <2>1. \A way \in Outcomes(Steps(r), pc[r], pending[r]) :
            Explained(at[way.pc], h, held[r][h].file, Lasting(s, chosen), way.pending, x)
        BY <1>2, <1>3, <1>5, HandleIsCarried DEF at
    <2>2. [pc |-> Diverted(r), pending |-> pending[r] \cup Remembered(s)]
              \in Outcomes(Steps(r), pc[r], pending[r])
        BY <1>1 DEF Outcomes, Diverted
    <2>3. Explained(at[Diverted(r)], h, held[r][h].file, Lasting(s, chosen),
                    pending[r] \cup Remembered(s), x)
        BY <2>1, <2>2
    <2> QED BY <1>2, <2>3 DEF at
<1> QED BY <1>4, <1>5

LEMMA DivertKeepsFiles ==
    ASSUME NEW survey, AllSound(survey), FilesOK(survey), ~aborted, NEW G,
           \A q \in Ranks : q \in G => AtCall(q) /\ (aborted' \/ MayFail(Now(q))),
           Divert(G), faults \subseteq faults',
           \A q \in Ranks : q \in G /\ Now(q).op = "close" /\ Now(q).h \in DOMAIN held[q]
               => CloseFailed'
    PROVE  LostOK' /\ OpenOK(survey)'
<1>1. CourseOK /\ LostOK /\ \A q \in Ranks : ~Finished(q) => Expected(survey, q)
    BY DEF FilesOK, OpenOK
<1>2. \A q \in Ranks : q \in G => ~Finished(q)
    BY DEF AtCall, InTest
<1>3. /\ pc' = [q \in Ranks |-> IF q \in G THEN Diverted(q) ELSE pc[q]]
      /\ held' = [q \in Ranks |->
           IF q \in G /\ Assigns(Now(q)) THEN Without(q, {Now(q).h}) ELSE held[q]]
      /\ missing' = [q \in Ranks |->
           IF q \in G THEN missing[q] \cup Yield(Now(q)) ELSE missing[q]]
      /\ lost' = [q \in Ranks |-> IF q \in G THEN LostAfter(q, Now(q)) ELSE lost[q]]
      /\ pending' = [q \in Ranks |->
           IF q \in G THEN pending[q] \cup Remembered(Now(q)) ELSE pending[q]]
      /\ UNCHANGED <<program, test, chosen>>
    BY Zenon DEF Divert
<1>4. Ranks' = Ranks /\ vol_cap_flags_g' = vol_cap_flags_g
    BY <1>3 DEF program, Ranks, vol_cap_flags_g
<1>5. CloseFailed => CloseFailed'
    BY DEF CloseFailed
<1>6. LostOK'
    <2>1. \A q \in Ranks : q \in G =>
              CloseFailed \/ LostAfter(q, Now(q)) \subseteq NeverClosed(vol_cap_flags_g)
        BY <1>1, <1>2, GivenIsForeseen
    <2> QED BY <1>1, <1>3, <1>4, <1>5, <2>1 DEF LostOK
<1>7. CASE aborted'
    BY <1>6, <1>7 DEF OpenOK
<1>8. CASE ~aborted'
    <2>1. ASSUME NEW q \in Ranks, ~Finished(q),
                 NEW h \in DOMAIN held'[q], held'[q][h].file # NoFile
          PROVE  Explained(At(survey, q)[pc'[q]], h, held'[q][h].file, chosen', pending'[q],
                           CloseFailed' /\ h \in missing'[q])
        <3>1. CASE q \in G
            <4> DEFINE x == CloseFailed' /\ h \in missing'[q]
            <4>1. AtCall(q) /\ MayFail(Now(q)) /\ Expected(survey, q)
                BY <1>1, <1>2, <1>8, <3>1
            <4>2. /\ h \in DOMAIN held[q] /\ held'[q][h] = held[q][h]
                  /\ ~(Assigns(Now(q)) /\ h = Now(q).h)
                BY <1>3, <2>1, <3>1 DEF Without
            <4>3. CloseFailed /\ h \in missing[q] => x
                BY <1>3, <1>5, <3>1
            <4>4. Now(q).op = "close" /\ h = Now(q).h => x
                BY <1>3, <3>1, <4>2 DEF Yield
            <4>5. x \in BOOLEAN
                OBVIOUS
            <4> HIDE DEF x
            <4>6. Explained(At(survey, q)[Diverted(q)], h, held[q][h].file, chosen,
                            pending[q] \cup Remembered(Now(q)), x)
                BY <1>1, <2>1, <4>1, <4>2, <4>3, <4>4, <4>5, FailureIsForeseen
            <4> QED BY <1>3, <3>1, <4>2, <4>6 DEF x
        <3>2. CASE q \notin G
            <4>1. Explained(At(survey, q)[pc[q]], h, held[q][h].file, chosen, pending[q],
                            CloseFailed /\ h \in missing[q])
                BY <1>1, <1>3, <2>1, <3>2 DEF Expected
            <4> QED BY <1>3, <1>5, <3>2, <4>1, ExplainedByMore
        <3> QED BY <3>1, <3>2
    <2> QED BY <1>1, <1>3, <1>6, <2>1, FilesWithinTests
<1> QED BY <1>6, <1>7, <1>8

LEMMA FailKeepsFiles ==
    ASSUME NEW survey, AllSound(survey), FilesOK(survey), NEW r \in Ranks, Fail(r)
    PROVE  LostOK' /\ OpenOK(survey)'
<1> DEFINE s == Now(r)
<1>1. AtCall(r) /\ ~Legal(r, s) /\ Divert({r}) /\ faults' = faults /\ CourseOK
    BY DEF Fail, FilesOK
<1>2. ~aborted /\ InTest(r) /\ s = Steps(r)[pc[r]]
    BY <1>1, StepInTest DEF AtCall, InTest, CourseOK
<1>3. aborted' = (Aborts /\ \E q \in {r} : Now(q).route = "check")
    BY <1>1, Zenon DEF Divert
<1>4. aborted' \/ MayFail(s)
    <2>1. s.op # "leave" /\ (s.op \in Marks \cup {"consensus"} => s.uses # {})
        BY <1>1 DEF Legal, Marks
    <2> QED BY <1>3, <2>1 DEF MayFail
<1>5. ~(s.op = "close" /\ s.h \in DOMAIN held[r])
    <2>1. s.op = "close" => s.uses = {}
        BY <1>1, <1>2, CallCarries DEF Carries
    <2> QED BY <1>1, <2>1 DEF Legal
<1> HIDE DEF s
<1> QED BY <1>1, <1>2, <1>4, <1>5, DivertKeepsFiles DEF s

LEMMA BreakKeepsFiles ==
    ASSUME NEW survey, AllSound(survey), FilesOK(survey), NEW r \in Ranks, Break(r)
    PROVE  LostOK' /\ OpenOK(survey)'
<1> DEFINE s == Now(r)
           G == Group(r, s)
<1>1. /\ AtCall(r) /\ Legal(r, s) /\ s.op \notin Marks \cup {"consensus"} /\ Divert(G)
      /\ faults' = faults \cup {[route |-> s.route, op |-> s.op]}
      /\ G = {r} \/ Met(r, s)
    BY Zenon DEF Break
<1>2. \A q \in Ranks : q \in G => AtCall(q) /\ Now(q).op = s.op
    BY <1>1, GroupCalls
<1>3. ~aborted
    BY <1>1 DEF AtCall, InTest
<1>4. aborted' = (Aborts /\ \E q \in G : Now(q).route = "check")
    BY <1>1, Zenon DEF Divert
<1> HIDE DEF G
<1>5. \A q \in Ranks : q \in G => aborted' \/ MayFail(Now(q))
    BY <1>1, <1>2, <1>4 DEF MayFail
<1> HIDE DEF s
<1>6. s.op = "close" => CloseFailed'
    <2> DEFINE f == [route |-> s.route, op |-> s.op]
    <2>1. f \in faults' /\ f.op = s.op
        BY <1>1
    <2> HIDE DEF f
    <2> QED BY <2>1 DEF CloseFailed
<1> QED BY <1>1, <1>2, <1>3, <1>5, <1>6, DivertKeepsFiles DEF s

LEMMA ConsensusKeepsFiles ==
    ASSUME NEW survey, AllSound(survey), FilesOK(survey), Consensus
    PROVE  LostOK' /\ OpenOK(survey)'
<1> DEFINE failed(r) == Failed(r, Now(r).loc)
<1>1. \A r \in Ranks : AtCall(r) /\ InTest(r) /\ Now(r).op = "consensus" /\ ~aborted
    BY DEF Consensus, InConsensus, AtCall, InTest
<1>2. /\ pc' = [r \in Ranks |-> IF failed(r) THEN Diverted(r) ELSE pc[r] + 1]
      /\ pending' = [r \in Ranks |->
           (pending[r] \ {"op"}) \cup (IF failed(r) THEN {Now(r).route} \cap {"part"} ELSE {})]
      /\ UNCHANGED <<program, test, store, chosen, faults, aborted>>
    BY Zenon DEF Consensus
<1>3. \A r \in Ranks : ~failed(r) => ~(Now(r).loc = "MPI_LOR" /\ "op" \in pending[r])
    BY DEF Failed
<1> HIDE DEF failed
<1>4. CourseOK /\ LostOK /\ OpenOK(survey)
    BY DEF FilesOK
<1>5. LostOK'
    BY <1>2, <1>4 DEF LostOK, CloseFailed, program, store, Ranks, vol_cap_flags_g
<1>6. ASSUME NEW q \in Ranks, ~Finished(q), NEW h \in DOMAIN held'[q], held'[q][h].file # NoFile
      PROVE  Explained(At(survey, q)[pc'[q]], h, held'[q][h].file, chosen', pending'[q],
                       CloseFailed' /\ h \in missing'[q])
    <2> DEFINE s == Now(q)
               x == CloseFailed /\ h \in missing[q]
               way == [pc |-> pc'[q], pending |-> pending'[q]]
    <2>1. /\ held'[q] = held[q] /\ chosen' = chosen
          /\ x = (CloseFailed' /\ h \in missing'[q])
        BY <1>2 DEF store, CloseFailed
    <2>2. Explained(At(survey, q)[pc[q]], h, held[q][h].file, chosen, pending[q], x)
        BY <1>1, <1>4, <1>6, <2>1 DEF OpenOK, Expected
    <2>3. x \in BOOLEAN
        OBVIOUS
    <2>4. s.op = "consensus" /\ s = Steps(q)[pc[q]]
        BY <1>1, <1>4, StepInTest DEF CourseOK
    <2>5. h \notin Given(s) /\ Lasting(s, chosen) = chosen
        BY <2>4 DEF Given, Assigns, Assigning, Lasting
    <2> HIDE DEF x
    <2>6. \A w \in Outcomes(Steps(q), pc[q], pending[q]) :
            Explained(At(survey, q)[w.pc], h, held[q][h].file, Lasting(s, chosen), w.pending, x)
        BY <1>1, <1>4, <2>2, <2>3, <2>4, <2>5, HandleIsCarried
    <2>7. way \in Outcomes(Steps(q), pc[q], pending[q])
        <3>1. CASE failed(q)
            <4>1. /\ pc'[q] = DivertedFrom(Steps(q), pc[q])
                  /\ pending'[q] = (pending[q] \ {"op"}) \cup ({s.route} \cap {"part"})
                BY <1>2, <3>1 DEF Diverted
            <4> QED BY <2>4, <4>1 DEF Outcomes
        <3>2. CASE ~failed(q)
            <4>1. /\ pc'[q] = pc[q] + 1 /\ pending'[q] = pending[q] \ {"op"}
                  /\ ~(s.loc = "MPI_LOR" /\ "op" \in pending[q])
                BY <1>2, <1>3, <3>2
            <4> HIDE DEF s
            <4> QED BY <2>4, <4>1 DEF Outcomes
        <3> QED BY <3>1, <3>2
    <2>8. Explained(At(survey, q)[pc'[q]], h, held[q][h].file, chosen, pending'[q], x)
        BY <2>5, <2>6, <2>7
    <2> QED BY <2>1, <2>8
<1> QED BY <1>2, <1>4, <1>5, <1>6, FilesWithinTests

\* What is foreseen where a rank begins to pass over calls is foreseen where it ends.
LEMMA EntryIsPassedOver ==
    ASSUME CourseOK, NEW r \in Ranks, ~Finished(r), NEW at,
           \A k \in 1..Len(Steps(r)) : PassesOver(r, Steps(r), k, vol_cap_flags_g, at),
           NEW lo \in 1..Len(Steps(r))+1, NEW hi \in lo..Len(Steps(r))+1,
           \A j \in lo..Len(Steps(r)) : j < hi => Skipped(r, Steps(r)[j]),
           NEW h, NEW file, NEW late, NEW failed,
           Foreseen(at[lo], Entry(h, file, late), chosen, failed)
    PROVE  Foreseen(at[hi], Entry(h, file, late), chosen, failed)
<1> DEFINE Here(k) == Foreseen(at[k], Entry(h, file, late), chosen, failed)
           K == {k \in lo..hi : ~Here(k)}
<1>1. Len(Steps(r)) \in Nat /\ Steps(r) \in Seq(StepRecord)
    BY TestHasSteps DEF CourseOK
<1>2. lo \in Nat \ {0} /\ hi \in Nat /\ lo <= hi /\ hi <= Len(Steps(r)) + 1
    BY <1>1
<1>3. ASSUME NEW k \in lo..Len(Steps(r)), k < hi, Here(k) PROVE Here(k + 1)
    <2>1. Steps(r)[k] \in StepRecord /\ k \in 1..Len(Steps(r))
        BY <1>1, <1>2
    <2>2. PassesOver(r, Steps(r), k, vol_cap_flags_g, at)
        BY <2>1
    <2>3. \/ Never(r, Steps(r)[k], vol_cap_flags_g)
          \/ \E lit \in Decisions(Steps(r)[k]) : Opposite(lit) \in chosen
        BY <1>3, <2>1, DecisionsOfCall DEF CourseOK
    <2>4. \A lit \in chosen : Opposite(lit) \notin chosen
        BY DEF CourseOK, DecisionsAgree
    <2> QED BY <1>3, <2>2, <2>3, <2>4, EntryIsPassedOn
<1>4. Here(lo)
    OBVIOUS
<1> HIDE DEF Here
<1>5. K = {}
    <2> SUFFICES ASSUME K # {} PROVE FALSE
        OBVIOUS
    <2>1. K \in SUBSET Nat
        BY <1>2
    <2>2. PICK k \in K : \A j \in K : k <= j
        BY <2>1, MinExists
    <2>3. k \in lo..hi /\ ~Here(k) /\ k # lo
        BY <1>4
    <2>4. k - 1 \in lo..hi /\ k - 1 \notin K /\ k - 1 \in lo..Len(Steps(r)) /\ k - 1 < hi
        BY <1>1, <1>2, <2>2, <2>3
    <2>5. Here((k - 1) + 1)
        BY <1>3, <2>4
    <2> QED BY <1>2, <2>3, <2>5
<1>6. Here(hi)
    BY <1>2, <1>5
<1> QED BY <1>6 DEF Here

\* The calls that are passed over, up to the next place.
LEMMA SkipPassesOver ==
    ASSUME CourseOK, NEW r \in Ranks, Skip(r)
    PROVE  /\ ~aborted /\ ~Finished(r)
           /\ pc[r] \in 1..Len(Steps(r))+1 /\ pc'[r] \in pc[r]..Len(Steps(r))+1
           /\ \A j \in pc[r]..Len(Steps(r)) : j < pc'[r] => Skipped(r, Steps(r)[j])
           /\ \A q \in Ranks : q # r => pc'[q] = pc[q]
           /\ UNCHANGED <<program, test, store, chosen, report>>
<1> DEFINE J == {j \in pc[r]..Len(Steps(r)) : ~Skipped(r, Steps(r)[j])}
           next == FirstOf(Steps(r), J)
<1>1. /\ InTest(r) /\ ~aborted /\ ~Finished(r)
      /\ pc' = [pc EXCEPT ![r] = next]
      /\ UNCHANGED <<program, test, store, chosen, report>>
    BY DEF Skip, InTest
<1>2. Len(Steps(r)) \in Nat /\ pc[r] \in 1..Len(Steps(r))
    BY <1>1, StepInTest DEF CourseOK
<1>3. pc[r] \in Nat \ {0} /\ pc[r] <= Len(Steps(r)) + 1 /\ J \in SUBSET (pc[r]..Len(Steps(r)))
    BY <1>2
<1>4. next \in pc[r]..Len(Steps(r))+1 /\ \A j \in J : next <= j
    <2> HIDE DEF J
    <2> QED BY <1>2, <1>3, FirstOfPlaces
<1>5. \A j \in pc[r]..Len(Steps(r)) : j < next => Skipped(r, Steps(r)[j])
    <2> SUFFICES ASSUME NEW j \in pc[r]..Len(Steps(r)), j < next, ~Skipped(r, Steps(r)[j])
                 PROVE  FALSE
        OBVIOUS
    <2>1. j \in J /\ j \in Nat /\ next \in Nat
        BY <1>2, <1>4
    <2> HIDE DEF next
    <2> QED BY <1>4, <2>1
<1> HIDE DEF J, next
<1>6. pc'[r] = next /\ \A q \in Ranks : q # r => pc'[q] = pc[q]
    BY <1>1, TypeParts DEF CourseOK, PlaceOK
<1>7. pc[r] \in 1..Len(Steps(r))+1
    BY <1>2
<1> QED BY <1>1, <1>4, <1>5, <1>6, <1>7

LEMMA SkipKeepsFiles ==
    ASSUME NEW survey, AllSound(survey), FilesOK(survey), NEW r \in Ranks, Skip(r)
    PROVE  LostOK' /\ OpenOK(survey)'
<1>1. /\ CourseOK /\ LostOK /\ OpenOK(survey) /\ ~aborted /\ ~Finished(r)
      /\ UNCHANGED <<program, test, store, chosen, report>>
    BY SkipPassesOver DEF FilesOK
<1>2. LostOK'
    BY <1>1 DEF LostOK, CloseFailed, program, store, report, Ranks, vol_cap_flags_g
<1>3. ASSUME NEW q \in Ranks, ~Finished(q), NEW h \in DOMAIN held'[q], held'[q][h].file # NoFile
      PROVE  Explained(At(survey, q)[pc'[q]], h, held'[q][h].file, chosen', pending'[q],
                       CloseFailed' /\ h \in missing'[q])
    <2> DEFINE x == CloseFailed /\ h \in missing[q]
               file == held[q][h].file
    <2>1. /\ held' = held /\ chosen' = chosen /\ pending' = pending
          /\ x = (CloseFailed' /\ h \in missing'[q])
        BY <1>1 DEF store, report, CloseFailed
    <2>2. Explained(At(survey, q)[pc[q]], h, file, chosen, pending[q], x)
        BY <1>1, <1>3, <2>1 DEF OpenOK, Expected
    <2> HIDE DEF x, file
    <2>3. ASSUME NEW late,
                 Foreseen(At(survey, q)[pc[q]], Entry(h, file, late), chosen, pending[q])
          PROVE  Foreseen(At(survey, q)[pc'[q]], Entry(h, file, late), chosen, pending[q])
        <3>1. CASE q = r
            <4>1. \A k \in 1..Len(Steps(r)) :
                    PassesOver(r, Steps(r), k, vol_cap_flags_g, At(survey, r))
                BY <1>1, StepsAreSound
            <4> QED BY <1>1, <2>3, <3>1, <4>1, SkipPassesOver, EntryIsPassedOver
        <3>2. CASE q # r
            BY <1>1, <2>3, <3>2, SkipPassesOver
        <3> QED BY <3>1, <3>2
    <2>4. Explained(At(survey, q)[pc'[q]], h, file, chosen, pending[q], x)
        BY <2>2, <2>3 DEF Explained
    <2> QED BY <2>1, <2>4 DEF file
<1> QED BY <1>1, <1>2, <1>3, FilesWithinTests

LEMMA DecideKeepsFiles ==
    ASSUME NEW survey, AllSound(survey), FilesOK(survey), NEW r \in Ranks, Decide(r)
    PROVE  LostOK' /\ OpenOK(survey)'
<1>1. CourseOK /\ LostOK /\ OpenOK(survey) /\ ~aborted
    BY DEF FilesOK, Decide, InTest
<1>2. chosen \subseteq chosen' /\ UNCHANGED <<program, test, pc, store, report>>
    BY DEF Decide, place
<1>3. LostOK'
    BY <1>1, <1>2 DEF LostOK, CloseFailed, program, store, report, Ranks, vol_cap_flags_g
<1>4. ASSUME NEW q \in Ranks, ~Finished(q), NEW h \in DOMAIN held'[q], held'[q][h].file # NoFile
      PROVE  Explained(At(survey, q)[pc'[q]], h, held'[q][h].file, chosen', pending'[q],
                       CloseFailed' /\ h \in missing'[q])
    <2>1. /\ held' = held /\ pc' = pc /\ pending' = pending
          /\ (CloseFailed /\ h \in missing[q]) => (CloseFailed' /\ h \in missing'[q])
        BY <1>2 DEF store, report, CloseFailed
    <2>2. Explained(At(survey, q)[pc[q]], h, held[q][h].file, chosen, pending[q],
                    CloseFailed /\ h \in missing[q])
        BY <1>1, <1>4, <2>1 DEF OpenOK, Expected
    <2> QED BY <1>2, <2>1, <2>2, ExplainedByMore
<1> QED BY <1>1, <1>2, <1>3, <1>4, FilesWithinTests

LEMMA NextTestKeepsFiles ==
    ASSUME NEW survey, AllSound(survey), FilesOK(survey), NEW r \in Ranks, NextTest(r)
    PROVE  LostOK' /\ OpenOK(survey)'
<1>1. CourseOK /\ LostOK /\ OpenOK(survey) /\ ~aborted /\ ~Finished(r)
    BY DEF FilesOK, NextTest
<1>2. /\ test' = [test EXCEPT ![r] = @ + 1] /\ pc' = [pc EXCEPT ![r] = 1]
      /\ pending' = [pending EXCEPT ![r] = {}] /\ pc[r] \notin DOMAIN Steps(r)
      /\ UNCHANGED <<program, store, chosen, told, faults, aborted>>
    BY DEF NextTest
<1>3. PlaceOK /\ ReportOK
    BY <1>1, TypeParts DEF CourseOK
<1>4. Ranks' = Ranks /\ UNCHANGED <<connector, group, held, missing, lost, chosen, faults>>
    BY <1>2, <1>3 DEF program, store, Ranks, PlaceOK
<1>5. LostOK'
    BY <1>1, <1>4 DEF LostOK, CloseFailed, vol_cap_flags_g
<1>6. ASSUME NEW q \in Ranks, ~Finished(q)', NEW h \in DOMAIN held[q], held[q][h].file # NoFile
      PROVE  Explained(At(survey, q)'[pc'[q]], h, held[q][h].file, chosen, pending'[q],
                       CloseFailed /\ h \in missing[q])
    <2> DEFINE x == CloseFailed /\ h \in missing[q]
    <2>1. CASE q # r
        <3>1. test'[q] = test[q] /\ pc'[q] = pc[q] /\ pending'[q] = pending[q]
            BY <1>2, <1>3, <2>1 DEF PlaceOK, ReportOK
        <3>2. ~Finished(q) /\ At(survey, q)' = At(survey, q)
            BY <1>4, <1>6, <3>1 DEF Finished, Tests, At
        <3> QED BY <1>1, <1>6, <3>1, <3>2 DEF OpenOK, Expected
    <2>2. CASE q = r
        <3> DEFINE t == test[r]
                   n == Len(Steps(r)) + 1
        <3>1. test'[q] = t + 1 /\ pc'[q] = 1 /\ pending'[q] = {}
            BY <1>2, <1>3, <2>2 DEF PlaceOK, ReportOK
        <3>2. t + 1 \in DOMAIN GroupTests
            BY <1>4, <1>6, <2>2, <3>1 DEF Finished, Tests, GroupTests
        <3>3. /\ t \in DOMAIN GroupTests /\ Steps(r) = GroupTests[t]
              /\ Len(Steps(r)) \in Nat /\ DOMAIN Steps(r) = 1..Len(Steps(r))
            BY <1>1, TestHasSteps DEF CourseOK
        <3>4. pc[r] = n
            BY <1>1, <1>2, <3>3 DEF CourseOK, WithinTests
        <3>5. \A e \in At(survey, r)[n] :
                Foreseen(survey[group][connector][r][t + 1][1], Entry(e.var, e.file, e.late),
                         e.given, {})
            <4>1. r \in 0..Suite[group].mpi_size-1
                BY <1>1 DEF CourseOK, RanksOK
            <4>2. At(survey, r) = survey[group][connector][r][t]
                BY DEF At
            <4> HIDE DEF t, n
            <4> QED BY <1>1, <3>2, <3>3, <4>1, <4>2, SurveyIsSound, Zenon DEF Sound, n
        <3>6. At(survey, q)'[pc'[q]] = survey[group][connector][r][t + 1][1]
            BY <1>4, <2>2, <3>1 DEF At
        <3>7. Explained(At(survey, r)[n], h, held[q][h].file, chosen, pending[r], x)
            BY <1>1, <1>6, <2>2, <3>4 DEF OpenOK, Expected
        <3> HIDE DEF t, n
        <3>8. ASSUME NEW late,
                     Foreseen(At(survey, r)[n], Entry(h, held[q][h].file, late), chosen, pending[r])
              PROVE  Foreseen(survey[group][connector][r][t + 1][1],
                              Entry(h, held[q][h].file, late), chosen, {})
            <4>1. PICK e \in At(survey, r)[n] :
                      /\ e.var = h /\ e.file = held[q][h].file /\ e.late = late
                      /\ e.given \subseteq chosen
                BY <3>8, ForeseenFields
            <4>2. Foreseen(survey[group][connector][r][t + 1][1],
                           Entry(h, held[q][h].file, late), e.given, {})
                BY <3>5, <4>1
            <4> QED BY <4>1, <4>2, ForeseenByMore
        <3> HIDE DEF x
        <3>9. Explained(survey[group][connector][r][t + 1][1], h, held[q][h].file, chosen, {}, x)
            BY <3>7, <3>8 DEF Explained
        <3> QED BY <3>1, <3>6, <3>9 DEF x
    <2> QED BY <2>1, <2>2
<1>7. ASSUME NEW q \in Ranks, ~Finished(q)' PROVE Expected(survey, q)'
    BY <1>4, <1>6, <1>7 DEF Expected, CloseFailed
<1>8. OpenOK(survey)'
    BY <1>4, <1>7 DEF OpenOK
<1> QED BY <1>5, <1>8

LEMMA FilesAtFirst ==
    ASSUME NEW survey
    PROVE  Init => FilesOK(survey)
<1> SUFFICES ASSUME Init PROVE FilesOK(survey)
    OBVIOUS
<1>1. CourseOK
    BY CourseAtFirst
<1>2. LostOK
    BY DEF Init, LostOK
<1>3. \A r \in Ranks : DOMAIN held[r] = {}
    BY DEF Init
<1>4. OpenOK(survey)
    BY <1>3 DEF OpenOK, Expected
<1> QED BY <1>1, <1>2, <1>4 DEF FilesOK

LEMMA StepKeepsFiles ==
    ASSUME NEW survey, AllSound(survey)
    PROVE  FilesOK(survey) /\ [Next]_vars => FilesOK(survey)'
<1> SUFFICES ASSUME FilesOK(survey), [Next]_vars PROVE FilesOK(survey)'
    OBVIOUS
<1>1. CourseOK'
    BY StepKeepsCourse DEF FilesOK
<1>2. ASSUME NEW r \in Ranks, Skip(r) \/ Decide(r) \/ Make(r)
      PROVE  LostOK' /\ OpenOK(survey)'
    BY <1>2, SkipKeepsFiles, DecideKeepsFiles, MakeKeepsFiles
<1>3. ASSUME NEW r \in Ranks, Fail(r) \/ Break(r) \/ NextTest(r)
      PROVE  LostOK' /\ OpenOK(survey)'
    BY <1>3, FailKeepsFiles, BreakKeepsFiles, NextTestKeepsFiles
<1>4. CASE Consensus
    BY <1>1, <1>4, ConsensusKeepsFiles DEF FilesOK
<1>5. CASE UNCHANGED vars
    <2>1. UNCHANGED <<connector, group, test, pc, held, missing, lost, chosen, pending,
                      faults, aborted>>
        BY <1>5 DEF vars, program, place, store, report
    <2>2. LostOK' = LostOK
        BY <2>1 DEF LostOK, CloseFailed, Ranks, vol_cap_flags_g
    <2>3. \A q \in Ranks : Finished(q)' = Finished(q) /\ Expected(survey, q)' = Expected(survey, q)
        BY <2>1 DEF Finished, Tests, Expected, CloseFailed, At
    <2>4. OpenOK(survey)' = OpenOK(survey)
        BY <2>1, <2>3 DEF OpenOK, Ranks
    <2> QED BY <1>1, <2>2, <2>4 DEF FilesOK
<1> QED BY <1>1, <1>2, <1>3, <1>4, <1>5 DEF Next, Ended, Polling, FilesOK

(* Whatever the tests, ranks, connectors and conditions are and however     *)
(* many calls fail, on one rank alone or on several: if there is a sound    *)
(* survey of the tests, which can be told from their steps alone, no file   *)
(* stays open when its variable is filled again or its function returns,    *)
(* but for those that are known to and those no call could close.           *)
THEOREM SoundTestsReleaseFiles ==
    ASSUME NEW survey, AllSound(survey)
    PROVE  Spec => []FilesReleased
<1>1. FilesOK(survey) => FilesReleased
    BY DEF FilesOK, LostOK, CloseFailed, FilesReleased, LostByProgram
<1> QED BY <1>1, FilesAtFirst, StepKeepsFiles, PTL DEF Spec
-----------------------------------------------------------------------------
(* The files a serial program leaves: every file that exists and is to be  *)
(* removed is foreseen.                                                    *)

AllSerial == \A g \in Groups : Suite[g].mpi_size = 1
AllTidy(survey, standing) ==
    \A g \in Groups, c \in Connectors :
        Tidy(standing[g][c], survey[g][c][Main], Suite[g].tests, FlagsOf(c))

\* The files foreseen in the test of the one rank, place by place.
StandingAt(standing) == standing[group][connector][test[Main]]

NoCleanup == <<"HDF5_NOCLEANUP", TRUE>>
Excused(file) == faults # {} /\ file \in missing[Main]
Remains(standing, file) ==
    IF Finished(Main) THEN NoCleanup \in chosen
    ELSE Foreseen(StandingAt(standing)[pc[Main]], Entry(file, NoFile, FALSE),
                  chosen, pending[Main])
StandingOK(standing) ==
    /\ files \subseteq Created(GroupTests)
    /\ \/ aborted /\ ~Finished(Main)
       \/ \A file \in files \ NeverRemoved(vol_cap_flags_g) :
            Excused(file) \/ Remains(standing, file)
    /\ aborted => ~Finished(Main)
TidyOK(survey, standing) == FilesOK(survey) /\ StandingOK(standing)

\* A serial program has one rank, and its calls are made by that.
LEMMA OneRank ==
    ASSUME AllSerial, CourseOK
    PROVE  /\ Ranks = {Main}
           /\ \A s : Group(Main, s) = {Main}
<1>1. Ranks = {Main}
    <2>1. Suite[group].mpi_size = 1
        BY TypeParts DEF AllSerial, CourseOK, ProgramOK
    <2>2. Ranks = 0..0
        BY <2>1 DEF CourseOK, RanksOK
    <2> QED BY <2>2 DEF Main
<1>2. ASSUME NEW s PROVE Group(Main, s) = {Main}
    <2>1. {q \in Ranks : q % 2 = Main % 2} = {Main}
        BY <1>1
    <2> QED BY <1>1, <2>1, Zenon DEF Group
<1> QED BY <1>1, <1>2

LEMMA SuiteIsTidy ==
    ASSUME NEW survey, NEW standing, AllTidy(survey, standing), CourseOK
    PROVE  Tidy(standing[group][connector], survey[group][connector][Main], GroupTests,
                vol_cap_flags_g)
BY TypeParts DEF AllTidy, CourseOK, ProgramOK, GroupTests, vol_cap_flags_g

LEMMA StepsAreTidy ==
    ASSUME NEW survey, NEW standing, AllTidy(survey, standing), CourseOK,
           Main \in Ranks, ~Finished(Main), NEW i \in 1..Len(Steps(Main))
    PROVE  /\ Created(GroupTests) \cap Given(Steps(Main)[i]) = {}
           /\ PassesOver(Main, Steps(Main), i, vol_cap_flags_g, StandingAt(standing))
           /\ \/ Never(Main, Steps(Main)[i], vol_cap_flags_g)
              \/ Keeps(Steps(Main), i, vol_cap_flags_g, At(survey, Main), StandingAt(standing))
<1>1. /\ test[Main] \in DOMAIN GroupTests /\ Steps(Main) = GroupTests[test[Main]]
      /\ i \in DOMAIN GroupTests[test[Main]]
    BY TestHasSteps DEF CourseOK
<1>2. Tidy(standing[group][connector], survey[group][connector][Main], GroupTests,
           vol_cap_flags_g)
    BY SuiteIsTidy
<1> QED BY <1>1, <1>2, Zenon DEF Tidy, At, StandingAt

\* What a call does with a file that is foreseen and that it does not remove.
LEMMA EntryIsKept ==
    ASSUME NEW steps, NEW i, NEW flags, NEW open, NEW at, Keeps(steps, i, flags, open, at),
           NEW given, NEW failed, NEW file, NEW none, NEW late,
           Decisions(steps[i]) \subseteq given,
           \A lit \in Decisions(steps[i]) : Opposite(lit) \notin given,
           ~(steps[i].op = "delete" /\ file = steps[i].loc),
           Foreseen(at[i], Entry(file, none, late), given, failed)
    PROVE  \A way \in Outcomes(steps, i, failed) :
             Foreseen(at[way.pc], Entry(file, none, late), Lasting(steps[i], given), way.pending)
<1> DEFINE s == steps[i]
<1>1. PICK e \in at[i] : /\ e.var = file /\ e.file = none /\ e.late = late
                         /\ e.given \subseteq given /\ e.pending = failed
    BY ForeseenFields
<1> DEFINE known == e.given \cup Decisions(s)
<1>2. e \in Possible(at[i], s)
    BY <1>1 DEF Possible
<1>3. \A way \in Outcomes(steps, i, failed) :
        Foreseen(at[way.pc], Entry(file, none, late), Lasting(s, known), way.pending)
    BY <1>1, <1>2, Zenon DEF Keeps
<1>4. Lasting(s, known) \subseteq Lasting(s, given)
    BY <1>1 DEF Lasting
<1> HIDE DEF known, s
<1>5. ASSUME NEW way \in Outcomes(steps, i, failed)
      PROVE  Foreseen(at[way.pc], Entry(file, none, late), Lasting(s, given), way.pending)
    BY <1>3, <1>4, ForeseenByMore
<1> QED BY <1>5 DEF s

\* A call that is made keeps the files that are foreseen.
LEMMA CallKeeps ==
    ASSUME NEW survey, NEW standing, AllTidy(survey, standing), CourseOK,
           Main \in Ranks, AtCall(Main)
    PROVE  /\ Keeps(Steps(Main), pc[Main], vol_cap_flags_g, At(survey, Main),
                    StandingAt(standing))
           /\ Created(GroupTests) \cap Given(Now(Main)) = {}
           /\ Decisions(Now(Main)) \subseteq chosen
           /\ \A lit \in Decisions(Now(Main)) : Opposite(lit) \notin chosen
           /\ ~Finished(Main) /\ Now(Main) = Steps(Main)[pc[Main]]
<1>1. InTest(Main) /\ Makes(Main, Now(Main))
    BY DEF AtCall
<1>2. /\ Now(Main) \in StepRecord /\ pc[Main] \in 1..Len(Steps(Main)) /\ ~Finished(Main)
      /\ Now(Main) = Steps(Main)[pc[Main]]
    BY <1>1, StepInTest DEF CourseOK
<1> QED BY <1>1, <1>2, StepsAreTidy, DecisionsOfCall DEF CourseOK

\* A file that is foreseen and not removed is foreseen after the call, wherever that
\* leads.
LEMMA FileIsKept ==
    ASSUME NEW survey, NEW standing, AllTidy(survey, standing), CourseOK,
           Main \in Ranks, AtCall(Main), NEW file,
           ~(Now(Main).op = "delete" /\ file = Now(Main).loc),
           Remains(standing, file)
    PROVE  \A way \in Outcomes(Steps(Main), pc[Main], pending[Main]) :
             Foreseen(StandingAt(standing)[way.pc], Entry(file, NoFile, FALSE),
                      Lasting(Now(Main), chosen), way.pending)
<1>1. Foreseen(StandingAt(standing)[pc[Main]], Entry(file, NoFile, FALSE),
               chosen, pending[Main])
    BY CallKeeps DEF Remains
<1> QED BY <1>1, CallKeeps, EntryIsKept

\* What has to be shown of a step that stays within a test.
LEMMA StandingWithinTests ==
    ASSUME NEW standing, UNCHANGED <<program, test>>, ~Finished(Main),
           files' \subseteq Created(GroupTests),
           \/ aborted'
           \/ \A file \in files' \ NeverRemoved(vol_cap_flags_g) :
                \/ faults' # {} /\ file \in missing'[Main]
                \/ Foreseen(StandingAt(standing)[pc'[Main]], Entry(file, NoFile, FALSE),
                            chosen', pending'[Main])
    PROVE  StandingOK(standing)'
<1>1. /\ GroupTests' = GroupTests /\ vol_cap_flags_g' = vol_cap_flags_g
      /\ Finished(Main)' = Finished(Main)
      /\ StandingAt(standing)' = StandingAt(standing)
    BY DEF program, GroupTests, vol_cap_flags_g, Finished, Tests, StandingAt
<1>2. Created(GroupTests)' = Created(GroupTests)
    BY <1>1
<1>3. NeverRemoved(vol_cap_flags_g)' = NeverRemoved(vol_cap_flags_g)
    BY <1>1
<1>4. ASSUME NEW file
      PROVE  /\ Excused(file)' <=> faults' # {} /\ file \in missing'[Main]
             /\ Remains(standing, file)' <=>
                  Foreseen(StandingAt(standing)[pc'[Main]], Entry(file, NoFile, FALSE),
                           chosen', pending'[Main])
    BY <1>1 DEF Excused, Remains
<1> QED BY <1>1, <1>2, <1>3, <1>4 DEF StandingOK

\* A call that the program makes settles no other file than the one it works on.
LEMMA FileNotSettled ==
    ASSUME NEW survey, NEW standing, AllSound(survey), AllTidy(survey, standing), CourseOK,
           Main \in Ranks, AtCall(Main), NEW file \in Created(GroupTests),
           ~(Now(Main).op \in {"create", "delete"} /\ file = Now(Main).loc)
    PROVE  file \notin Given(Now(Main)) \cup Yield(Now(Main))
<1>1. Created(GroupTests) \cap Given(Now(Main)) = {}
    BY CallKeeps
<1>2. Now(Main).h \in Variables(GroupTests)
    BY StepVariable DEF AtCall, CourseOK
<1>3. Variables(GroupTests) \cap Created(GroupTests) = {}
    BY SurveyIsSound DEF Sound
<1>4. Yield(Now(Main)) \subseteq
          {Now(Main).h}
          \cup (IF Now(Main).op \in {"create", "delete"} THEN {Now(Main).loc} ELSE {})
    BY DEF Yield
<1> QED BY <1>1, <1>2, <1>3, <1>4

LEMMA MakeKeepsStanding ==
    ASSUME NEW survey, NEW standing, AllSound(survey), AllSerial, AllTidy(survey, standing),
           TidyOK(survey, standing), Make(Main)
    PROVE  StandingOK(standing)'
<1> DEFINE s == Now(Main)
           steps == Steps(Main)
           i == pc[Main]
           at == StandingAt(standing)
<1>1. CourseOK /\ Main \in Ranks /\ Group(Main, s) = {Main} /\ Ranks = {Main}
    BY OneRank DEF TidyOK, FilesOK
<1>2. AtCall(Main) /\ s.op # "consensus" /\ ~aborted /\ InTest(Main)
    BY DEF Make, AtCall, InTest
<1>3. /\ Keeps(steps, i, vol_cap_flags_g, At(survey, Main), at)
      /\ Decisions(s) \subseteq chosen /\ ~Finished(Main) /\ s = steps[i]
    BY <1>1, <1>2, CallKeeps
<1>4. /\ pc'[Main] = Onward(Main)
      /\ missing'[Main] = missing[Main] \ (Given(s) \cup Yield(s))
      /\ files' = FilesAfter(s) /\ chosen' = ChosenAfter(Main, s)
      /\ ~Over(Main, s) => faults' = faults
      /\ UNCHANGED <<program, test, pending, aborted>>
    <2>1. /\ pc' = [q \in Ranks |-> IF q \in Group(Main, s) THEN Onward(q) ELSE pc[q]]
          /\ missing' = [q \in Ranks |->
               IF q \in Group(Main, s)
               THEN missing[q] \ (Given(Now(q)) \cup Yield(Now(q))) ELSE missing[q]]
          /\ files' = FilesAfter(s) /\ chosen' = ChosenAfter(Main, s)
          /\ ~Over(Main, s) => faults' = faults
          /\ UNCHANGED <<program, test, pending, aborted>>
        BY Zenon DEF Make
    <2> HIDE DEF s
    <2> QED BY <1>1, <2>1 DEF s
<1>5. s.op \in {"create", "delete"} => s.loc \in Created(GroupTests)
    BY <1>1, <1>2, StepInTest DEF CourseOK, Created
<1>6. files \subseteq Created(GroupTests)
    BY DEF TidyOK, StandingOK
<1>7. files' \subseteq Created(GroupTests)
    BY <1>4, <1>5, <1>6 DEF FilesAfter
<1>8. ASSUME NEW file \in files' \ NeverRemoved(vol_cap_flags_g)
      PROVE  \/ faults' # {} /\ file \in missing'[Main]
             \/ Foreseen(at[pc'[Main]], Entry(file, NoFile, FALSE), chosen', pending'[Main])
    <2>1. CASE s.op = "create" /\ file = s.loc
        <3>1. pending[Main] \in Memories(steps)
            BY <1>1, <1>3 DEF CourseOK, MemoriesOK
        <3>2. Foreseen(at[OnwardFrom(steps, i, pending[Main])], Entry(s.loc, NoFile, FALSE),
                       Decisions(s), pending[Main])
            BY <1>3, <2>1, <3>1, Zenon DEF Keeps
        <3>3. Decisions(s) \subseteq chosen'
            BY <1>3, <1>4, <2>1 DEF ChosenAfter, LastToLeave
        <3> HIDE DEF s, steps, i, at
        <3>4. Foreseen(at[OnwardFrom(steps, i, pending[Main])], Entry(s.loc, NoFile, FALSE),
                       chosen', pending[Main])
            BY <3>2, <3>3, ForeseenByMore
        <3> QED BY <1>4, <2>1, <3>4 DEF Onward, steps, i
    <2>2. CASE ~(s.op = "create" /\ file = s.loc)
        <3>1. file \in files /\ ~(s.op = "delete" /\ file = s.loc)
            BY <1>4, <1>8, <2>2 DEF FilesAfter
        <3>2. Excused(file) \/ Remains(standing, file)
            BY <1>2, <1>8, <3>1 DEF TidyOK, StandingOK
        <3>3. CASE Excused(file)
            <4>1. file \notin Given(s) \cup Yield(s)
                BY <1>1, <1>2, <1>6, <2>2, <3>1, FileNotSettled
            <4>2. file \in missing'[Main]
                BY <1>4, <3>3, <4>1 DEF Excused
            <4>3. ~Over(Main, s)
                BY <1>1, <4>2 DEF Over
            <4> QED BY <1>4, <3>3, <4>2, <4>3 DEF Excused
        <3>4. CASE Remains(standing, file)
            <4>1. \A way \in Outcomes(steps, i, pending[Main]) :
                    Foreseen(at[way.pc], Entry(file, NoFile, FALSE), Lasting(s, chosen),
                             way.pending)
                BY <1>1, <1>2, <3>1, <3>4, FileIsKept
            <4>2. [pc |-> Onward(Main), pending |-> pending[Main]]
                      \in Outcomes(steps, i, pending[Main])
                BY <1>2, <1>3 DEF Outcomes, Onward
            <4>3. Foreseen(at[Onward(Main)], Entry(file, NoFile, FALSE), Lasting(s, chosen),
                           pending[Main])
                BY <4>1, <4>2
            <4>4. Lasting(s, chosen) \subseteq chosen'
                BY <1>4 DEF Lasting, ChosenAfter, LastToLeave
            <4> HIDE DEF at, s
            <4>5. Foreseen(at[Onward(Main)], Entry(file, NoFile, FALSE), chosen', pending[Main])
                BY <4>3, <4>4, ForeseenByMore
            <4> QED BY <1>4, <4>5
        <3> QED BY <3>2, <3>3, <3>4
    <2> QED BY <2>1, <2>2
<1> QED BY <1>3, <1>4, <1>7, <1>8, StandingWithinTests

LEMMA DivertKeepsStanding ==
    ASSUME NEW survey, NEW standing, AllSound(survey), AllSerial, AllTidy(survey, standing),
           TidyOK(survey, standing), AtCall(Main), aborted' \/ MayFail(Now(Main)),
           Divert({Main}), faults \subseteq faults',
           Now(Main).op = "delete" /\ Now(Main).loc \in files \ NeverRemoved(vol_cap_flags_g)
               => faults' # {}
    PROVE  StandingOK(standing)'
<1> DEFINE s == Now(Main)
           at == StandingAt(standing)
<1>1. CourseOK /\ Main \in Ranks /\ ~aborted /\ ~Finished(Main) /\ s = Steps(Main)[pc[Main]]
    BY OneRank, StepInTest DEF TidyOK, FilesOK, AtCall, InTest, CourseOK
<1>2. /\ pc' = [q \in Ranks |-> IF q \in {Main} THEN Diverted(q) ELSE pc[q]]
      /\ missing' = [q \in Ranks |->
           IF q \in {Main} THEN missing[q] \cup Yield(Now(q)) ELSE missing[q]]
      /\ pending' = [q \in Ranks |->
           IF q \in {Main} THEN pending[q] \cup Remembered(Now(q)) ELSE pending[q]]
      /\ UNCHANGED <<program, test, files, chosen>>
    BY Zenon DEF Divert
<1>3. /\ pc'[Main] = Diverted(Main) /\ missing'[Main] = missing[Main] \cup Yield(s)
      /\ pending'[Main] = pending[Main] \cup Remembered(s)
    BY <1>1, <1>2
<1>4. files' \subseteq Created(GroupTests)
    BY <1>2 DEF TidyOK, StandingOK
<1>5. ASSUME MayFail(s), NEW file \in files' \ NeverRemoved(vol_cap_flags_g)
      PROVE  \/ faults' # {} /\ file \in missing'[Main]
             \/ Foreseen(at[pc'[Main]], Entry(file, NoFile, FALSE), chosen', pending'[Main])
    <2>1. file \in files /\ (Excused(file) \/ Remains(standing, file))
        BY <1>1, <1>2, <1>5 DEF TidyOK, StandingOK
    <2>2. CASE s.op = "delete" /\ file = s.loc
        <3>1. file \in Yield(s)
            BY <2>1, <2>2 DEF Yield
        <3> QED BY <1>3, <1>5, <2>1, <2>2, <3>1
    <2>3. CASE Excused(file)
        BY <1>3, <2>3 DEF Excused
    <2>4. CASE ~(s.op = "delete" /\ file = s.loc) /\ Remains(standing, file)
        <3>1. \A way \in Outcomes(Steps(Main), pc[Main], pending[Main]) :
                Foreseen(at[way.pc], Entry(file, NoFile, FALSE), Lasting(s, chosen), way.pending)
            BY <1>1, <2>4, FileIsKept
        <3>2. [pc |-> Diverted(Main), pending |-> pending[Main] \cup Remembered(s)]
                  \in Outcomes(Steps(Main), pc[Main], pending[Main])
            BY <1>1, <1>5 DEF Outcomes, Diverted
        <3>3. Lasting(s, chosen) = chosen
            BY <1>5 DEF MayFail, Marks, Lasting
        <3>4. Foreseen(at[Diverted(Main)], Entry(file, NoFile, FALSE), Lasting(s, chosen),
                       pending[Main] \cup Remembered(s))
            BY <3>1, <3>2
        <3> QED BY <1>2, <1>3, <3>3, <3>4
    <2> QED BY <2>1, <2>2, <2>3, <2>4
<1> QED BY <1>1, <1>2, <1>4, <1>5, StandingWithinTests

\* A file that is to be removed can be, unless a call to close it has failed.
LEMMA FileCanBeRemoved ==
    ASSUME NEW survey, NEW standing, AllSound(survey), AllSerial, AllTidy(survey, standing),
           TidyOK(survey, standing), AtCall(Main), ~Legal(Main, Now(Main)),
           Now(Main).op = "delete", Now(Main).loc \in files \ NeverRemoved(vol_cap_flags_g)
    PROVE  faults # {}
<1> DEFINE s == Now(Main)
           file == s.loc
           open == At(survey, Main)
<1>1. /\ CourseOK /\ Main \in Ranks /\ Ranks = {Main} /\ LostOK
      /\ ~aborted /\ ~Finished(Main) /\ s = Steps(Main)[pc[Main]]
    BY OneRank, StepInTest DEF TidyOK, FilesOK, AtCall, InTest, CourseOK
<1>2. /\ Keeps(Steps(Main), pc[Main], vol_cap_flags_g, open, StandingAt(standing))
      /\ Decisions(s) \subseteq chosen
      /\ \A lit \in Decisions(s) : Opposite(lit) \notin chosen
    BY <1>1, CallKeeps
<1>3. s.uses = {} /\ \A e \in Possible(open[pc[Main]], s) : e.file = file => e.late
    <2> HIDE DEF open
    <2> QED BY <1>1, <1>2, Zenon DEF Keeps
<1>4. Busy(file)
    BY <1>3 DEF Legal
<1>5. CASE file \in lost[Main]
    <2>1. file \notin NeverClosed(vol_cap_flags_g)
        BY DEF NeverRemoved
    <2> QED BY <1>1, <1>5, <2>1 DEF LostOK, CloseFailed
<1>6. CASE \E h \in DOMAIN held[Main] : held[Main][h].file = file
    <2>1. PICK h \in DOMAIN held[Main] : held[Main][h].file = file
        BY <1>6
    <2>2. file # NoFile
        <3>1. NoFile \notin Created(GroupTests)
            BY <1>1, SuiteIsTidy DEF Tidy
        <3> QED BY <3>1 DEF TidyOK, StandingOK
    <2>3. Explained(open[pc[Main]], h, file, chosen, pending[Main],
                    CloseFailed /\ h \in missing[Main])
        BY <1>1, <2>1, <2>2 DEF TidyOK, FilesOK, OpenOK, Expected
    <2> HIDE DEF open, file
    <2>4. ASSUME NEW late \in BOOLEAN,
                 Foreseen(open[pc[Main]], Entry(h, file, late), chosen, pending[Main])
          PROVE  late
        <3>1. PICK e \in open[pc[Main]] :
                  /\ e.var = h /\ e.file = file /\ e.late = late /\ e.given \subseteq chosen
            BY <2>4, ForeseenFields
        <3>2. e \in Possible(open[pc[Main]], s)
            BY <1>2, <3>1 DEF Possible
        <3> QED BY <1>3, <3>1, <3>2
    <2>5. CASE CloseFailed
        BY <2>5 DEF CloseFailed
    <2> QED BY <2>3, <2>4, <2>5, Zenon DEF Explained
<1> QED BY <1>1, <1>4, <1>5, <1>6 DEF Busy

LEMMA FailKeepsStanding ==
    ASSUME NEW survey, NEW standing, AllSound(survey), AllSerial, AllTidy(survey, standing),
           TidyOK(survey, standing), Fail(Main)
    PROVE  StandingOK(standing)'
<1> DEFINE s == Now(Main)
<1>1. AtCall(Main) /\ ~Legal(Main, s) /\ Divert({Main}) /\ faults' = faults
    BY DEF Fail
<1>2. aborted' = (Aborts /\ \E q \in {Main} : Now(q).route = "check")
    BY <1>1, Zenon DEF Divert
<1>3. aborted' \/ MayFail(s)
    <2>1. s.op # "leave" /\ (s.op \in Marks \cup {"consensus"} => s.uses # {})
        BY <1>1 DEF Legal, Marks
    <2> QED BY <1>2, <2>1 DEF MayFail
<1>4. s.op = "delete" /\ s.loc \in files \ NeverRemoved(vol_cap_flags_g) => faults' # {}
    BY <1>1, FileCanBeRemoved
<1> HIDE DEF s
<1> QED BY <1>1, <1>3, <1>4, DivertKeepsStanding DEF s

LEMMA BreakKeepsStanding ==
    ASSUME NEW survey, NEW standing, AllSound(survey), AllSerial, AllTidy(survey, standing),
           TidyOK(survey, standing), Break(Main)
    PROVE  StandingOK(standing)'
<1> DEFINE s == Now(Main)
<1>1. /\ AtCall(Main) /\ s.op \notin Marks \cup {"consensus"} /\ Divert(Group(Main, s))
      /\ faults' = faults \cup {[route |-> s.route, op |-> s.op]}
    BY Zenon DEF Break
<1>2. Divert({Main})
    BY <1>1, OneRank DEF TidyOK, FilesOK
<1>3. aborted' = (Aborts /\ \E q \in {Main} : Now(q).route = "check")
    BY <1>2, Zenon DEF Divert
<1>4. aborted' \/ MayFail(s)
    BY <1>1, <1>3 DEF MayFail
<1> HIDE DEF s
<1>5. faults \subseteq faults' /\ faults' # {}
    BY <1>1
<1> QED BY <1>1, <1>2, <1>4, <1>5, DivertKeepsStanding DEF s

LEMMA SkipKeepsStanding ==
    ASSUME NEW survey, NEW standing, AllSerial, AllTidy(survey, standing),
           TidyOK(survey, standing), Skip(Main)
    PROVE  StandingOK(standing)'
<1> DEFINE at == StandingAt(standing)
<1>1. CourseOK /\ Main \in Ranks
    BY OneRank DEF TidyOK, FilesOK
<1>2. /\ ~aborted /\ ~Finished(Main)
      /\ UNCHANGED <<program, test, store, chosen, report>>
    BY <1>1, SkipPassesOver
<1>3. \A k \in 1..Len(Steps(Main)) : PassesOver(Main, Steps(Main), k, vol_cap_flags_g, at)
    BY <1>1, <1>2, StepsAreTidy
<1>4. ASSUME NEW file \in files \ NeverRemoved(vol_cap_flags_g)
      PROVE  \/ Excused(file)
             \/ Foreseen(at[pc'[Main]], Entry(file, NoFile, FALSE), chosen, pending[Main])
    <2>1. CASE Excused(file)
        BY <2>1
    <2>2. CASE Remains(standing, file)
        <3>1. Foreseen(at[pc[Main]], Entry(file, NoFile, FALSE), chosen, pending[Main])
            BY <1>2, <2>2 DEF Remains
        <3> HIDE DEF at
        <3> QED BY <1>1, <1>2, <1>3, <3>1, SkipPassesOver, EntryIsPassedOver
    <2> QED BY <1>2, <2>1, <2>2 DEF TidyOK, StandingOK
<1>5. UNCHANGED <<files, missing, faults, chosen, pending>>
    BY <1>2 DEF store, report
<1>6. files' \subseteq Created(GroupTests)
    BY <1>5 DEF TidyOK, StandingOK
<1> HIDE DEF at
<1>7. \A file \in files' \ NeverRemoved(vol_cap_flags_g) :
        \/ faults' # {} /\ file \in missing'[Main]
        \/ Foreseen(at[pc'[Main]], Entry(file, NoFile, FALSE), chosen', pending'[Main])
    BY <1>4, <1>5 DEF Excused
<1> QED BY <1>2, <1>6, <1>7, StandingWithinTests DEF at

LEMMA DecideKeepsStanding ==
    ASSUME NEW survey, NEW standing, TidyOK(survey, standing), Decide(Main)
    PROVE  StandingOK(standing)'
<1> DEFINE at == StandingAt(standing)
<1>1. ~aborted /\ ~Finished(Main)
    BY DEF Decide, InTest
<1>2. chosen \subseteq chosen' /\ UNCHANGED <<program, test, pc, store, report>>
    BY DEF Decide, place
<1>3. UNCHANGED <<files, missing, faults, pending>>
    BY <1>2 DEF store, report
<1>4. files' \subseteq Created(GroupTests)
    BY <1>3 DEF TidyOK, StandingOK
<1>5. ASSUME NEW file \in files \ NeverRemoved(vol_cap_flags_g)
      PROVE  \/ Excused(file)
             \/ Foreseen(at[pc[Main]], Entry(file, NoFile, FALSE), chosen', pending[Main])
    <2>1. Excused(file) \/ Remains(standing, file)
        BY <1>1 DEF TidyOK, StandingOK
    <2> QED BY <1>1, <1>2, <2>1, ForeseenByMore DEF Remains
<1> HIDE DEF at
<1>6. \A file \in files' \ NeverRemoved(vol_cap_flags_g) :
        \/ faults' # {} /\ file \in missing'[Main]
        \/ Foreseen(at[pc'[Main]], Entry(file, NoFile, FALSE), chosen', pending'[Main])
    BY <1>2, <1>3, <1>5 DEF Excused
<1> QED BY <1>1, <1>2, <1>4, <1>6, StandingWithinTests DEF at

LEMMA ConsensusKeepsStanding ==
    ASSUME NEW survey, NEW standing, AllSerial, AllTidy(survey, standing),
           TidyOK(survey, standing), Consensus
    PROVE  StandingOK(standing)'
<1> DEFINE failed(r) == Failed(r, Now(r).loc)
           s == Now(Main)
           at == StandingAt(standing)
           way == [pc |-> pc'[Main], pending |-> pending'[Main]]
<1>1. CourseOK /\ Main \in Ranks
    BY OneRank DEF TidyOK, FilesOK
<1>2. AtCall(Main) /\ s.op = "consensus" /\ ~aborted /\ ~Finished(Main)
    BY <1>1 DEF Consensus, InConsensus, AtCall, InTest
<1>3. /\ pc' = [r \in Ranks |-> IF failed(r) THEN Diverted(r) ELSE pc[r] + 1]
      /\ pending' = [r \in Ranks |->
           (pending[r] \ {"op"}) \cup (IF failed(r) THEN {Now(r).route} \cap {"part"} ELSE {})]
      /\ UNCHANGED <<program, test, store, chosen, faults, aborted>>
    BY Zenon DEF Consensus
<1>4. ~failed(Main) => ~(s.loc = "MPI_LOR" /\ "op" \in pending[Main])
    BY <1>1 DEF Failed
<1> HIDE DEF failed
<1>5. s = Steps(Main)[pc[Main]] /\ Lasting(s, chosen) = chosen
    BY <1>2 DEF Now, Lasting
<1>6. way \in Outcomes(Steps(Main), pc[Main], pending[Main])
    <2>1. CASE failed(Main)
        <3>1. /\ pc'[Main] = DivertedFrom(Steps(Main), pc[Main])
              /\ pending'[Main] = (pending[Main] \ {"op"}) \cup ({s.route} \cap {"part"})
            BY <1>1, <1>3, <2>1 DEF Diverted
        <3> QED BY <1>2, <1>5, <3>1 DEF Outcomes
    <2>2. CASE ~failed(Main)
        <3>1. /\ pc'[Main] = pc[Main] + 1 /\ pending'[Main] = pending[Main] \ {"op"}
              /\ ~(s.loc = "MPI_LOR" /\ "op" \in pending[Main])
            BY <1>1, <1>3, <1>4, <2>2
        <3> HIDE DEF s
        <3> QED BY <1>2, <1>5, <3>1 DEF Outcomes
    <2> QED BY <2>1, <2>2
<1>7. UNCHANGED <<files, missing, faults, chosen>>
    BY <1>3 DEF store
<1>8. files' \subseteq Created(GroupTests)
    BY <1>7 DEF TidyOK, StandingOK
<1>9. ASSUME NEW file \in files \ NeverRemoved(vol_cap_flags_g)
      PROVE  \/ Excused(file)
             \/ Foreseen(at[pc'[Main]], Entry(file, NoFile, FALSE), chosen, pending'[Main])
    <2>1. CASE Remains(standing, file)
        <3>1. \A w \in Outcomes(Steps(Main), pc[Main], pending[Main]) :
                Foreseen(at[w.pc], Entry(file, NoFile, FALSE), Lasting(s, chosen), w.pending)
            BY <1>1, <1>2, <2>1, FileIsKept
        <3> QED BY <1>5, <1>6, <3>1
    <2> QED BY <1>2, <2>1 DEF TidyOK, StandingOK
<1> HIDE DEF at
<1>10. \A file \in files' \ NeverRemoved(vol_cap_flags_g) :
         \/ faults' # {} /\ file \in missing'[Main]
         \/ Foreseen(at[pc'[Main]], Entry(file, NoFile, FALSE), chosen', pending'[Main])
    BY <1>7, <1>9 DEF Excused
<1> QED BY <1>2, <1>3, <1>8, <1>10, StandingWithinTests DEF at

LEMMA NextTestKeepsStanding ==
    ASSUME NEW survey, NEW standing, AllSerial, AllTidy(survey, standing),
           TidyOK(survey, standing), NextTest(Main)
    PROVE  StandingOK(standing)'
<1> DEFINE t == test[Main]
           n == Len(Steps(Main)) + 1
           all == standing[group][connector]
<1>1. CourseOK /\ Main \in Ranks /\ ~aborted /\ ~Finished(Main)
    BY OneRank DEF TidyOK, FilesOK, NextTest
<1>2. /\ test' = [test EXCEPT ![Main] = @ + 1] /\ pc' = [pc EXCEPT ![Main] = 1]
      /\ pending' = [pending EXCEPT ![Main] = {}] /\ pc[Main] \notin DOMAIN Steps(Main)
      /\ UNCHANGED <<program, store, chosen, told, faults, aborted>>
    BY DEF NextTest
<1>3. test'[Main] = t + 1 /\ pc'[Main] = 1 /\ pending'[Main] = {}
    BY <1>1, <1>2, TypeParts DEF CourseOK, PlaceOK, ReportOK
<1>4. UNCHANGED <<connector, group, files, missing, chosen, faults, aborted>>
    BY <1>2 DEF program, store
<1>5. /\ GroupTests' = GroupTests /\ NeverRemoved(vol_cap_flags_g)' = NeverRemoved(vol_cap_flags_g)
      /\ Finished(Main)' <=> t + 1 \notin DOMAIN GroupTests
    BY <1>3, <1>4 DEF GroupTests, vol_cap_flags_g, Finished, Tests
<1>6. /\ t \in DOMAIN GroupTests /\ Steps(Main) = GroupTests[t]
      /\ Len(Steps(Main)) \in Nat /\ DOMAIN Steps(Main) = 1..Len(Steps(Main))
    BY <1>1, TestHasSteps DEF CourseOK
<1>7. pc[Main] = n
    BY <1>1, <1>2, <1>6 DEF CourseOK, WithinTests
<1>8. \A e \in StandingAt(standing)[n] :
        IF t + 1 \in DOMAIN GroupTests
        THEN Foreseen(all[t + 1][1], Entry(e.var, e.file, e.late), e.given, {})
        ELSE e.var \in NeverRemoved(vol_cap_flags_g) \/ NoCleanup \in e.given
    <2>1. Tidy(all, survey[group][connector][Main], GroupTests, vol_cap_flags_g)
        BY <1>1, SuiteIsTidy
    <2> HIDE DEF all
    <2>2. \A e \in all[t][Len(GroupTests[t]) + 1] :
            IF t + 1 \in DOMAIN GroupTests
            THEN Foreseen(all[t + 1][1], Entry(e.var, e.file, e.late), e.given, {})
            ELSE e.var \in NeverRemoved(vol_cap_flags_g) \/ NoCleanup \in e.given
        BY <1>6, <2>1, Zenon DEF Tidy, NoCleanup
    <2> QED BY <1>6, <2>2 DEF StandingAt, all
<1> HIDE DEF n, t
<1>9. ASSUME NEW file \in files \ NeverRemoved(vol_cap_flags_g), Remains(standing, file)
      PROVE  Remains(standing, file)'
    <2>1. Foreseen(StandingAt(standing)[n], Entry(file, NoFile, FALSE), chosen, pending[Main])
        BY <1>1, <1>7, <1>9 DEF Remains
    <2> DEFINE none == FALSE
    <2> HIDE DEF none
    <2>2. Foreseen(StandingAt(standing)[n], Entry(file, NoFile, none), chosen, pending[Main])
        BY <2>1 DEF none
    <2>3. PICK e \in StandingAt(standing)[n] :
              e.var = file /\ e.file = NoFile /\ e.late = none /\ e.given \subseteq chosen
        BY <2>2, ForeseenFields
    <2>4. CASE t + 1 \in DOMAIN GroupTests
        <3>1. Foreseen(all[t + 1][1], Entry(file, NoFile, none), e.given, {})
            BY <1>8, <2>3, <2>4
        <3>2. Foreseen(all[t + 1][1], Entry(file, NoFile, none), chosen, {})
            BY <2>3, <3>1, ForeseenByMore
        <3>3. StandingAt(standing)'[pc'[Main]] = all[t + 1][1]
            BY <1>3, <1>4 DEF StandingAt
        <3> QED BY <1>3, <1>4, <1>5, <2>4, <3>2, <3>3 DEF Remains, none
    <2>5. CASE t + 1 \notin DOMAIN GroupTests
        <3>1. NoCleanup \in chosen
            BY <1>8, <2>3, <2>5
        <3> QED BY <1>4, <1>5, <2>5, <3>1 DEF Remains, NoCleanup
    <2> QED BY <2>4, <2>5
<1>10. Created(GroupTests)' = Created(GroupTests)
    BY <1>5
<1>11. \A file : Excused(file)' = Excused(file)
    BY <1>4 DEF Excused
<1>12. ASSUME NEW file \in files \ NeverRemoved(vol_cap_flags_g)
       PROVE  Excused(file)' \/ Remains(standing, file)'
    BY <1>1, <1>9, <1>11, <1>12 DEF TidyOK, StandingOK
<1> QED BY <1>1, <1>4, <1>5, <1>10, <1>12 DEF TidyOK, StandingOK

LEMMA StandingAtFirst ==
    ASSUME NEW survey, NEW standing
    PROVE  Init => TidyOK(survey, standing)
BY FilesAtFirst DEF Init, TidyOK, StandingOK

LEMMA StepKeepsStanding ==
    ASSUME NEW survey, NEW standing, AllSound(survey), AllSerial, AllTidy(survey, standing)
    PROVE  TidyOK(survey, standing) /\ [Next]_vars => TidyOK(survey, standing)'
<1> SUFFICES ASSUME TidyOK(survey, standing), [Next]_vars PROVE TidyOK(survey, standing)'
    OBVIOUS
<1>1. FilesOK(survey)' /\ Ranks = {Main}
    BY StepKeepsFiles, OneRank DEF TidyOK, FilesOK
<1>2. CASE Skip(Main) \/ Decide(Main) \/ Consensus
    BY <1>1, <1>2, SkipKeepsStanding, DecideKeepsStanding, ConsensusKeepsStanding DEF TidyOK
<1>3. CASE Make(Main) \/ NextTest(Main)
    BY <1>1, <1>3, MakeKeepsStanding, NextTestKeepsStanding DEF TidyOK
<1>4. CASE Fail(Main) \/ Break(Main)
    BY <1>1, <1>4, FailKeepsStanding, BreakKeepsStanding DEF TidyOK
<1>5. CASE UNCHANGED vars
    <2>1. UNCHANGED <<connector, group, test, pc, files, missing, chosen, pending, faults, aborted>>
        BY <1>5 DEF vars, program, place, store, report
    <2>2. StandingAt(standing)' = StandingAt(standing) /\ Finished(Main)' = Finished(Main)
        BY <2>1 DEF StandingAt, Finished, Tests
    <2>3. /\ GroupTests' = GroupTests
          /\ NeverRemoved(vol_cap_flags_g)' = NeverRemoved(vol_cap_flags_g)
        BY <2>1 DEF GroupTests, vol_cap_flags_g
    <2>4. Created(GroupTests)' = Created(GroupTests)
        BY <2>3
    <2>5. ASSUME NEW file
          PROVE  /\ Excused(file)' = Excused(file)
                 /\ Remains(standing, file)' = Remains(standing, file)
        BY <2>1, <2>2 DEF Excused, Remains, NoCleanup
    <2> QED BY <1>1, <2>1, <2>2, <2>3, <2>4, <2>5 DEF TidyOK, StandingOK
<1> QED BY <1>1, <1>2, <1>3, <1>4, <1>5 DEF Next, Ended, Polling

(* Whatever the tests of a serial program, the connectors and conditions    *)
(* are: if a sound survey of what is open and a tidy one of what exists can *)
(* be told from their steps, every file the tests of a group create is      *)
(* removed in the end, by the tests or the cleanup, but for those known to  *)
(* stay; unless cleaning up is not allowed or a call that was right failed. *)
THEOREM TidyTestsRemoveFiles ==
    ASSUME NEW survey, NEW standing, AllSound(survey), AllSerial, AllTidy(survey, standing)
    PROVE  Spec => []FilesRemoved
<1>1. TidyOK(survey, standing) => FilesRemoved
    <2> SUFFICES ASSUME TidyOK(survey, standing), \A r \in Ranks : Finished(r), faults = {},
                        NoCleanup \notin chosen, NEW file \in files,
                        file \notin LeftOver \cup NeverClosed(vol_cap_flags_g)
                 PROVE  FALSE
        BY DEF FilesRemoved, NoCleanup
    <2>1. Finished(Main)
        BY OneRank DEF TidyOK, FilesOK
    <2>2. file \in files \ NeverRemoved(vol_cap_flags_g)
        BY DEF NeverRemoved
    <2>3. Excused(file) \/ Remains(standing, file)
        BY <2>1, <2>2 DEF TidyOK, StandingOK
    <2> QED BY <2>1, <2>3 DEF Excused, Remains
<1> QED BY <1>1, StandingAtFirst, StepKeepsStanding, PTL DEF Spec
=============================================================================
