------------------------ MODULE ParallelHarnessProofs ------------------------
(***************************************************************************)
(* What holds of the parallel test program for any number of ranks, any    *)
(* faults and any capabilities of the connector.                           *)
(***************************************************************************)
EXTENDS ParallelHarness, SequenceTheorems, TLAPS

\* The points every rank has left or is about to leave after an error.
Ending == {"m_finalize", "exited"}

\* Before the tests nothing has run, and a rank that is to exit with an error
\* is at the end together with all the others.
StartInv ==
    /\ \A r \in Ranks : pc[r] \in StartUp => ran[r] = 0
    /\ ErrorIsCollective

Inv == TypeOK /\ StartInv

-----------------------------------------------------------------------------
(* The flow of the tests. *)

LEMMA OpsAreASequence ==
    /\ Len(IndependentOps) \in Nat /\ Len(IndependentOps) >= 1
    /\ IndependentOps[Len(IndependentOps)] = "create_test_container"
<1> DEFINE Names == {"copy_connector_string", "get_connector_name",
                     "create_fapl", "check_vol_register",
                     "get_capability_flags", "create_test_container"}
           connector == IF ConnectorSet
                        THEN <<"copy_connector_string", "get_connector_name">>
                        ELSE << >>
           always == <<"create_fapl", "check_vol_register",
                       "get_capability_flags", "create_test_container">>
<1>1. connector \in Seq(Names)
    <2>1. << >> \in Seq(Names) OBVIOUS
    <2>2. <<"copy_connector_string", "get_connector_name">> \in Seq(Names) OBVIOUS
    <2> QED BY <2>1, <2>2
<1>2. always \in Seq(Names)
    OBVIOUS
<1>3. Len(always) = 4 /\ always[4] = "create_test_container"
    OBVIOUS
<1>4. IndependentOps = connector \o always
    BY DEF IndependentOps
<1> HIDE DEF connector, always, Names
<1>5. Len(connector \o always) = Len(connector) + Len(always)
    BY <1>1, <1>2, ConcatProperties
<1>6. Len(connector) \in Nat
    BY <1>1, LenProperties
<1>7. (connector \o always)[Len(connector) + 4] = always[4]
    <2>1. /\ Len(connector) + 4 \in 1..(Len(connector) + Len(always))
          /\ ~(Len(connector) + 4 <= Len(connector))
          /\ Len(connector) + 4 - Len(connector) = 4
        BY <1>3, <1>6
    <2> QED BY <1>1, <1>2, <2>1, ConcatProperties
<1> QED BY <1>3, <1>4, <1>5, <1>6, <1>7

LEMMA TestsLen ==
    /\ Len(Tests) = 3
    /\ Tests[1] = "c_fapl" /\ Tests[2] = "o_fapl" /\ Tests[3] = "s_split"
BY DEF Tests

LEMMA TestsAreThere ==
    \A t \in 1..Len(Tests) :
        /\ Tests[t] \in {"c_fapl", "o_fapl", "s_split"}
        /\ t < Len(Tests) => t + 1 \in 1..Len(Tests)
<1>1. \A t \in 1..Len(Tests) : t = 1 \/ t = 2 \/ t = 3
    BY TestsLen
<1> QED BY <1>1, TestsLen

\* No step of a test leads back to the start-up or straight to the end.
LEMMA FlowGoesOn ==
    \A x \in DOMAIN Flow :
        /\ Flow[x].ok \in Points \ (StartUp \cup Ending)
        /\ Flow[x].ko \in Points \ (StartUp \cup Ending)
        /\ Flow[x].testing \in Nat /\ Flow[x].passed \in Nat
        /\ Flow[x].failed \in Nat
        /\ x \notin StartUp \cup Ending
BY DEF Flow, Step, Points, StartUp, Ending

LEMMA PointsAreThere ==
    /\ StartUp \cup Ending \subseteq Points
    /\ {"barrier", "f_fapl", "c_fapl", "o_fapl", "s_split", "o_pclose",
        "s_barrier", "s_fapl", "s_free", "s_cleanup"} \subseteq Points
    /\ {"m_stats", "m_passed", "m_failed"} \subseteq Points
BY DEF Flow, Points, StartUp, Ending

\* A call of a test keeps the types, and none of the ranks that went through
\* it is at the start-up or at the end.
LEMMA CallGoesOn ==
    ASSUME TypeOK, NEW S \in SUBSET Ranks, NEW Bad \in SUBSET S,
           \A s \in S : InFlow(s),
           Bad # {} => faults < MaxFaults,
           Through(S, Bad)
    PROVE  /\ TypeOK'
           /\ code' = code
           /\ \A r \in Ranks \ S : pc'[r] = pc[r] /\ ran'[r] = ran[r]
           /\ \A r \in S : pc'[r] \notin StartUp \cup Ending
<1>0. \A r \in S : /\ Flow[pc[r]].testing \in Nat
                  /\ Flow[pc[r]].passed \in Nat /\ Flow[pc[r]].failed \in Nat
    BY FlowGoesOn DEF InFlow
<1>1. pc' \in [Ranks -> Points] /\ \A r \in S : pc'[r] \notin StartUp \cup Ending
    BY FlowGoesOn DEF Through, TypeOK, InFlow
<1>2. ran' \in [Ranks -> Nat]
    <2>1. ran' = [r \in Ranks |-> IF r \in S THEN ran[r] + Flow[pc[r]].testing
                                 ELSE ran[r]]
        BY DEF Through
    <2>2. ran \in [Ranks -> Nat]
        BY DEF TypeOK
    <2> QED BY <1>0, <2>1, <2>2
<1>3. passed' \in [Ranks -> Nat]
    <2>1. passed' = [r \in Ranks |-> IF r \in S \ Bad THEN passed[r] + Flow[pc[r]].passed
                                 ELSE passed[r]]
        BY DEF Through
    <2>2. passed \in [Ranks -> Nat]
        BY DEF TypeOK
    <2> QED BY <1>0, <2>1, <2>2
<1>4. failed' \in [Ranks -> Nat]
    <2>1. failed' = [r \in Ranks |-> IF r \in Bad THEN failed[r] + Flow[pc[r]].failed
                                 ELSE failed[r]]
        BY DEF Through
    <2>2. failed \in [Ranks -> Nat]
        BY DEF TypeOK
    <2> QED BY <1>0, <2>1, <2>2
<1>5. faults' \in 0..MaxFaults
    BY FaultsAssumption DEF Through, TypeOK
<1>6. hurt' \subseteq Ranks \X (1..Len(Tests))
    <2>1. \A r \in Ranks : test[r] \in 1..Len(Tests)
        BY DEF TypeOK
    <2> QED BY <2>1 DEF Through, TypeOK
<1>7. failing' \in [Ranks -> BOOLEAN]
    <2>1. \A r \in Ranks : (failing[r] \/ (r \in Bad /\ pc[r] \notin Tried)) \in BOOLEAN
        OBVIOUS
    <2> QED BY <2>1, Zenon DEF Through
<1>8. told' \in BOOLEAN
    BY Zenon DEF Through
<1>9. UNCHANGED <<file_basic, op, test, code>>
    BY DEF Through
<1> QED
    BY <1>1, <1>2, <1>3, <1>4, <1>5, <1>6, <1>7, <1>8, <1>9 DEF Through, TypeOK

LEMMA LocalCallGoesThrough ==
    ASSUME NEW r \in Ranks, LocalCall(r)
    PROVE  \E S \in SUBSET Ranks : \E Bad \in SUBSET S :
              /\ S # {} /\ \A s \in S : InFlow(s)
              /\ Bad # {} => faults < MaxFaults
              /\ Through(S, Bad)
<1>1. CASE Through({r}, {})
    <2>1. {r} \in SUBSET Ranks /\ {} \in SUBSET {r} /\ {r} # {}
        OBVIOUS
    <2> QED BY <1>1, <2>1, Zenon DEF LocalCall
<1>2. CASE faults < MaxFaults /\ Through({r}, {r})
    <2>1. {r} \in SUBSET Ranks /\ {r} \in SUBSET {r} /\ {r} # {}
        OBVIOUS
    <2> QED BY <1>2, <2>1, Zenon DEF LocalCall
<1> QED BY <1>1, <1>2 DEF LocalCall

LEMMA CollectiveCallGoesThrough ==
    ASSUME NEW r \in Ranks, CollectiveCall(r)
    PROVE  \E S \in SUBSET Ranks : \E Bad \in SUBSET S :
              /\ S # {} /\ \A s \in S : InFlow(s)
              /\ Bad # {} => faults < MaxFaults
              /\ Through(S, Bad)
<1>1. Members(r) \in SUBSET Ranks /\ Members(r) # {}
    BY DEF Members, Sub, World
<1>2. \A s \in Members(r) : InFlow(s)
    BY DEF CollectiveCall, Met
<1> QED BY <1>1, <1>2, Zenon DEF CollectiveCall


\* A call keeps the invariant too.
LEMMA CallKeepsInv ==
    ASSUME Inv, NEW S \in SUBSET Ranks, NEW Bad \in SUBSET S,
           \A s \in S : InFlow(s),
           Bad # {} => faults < MaxFaults,
           Through(S, Bad)
    PROVE  Inv'
<1>1. /\ TypeOK' /\ code' = code
      /\ \A r \in Ranks \ S : pc'[r] = pc[r] /\ ran'[r] = ran[r]
      /\ \A r \in S : pc'[r] \notin StartUp \cup Ending
    BY CallGoesOn DEF Inv
<1>2. \A r \in Ranks : pc'[r] \in StartUp => ran'[r] = 0
    BY <1>1 DEF Inv, StartInv
\* After an error no rank is in a call of a test.
<1>3. ErrorIsCollective'
    <2> SUFFICES ASSUME \E r \in Ranks : code[r] = 1
                 PROVE  \A s \in Ranks : code'[s] = 1 /\ ran'[s] = 0
                                          /\ pc'[s] \in Ending
        BY <1>1 DEF ErrorIsCollective, Ending
    <2>1. \A s \in Ranks : code[s] = 1 /\ ran[s] = 0 /\ pc[s] \in Ending
        BY DEF Inv, StartInv, ErrorIsCollective, Ending
    <2>2. S = {}
        BY <2>1, FlowGoesOn DEF InFlow
    <2> QED BY <1>1, <2>1, <2>2
<1> QED BY <1>1, <1>2, <1>3 DEF Inv, StartInv

LEMMA Starts == Init => Inv
<1> SUFFICES ASSUME Init PROVE Inv
    OBVIOUS
<1>1. TypeOK
    <2>1. pc \in [Ranks -> Points]
        BY PointsAreThere DEF Init, StartUp
    <2>2. op \in [Ranks -> 1..Len(IndependentOps)]
        BY OpsAreASequence DEF Init
    <2>3. test \in [Ranks -> 1..Len(Tests)]
        BY TestsLen DEF Init
    <2>4. /\ ran \in [Ranks -> Nat]
          /\ passed \in [Ranks -> Nat] /\ failed \in [Ranks -> Nat]
          /\ code \in [Ranks -> {0, 1}] /\ failing \in [Ranks -> BOOLEAN]
        BY DEF Init
    <2>5. faults \in 0..MaxFaults
        BY FaultsAssumption DEF Init
    <2> QED BY <2>1, <2>2, <2>3, <2>4, <2>5 DEF Init, TypeOK
<1>2. StartInv
    BY DEF Init, StartInv, ErrorIsCollective
<1> QED BY <1>1, <1>2 DEF Inv

LEMMA StepKeepsInv == Inv /\ [Next]_vars => Inv'
<1> SUFFICES ASSUME Inv, [Next]_vars PROVE Inv'
    OBVIOUS
<1> USE DEF Inv, StartInv, Ending, StartUp
<1>1. CASE BcastSeed
    <2>1. TypeOK'
        BY <1>1, PointsAreThere DEF BcastSeed, TypeOK, counters
    <2>2. \A r \in Ranks : pc'[r] \in StartUp => ran'[r] = 0
        BY <1>1 DEF BcastSeed, AllAt, counters
    <2>3. ErrorIsCollective'
        BY <1>1 DEF BcastSeed, AllAt, counters, ErrorIsCollective
    <2> QED BY <2>1, <2>2, <2>3
<1>2. CASE EndIndependentOp
    <2>1. TypeOK'
        <3>1. "m_op" \in Points /\ "m_finalize" \in Points /\ Tests[1] \in Points
            BY PointsAreThere, TestsLen
        <3>2. pc' \in [Ranks -> Points]
            BY <1>2, <3>1 DEF EndIndependentOp
        <3>3. \A o \in 1..Len(IndependentOps) :
                  o # Len(IndependentOps) => o + 1 \in 1..Len(IndependentOps)
            BY OpsAreASequence
        <3>4. op' \in [Ranks -> 1..Len(IndependentOps)]
            <4>1. CASE \E r \in Ranks : failing[r]
                BY <1>2, <4>1 DEF EndIndependentOp, TypeOK
            <4>2. CASE ~ \E r \in Ranks : failing[r]
                <5>1. op' = [r \in Ranks |-> IF op[r] = Len(IndependentOps)
                                             THEN op[r] ELSE op[r] + 1]
                    BY <1>2, <4>2 DEF EndIndependentOp
                <5>2. op \in [Ranks -> 1..Len(IndependentOps)]
                    BY DEF TypeOK
                <5> QED BY <3>3, <5>1, <5>2
            <4> QED BY <4>1, <4>2
        <3>5. code' \in [Ranks -> {0, 1}] /\ told' \in BOOLEAN
            BY <1>2 DEF EndIndependentOp, TypeOK
        <3> QED BY <1>2, <3>2, <3>4, <3>5 DEF EndIndependentOp, TypeOK, counters
    <2>2. \A r \in Ranks : ran'[r] = 0
        BY <1>2 DEF EndIndependentOp, AllAt, counters
    <2>3. ErrorIsCollective'
        BY <1>2, <2>2 DEF EndIndependentOp, AllAt, counters, ErrorIsCollective
    <2> QED BY <2>1, <2>2, <2>3
<1>3. CASE SplitAgree
    <2>1. TypeOK'
        <3>1. pc' \in [Ranks -> Points]
            BY <1>3, PointsAreThere DEF SplitAgree
        <3>2. failed' \in [Ranks -> Nat] /\ told' \in BOOLEAN
            <4>1. CASE \E r \in Ranks : failing[r]
                <5>1. /\ failed' = [r \in Ranks |-> failed[r] + 1]
                      /\ told' = TRUE
                    BY <1>3, <4>1 DEF SplitAgree
                <5>2. failed \in [Ranks -> Nat]
                    BY DEF TypeOK
                <5> QED BY <5>1, <5>2
            <4>2. CASE ~ \E r \in Ranks : failing[r]
                BY <1>3, <4>2 DEF SplitAgree, TypeOK
            <4> QED BY <4>1, <4>2
        <3>3. hurt' \subseteq Ranks \X (1..Len(Tests))
            <4>1. \A r \in Ranks : test[r] \in 1..Len(Tests)
                BY DEF TypeOK
            <4> QED BY <1>3, <4>1 DEF SplitAgree, TypeOK
        <3> QED BY <1>3, <3>1, <3>2, <3>3 DEF SplitAgree, TypeOK
    <2>2. \A r \in Ranks : pc'[r] \notin StartUp
        BY <1>3 DEF SplitAgree
    <2>3. ErrorIsCollective'
        BY <1>3, SizeAssumption DEF SplitAgree, ErrorIsCollective, Ranks
    <2> QED BY <2>1, <2>2, <2>3
<1>4. CASE TestBarrier
    <2>1. TypeOK'
        BY <1>4, PointsAreThere, TestsAreThere DEF TestBarrier, TypeOK, counters
    <2>2. \A r \in Ranks : pc'[r] \notin StartUp
        BY <1>4, TestsAreThere DEF TestBarrier, TypeOK
    <2>3. ErrorIsCollective'
        BY <1>4 DEF TestBarrier, AllAt, ErrorIsCollective, counters
    <2> QED BY <2>1, <2>2, <2>3
<1>5. CASE ReducePassed
    <2>2. TypeOK'
        BY <1>5, PointsAreThere DEF ReducePassed, TypeOK
    <2>3. \A r \in Ranks : pc'[r] \notin StartUp
        BY <1>5 DEF ReducePassed
    <2>4. ErrorIsCollective'
        BY <1>5 DEF ReducePassed, AllAt, ErrorIsCollective
    <2> QED BY <2>2, <2>3, <2>4
<1>6. CASE ReduceFailed
    <2>2. TypeOK'
        BY <1>6, PointsAreThere DEF ReduceFailed, TypeOK
    <2>3. \A r \in Ranks : pc'[r] \notin StartUp
        BY <1>6 DEF ReduceFailed
    <2>4. ErrorIsCollective'
        BY <1>6 DEF ReduceFailed, AllAt, ErrorIsCollective
    <2> QED BY <2>2, <2>3, <2>4
<1>7. CASE Finalize
    <2>1. TypeOK'
        BY <1>7, PointsAreThere DEF Finalize, TypeOK, counters
    <2>2. \A r \in Ranks : pc'[r] \notin StartUp
        BY <1>7 DEF Finalize
    <2>3. ErrorIsCollective'
        BY <1>7 DEF Finalize, ErrorIsCollective, counters
    <2> QED BY <2>1, <2>2, <2>3
<1>8. ASSUME NEW r \in Ranks, IndependentOp(r)
      PROVE  Inv'
    <2>1. TypeOK'
        BY <1>8, PointsAreThere, FaultsAssumption
           DEF IndependentOp, OpMayFail, TypeOK, counters
    <2>2. \A s \in Ranks : pc'[s] \in StartUp => ran'[s] = 0
        BY <1>8 DEF IndependentOp, counters, TypeOK
    <2>3. ErrorIsCollective'
        BY <1>8 DEF IndependentOp, ErrorIsCollective, counters, TypeOK
    <2> QED BY <2>1, <2>2, <2>3
<1>10. ASSUME NEW r \in Ranks, LocalCall(r)
       PROVE  Inv'
    BY <1>10, LocalCallGoesThrough, CallKeepsInv
<1>11. ASSUME NEW r \in Ranks, CollectiveCall(r)
       PROVE  Inv'
    BY <1>11, CollectiveCallGoesThrough, CallKeepsInv
<1>12. ASSUME NEW r \in Ranks, SplitAccess(r)
       PROVE  Inv'
    <2>1. TypeOK'
        BY <1>12, PointsAreThere DEF SplitAccess, TypeOK, counters
    <2>2. \A s \in Ranks : pc'[s] \in StartUp => ran'[s] = 0
        BY <1>12 DEF SplitAccess, counters, TypeOK
    <2>3. ErrorIsCollective'
        BY <1>12 DEF SplitAccess, ErrorIsCollective, counters, TypeOK
    <2> QED BY <2>1, <2>2, <2>3
<1>13. ASSUME NEW r \in Ranks, EndMultipart(r)
       PROVE  Inv'
    <2>1. TypeOK'
        BY <1>13, PointsAreThere DEF EndMultipart, TypeOK, counters
    <2>2. \A s \in Ranks : pc'[s] \in StartUp => ran'[s] = 0
        BY <1>13 DEF EndMultipart, counters, TypeOK
    <2>3. ErrorIsCollective'
        BY <1>13 DEF EndMultipart, ErrorIsCollective, counters, TypeOK
    <2> QED BY <2>1, <2>2, <2>3
<1>14. ASSUME NEW r \in Ranks, Statistics(r)
       PROVE  Inv'
    <2>1. TypeOK'
        BY <1>14, PointsAreThere DEF Statistics, TypeOK, counters
    <2>2. \A s \in Ranks : pc'[s] \in StartUp => ran'[s] = 0
        BY <1>14 DEF Statistics, counters, TypeOK
    <2>3. ErrorIsCollective'
        BY <1>14 DEF Statistics, ErrorIsCollective, counters, TypeOK
    <2> QED BY <2>1, <2>2, <2>3
<1>15. CASE UNCHANGED vars
    BY <1>15 DEF vars, counters, TypeOK, ErrorIsCollective
<1> QED
    BY <1>1, <1>2, <1>3, <1>4, <1>5, <1>6, <1>7, <1>8, <1>10, <1>11,
       <1>12, <1>13, <1>14, <1>15 DEF Next, Go, Exited, Polling

(* The types: every rank is at a point of the program, its tallies are     *)
(* natural numbers, and no more calls fail than MaxFaults.                 *)
THEOREM HarnessTypeCorrect == Spec => []TypeOK
<1>1. Inv => TypeOK
    BY DEF Inv
<1> QED BY <1>1, Starts, StepKeepsInv, PTL DEF Spec

(* END_INDEPENDENT_OP makes a start-up failure collective, for any number  *)
(* of ranks and any failing operations.                                    *)
THEOREM StartUpErrorsAreCollective == Spec => []ErrorIsCollective
<1>1. Inv => ErrorIsCollective
    BY DEF Inv, StartInv
<1> QED BY <1>1, Starts, StepKeepsInv, PTL DEF Spec


-----------------------------------------------------------------------------
(* A connector without basic file support. *)

\* The start-up is one sequence on all ranks, and rank 0 comes out of its last
\* operation with a failure, so no rank gets past it but to the end.
InStep ==
    \A r \in Ranks : /\ op[r] = op[0]
                     /\ pc[r] \in StartUp \cup Ending
                     /\ pc[r] \in Ending => code[r] = 1

RefusedAtLast ==
    pc[0] = "m_agree" /\ op[0] = Len(IndependentOps) => failing[0]

NoTestInv == ~file_basic => InStep /\ RefusedAtLast

LEMMA NoTestAtFirst == Init => NoTestInv
BY SizeAssumption DEF Init, NoTestInv, InStep, RefusedAtLast, StartUp, Ending, Ranks

\* The connector stays what it is.
LEMMA ConnectorStays == [Next]_vars => file_basic' = file_basic
<1> SUFFICES ASSUME [Next]_vars PROVE file_basic' = file_basic
    OBVIOUS
<1>1. CASE BcastSeed \/ EndIndependentOp \/ SplitAgree \/ TestBarrier
              \/ ReducePassed \/ ReduceFailed \/ Finalize
    BY <1>1 DEF BcastSeed, EndIndependentOp, SplitAgree, TestBarrier,
                ReducePassed, ReduceFailed, Finalize
<1>2. ASSUME NEW r \in Ranks, LocalCall(r) \/ CollectiveCall(r)
      PROVE  file_basic' = file_basic
    BY <1>2 DEF LocalCall, CollectiveCall, Through
<1>3. ASSUME NEW r \in Ranks,
             IndependentOp(r) \/ SplitAccess(r) \/ EndMultipart(r) \/ Statistics(r)
      PROVE  file_basic' = file_basic
    BY <1>3 DEF IndependentOp, SplitAccess, EndMultipart, Statistics
<1>4. CASE UNCHANGED vars
    BY <1>4 DEF vars
<1> QED BY <1>1, <1>2, <1>3, <1>4 DEF Next, Go, Exited, Polling

LEMMA StepRunsNoTest == TypeOK /\ NoTestInv /\ [Next]_vars => NoTestInv'
<1> SUFFICES ASSUME TypeOK, NoTestInv, [Next]_vars, ~file_basic
             PROVE  NoTestInv'
    BY ConnectorStays DEF NoTestInv
<1> USE DEF StartUp, Ending, counters
<1>0. /\ 0 \in Ranks
      /\ \A r \in Ranks : /\ op[r] = op[0]
                          /\ pc[r] \in StartUp \cup Ending
                          /\ pc[r] \in Ending => code[r] = 1
      /\ pc[0] = "m_agree" /\ op[0] = Len(IndependentOps) => failing[0]
    BY SizeAssumption DEF NoTestInv, InStep, RefusedAtLast, Ranks
<1>1. \A r \in Ranks : ~InFlow(r)
    BY <1>0, FlowGoesOn DEF InFlow
<1>2. CASE BcastSeed
    BY <1>0, <1>2 DEF BcastSeed, AllAt, NoTestInv, InStep, RefusedAtLast
<1>3. CASE EndIndependentOp
    <2>1. CASE \E s \in Ranks : failing[s]
        BY <1>0, <1>3, <2>1 DEF EndIndependentOp, AllAt, NoTestInv, InStep, RefusedAtLast
    <2>2. CASE ~ \E s \in Ranks : failing[s]
        <3>1. op[0] # Len(IndependentOps)
            BY <1>0, <1>3, <2>2 DEF EndIndependentOp, AllAt
        <3>2. \A r \in Ranks : pc'[r] = "m_op" /\ op'[r] = op[0] + 1
            BY <1>0, <1>3, <2>2, <3>1 DEF EndIndependentOp
        <3> QED BY <1>0, <3>2 DEF NoTestInv, InStep, RefusedAtLast
    <2> QED BY <2>1, <2>2
<1>4. ASSUME NEW r \in Ranks, IndependentOp(r)
      PROVE  NoTestInv'
    <2>1. /\ pc' = [pc EXCEPT ![r] = "m_agree"]
          /\ op' = op /\ code' = code
        BY <1>4 DEF IndependentOp
    <2>2. InStep'
        BY <1>0, <2>1 DEF TypeOK, InStep
    <2>3. RefusedAtLast'
        <3> SUFFICES ASSUME pc'[0] = "m_agree", op'[0] = Len(IndependentOps)
                     PROVE  failing'[0]
            BY DEF RefusedAtLast
        <3>1. CASE r = 0
            <4>1. Refused(0)
                BY <2>1, OpsAreASequence DEF Refused, InContainer
            <4> QED BY <1>0, <1>4, <3>1, <4>1, Zenon DEF IndependentOp, TypeOK
        <3>2. CASE r # 0
            BY <1>0, <1>4, <2>1, <3>2 DEF IndependentOp, TypeOK
        <3> QED BY <3>1, <3>2
    <2> QED BY <2>2, <2>3 DEF NoTestInv
<1>5. CASE Finalize
    BY <1>0, <1>5 DEF Finalize, AllAt, NoTestInv, InStep, RefusedAtLast
\* No rank is where another action starts.
<1>6. CASE SplitAgree \/ TestBarrier \/ ReducePassed \/ ReduceFailed
    BY <1>0, <1>6 DEF SplitAgree, TestBarrier, ReducePassed, ReduceFailed, AllAt
<1>7. ASSUME NEW r \in Ranks, LocalCall(r) \/ CollectiveCall(r)
      PROVE  FALSE
    BY <1>1, <1>7 DEF LocalCall, CollectiveCall
<1>8. ASSUME NEW r \in Ranks, SplitAccess(r) \/ EndMultipart(r) \/ Statistics(r)
      PROVE  FALSE
    BY <1>0, <1>8 DEF SplitAccess, EndMultipart, Statistics
<1>9. CASE UNCHANGED vars
    BY <1>0, <1>9 DEF vars, NoTestInv, InStep, RefusedAtLast
<1> QED
    BY <1>2, <1>3, <1>4, <1>5, <1>6, <1>7, <1>8, <1>9
       DEF Next, Go, Exited, Polling

(* Without basic file support no rank runs a test and every rank exits     *)
(* with an error, though rank 0 alone finds out, for any number of ranks   *)
(* and whatever else fails.                                                *)
THEOREM UnsupportedConnectorsRunNoTest == Spec => []UnsupportedRunsNoTest
<1>1. Inv /\ NoTestInv => UnsupportedRunsNoTest
    <2> SUFFICES ASSUME Inv, NoTestInv, ~file_basic, NEW r \in Ranks
                 PROVE  ran[r] = 0 /\ (pc[r] = "exited" => code[r] = 1)
        BY DEF UnsupportedRunsNoTest
    <2>1. pc[r] \in StartUp \/ code[r] = 1
        BY DEF NoTestInv, InStep
    <2> QED BY <2>1 DEF Inv, StartInv, ErrorIsCollective, StartUp
<1>2. Inv => TypeOK
    BY DEF Inv
<1> QED
    BY <1>1, <1>2, Starts, StepKeepsInv, NoTestAtFirst, StepRunsNoTest, PTL
       DEF Spec

-----------------------------------------------------------------------------
(* The tests, when every failure is agreed on. *)

\* A call of the tests fails on all the ranks that are in it; only H5Fdelete,
\* after which a rank makes the same calls either way, may fail on some.  With
\* any other call failing on a rank alone the theorems below do not hold.
FaultsAgreed ==
    /\ LocalFaults \cap {"fapl", "pclose"} = {}
    /\ PartialFaults \subseteq {"delete"}

\* The collective call a rank is in or, from point p, comes to next.
Ahead(p, r) ==
    CASE p = "m_op" -> "m_agree"
      [] p = "c_fapl" -> "c_create"
      [] p = "c_pclose" -> "c_close"
      [] p = "o_fapl" -> "o_rdonly"
      [] p \in {"o_end", "o_pclose"} -> "barrier"
      [] p = "s_access" -> IF r % 2 = 1 THEN "s_barrier" ELSE "s_create"
      [] p = "s_fapl" -> "s_create"
      [] p = "s_pclose" -> "s_agree"
      [] p = "f_fapl" -> "f_delete"
      [] p = "f_pclose" -> "m_delete"
      [] p = "m_stats" -> "m_passed"
      [] OTHER -> p

\* The next call of all ranks: of the split test, what its halves do between
\* two such calls is left out.
WorldAhead(p) ==
    CASE p \in {"s_access", "s_barrier", "s_fapl", "s_create", "s_close",
                "s_delete", "s_pclose", "s_unclosed"} -> "s_agree"
      [] p = "s_free" -> "s_world"
      [] p = "s_cleanup" -> "barrier"
      [] OTHER -> Ahead(p, 0)

\* All ranks are on their way to the same call, and so are those of a half.
Abreast ==
    \A r, s \in Ranks :
        /\ op[r] = op[s] /\ test[r] = test[s]
        /\ WorldAhead(pc[r]) = WorldAhead(pc[s])
        /\ r % 2 = s % 2 => Ahead(pc[r], r) = Ahead(pc[s], s)

\* From its first test on a rank has statistics to report.
HasRun ==
    \A r \in Ranks :
        pc[r] \notin StartUp \cup Ending \cup {"c_fapl"} => ran[r] > 0

AbreastInv == Abreast /\ HasRun

\* Up to its next collective call a rank goes alone, and cannot go wrong.
LEMMA LocalCallsLeadToTheSameCall ==
    \A x \in DOMAIN Flow : Flow[x].comm = "none" =>
        /\ \A r : Ahead(Flow[x].ok, r) = Ahead(x, r)
        /\ WorldAhead(Flow[x].ok) = WorldAhead(x)
        /\ Flow[x].call \in {"fapl", "pclose"}
BY DEF Flow, Step, Ahead, WorldAhead

\* After a call of one half, its ranks still have the same call of all ranks
\* before them, and after a failed deletion the same one as the others.
LEMMA HalvesComeBack ==
    \A x \in DOMAIN Flow : Flow[x].comm = "sub" =>
        /\ \A r : Ahead(x, r) = x
        /\ WorldAhead(Flow[x].ok) = WorldAhead(x)
        /\ Flow[x].call \in {"create", "open", "close", "delete"} =>
              WorldAhead(Flow[x].ko) = WorldAhead(x)
        /\ Flow[x].call = "delete" =>
              \A r, s : Ahead(Flow[x].ok, r) = Ahead(Flow[x].ko, s)
        /\ \A r, s : /\ Ahead(Flow[x].ok, r) = Ahead(Flow[x].ok, s)
                     /\ Ahead(Flow[x].ko, r) = Ahead(Flow[x].ko, s)
BY DEF Flow, Step, Ahead, WorldAhead

\* A call of all ranks is what they have before them, and the deletion of the
\* files goes on in the same way whether it fails or not.
LEMMA WorldCallsAreNext ==
    \A x \in DOMAIN Flow : Flow[x].comm = "world" =>
        /\ WorldAhead(x) = x /\ x \notin {"s_agree", "s_unclosed"}
        /\ \A r : Ahead(x, r) = x
        /\ Flow[x].call = "delete" => Flow[x].ok = Flow[x].ko
BY DEF Flow, Step, Ahead, WorldAhead

\* The points apart, only MPI_Comm_split leads to one whose call depends on
\* the rank.
LEMMA HalvesAgree ==
    ASSUME NEW r \in Ranks, NEW s \in Ranks, r % 2 = s % 2, NEW p
    PROVE  Ahead(p, r) = Ahead(p, s)
BY DEF Ahead

\* A test is counted by its first call; the others are made in a test.
LEMMA FlowCounts ==
    /\ Flow["c_fapl"].testing = 1
    /\ \A x \in DOMAIN Flow : /\ Flow[x].ok # "c_fapl" /\ Flow[x].ko # "c_fapl"
                              /\ x \in Tried => Flow[x].failed = 0
                              /\ Flow[x].comm \in {"none", "sub", "world"}
BY DEF Flow, Step, Tried

\* All ranks at one point are abreast.
LEMMA TogetherIsAbreast ==
    ASSUME NEW p, \A r \in Ranks : pc'[r] = p,
           \A r, s \in Ranks : op'[r] = op'[s] /\ test'[r] = test'[s]
    PROVE  Abreast'
<1>1. \A r, s \in Ranks : r % 2 = s % 2 => Ahead(p, r) = Ahead(p, s)
    BY HalvesAgree
<1> QED BY <1>1, Zenon DEF Abreast

\* A call without faults on the way, of a rank alone, leaves all abreast.
LEMMA LocalCallKeepsAbreast ==
    ASSUME FaultsAgreed, TypeOK, Abreast, NEW r \in Ranks, LocalCall(r)
    PROVE  Abreast'
<1>1. Through({r}, {})
    BY LocalCallsLeadToTheSameCall DEF LocalCall, InFlow, FaultsAgreed
<1>2. /\ pc' = [q \in Ranks |-> IF q = r THEN Flow[pc[r]].ok ELSE pc[q]]
      /\ op' = op /\ test' = test
    BY <1>1 DEF Through
<1>3. \A q \in Ranks : /\ Ahead(pc'[q], q) = Ahead(pc[q], q)
                       /\ WorldAhead(pc'[q]) = WorldAhead(pc[q])
    BY <1>2, LocalCallsLeadToTheSameCall DEF LocalCall, InFlow
<1> QED BY <1>2, <1>3, Zenon DEF Abreast

\* What fails of a collective call is the whole of it, or a deletion.
LEMMA CollectiveCallFailsTogether ==
    ASSUME FaultsAgreed, NEW r \in Ranks, CollectiveCall(r)
    PROVE  \E Bad \in SUBSET Members(r) :
              /\ \/ Bad = {}
                 \/ Flow[pc[r]].call = "delete"
                 \/ /\ Bad = Members(r)
                    /\ Flow[pc[r]].call \in {"create", "open", "close", "delete"}
              /\ Bad # {} => faults < MaxFaults
              /\ Through(Members(r), Bad)
<1>1. PICK Bad \in SUBSET Members(r) :
          /\ Bad # {} => faults < MaxFaults
          /\ Bad # {} => \/ Flow[pc[r]].call \in PartialFaults
                         \/ Flow[pc[r]].call \in AgreedFaults /\ Bad = Members(r)
          /\ Through(Members(r), Bad)
    BY Zenon DEF CollectiveCall
<1>2. \/ Bad = {}
      \/ Flow[pc[r]].call = "delete"
      \/ /\ Bad = Members(r)
         /\ Flow[pc[r]].call \in {"create", "open", "close", "delete"}
    BY <1>1, FaultsAssumption DEF FaultsAgreed
<1> QED BY <1>1, <1>2, Zenon

LEMMA WorldCallKeepsAbreast ==
    ASSUME FaultsAgreed, TypeOK, Abreast, NEW r \in Ranks, CollectiveCall(r),
           Flow[pc[r]].comm = "world"
    PROVE  /\ \A s \in Ranks : pc[s] = pc[r]
           /\ Abreast'
<1> DEFINE p == pc[r]
<1>1. Members(r) = Ranks
    BY DEF Members, World
<1>2. \A s \in Ranks : pc[s] \in DOMAIN Flow /\ Flow[pc[s]].comm = "world"
    BY <1>1 DEF CollectiveCall, Met, InFlow
<1>3. \A s \in Ranks : pc[s] = p
    BY <1>2, WorldCallsAreNext DEF Abreast
<1>4. PICK Bad \in SUBSET Ranks :
          /\ \/ Bad = {}
             \/ Flow[p].call = "delete"
             \/ Bad = Ranks /\ Flow[p].call \in {"create", "open", "close", "delete"}
          /\ Through(Ranks, Bad)
    BY <1>1, CollectiveCallFailsTogether, Zenon
<1>5. /\ pc' = [s \in Ranks |-> IF s \in Bad THEN Flow[p].ko ELSE Flow[p].ok]
      /\ \A s, q \in Ranks : op'[s] = op'[q] /\ test'[s] = test'[q]
    BY <1>3, <1>4 DEF Through, Abreast
<1>6. \/ \A s \in Ranks : pc'[s] = Flow[p].ok
      \/ \A s \in Ranks : pc'[s] = Flow[p].ko
    BY <1>2, <1>4, <1>5, WorldCallsAreNext
<1>7. Abreast'
    BY <1>5, <1>6, TogetherIsAbreast
<1> QED BY <1>3, <1>7

LEMMA HalfCallKeepsAbreast ==
    ASSUME FaultsAgreed, TypeOK, Abreast, NEW r \in Ranks, CollectiveCall(r),
           Flow[pc[r]].comm = "sub"
    PROVE  /\ \A s \in Sub(r) : pc[s] = pc[r]
           /\ Abreast'
<1> DEFINE p == pc[r]
<1>1. Members(r) = Sub(r)
    BY DEF Members
<1>2. \A s \in Sub(r) : pc[s] \in DOMAIN Flow /\ Flow[pc[s]].comm = "sub"
    BY <1>1 DEF CollectiveCall, Met, InFlow
<1>0. r \in Sub(r) /\ p \in DOMAIN Flow
    BY DEF Sub, CollectiveCall, InFlow
<1>3. \A s \in Sub(r) : pc[s] = p
    BY <1>2, <1>0, HalvesComeBack DEF Abreast, Sub
<1>4. PICK Bad \in SUBSET Sub(r) :
          /\ \/ Bad = {}
             \/ Flow[p].call = "delete"
             \/ Bad = Sub(r) /\ Flow[p].call \in {"create", "open", "close", "delete"}
          /\ Through(Sub(r), Bad)
    BY <1>1, CollectiveCallFailsTogether, Zenon
<1>5. /\ \A s \in Ranks : pc'[s] = IF s \notin Sub(r) THEN pc[s]
                                   ELSE IF s \in Bad THEN Flow[p].ko ELSE Flow[p].ok
      /\ op' = op /\ test' = test
    BY <1>3, <1>4 DEF Through
<1>6. \A s \in Ranks : WorldAhead(pc'[s]) = WorldAhead(pc[s])
    BY <1>0, <1>3, <1>4, <1>5, HalvesComeBack
<1>7. ASSUME NEW s \in Ranks, NEW q \in Ranks, s % 2 = q % 2
      PROVE  Ahead(pc'[s], s) = Ahead(pc'[q], q)
    <2>1. s \in Sub(r) <=> q \in Sub(r)
        BY <1>7 DEF Sub
    <2>2. CASE s \notin Sub(r)
        BY <1>5, <1>7, <2>1, <2>2 DEF Abreast
    <2>3. CASE s \in Sub(r)
        BY <1>0, <1>4, <1>5, <2>1, <2>3, HalvesComeBack
    <2> QED BY <2>2, <2>3
<1>8. Abreast'
    BY <1>5, <1>6, <1>7, Zenon DEF Abreast
<1> QED BY <1>3, <1>8

\* From the first call of its first test on, a rank has run a test.
LEMMA CallKeepsRunning ==
    ASSUME TypeOK, HasRun, NEW S \in SUBSET Ranks, NEW Bad \in SUBSET S,
           \A s \in S : InFlow(s), Bad # {} => faults < MaxFaults,
           Through(S, Bad)
    PROVE  HasRun'
<1>1. /\ \A r \in Ranks \ S : pc'[r] = pc[r] /\ ran'[r] = ran[r]
      /\ \A r \in S : pc'[r] \notin StartUp \cup Ending
    BY CallGoesOn
<1>2. ASSUME NEW r \in S
      PROVE  ran'[r] > 0
    <2>1. ran'[r] = ran[r] + Flow[pc[r]].testing
        BY DEF Through
    <2>2. ran[r] \in Nat /\ Flow[pc[r]].testing \in Nat
        BY FlowGoesOn DEF TypeOK, InFlow
    <2>3. pc[r] = "c_fapl" => Flow[pc[r]].testing = 1
        BY FlowCounts
    <2>4. pc[r] # "c_fapl" => ran[r] > 0
        BY FlowGoesOn DEF HasRun, InFlow
    <2> QED BY <2>1, <2>2, <2>3, <2>4
<1> QED BY <1>1, <1>2 DEF HasRun

LEMMA AbreastAtFirst == Init => AbreastInv
BY DEF Init, AbreastInv, Abreast, HasRun, WorldAhead, Ahead, StartUp

LEMMA StepKeepsAbreast ==
    FaultsAgreed /\ TypeOK /\ AbreastInv /\ [Next]_vars => AbreastInv'
<1> SUFFICES ASSUME FaultsAgreed, TypeOK, Abreast, HasRun, [Next]_vars
             PROVE  Abreast' /\ HasRun'
    BY DEF AbreastInv
<1> USE DEF StartUp, Ending, counters
<1>0. \A r, s \in Ranks : op[r] = op[s] /\ test[r] = test[s]
    BY DEF Abreast
<1>1. CASE BcastSeed
    <2>1. Abreast'
        BY <1>0, <1>1, TogetherIsAbreast DEF BcastSeed
    <2>2. HasRun'
        BY <1>1 DEF BcastSeed, HasRun
    <2> QED BY <2>1, <2>2
<1>2. CASE EndIndependentOp
    <2>1. \A r \in Ranks : pc'[r] \in {"m_op", "m_finalize", "c_fapl"}
        BY <1>2, TestsLen DEF EndIndependentOp
    <2>2. \/ \A r \in Ranks : pc'[r] = "m_op"
          \/ \A r \in Ranks : pc'[r] = "m_finalize"
          \/ \A r \in Ranks : pc'[r] = "c_fapl"
        BY <1>0, <1>2, TestsLen DEF EndIndependentOp
    <2>3. \A r, s \in Ranks : op'[r] = op'[s] /\ test'[r] = test'[s]
        <3>1. test' = test
            BY <1>2 DEF EndIndependentOp
        <3>2. \/ op' = op
              \/ op' = [r \in Ranks |-> IF op[r] = Len(IndependentOps)
                                        THEN op[r] ELSE op[r] + 1]
            BY <1>2 DEF EndIndependentOp
        <3> QED BY <1>0, <3>1, <3>2
    <2>4. Abreast'
        BY <2>2, <2>3, TogetherIsAbreast
    <2>5. HasRun'
        BY <2>1 DEF HasRun
    <2> QED BY <2>4, <2>5
<1>3. CASE SplitAgree
    <2>1. /\ op' = op /\ test' = test /\ ran' = ran
          /\ \A r \in Ranks : pc[r] \in {"s_agree", "s_unclosed"}
        BY <1>3 DEF SplitAgree
    <2>2. Abreast'
        <3>1. CASE \E r \in Ranks : failing[r]
            <4>1. \A r \in Ranks :
                      pc'[r] = IF pc[r] = "s_unclosed" THEN "s_cleanup" ELSE "barrier"
                BY <1>3, <3>1 DEF SplitAgree
            <4>2. \A r \in Ranks : Ahead(pc[r], r) = pc[r] /\ Ahead(pc'[r], r) = pc'[r]
                                   /\ WorldAhead(pc'[r]) = "barrier"
                BY <2>1, <4>1 DEF Ahead, WorldAhead
            <4>3. \A r, s \in Ranks : r % 2 = s % 2 => pc[r] = pc[s]
                BY <4>2, Zenon DEF Abreast
            <4>4. \A r, s \in Ranks : r % 2 = s % 2 => pc'[r] = pc'[s]
                BY <4>1, <4>3, Zenon
            <4>5. \A r, s \in Ranks :
                      r % 2 = s % 2 => Ahead(pc'[r], r) = Ahead(pc'[s], s)
                BY <4>2, <4>4, Zenon
            <4> QED BY <1>0, <2>1, <4>2, <4>5, Zenon DEF Abreast
        <3>2. CASE ~ \E r \in Ranks : failing[r]
            <4>1. \A r \in Ranks : pc'[r] = "s_free"
                BY <1>3, <3>2 DEF SplitAgree
            <4> QED BY <1>0, <2>1, <4>1, TogetherIsAbreast
        <3> QED BY <3>1, <3>2
    <2>3. HasRun'
        BY <2>1 DEF HasRun
    <2> QED BY <2>2, <2>3
<1>4. CASE TestBarrier
    <2>1. \A r \in Ranks : pc[r] = "barrier" /\ ran'[r] = ran[r]
        BY <1>4 DEF TestBarrier, AllAt
    <2>2. \A r, s \in Ranks : pc'[r] = pc'[s]
        BY <1>0, <1>4, Zenon DEF TestBarrier
    <2>3. \A r, s \in Ranks : op'[r] = op'[s] /\ test'[r] = test'[s]
        BY <1>0, <1>4 DEF TestBarrier
    <2>4. Abreast'
        <3>1. PICK r \in Ranks : TRUE
            BY SizeAssumption DEF Ranks
        <3> QED BY <2>2, <2>3, <3>1, TogetherIsAbreast
    <2>5. HasRun'
        BY <2>1 DEF HasRun
    <2> QED BY <2>4, <2>5
<1>5. CASE ReducePassed
    <2>1. Abreast'
        BY <1>0, <1>5, TogetherIsAbreast DEF ReducePassed
    <2>2. HasRun'
        BY <1>5 DEF ReducePassed, AllAt, HasRun
    <2> QED BY <2>1, <2>2
<1>6. CASE ReduceFailed
    <2>1. Abreast'
        BY <1>0, <1>6, TogetherIsAbreast DEF ReduceFailed
    <2>2. HasRun'
        BY <1>6 DEF ReduceFailed, AllAt, HasRun
    <2> QED BY <2>1, <2>2
<1>7. CASE Finalize
    <2>1. Abreast'
        BY <1>0, <1>7, TogetherIsAbreast DEF Finalize
    <2>2. HasRun'
        BY <1>7 DEF Finalize, HasRun
    <2> QED BY <2>1, <2>2
<1>8. ASSUME NEW r \in Ranks, IndependentOp(r)
      PROVE  Abreast' /\ HasRun'
    <2>1. /\ pc[r] = "m_op" /\ pc' = [pc EXCEPT ![r] = "m_agree"]
          /\ UNCHANGED <<op, test, ran>>
        BY <1>8 DEF IndependentOp
    <2>2. \A s \in Ranks : /\ Ahead(pc'[s], s) = Ahead(pc[s], s)
                           /\ WorldAhead(pc'[s]) = WorldAhead(pc[s])
        BY <2>1 DEF TypeOK, Ahead, WorldAhead
    <2>3. Abreast'
        BY <2>1, <2>2, Zenon DEF Abreast
    <2>4. HasRun'
        BY <2>1 DEF HasRun, TypeOK
    <2> QED BY <2>3, <2>4
<1>9. ASSUME NEW r \in Ranks, LocalCall(r)
      PROVE  Abreast' /\ HasRun'
    <2>1. Abreast'
        BY <1>9, LocalCallKeepsAbreast
    <2>2. HasRun'
        BY <1>9, LocalCallGoesThrough, CallKeepsRunning
    <2> QED BY <2>1, <2>2
<1>10. ASSUME NEW r \in Ranks, CollectiveCall(r)
       PROVE  Abreast' /\ HasRun'
    <2>1. Flow[pc[r]].comm \in {"sub", "world"}
        BY <1>10, FlowCounts DEF CollectiveCall, InFlow
    <2>2. Abreast'
        BY <1>10, <2>1, WorldCallKeepsAbreast, HalfCallKeepsAbreast
    <2>3. HasRun'
        BY <1>10, CollectiveCallGoesThrough, CallKeepsRunning
    <2> QED BY <2>2, <2>3
<1>11. ASSUME NEW r \in Ranks, SplitAccess(r) \/ EndMultipart(r) \/ Statistics(r)
       PROVE  Abreast' /\ HasRun'
    <2>1. /\ UNCHANGED <<op, test, ran>>
          /\ pc'[r] \notin StartUp \cup {"c_fapl"}
          /\ \A s \in Ranks \ {r} : pc'[s] = pc[s]
        BY <1>11 DEF SplitAccess, EndMultipart, Statistics, TypeOK
    <2>2. ran[r] > 0
        BY <1>11 DEF SplitAccess, EndMultipart, Statistics, HasRun
    <2>3. /\ Ahead(pc'[r], r) = Ahead(pc[r], r)
          /\ WorldAhead(pc'[r]) = WorldAhead(pc[r])
        BY <1>11, <2>2
           DEF SplitAccess, EndMultipart, Statistics, TypeOK, Ahead, WorldAhead
    <2>4. \A s \in Ranks : /\ Ahead(pc'[s], s) = Ahead(pc[s], s)
                           /\ WorldAhead(pc'[s]) = WorldAhead(pc[s])
        BY <2>1, <2>3
    <2>5. Abreast'
        BY <2>1, <2>4, Zenon DEF Abreast
    <2>6. HasRun'
        BY <2>1, <2>2 DEF HasRun
    <2> QED BY <2>5, <2>6
<1>12. CASE UNCHANGED vars
    <2>1. UNCHANGED <<pc, op, test, ran>>
        BY <1>12 DEF vars
    <2> QED BY <2>1 DEF Abreast, HasRun
<1> QED
    BY <1>1, <1>2, <1>3, <1>4, <1>5, <1>6, <1>7, <1>8, <1>9, <1>10, <1>11,
       <1>12 DEF Next, Go, Exited, Polling

\* The collective calls are where the ranks are on their way to.
LEMMA WaitingIsThere ==
    ASSUME NEW r \in Ranks, Waits(r), NEW s \in Ranks, Waits(s),
           WorldAhead(pc[r]) = WorldAhead(pc[s]), op[r] = op[s],
           r % 2 = s % 2 => Ahead(pc[r], r) = Ahead(pc[s], s),
           CallOf(r)[1] = CallOf(s)[1],
           CallOf(r)[1] = "sub" => s \in Sub(r)
    PROVE  CallOf(r) = CallOf(s)
<1>1. ASSUME NEW q \in Ranks, Waits(q)
      PROVE  /\ CallOf(q)[1] = "sub" => pc[q] \in DOMAIN Flow /\ Flow[pc[q]].comm = "sub"
             /\ CallOf(q)[1] # "sub" =>
                   \/ WorldAhead(pc[q]) = pc[q] /\ pc[q] # "s_unclosed"
                   \/ pc[q] = "s_unclosed" /\ WorldAhead(pc[q]) = "s_agree"
    <2>1. CASE InFlow(q)
        <3>1. CallOf(q)[1] = Flow[pc[q]].comm /\ Flow[pc[q]].comm \in {"sub", "world"}
            BY <1>1, <2>1, FlowCounts DEF CallOf, Waits, Flow, InFlow
        <3> QED BY <2>1, <3>1, WorldCallsAreNext DEF InFlow
    <2>2. CASE ~InFlow(q)
        <3>1. pc[q] \in {"m_seed", "m_agree", "s_agree", "s_unclosed",
                         "barrier", "m_passed", "m_failed", "m_finalize"}
            BY <1>1, <2>2 DEF Waits
        <3>2. CallOf(q)[1] = "world"
            BY <2>2, <3>1 DEF CallOf
        <3> QED BY <3>1, <3>2 DEF WorldAhead, Ahead
    <2> QED BY <2>1, <2>2
<1>2. CASE CallOf(r)[1] = "sub"
    <2>1. Ahead(pc[r], r) = pc[r] /\ Ahead(pc[s], s) = pc[s]
        BY <1>1, <1>2, HalvesComeBack
    <2>2. pc[r] = pc[s]
        BY <1>2, <2>1 DEF Sub
    <2> QED BY <1>1, <1>2, <2>2 DEF CallOf, InFlow
<1>3. CASE CallOf(r)[1] # "sub"
    <2>1. \/ pc[r] = pc[s]
          \/ {pc[r], pc[s]} = {"s_agree", "s_unclosed"}
        BY <1>1, <1>3
    <2>2. CASE pc[r] = pc[s]
        BY <2>2 DEF CallOf, InFlow
    <2>3. CASE {pc[r], pc[s]} = {"s_agree", "s_unclosed"}
        <3>1. \A q \in {r, s} : ~InFlow(q)
            BY <2>3 DEF InFlow, Flow
        <3>2. \A q \in {r, s} : CallOf(q) = <<"world", "s_agree">>
            BY <2>3, <3>1 DEF CallOf
        <3> QED BY <3>2
    <2> QED BY <2>2, <2>3, <2>1
<1> QED BY <1>2, <1>3

(* No two ranks wait for each other in different collective calls, for any *)
(* number of ranks, when the ranks agree on every failure but that of a    *)
(* deletion: the clean-up paths of the file tests keep them in step.       *)
THEOREM CallsAlwaysMatch == FaultsAgreed => (Spec => []CallsMatch)
<1> SUFFICES ASSUME FaultsAgreed PROVE Spec => []CallsMatch
    OBVIOUS
<1>1. Inv /\ AbreastInv /\ [Next]_vars => AbreastInv'
    BY StepKeepsAbreast DEF Inv
<1>2. AbreastInv => CallsMatch
    BY WaitingIsThere DEF AbreastInv, Abreast, CallsMatch
<1> QED BY <1>1, <1>2, Starts, StepKeepsInv, AbreastAtFirst, PTL DEF Spec

\* Ranks that wait, on their way to the same calls, complete one.
LEMMA NoneIsStranded == TypeOK /\ Abreast => NoneStranded
<1> SUFFICES ASSUME TypeOK, Abreast, ~AllAt("exited"),
                    \A r \in Ranks : pc[r] = "exited" \/ Waits(r)
             PROVE  Complete
    BY DEF NoneStranded
<1> DEFINE worldCalls == {"m_seed", "m_agree", "barrier", "m_passed", "m_failed",
                          "m_finalize"}
<1>0. DOMAIN Flow \cap ({"s_agree", "s_unclosed", "exited"} \cup worldCalls) = {}
    BY DEF Flow
<1>1. ASSUME NEW r \in Ranks
      PROVE  /\ pc[r] \in DOMAIN Flow => Flow[pc[r]].comm \in {"sub", "world"}
             /\ pc[r] \notin DOMAIN Flow =>
                   pc[r] \in {"s_agree", "s_unclosed", "exited"} \cup worldCalls
    BY <1>0, FlowCounts DEF Waits, InFlow
\* One half is in a call of its own.
<1>2. CASE \E r \in Ranks : pc[r] \in DOMAIN Flow /\ Flow[pc[r]].comm = "sub"
    <2>1. PICK r \in Ranks : pc[r] \in DOMAIN Flow /\ Flow[pc[r]].comm = "sub"
        BY <1>2
    <2>2. \A s \in Ranks : r % 2 = s % 2 => Ahead(pc[s], s) = pc[r]
        BY <2>1, HalvesComeBack DEF Abreast
    <2>3. \A s \in Ranks : Ahead(pc[s], s) = pc[s]
        BY <1>1, HalvesComeBack, WorldCallsAreNext DEF Ahead
    <2>4. \A s \in Sub(r) : pc[s] = pc[r]
        BY <2>2, <2>3 DEF Sub
    <2>5. InFlow(r) /\ Members(r) = Sub(r)
        BY <2>1 DEF InFlow, Members
    <2>6. Met(r)
        BY <2>4, <2>5 DEF Met, InFlow
    <2> QED BY <2>1, <2>5, <2>6 DEF Complete
\* Otherwise all ranks are in one call.
<1>3. CASE ~ \E r \in Ranks : pc[r] \in DOMAIN Flow /\ Flow[pc[r]].comm = "sub"
    <2>1. ASSUME NEW r \in Ranks
          PROVE  \/ pc[r] # "s_unclosed" /\ WorldAhead(pc[r]) = pc[r]
                 \/ pc[r] = "s_unclosed" /\ WorldAhead(pc[r]) = "s_agree"
        <3>1. CASE pc[r] \in DOMAIN Flow
            BY <1>1, <1>3, <3>1, WorldCallsAreNext DEF Waits, InFlow
        <3>2. CASE pc[r] \notin DOMAIN Flow
            BY <1>1, <3>2 DEF WorldAhead, Ahead
        <3> QED BY <3>1, <3>2
    <2>2. PICK r \in Ranks : pc[r] # "exited"
        BY DEF AllAt
    <2>3. \A s \in Ranks : WorldAhead(pc[s]) = WorldAhead(pc[r])
        BY DEF Abreast
    <2>4. CASE pc[r] \in {"s_agree", "s_unclosed"}
        <3>1. \A s \in Ranks : pc[s] \in {"s_agree", "s_unclosed"}
            BY <2>1, <2>3, <2>4
        <3> QED BY <3>1 DEF Complete
    <2>5. CASE pc[r] \notin {"s_agree", "s_unclosed"}
        <3>1. WorldAhead(pc[r]) = pc[r]
            BY <2>1, <2>5
        <3>2. \A s \in Ranks : pc[s] = pc[r]
            BY <2>1, <2>3, <2>5, <3>1
        <3>3. CASE pc[r] \in worldCalls
            BY <3>2, <3>3 DEF Complete, AllAt
        <3>4. CASE pc[r] \in DOMAIN Flow /\ Flow[pc[r]].comm = "world"
            <4>1. InFlow(r) /\ Members(r) = Ranks
                BY <3>4 DEF InFlow, Members, World
            <4>2. Met(r)
                BY <3>2, <4>1 DEF Met, InFlow
            <4> QED BY <3>4, <4>1, <4>2 DEF Complete
        <3> QED BY <1>1, <1>3, <2>2, <2>5, <3>3, <3>4
    <2> QED BY <2>4, <2>5
<1> QED BY <1>2, <1>3

(* Until all ranks have exited one of them can go on alone, or a           *)
(* collective call has all its ranks: the program does not deadlock, on    *)
(* any number of ranks that agree on every failure but that of a deletion. *)
THEOREM RanksAreNeverStranded == FaultsAgreed => (Spec => []NoneStranded)
<1> SUFFICES ASSUME FaultsAgreed PROVE Spec => []NoneStranded
    OBVIOUS
<1>1. Inv /\ AbreastInv /\ [Next]_vars => AbreastInv'
    BY StepKeepsAbreast DEF Inv
<1>2. Inv /\ AbreastInv => NoneStranded
    BY NoneIsStranded DEF Inv, AbreastInv
<1> QED BY <1>1, <1>2, Starts, StepKeepsInv, AbreastAtFirst, PTL DEF Spec

-----------------------------------------------------------------------------
(* What the tests report. *)

\* A test one rank alone counts as failed is the split test, and that rank is
\* about to tell the others.
HurtTogether ==
    \A r, s \in Ranks : \A t \in 1..Len(Tests) :
        <<r, t>> \in hurt =>
            \/ <<s, t>> \in hurt
            \/ failing[r] /\ t = test[r] /\ pc[r] \in {"s_agree", "s_unclosed"}

\* A rank counts a failure just when a test failed, and then has said so.
Tallied ==
    /\ hurt # {} => told
    /\ \A r \in Ranks : failed[r] > 0 => hurt # {}
    /\ \A r \in Ranks, t \in 1..Len(Tests) : <<r, t>> \in hurt => failed[r] > 0

ReportInv == HurtTogether /\ Tallied

\* Where a call of the tests that can fail leaves the ranks it failed on.
LEMMA FailuresAreTold ==
    \A x \in DOMAIN Flow :
        /\ x \notin {"s_agree", "s_unclosed"}
        /\ Flow[x].failed > 0 => x \notin Tried
        /\ Flow[x].comm = "world" /\ Flow[x].call = "delete" => Flow[x].failed = 0
        /\ /\ Flow[x].comm = "sub" /\ Flow[x].failed > 0
           /\ Flow[x].call \in {"create", "open", "close", "delete"}
           => Flow[x].ko \in {"s_agree", "s_unclosed"}
BY DEF Flow, Step, Tried

\* The ranks on which a call fails count the failure and write about it.
LEMMA CallKeepsTally ==
    ASSUME TypeOK, Tallied, NEW S \in SUBSET Ranks, NEW Bad \in SUBSET S,
           \A s \in S : InFlow(s), Through(S, Bad)
    PROVE  Tallied'
<1>1. \A r \in S : /\ pc[r] \in DOMAIN Flow /\ Flow[pc[r]].failed \in Nat
                   /\ Flow[pc[r]].failed > 0 => pc[r] \notin Tried
    BY FlowGoesOn, FailuresAreTold DEF InFlow
<1>2. \A r \in Ranks : failed[r] \in Nat /\ test[r] \in 1..Len(Tests)
    BY DEF TypeOK
<1>3. \A r \in Ranks : failed'[r] = IF r \in Bad THEN failed[r] + Flow[pc[r]].failed
                                    ELSE failed[r]
    BY DEF Through
<1>4. \A r \in Ranks, t \in 1..Len(Tests) : <<r, t>> \in hurt' <=>
          \/ <<r, t>> \in hurt
          \/ r \in Bad /\ t = test[r] /\ Flow[pc[r]].failed > 0
    <2> DEFINE new == {<<q, test[q]>> : q \in {b \in Bad : Flow[pc[b]].failed > 0}}
    <2>1. hurt' = hurt \cup new
        BY Zenon DEF Through
    <2>2. ASSUME NEW r \in Ranks, NEW t \in 1..Len(Tests)
          PROVE  <<r, t>> \in new <=> r \in Bad /\ t = test[r] /\ Flow[pc[r]].failed > 0
        OBVIOUS
    <2> HIDE DEF new
    <2> QED BY <2>1, <2>2, Zenon
<1>5. hurt # {} => hurt' # {}
    BY DEF Through
<1>6. hurt' # {} => told'
    <2>1. CASE hurt # {}
        BY <2>1 DEF Tallied, Through
    <2>2. CASE hurt = {} /\ hurt' # {}
        <3>1. PICK b \in Bad : Flow[pc[b]].failed > 0
            BY <2>2 DEF Through
        <3>2. pc[b] \notin Tried
            BY <1>1, <3>1
        <3> QED BY <3>2 DEF Through
    <2> QED BY <2>1, <2>2
<1>7. ASSUME NEW r \in Ranks, failed'[r] > 0
      PROVE  hurt' # {}
    <2>1. CASE failed[r] > 0
        BY <1>5, <2>1 DEF Tallied
    <2>2. CASE ~(failed[r] > 0)
        <3>1. r \in Bad /\ Flow[pc[r]].failed > 0
            BY <1>1, <1>2, <1>3, <1>7, <2>2
        <3>2. <<r, test[r]>> \in hurt'
            BY <1>2, <1>4, <3>1
        <3> QED BY <3>2
    <2> QED BY <2>1, <2>2
<1>8. ASSUME NEW r \in Ranks, NEW t \in 1..Len(Tests), <<r, t>> \in hurt'
      PROVE  failed'[r] > 0
    <2>1. CASE <<r, t>> \in hurt
        <3>1. failed[r] \in Nat /\ failed[r] > 0
            BY <1>2, <2>1 DEF Tallied
        <3>2. CASE r \in Bad
            BY <1>1, <1>3, <3>1, <3>2
        <3>3. CASE r \notin Bad
            BY <1>3, <3>1, <3>3
        <3> QED BY <3>2, <3>3
    <2>2. CASE r \in Bad /\ Flow[pc[r]].failed > 0
        BY <1>1, <1>2, <1>3, <2>2
    <2> QED BY <1>4, <1>8, <2>1, <2>2
<1> QED BY <1>6, <1>7, <1>8 DEF Tallied

\* A call fails on all ranks, or on ranks that have yet to agree.
LEMMA CallKeepsTogether ==
    ASSUME TypeOK, HurtTogether, NEW S \in SUBSET Ranks, NEW Bad \in SUBSET S,
           \A s \in S : InFlow(s), \A r, s \in Ranks : test[r] = test[s],
           Through(S, Bad),
           \/ \A r \in Bad : Flow[pc[r]].failed > 0 =>
                  Flow[pc[r]].ko \in {"s_agree", "s_unclosed"}
           \/ Bad = Ranks /\ \A r, s \in Ranks : pc[r] = pc[s]
    PROVE  HurtTogether'
<1> SUFFICES ASSUME NEW r \in Ranks, NEW s \in Ranks, NEW t \in 1..Len(Tests),
                    <<r, t>> \in hurt', <<s, t>> \notin hurt'
             PROVE  failing'[r] /\ t = test'[r] /\ pc'[r] \in {"s_agree", "s_unclosed"}
    BY Zenon DEF HurtTogether
<1>1. hurt' = hurt \cup {<<q, test[q]>> : q \in {b \in Bad : Flow[pc[b]].failed > 0}}
    BY Zenon DEF Through
<1>2. test' = test
    BY DEF Through
<1>3. CASE <<r, t>> \in hurt
    <2>1. failing[r] /\ t = test[r] /\ pc[r] \in {"s_agree", "s_unclosed"}
        BY <1>1, <1>3 DEF HurtTogether
    <2>2. r \notin S
        BY <2>1, FailuresAreTold DEF InFlow
    <2>3. pc'[r] = pc[r] /\ failing'[r]
        BY <2>1, <2>2, Zenon DEF Through
    <2> QED BY <1>2, <2>1, <2>3
<1>4. CASE <<r, t>> \notin hurt
    <2>1. r \in Bad /\ t = test[r] /\ Flow[pc[r]].failed > 0
        BY <1>1, <1>4
    <2>2. ~(Bad = Ranks /\ \A q, u \in Ranks : pc[q] = pc[u])
        BY <1>1, <2>1
    <2>3. Flow[pc[r]].ko \in {"s_agree", "s_unclosed"}
        BY <2>1, <2>2
    <2>4. pc[r] \notin Tried
        BY <2>1, FailuresAreTold DEF InFlow
    <2>5. failing'[r] /\ pc'[r] = Flow[pc[r]].ko
        BY <2>1, <2>4, Zenon DEF Through
    <2> QED BY <1>2, <2>1, <2>3, <2>5
<1> QED BY <1>3, <1>4

\* A call of the tests keeps what the ranks report.
LEMMA LocalCallKeepsReport ==
    ASSUME FaultsAgreed, TypeOK, Abreast, ReportInv,
           NEW r \in Ranks, LocalCall(r)
    PROVE  ReportInv'
<1>1. Through({r}, {}) /\ InFlow(r)
    BY LocalCallsLeadToTheSameCall DEF LocalCall, InFlow, FaultsAgreed
<1>2. {r} \in SUBSET Ranks /\ {} \in SUBSET {r}
    OBVIOUS
<1>3. \A q, s \in Ranks : test[q] = test[s]
    BY DEF Abreast
<1>4. Tallied'
    BY <1>1, <1>2, CallKeepsTally DEF ReportInv
<1>5. HurtTogether'
    BY <1>1, <1>2, <1>3, CallKeepsTogether DEF ReportInv
<1> QED BY <1>4, <1>5 DEF ReportInv

LEMMA CollectiveCallKeepsReport ==
    ASSUME FaultsAgreed, TypeOK, Abreast, ReportInv,
           NEW r \in Ranks, CollectiveCall(r)
    PROVE  ReportInv'
<1> DEFINE S == Members(r)
<1>1. /\ S \in SUBSET Ranks /\ \A s \in S : InFlow(s)
      /\ pc[r] \in DOMAIN Flow /\ Flow[pc[r]].comm \in {"sub", "world"}
    BY FlowCounts DEF CollectiveCall, Met, Members, Sub, World, InFlow
<1>2. PICK Bad \in SUBSET S :
          /\ \/ Bad = {}
             \/ Flow[pc[r]].call = "delete"
             \/ Bad = S /\ Flow[pc[r]].call \in {"create", "open", "close", "delete"}
          /\ Through(S, Bad)
    BY CollectiveCallFailsTogether, Zenon
<1>3. \A s \in S : pc[s] = pc[r]
    <2>1. CASE Flow[pc[r]].comm = "world"
        BY <2>1, WorldCallKeepsAbreast DEF Members, World
    <2>2. CASE Flow[pc[r]].comm = "sub"
        BY <2>2, HalfCallKeepsAbreast DEF Members
    <2> QED BY <1>1, <2>1, <2>2
<1>4. \A q, s \in Ranks : test[q] = test[s]
    BY DEF Abreast
<1>5. \/ \A b \in Bad : Flow[pc[b]].failed > 0 =>
             Flow[pc[b]].ko \in {"s_agree", "s_unclosed"}
      \/ Bad = Ranks /\ \A q, s \in Ranks : pc[q] = pc[s]
    <2>1. CASE Flow[pc[r]].comm = "world"
        <3>1. S = Ranks
            BY <2>1 DEF Members, World
        <3>2. Flow[pc[r]].call = "delete" => Flow[pc[r]].failed = 0
            BY <1>1, <2>1, FailuresAreTold
        <3> HIDE DEF S
        <3> QED BY <1>2, <1>3, <3>1, <3>2
    <2>2. CASE Flow[pc[r]].comm = "sub"
        <3>1. /\ Flow[pc[r]].failed > 0
              /\ Flow[pc[r]].call \in {"create", "open", "close", "delete"}
              => Flow[pc[r]].ko \in {"s_agree", "s_unclosed"}
            BY <1>1, <2>2, FailuresAreTold
        <3> HIDE DEF S
        <3> QED BY <1>2, <1>3, <3>1
    <2> QED BY <1>1, <2>1, <2>2
<1> HIDE DEF S
<1>6. Tallied'
    BY <1>1, <1>2, CallKeepsTally DEF ReportInv
<1>7. HurtTogether'
    BY <1>1, <1>2, <1>4, <1>5, CallKeepsTogether DEF ReportInv
<1> QED BY <1>6, <1>7 DEF ReportInv

LEMMA NothingReportedAtFirst == Init => ReportInv
BY DEF Init, ReportInv, HurtTogether, Tallied

LEMMA StepKeepsReport ==
    FaultsAgreed /\ TypeOK /\ Abreast /\ ReportInv /\ [Next]_vars => ReportInv'
<1> SUFFICES ASSUME FaultsAgreed, TypeOK, Abreast, ReportInv, [Next]_vars
             PROVE  ReportInv'
    OBVIOUS
<1> DEFINE together == \A r, s \in Ranks : \A t \in 1..Len(Tests) :
                           <<r, t>> \in hurt => <<s, t>> \in hurt
<1>0. \A r, s \in Ranks : test[r] = test[s]
    BY DEF Abreast
\* Where no rank is about to agree on the split test, all ranks have failed
\* the same tests.
<1>1. ASSUME \A r \in Ranks : pc[r] \notin {"s_agree", "s_unclosed"}
      PROVE  together
    BY <1>1, Zenon DEF ReportInv, HurtTogether
<1>2. CASE BcastSeed \/ TestBarrier \/ ReducePassed \/ Finalize
    <2>1. /\ UNCHANGED <<hurt, failed, told>>
          /\ \A r \in Ranks : pc[r] \notin {"s_agree", "s_unclosed"}
        BY <1>2 DEF BcastSeed, TestBarrier, ReducePassed, Finalize, AllAt, counters
    <2>2. together
        BY <1>1, <2>1
    <2> QED BY <2>1, <2>2 DEF ReportInv, HurtTogether, Tallied
<1>3. CASE EndIndependentOp
    <2>1. /\ UNCHANGED <<hurt, failed>> /\ (told => told')
          /\ \A r \in Ranks : pc[r] \notin {"s_agree", "s_unclosed"}
        BY <1>3 DEF EndIndependentOp, AllAt, counters
    <2>2. together
        BY <1>1, <2>1
    <2> QED BY <2>1, <2>2 DEF ReportInv, HurtTogether, Tallied
\* The tallies are replaced by the least of them.
<1>4. CASE ReduceFailed
    <2>1. /\ UNCHANGED <<hurt, told>>
          /\ \A r \in Ranks : pc[r] \notin {"s_agree", "s_unclosed"}
        BY <1>4 DEF ReduceFailed, AllAt
    <2>2. together
        BY <1>1, <2>1
    <2>3. PICK r \in Ranks : \A s \in Ranks : failed'[s] = failed[r]
        BY <1>4 DEF ReduceFailed
    <2>4. ASSUME NEW s \in Ranks, NEW t \in 1..Len(Tests), <<s, t>> \in hurt
          PROVE  failed'[s] > 0
        <3>1. <<r, t>> \in hurt
            BY <2>2, <2>4
        <3> QED BY <2>3, <3>1 DEF ReportInv, Tallied
    <2>5. \A s \in Ranks : failed'[s] > 0 => hurt # {}
        BY <2>3 DEF ReportInv, Tallied
    <2>6. Tallied'
        BY <2>1, <2>4, <2>5 DEF ReportInv, Tallied
    <2>7. HurtTogether'
        BY <2>1, <2>2 DEF HurtTogether
    <2> QED BY <2>6, <2>7 DEF ReportInv
\* The ranks agree on the split test.
<1>5. CASE SplitAgree
    <2>1. CASE \E r \in Ranks : failing[r]
        <3>1. /\ told' /\ test' = test
              /\ hurt' = hurt \cup {<<r, test[r]>> : r \in Ranks}
              /\ \A r \in Ranks : failed'[r] = failed[r] + 1
            BY <1>5, <2>1 DEF SplitAgree
        <3>2. \A r, s \in Ranks : \A t \in 1..Len(Tests) :
                  <<r, t>> \in hurt' => <<s, t>> \in hurt'
            <4> SUFFICES ASSUME NEW r \in Ranks, NEW s \in Ranks,
                                NEW t \in 1..Len(Tests), <<r, t>> \in hurt'
                         PROVE  <<s, t>> \in hurt'
                OBVIOUS
            <4>1. CASE t = test[r]
                <5>1. t = test[s]
                    BY <1>0, <4>1
                <5> QED BY <3>1, <5>1
            <4>2. CASE t # test[r]
                <5>1. <<r, t>> \in hurt
                    BY <3>1, <4>2
                <5> QED BY <3>1, <4>2, <5>1 DEF ReportInv, HurtTogether
            <4> QED BY <4>1, <4>2
        <3>3. hurt' # {}
            BY <2>1, <3>1
        <3>4. \A r \in Ranks : failed'[r] > 0
            BY <3>1 DEF TypeOK
        <3> QED BY <3>1, <3>2, <3>3, <3>4 DEF ReportInv, HurtTogether, Tallied
    <2>2. CASE ~ \E r \in Ranks : failing[r]
        <3>1. UNCHANGED <<hurt, failed, told>>
            BY <1>5, <2>2 DEF SplitAgree
        <3>2. together
            BY <2>2, Zenon DEF ReportInv, HurtTogether
        <3> QED BY <3>1, <3>2 DEF ReportInv, HurtTogether, Tallied
    <2> QED BY <2>1, <2>2
<1>6. ASSUME NEW r \in Ranks,
             \/ IndependentOp(r) \/ SplitAccess(r) \/ EndMultipart(r)
             \/ Statistics(r)
      PROVE  ReportInv'
    <2>1. /\ UNCHANGED <<hurt, failed, told, test>>
          /\ pc[r] \notin {"s_agree", "s_unclosed"}
          /\ \A s \in Ranks \ {r} : pc'[s] = pc[s] /\ failing'[s] = failing[s]
        BY <1>6 DEF IndependentOp, SplitAccess, EndMultipart, Statistics,
                    counters, TypeOK
    <2>2. HurtTogether'
        BY <2>1 DEF ReportInv, HurtTogether
    <2> QED BY <2>1, <2>2 DEF ReportInv, Tallied
<1>7. ASSUME NEW r \in Ranks, LocalCall(r)
      PROVE  ReportInv'
    BY <1>7, LocalCallKeepsReport
<1>8. ASSUME NEW r \in Ranks, CollectiveCall(r)
      PROVE  ReportInv'
    BY <1>8, CollectiveCallKeepsReport
<1>9. CASE UNCHANGED vars
    <2>1. UNCHANGED <<pc, test, failing, failed, told, hurt>>
        BY <1>9 DEF vars, counters
    <2> QED BY <2>1 DEF ReportInv, HurtTogether, Tallied
<1> QED
    BY <1>2, <1>3, <1>4, <1>5, <1>6, <1>7, <1>8, <1>9
       DEF Next, Go, Exited, Polling

(* A file test that failed on one rank has failed on all of them once they *)
(* have met after it, the split test with its two halves included, for any *)
(* number of ranks that agree on every failure but that of a deletion.     *)
THEOREM TestsFailTogether == FaultsAgreed => (Spec => []FailTogether)
<1> SUFFICES ASSUME FaultsAgreed PROVE Spec => []FailTogether
    OBVIOUS
<1>1. Inv /\ AbreastInv /\ [Next]_vars => AbreastInv'
    BY StepKeepsAbreast DEF Inv
<1>2. Inv /\ AbreastInv /\ ReportInv /\ [Next]_vars => ReportInv'
    BY StepKeepsReport DEF Inv, AbreastInv
<1>3. Inv /\ ReportInv => FailTogether
    <2> SUFFICES ASSUME TypeOK, HurtTogether, AllAt("barrier"),
                        NEW h \in hurt, NEW r \in Ranks
                 PROVE  <<r, h[2]>> \in hurt
        BY DEF Inv, ReportInv, FailTogether, HurtTests
    <2>1. PICK s \in Ranks, t \in 1..Len(Tests) : h = <<s, t>>
        BY DEF TypeOK
    <2>2. pc[s] \notin {"s_agree", "s_unclosed"}
        BY DEF AllAt
    <2>3. <<r, t>> \in hurt
        BY <2>1, <2>2, Zenon DEF HurtTogether
    <2> QED BY <2>1, <2>3
<1> QED
    BY <1>1, <1>2, <1>3, Starts, StepKeepsInv, AbreastAtFirst,
       NothingReportedAtFirst, PTL DEF Spec

(* The failures rank 0 reports, the least number any rank counted, are     *)
(* none just when no test failed anywhere, and when there are some a rank  *)
(* has written what the driver takes for an error: for any number of ranks *)
(* that agree on every failure but that of a deletion.                     *)
THEOREM ReportsAreRight == FaultsAgreed => (Spec => []ReportIsRight)
<1> SUFFICES ASSUME FaultsAgreed PROVE Spec => []ReportIsRight
    OBVIOUS
<1>1. Inv /\ AbreastInv /\ [Next]_vars => AbreastInv'
    BY StepKeepsAbreast DEF Inv
<1>2. Inv /\ AbreastInv /\ ReportInv /\ [Next]_vars => ReportInv'
    BY StepKeepsReport DEF Inv, AbreastInv
<1>3. Inv /\ ReportInv => ReportIsRight
    <2> SUFFICES ASSUME TypeOK, HurtTogether, Tallied, AllAt("exited")
                 PROVE  /\ failed[0] > 0 <=> hurt # {}
                        /\ hurt # {} => told
        BY DEF Inv, ReportInv, ReportIsRight
    <2>1. 0 \in Ranks
        BY SizeAssumption DEF Ranks
    <2>2. ASSUME hurt # {}
          PROVE  failed[0] > 0
        <3>0. PICK h \in hurt : TRUE
            BY <2>2
        <3>1. PICK s \in Ranks, t \in 1..Len(Tests) : h = <<s, t>>
            BY <3>0 DEF TypeOK
        <3>2. pc[s] \notin {"s_agree", "s_unclosed"}
            BY DEF AllAt
        <3>3. <<0, t>> \in hurt
            BY <2>1, <3>0, <3>1, <3>2, Zenon DEF HurtTogether
        <3> QED BY <2>1, <3>3 DEF Tallied
    <2> QED BY <2>1, <2>2 DEF Tallied
<1> QED
    BY <1>1, <1>2, <1>3, Starts, StepKeepsInv, AbreastAtFirst,
       NothingReportedAtFirst, PTL DEF Spec

-----------------------------------------------------------------------------
(* The ranks as one program. *)

\* Until the tests begin the first is the next.
FirstTest == \A r \in Ranks : pc[r] \in StartUp => test[r] = 1

OneInv == Inv /\ AbreastInv /\ ReportInv /\ FirstTest

\* The calls after the tests are made by all ranks and count no failures; the tests
\* lead to none of them.
LEMMA ConclusionGoesOn ==
    \A x \in DOMAIN Flow :
        /\ x \notin StartUp /\ Flow[x].ok \notin StartUp /\ Flow[x].ko \notin StartUp
        /\ Flow[x].ok \in Conclusion <=> x \in Conclusion
        /\ Flow[x].ko \in Conclusion <=> x \in Conclusion
        /\ x \in Conclusion => Flow[x].failed = 0
BY DEF Flow, Step, StartUp, Conclusion

\* The ranks are before, in or after the tests together.
LEMMA StagesApart ==
    ASSUME NEW p
    PROVE  /\ p \in StartUp <=> WorldAhead(p) \in {"m_seed", "m_agree"}
           /\ p \in Conclusion <=> WorldAhead(p) \in {"f_delete", "m_delete", "m_passed",
                                     "m_failed", "m_finalize", "exited"}
           /\ p = "exited" <=> WorldAhead(p) = "exited"
BY DEF StartUp, Conclusion, WorldAhead, Ahead

LEMMA StagesShared ==
    ASSUME Abreast, NEW r \in Ranks, NEW s \in Ranks
    PROVE  /\ pc[r] \in StartUp <=> pc[s] \in StartUp
           /\ pc[r] \in Conclusion <=> pc[s] \in Conclusion
           /\ pc[r] = "exited" <=> pc[s] = "exited"
<1>1. WorldAhead(pc[r]) = WorldAhead(pc[s])
    BY DEF Abreast
<1> QED BY <1>1, StagesApart

\* A rank that has not exited has all others with it, and nothing has been said.
LEMMA NothingSaid ==
    ASSUME Abreast, NEW r \in Ranks, pc[r] # "exited"
    PROVE  /\ \A s \in Ranks : pc[s] # "exited"
           /\ \A s \in Ranks : VerdictOf(s) = "none"
BY StagesShared DEF VerdictOf

\* Where all failures are about the current test, a rank sees the same earlier ones.
LEMMA FailuresKept ==
    ASSUME NEW r \in Ranks, Current' = Current,
           hurt \subseteq hurt',
           \A t \in 1..Len(Tests) :
               <<r, t>> \in hurt' /\ <<r, t>> \notin hurt => ~(t < Current)
    PROVE  FailuresOf(r)' = FailuresOf(r)
BY DEF FailuresOf, Tests

\* A step before the end that changes neither is not seen.
LEMMA Unseen ==
    ASSUME Abreast, Abreast',
           NEW r \in Ranks, pc[r] # "exited", NEW s \in Ranks, pc'[s] # "exited",
           Current' = Current, hurt \subseteq hurt',
           \A q \in Ranks, t \in 1..Len(Tests) :
               <<q, t>> \in hurt' /\ <<q, t>> \notin hurt => ~(t < Current)
    PROVE  UNCHANGED One!oneVars
<1>1. \A q \in Ranks : VerdictOf(q) = "none" /\ VerdictOf(q)' = "none"
    <2>1. \A q \in Ranks : pc[q] # "exited" /\ pc'[q] # "exited"
        <3>1. \A q \in Ranks : WorldAhead(pc'[q]) = WorldAhead(pc'[s])
            BY DEF Abreast
        <3> QED BY <3>1, NothingSaid, StagesApart
    <2> QED BY <2>1 DEF VerdictOf
<1>2. \A q \in Ranks : FailuresOf(q)' = FailuresOf(q)
    BY FailuresKept
<1> QED BY <1>1, <1>2 DEF One!oneVars

LEMMA SomeoneIsHurt ==
    ASSUME TypeOK, hurt # {}
    PROVE  \E r \in Ranks, t \in 1..Len(Tests) : <<r, t>> \in hurt
<1>1. PICK h \in hurt : TRUE
    OBVIOUS
<1>2. PICK r \in Ranks, t \in 1..Len(Tests) : h = <<r, t>>
    BY <1>1 DEF TypeOK
<1> QED BY <1>1, <1>2

LEMMA FirstTestAtFirst == Init => FirstTest
BY DEF Init, FirstTest

LEMMA CallKeepsFirst ==
    ASSUME TypeOK, FirstTest, NEW S \in SUBSET Ranks, NEW Bad \in SUBSET S,
           \A s \in S : InFlow(s), Through(S, Bad)
    PROVE  FirstTest'
<1>1. \A r \in Ranks : pc'[r] = IF r \notin S THEN pc[r]
                               ELSE IF r \in Bad THEN Flow[pc[r]].ko ELSE Flow[pc[r]].ok
    BY DEF Through
<1>2. \A r \in Ranks : pc'[r] \in StartUp => pc'[r] = pc[r]
    BY <1>1, ConclusionGoesOn DEF InFlow
<1>3. test' = test
    BY DEF Through
<1> QED BY <1>2, <1>3 DEF FirstTest

LEMMA StepKeepsFirst == TypeOK /\ FirstTest /\ [Next]_vars => FirstTest'
<1> SUFFICES ASSUME TypeOK, FirstTest, [Next]_vars PROVE FirstTest'
    OBVIOUS
<1>1. CASE TestBarrier
    <2>1. \A r \in Ranks : pc'[r] \notin StartUp
        BY <1>1, TestsAreThere, TestsLen DEF TestBarrier, TypeOK, StartUp
    <2> QED BY <2>1 DEF FirstTest
<1>2. CASE BcastSeed \/ EndIndependentOp
    <2>1. test' = test /\ \A r \in Ranks : pc[r] \in StartUp
        BY <1>2 DEF BcastSeed, EndIndependentOp, AllAt, StartUp
    <2> QED BY <2>1 DEF FirstTest
<1>3. CASE SplitAgree \/ ReducePassed \/ ReduceFailed \/ Finalize
    <2>1. \A r \in Ranks : pc'[r] \notin StartUp
        BY <1>3 DEF SplitAgree, ReducePassed, ReduceFailed, Finalize, StartUp
    <2> QED BY <2>1 DEF FirstTest
<1>4. ASSUME NEW r \in Ranks,
             IndependentOp(r) \/ SplitAccess(r) \/ EndMultipart(r) \/ Statistics(r)
      PROVE  FirstTest'
    <2>1. /\ test' = test /\ \A s \in Ranks \ {r} : pc'[s] = pc[s]
          /\ pc'[r] \in StartUp => pc[r] \in StartUp
        BY <1>4 DEF IndependentOp, SplitAccess, EndMultipart, Statistics, StartUp, TypeOK
    <2> QED BY <2>1 DEF FirstTest
<1>5. ASSUME NEW r \in Ranks, LocalCall(r)
      PROVE  FirstTest'
    BY <1>5, LocalCallGoesThrough, CallKeepsFirst
<1>6. ASSUME NEW r \in Ranks, CollectiveCall(r)
      PROVE  FirstTest'
    BY <1>6, CollectiveCallGoesThrough, CallKeepsFirst
<1>7. CASE UNCHANGED vars
    BY <1>7 DEF vars, FirstTest
<1> QED
    BY <1>1, <1>2, <1>3, <1>4, <1>5, <1>6, <1>7 DEF Next, Go, Exited, Polling

LEMMA OneStarts == Init => One!Init
<1> SUFFICES ASSUME Init PROVE One!Init
    OBVIOUS
<1>1. 0 \in Ranks
    BY SizeAssumption DEF Ranks
<1>2. Current = 0
    BY <1>1 DEF Init, Current, StartUp
<1>3. \A r \in Ranks : FailuresOf(r) = {} /\ VerdictOf(r) = "none"
    BY DEF Init, FailuresOf, VerdictOf
<1> QED BY <1>2, <1>3 DEF One!Init

\* The calls of the tests count failures of the current one.
LEMMA CallIsUnseen ==
    ASSUME OneInv, Abreast', NEW S \in SUBSET Ranks, NEW Bad \in SUBSET S, S # {},
           \A s \in S : InFlow(s), Bad # {} => faults < MaxFaults, Through(S, Bad)
    PROVE  UNCHANGED One!oneVars
<1>0. 0 \in Ranks
    BY SizeAssumption DEF Ranks
<1>1. PICK s \in S : TRUE
    OBVIOUS
<1>2. /\ \A q \in S : pc[q] \in DOMAIN Flow /\ pc[q] \notin StartUp \cup Ending
      /\ \A q \in S : pc'[q] \notin StartUp \cup Ending
    BY FlowGoesOn, CallGoesOn DEF OneInv, Inv, InFlow
<1>3. pc[s] # "exited" /\ pc'[s] # "exited"
    BY <1>2 DEF Ending
<1>4. test' = test /\ code' = code
    BY DEF Through
<1>5. \A q \in Ranks : /\ pc'[q] \in StartUp <=> pc[q] \in StartUp
                       /\ pc'[q] \in Conclusion <=> pc[q] \in Conclusion
    <2>1. \A q \in Ranks : pc'[q] = IF q \notin S THEN pc[q]
                               ELSE IF q \in Bad THEN Flow[pc[q]].ko ELSE Flow[pc[q]].ok
        BY DEF Through
    <2> QED BY <1>2, <2>1, ConclusionGoesOn
<1>6. Current' = Current
    BY <1>0, <1>4, <1>5 DEF Current, Tests
<1>7. ASSUME NEW q \in Ranks, NEW t \in 1..Len(Tests),
             <<q, t>> \in hurt', <<q, t>> \notin hurt
      PROVE  ~(t < Current)
    <2>1. q \in Bad /\ t = test[q] /\ Flow[pc[q]].failed > 0
        <3>1. hurt' = hurt \cup {<<r, test[r]>> : r \in {b \in Bad : Flow[pc[b]].failed > 0}}
            BY Zenon DEF Through
        <3> QED BY <1>7, <3>1
    <2>2. pc[q] \notin Conclusion
        BY <1>2, <2>1, ConclusionGoesOn
    <2>3. pc[0] \notin Conclusion
        BY <1>0, <2>2, StagesShared DEF OneInv, AbreastInv
    <2>4. t = test[0] /\ test[0] \in 1..Len(Tests)
        BY <1>0, <2>1 DEF OneInv, AbreastInv, Abreast, Inv, TypeOK
    <2> QED BY <2>3, <2>4, TestsLen DEF Current
<1>8. hurt \subseteq hurt'
    BY DEF Through
<1> QED BY <1>1, <1>3, <1>6, <1>7, <1>8, Unseen DEF OneInv, AbreastInv

\* The ranks leave the start-up together.
LEMMA StartUpIsOne ==
    ASSUME OneInv, OneInv', EndIndependentOp
    PROVE  [One!Next]_One!oneVars
<1>0. 0 \in Ranks
    BY SizeAssumption DEF Ranks
<1>1. /\ \A r \in Ranks : pc[r] = "m_agree" /\ test[r] = 1
      /\ test' = test /\ hurt' = hurt
    BY DEF EndIndependentOp, AllAt, OneInv, FirstTest, StartUp
<1>2. Current = 0 /\ \A r \in Ranks : code[r] # 1
    BY <1>0, <1>1 DEF Current, StartUp, OneInv, Inv, StartInv, ErrorIsCollective
<1>3. pc[0] # "exited"
    BY <1>0, <1>1
<1>4. CASE \E r \in Ranks : failing[r]
    <2>1. pc'[0] = "m_finalize" /\ code'[0] = 1
        BY <1>0, <1>4 DEF EndIndependentOp
    <2>2. Current' = Current
        BY <1>2, <2>1 DEF Current
    <2>3. UNCHANGED One!oneVars
        BY <1>0, <1>1, <1>3, <2>1, <2>2, Unseen DEF OneInv, AbreastInv
    <2> QED BY <2>3
<1>5. CASE ~ \E r \in Ranks : failing[r]
    <2>1. /\ pc'[0] = IF op[0] = Len(IndependentOps) THEN "c_fapl" ELSE "m_op"
          /\ code' = code
        BY <1>0, <1>5, TestsLen DEF EndIndependentOp
    <2>2. CASE op[0] = Len(IndependentOps)
        <3>1. Current' = 1
            BY <1>0, <1>1, <1>2, <2>1, <2>2 DEF Current, StartUp, Conclusion
        <3>2. \A r \in Ranks : FailuresOf(r) = {} /\ FailuresOf(r)' = {}
            BY <1>2, <3>1, TestsLen DEF FailuresOf, Tests
        <3>3. \A r \in Ranks : VerdictOf(r) = "none" /\ VerdictOf(r)' = "none"
            <4>1. \A r \in Ranks : pc'[r] # "exited"
                BY <1>0, <2>1, <2>2, StagesApart DEF OneInv, AbreastInv, Abreast
            <4> QED BY <1>1, <4>1 DEF VerdictOf
        <3>4. One!Begin
            BY <1>2, <3>1, <3>2, <3>3 DEF One!Begin
        <3> QED BY <3>4 DEF One!Next
    <2>3. CASE op[0] # Len(IndependentOps)
        <3>1. Current' = Current /\ pc'[0] # "exited"
            BY <1>0, <1>2, <2>1, <2>3 DEF Current, StartUp
        <3>2. UNCHANGED One!oneVars
            BY <1>0, <1>1, <1>3, <3>1, Unseen DEF OneInv, AbreastInv
        <3> QED BY <3>2
    <2> QED BY <2>2, <2>3
<1> QED BY <1>4, <1>5

\* They leave a test with the same result.
LEMMA TestsAreOne ==
    ASSUME OneInv, OneInv', TestBarrier
    PROVE  [One!Next]_One!oneVars
<1>0. 0 \in Ranks
    BY SizeAssumption DEF Ranks
<1>1. /\ \A r \in Ranks : pc[r] = "barrier" /\ test[r] = test[0]
      /\ hurt' = hurt /\ code' = code
      /\ test[0] \in 1..Len(Tests)
    BY <1>0 DEF TestBarrier, AllAt, OneInv, AbreastInv, Abreast, Inv, TypeOK
<1>2. code[0] # 1
    BY <1>0, <1>1 DEF OneInv, Inv, StartInv, ErrorIsCollective
<1>3. Current = test[0]
    BY <1>0, <1>1, <1>2 DEF Current, StartUp, Conclusion
<1>4. /\ pc'[0] = IF test[0] < Len(Tests) THEN Tests[test[0] + 1] ELSE "f_fapl"
      /\ test'[0] = IF test[0] < Len(Tests) THEN test[0] + 1 ELSE test[0]
    BY <1>0 DEF TestBarrier
<1>5. Current' = Current + 1 /\ pc'[0] # "exited"
    <2>1. CASE test[0] < Len(Tests)
        <3>1. pc'[0] \in {"c_fapl", "o_fapl", "s_split"}
            BY <1>1, <1>4, <2>1, TestsAreThere
        <3> QED BY <1>1, <1>2, <1>3, <1>4, <2>1, <3>1 DEF Current, StartUp, Conclusion
    <2>2. CASE ~(test[0] < Len(Tests))
        <3>1. test[0] = Len(Tests)
            BY <1>1, <2>2, TestsLen
        <3> QED BY <1>1, <1>2, <1>3, <1>4, <2>2, <3>1 DEF Current, StartUp, Conclusion, Tests
    <2> QED BY <2>1, <2>2
<1>6. \A r \in Ranks : VerdictOf(r) = "none" /\ VerdictOf(r)' = "none"
    <2>1. \A r \in Ranks : pc'[r] # "exited"
        BY <1>0, <1>5, StagesApart DEF OneInv, AbreastInv, Abreast
    <2> QED BY <1>1, <2>1 DEF VerdictOf
<1>7. \A r \in Ranks : FailuresOf(r)' =
          FailuresOf(r) \cup (IF <<r, Current>> \in hurt THEN {Current} ELSE {})
    <2> DEFINE c == Current
    <2>1. c \in 1..Len(Tests) /\ Len(Tests) = 3
        BY <1>1, <1>3, TestsLen
    <2>2. \A r \in Ranks : /\ FailuresOf(r) = {t \in 1..3 : t < c /\ <<r, t>> \in hurt}
                           /\ FailuresOf(r)' = {t \in 1..3 : t < c + 1 /\ <<r, t>> \in hurt}
        BY <1>1, <1>5, <2>1 DEF FailuresOf, Tests
    <2> HIDE DEF c
    <2>3. \A t \in 1..3 : t < c + 1 <=> t < c \/ t = c
        BY <2>1
    <2>4. \A r \in Ranks : FailuresOf(r)' =
              FailuresOf(r) \cup (IF <<r, c>> \in hurt THEN {c} ELSE {})
        BY <2>1, <2>2, <2>3, Zenon
    <2> QED BY <2>4 DEF c
<1>8. \A r, s \in Ranks : <<r, Current>> \in hurt => <<s, Current>> \in hurt
    BY <1>1, <1>3 DEF OneInv, ReportInv, HurtTogether
<1>9. One!EndTest
    <2>1. \/ \A r \in Ranks : FailuresOf(r)' = FailuresOf(r)
          \/ \A r \in Ranks : FailuresOf(r)' = FailuresOf(r) \cup {Current}
        BY <1>7, <1>8
    <2> QED BY <1>1, <1>3, <1>5, <1>6, <2>1 DEF One!EndTest
<1> QED BY <1>9 DEF One!Next

\* They exit with the same verdict.
LEMMA VerdictsAreOne ==
    ASSUME OneInv, OneInv', Finalize
    PROVE  [One!Next]_One!oneVars
<1>0. 0 \in Ranks
    BY SizeAssumption DEF Ranks
<1>1. /\ \A r \in Ranks : pc[r] = "m_finalize" /\ pc'[r] = "exited"
      /\ UNCHANGED <<hurt, code, test, failed, told>>
    BY DEF Finalize, AllAt, counters
<1>2. Current' = Current /\ \A r \in Ranks : FailuresOf(r)' = FailuresOf(r)
    BY <1>0, <1>1 DEF Current, FailuresOf, StartUp, Conclusion, Tests
<1>3. \A r \in Ranks : VerdictOf(r) = "none"
    BY <1>1 DEF VerdictOf
<1>4. CASE code[0] = 1
    <2>1. \A r \in Ranks : code[r] = 1
        BY <1>0, <1>4 DEF OneInv, Inv, StartInv, ErrorIsCollective
    <2>2. \A r \in Ranks : VerdictOf(r)' = "error"
        BY <1>1, <2>1 DEF VerdictOf
    <2>3. Current = 0
        BY <1>4 DEF Current
    <2>4. One!Refuse
        BY <1>2, <1>3, <2>2, <2>3 DEF One!Refuse, One!Say
    <2> QED BY <2>4 DEF One!Next
<1>5. CASE code[0] # 1
    <2>1. \A r \in Ranks : code[r] = 0
        BY <1>0, <1>5 DEF OneInv, Inv, TypeOK, StartInv, ErrorIsCollective
    <2>2. Current = Len(Tests) + 1
        BY <1>0, <1>1, <1>5 DEF Current, StartUp, Conclusion
    <2>3. \A r \in Ranks : failed[r] \in Nat /\ (failed[r] > 0 <=> hurt # {})
        <3> SUFFICES ASSUME NEW r \in Ranks, hurt # {} PROVE failed[r] > 0
            BY DEF OneInv, Inv, TypeOK, ReportInv, Tallied
        <3>1. PICK q \in Ranks, t \in 1..Len(Tests) : <<q, t>> \in hurt
            BY SomeoneIsHurt DEF OneInv, Inv
        <3>2. <<r, t>> \in hurt
            BY <1>1, <3>1 DEF OneInv, ReportInv, HurtTogether
        <3> QED BY <3>2 DEF OneInv, ReportInv, Tallied
    <2>4. (\E r \in Ranks : FailuresOf(r) # {}) <=> hurt # {}
        <3>1. ASSUME hurt # {}
              PROVE  \E r \in Ranks : FailuresOf(r) # {}
            <4>1. PICK q \in Ranks, t \in 1..Len(Tests) : <<q, t>> \in hurt
                BY <3>1, SomeoneIsHurt DEF OneInv, Inv
            <4>2. t < Current
                BY <2>2, <4>1, TestsLen
            <4>3. t \in FailuresOf(q)
                BY <4>1, <4>2 DEF FailuresOf
            <4> QED BY <4>3
        <3> QED BY <3>1 DEF FailuresOf
    <2>5. hurt # {} => told
        BY DEF OneInv, ReportInv, Tallied
    <2>6. \A r \in Ranks : VerdictOf(r)' = IF hurt # {} THEN "failed" ELSE "passed"
        BY <1>1, <2>1, <2>3, <2>5 DEF VerdictOf
    <2>7. One!Report
        BY <1>2, <1>3, <2>2, <2>4, <2>6 DEF One!Report, One!Say
    <2> QED BY <2>7 DEF One!Next
<1> QED BY <1>4, <1>5

LEMMA StepsAreOne == OneInv /\ OneInv' /\ [Next]_vars => [One!Next]_One!oneVars
<1> SUFFICES ASSUME OneInv, OneInv', [Next]_vars
             PROVE  [One!Next]_One!oneVars
    OBVIOUS
<1>0. 0 \in Ranks /\ Abreast /\ Abreast' /\ \A r \in Ranks : test[r] = test[0]
    <2>1. 0 \in Ranks
        BY SizeAssumption DEF Ranks
    <2> QED BY <2>1 DEF OneInv, AbreastInv, Abreast
<1>1. CASE BcastSeed
    <2>1. /\ pc[0] = "m_seed" /\ pc'[0] = "m_op" /\ code' = code /\ hurt' = hurt
        BY <1>0, <1>1 DEF BcastSeed, AllAt
    <2>2. Current' = Current
        BY <2>1 DEF Current, StartUp
    <2> QED BY <1>0, <2>1, <2>2, Unseen
<1>2. CASE SplitAgree
    <2>1. /\ pc[0] \in {"s_agree", "s_unclosed"}
          /\ pc'[0] \in {"s_cleanup", "barrier", "s_free"}
          /\ code' = code /\ test' = test
          /\ hurt \subseteq hurt'
          /\ \A r \in Ranks, t \in 1..Len(Tests) :
                <<r, t>> \in hurt' /\ <<r, t>> \notin hurt => t = test[r]
        <3>1. pc[0] \in {"s_agree", "s_unclosed"} /\ code' = code /\ test' = test
            BY <1>0, <1>2 DEF SplitAgree
        <3>2. CASE \E r \in Ranks : failing[r]
            BY <1>0, <1>2, <3>1, <3>2 DEF SplitAgree
        <3>3. CASE ~ \E r \in Ranks : failing[r]
            BY <1>0, <1>2, <3>1, <3>3 DEF SplitAgree
        <3> QED BY <3>2, <3>3
    <2>2. Current' = Current
        BY <2>1 DEF Current, StartUp, Conclusion, Tests
    <2>3. \A t \in 1..Len(Tests) : t = test[0] => ~(t < Current)
        BY <2>1, TestsLen DEF Current, StartUp, Conclusion
    <2> QED BY <1>0, <2>1, <2>2, <2>3, Unseen
<1>3. CASE ReducePassed \/ ReduceFailed
    <2>1. /\ pc[0] \in {"m_passed", "m_failed"} /\ pc'[0] \in {"m_failed", "m_finalize"}
          /\ code' = code /\ hurt' = hurt
        BY <1>0, <1>3 DEF ReducePassed, ReduceFailed, AllAt
    <2>2. Current' = Current
        BY <2>1 DEF Current, StartUp, Conclusion, Tests
    <2> QED BY <1>0, <2>1, <2>2, Unseen
<1>4. ASSUME NEW r \in Ranks,
             IndependentOp(r) \/ SplitAccess(r) \/ EndMultipart(r) \/ Statistics(r)
      PROVE  [One!Next]_One!oneVars
    <2>1. /\ code' = code /\ hurt' = hurt /\ test' = test
          /\ \A s \in Ranks \ {r} : pc'[s] = pc[s]
          /\ pc'[r] \in StartUp <=> pc[r] \in StartUp
          /\ pc'[r] \in Conclusion <=> pc[r] \in Conclusion
          /\ pc[r] # "exited" /\ pc'[r] # "exited"
        <3>1. pc \in [Ranks -> Points]
            BY DEF OneInv, Inv, TypeOK
        <3> QED BY <1>4, <3>1 DEF IndependentOp, SplitAccess, EndMultipart, Statistics,
                                  counters, StartUp, Conclusion
    <2>2. Current' = Current
        BY <1>0, <2>1 DEF Current, Tests
    <2> QED BY <1>0, <2>1, <2>2, Unseen
<1>5. ASSUME NEW r \in Ranks, LocalCall(r)
      PROVE  [One!Next]_One!oneVars
    BY <1>0, <1>5, LocalCallGoesThrough, CallIsUnseen
<1>6. ASSUME NEW r \in Ranks, CollectiveCall(r)
      PROVE  [One!Next]_One!oneVars
    BY <1>0, <1>6, CollectiveCallGoesThrough, CallIsUnseen
<1>7. CASE UNCHANGED vars
    BY <1>7 DEF vars, counters, One!oneVars, Current, FailuresOf, VerdictOf, Tests
<1> QED
    BY <1>1, <1>2, <1>3, <1>4, <1>5, <1>6, <1>7, StartUpIsOne, TestsAreOne,
       VerdictsAreOne DEF Next, Go, Exited, Polling

(* However many ranks there are, and wherever they agree on every failure  *)
(* but that of a deletion, they act as one program: what FailTogether and  *)
(* ReportIsRight say of single states is so of the whole run, in which the *)
(* tests follow one another and no result is changed later.                *)
THEOREM RanksActAsOne == FaultsAgreed => (Spec => ActAsOne)
<1> SUFFICES ASSUME FaultsAgreed PROVE Spec => ActAsOne
    OBVIOUS
<1>1. Init => OneInv
    BY Starts, AbreastAtFirst, NothingReportedAtFirst, FirstTestAtFirst DEF OneInv
<1>2. OneInv /\ [Next]_vars => OneInv'
    BY StepKeepsInv, StepKeepsAbreast, StepKeepsReport, StepKeepsFirst
       DEF OneInv, Inv, AbreastInv
<1> QED BY <1>1, <1>2, OneStarts, StepsAreOne, PTL DEF Spec, ActAsOne, One!Spec

=============================================================================
