--------------------------- MODULE ParallelHarness ---------------------------
(***************************************************************************)
(* The MPI test program (vol_test_parallel.c) running its group of file    *)
(* tests (vol_file_test_parallel.c), rank by rank.  A rank is at one point *)
(* of the program; a local step moves one rank, a collective call moves    *)
(* all ranks of its communicator together, once every one of them is in    *)
(* that call.  Ranks that wait in different calls wait for ever, as the    *)
(* comment on test_split_comm_file_access says.                            *)
(***************************************************************************)
EXTENDS Integers, FiniteSets, Sequences

CONSTANTS
    N,              \* mpi_size
    ConnectorSet,   \* HDF5_VOL_CONNECTOR is in the environment
    LocalFaults,    \* calls that may fail on one rank alone
    AgreedFaults,   \* collective calls that may fail, on all their ranks
    PartialFaults,  \* collective calls that may complete and fail on some ranks
    MaxFaults       \* BOUND: failing calls in a behaviour

ASSUME SizeAssumption == N \in Nat \ {0}
ASSUME FlagsAssumption == ConnectorSet \in BOOLEAN
ASSUME FaultsAssumption ==
    /\ MaxFaults \in Nat
    /\ AgreedFaults \cup PartialFaults \subseteq {"create", "open", "close", "delete"}

Ranks == 0..N-1

\* BEGIN_INDEPENDENT_OP ... END_INDEPENDENT_OP, in the order main has them.
IndependentOps ==
    (IF ConnectorSet THEN <<"copy_connector_string", "get_connector_name">>
     ELSE << >>)
    \o <<"create_fapl", "check_vol_register", "get_capability_flags",
         "create_test_container">>

\* A step of a test: the call, its communicator, TESTING() before it,
\* PASSED() and the next point when it succeeds, H5_FAILED() and the next
\* point when it fails.  The calls of MPI itself do not return an error: the
\* program keeps MPI's default error handler, which aborts.  The branches for
\* them are kept.
Step(comm, call, testing, pass, ok, fail, ko) ==
    [comm |-> comm, call |-> call, testing |-> testing, passed |-> pass,
     ok |-> ok, failed |-> fail, ko |-> ko]

Flow ==
  [ c_fapl   |-> Step("none",  "fapl",   1, 0, "c_create", 1, "barrier"),
    c_create |-> Step("world", "create", 0, 0, "c_pclose", 1, "barrier"),
    c_pclose |-> Step("none",  "pclose", 0, 0, "c_close",  1, "c_cleanup"),
    c_close  |-> Step("world", "close",  0, 1, "barrier",  1, "c_cleanup"),
    c_cleanup|-> Step("world", "close",  0, 0, "barrier",  0, "barrier"),

    o_fapl   |-> Step("none",  "fapl",   1, 1, "o_rdonly", 1, "barrier"),
    o_rdonly |-> Step("world", "open",   1, 1, "o_close1", 1, "o_rdwr"),
    o_close1 |-> Step("world", "close",  0, 0, "o_rdwr",   0, "o_rdwr"),
    o_rdwr   |-> Step("world", "open",   1, 1, "o_close2", 1, "o_end"),
    o_close2 |-> Step("world", "close",  0, 0, "o_end",    0, "o_end"),
    o_pclose |-> Step("none",  "pclose", 1, 1, "barrier",  1, "barrier"),

    s_split  |-> Step("world", "split",  1, 0, "s_access", 1, "barrier"),
    s_barrier|-> Step("sub",   "barrier",0, 0, "s_agree",  0, "s_agree"),
    s_fapl   |-> Step("none",  "fapl",   0, 0, "s_create", 0, "s_agree"),
    s_create |-> Step("sub",   "create", 0, 0, "s_close",  1, "s_agree"),
    s_close  |-> Step("sub",   "close",  0, 0, "s_delete", 1, "s_unclosed"),
    s_delete |-> Step("sub",   "delete", 0, 0, "s_pclose", 1, "s_agree"),
    s_pclose |-> Step("none",  "pclose", 0, 0, "s_agree",  0, "s_agree"),
    s_free   |-> Step("sub",   "free",   0, 0, "s_world",  1, "barrier"),
    s_world  |-> Step("world", "barrier",0, 1, "barrier",  1, "barrier"),
    s_cleanup|-> Step("sub",   "close",  0, 0, "barrier",  0, "barrier"),

    f_fapl   |-> Step("none",  "fapl",   0, 0, "f_delete", 0, "m_delete"),
    f_delete |-> Step("world", "delete", 0, 0, "f_pclose", 0, "f_pclose"),
    f_pclose |-> Step("none",  "pclose", 0, 0, "m_delete", 0, "m_delete"),
    m_delete |-> Step("world", "delete_container", 0, 0, "m_stats", 0, "m_stats") ]

\* Calls made in H5E_BEGIN_TRY ... H5E_END_TRY: their result is ignored and
\* HDF5 does not print its error stack, as it does for every other call.
Tried == {"c_cleanup", "o_close1", "o_close2", "s_cleanup"}

\* par_file_tests: where each test begins.  The SKIPPED() at their head needs
\* a connector without FILE_BASIC, which does not get past the start-up.
Tests == <<"c_fapl", "o_fapl", "s_split">>

Points == DOMAIN Flow \cup {"s_access", "o_end", "s_agree", "s_unclosed", "barrier",
    "m_seed", "m_op", "m_agree", "m_stats", "m_passed", "m_failed",
    "m_finalize", "exited"}

VARIABLES
    file_basic, \* H5VL_CAP_FLAG_FILE_BASIC is in vol_cap_flags_g
    pc,         \* where a rank is
    op,         \* which independent operation it is in
    test,       \* which test of the group
    failing,    \* ind_op_failed, nerrors > 0 or err_occurred
    ran, passed, failed,    \* n_tests_..._g
    code,       \* the status the rank will exit with
    told,       \* a rank wrote a string the driver takes for an error
    faults,     \* calls that failed so far
    hurt        \* history: <<rank, test>> pairs that did not pass

vars == <<file_basic, pc, op, test, failing, ran, passed, failed, code, told, faults, hurt>>

TypeOK ==
    /\ file_basic \in BOOLEAN
    /\ pc \in [Ranks -> Points]
    /\ op \in [Ranks -> 1..Len(IndependentOps)]
    /\ test \in [Ranks -> 1..Len(Tests)]
    /\ failing \in [Ranks -> BOOLEAN]
    /\ ran \in [Ranks -> Nat]
    /\ passed \in [Ranks -> Nat] /\ failed \in [Ranks -> Nat]
    /\ code \in [Ranks -> {0, 1}]
    /\ told \in BOOLEAN
    /\ faults \in 0..MaxFaults
    /\ hurt \subseteq Ranks \X (1..Len(Tests))

Init ==
    /\ file_basic \in BOOLEAN
    /\ pc = [r \in Ranks |-> IF N > 1 THEN "m_seed" ELSE "m_op"]
    /\ op = [r \in Ranks |-> 1]
    /\ test = [r \in Ranks |-> 1]
    /\ failing = [r \in Ranks |-> FALSE]
    /\ ran = [r \in Ranks |-> 0]
    /\ passed = [r \in Ranks |-> 0]
    /\ failed = [r \in Ranks |-> 0]
    /\ code = [r \in Ranks |-> 0]
    /\ told = FALSE
    /\ faults = 0
    /\ hurt = {}

-----------------------------------------------------------------------------
(* Who takes part in a call. *)

World == Ranks
Sub(r) == {s \in Ranks : s % 2 = r % 2}
Members(r) == IF Flow[pc[r]].comm = "sub" THEN Sub(r) ELSE World

AllAt(point) == \A r \in Ranks : pc[r] = point

InFlow(r) == pc[r] \in DOMAIN Flow

\* All ranks of r's communicator are in the call r is in.
Met(r) ==
    \A s \in Members(r) :
        /\ InFlow(s)
        /\ Flow[pc[s]].comm = Flow[pc[r]].comm
        /\ Flow[pc[s]].call = Flow[pc[r]].call

counters == <<ran, passed, failed>>

-----------------------------------------------------------------------------
(* main: start-up. *)

\* MPI_Bcast of the seed.
BcastSeed ==
    /\ AllAt("m_seed")
    /\ pc' = [r \in Ranks |-> "m_op"]
    /\ UNCHANGED <<file_basic, op, test, failing, counters, code, told, faults, hurt>>

\* create_test_container fails at once without H5VL_CAP_FLAG_FILE_BASIC; only
\* rank 0 calls it.
InContainer(r) == IndependentOps[op[r]] = "create_test_container"
Refused(r) == InContainer(r) /\ r = 0 /\ ~file_basic

OpMayFail(r) ==
    /\ IndependentOps[op[r]] \in LocalFaults
    /\ faults < MaxFaults
    /\ InContainer(r) => r = 0

\* FAULTY: a rank that fails goes to error without asking the others.
IndependentOpLeaving(r) ==
    /\ pc[r] = "m_op"
    /\ \E fails \in BOOLEAN :
          /\ Refused(r) => fails
          /\ fails => Refused(r) \/ OpMayFail(r)
          /\ failing' = [failing EXCEPT ![r] = fails]
          /\ faults' = IF fails /\ ~Refused(r) THEN faults + 1 ELSE faults
          /\ pc' = [pc EXCEPT ![r] = IF fails THEN "m_finalize" ELSE "m_agree"]
          /\ code' = [code EXCEPT ![r] = IF fails THEN 1 ELSE 0]
    /\ UNCHANGED <<file_basic, op, test, counters, told, hurt>>

\* The body of an independent operation.
IndependentOp(r) ==
    /\ pc[r] = "m_op"
    /\ \E fails \in BOOLEAN :
          /\ Refused(r) => fails
          /\ fails => Refused(r) \/ OpMayFail(r)
          /\ failing' = [failing EXCEPT ![r] = fails]
          /\ faults' = IF fails /\ ~Refused(r) THEN faults + 1 ELSE faults
    /\ pc' = [pc EXCEPT ![r] = "m_agree"]
    /\ UNCHANGED <<file_basic, op, test, counters, code, told, hurt>>

\* FAULTY: ind_op_failed is not reduced.
EndIndependentOpAlone ==
    /\ AllAt("m_agree")
    /\ pc' = [r \in Ranks |-> IF failing[r] THEN "m_finalize"
                              ELSE IF op[r] = Len(IndependentOps) THEN Tests[1]
                              ELSE "m_op"]
    /\ code' = [r \in Ranks |-> IF failing[r] THEN 1 ELSE 0]
    /\ op' = [r \in Ranks |-> IF op[r] = Len(IndependentOps)
                              THEN op[r] ELSE op[r] + 1]
    /\ UNCHANGED <<file_basic, test, failing, counters, told, faults, hurt>>

\* FAULTY: one operation too many.
EndIndependentOpCounting ==
    /\ AllAt("m_agree")
    /\ pc' = [r \in Ranks |-> IF \E s \in Ranks : failing[s] THEN "m_finalize"
                              ELSE IF op[r] = Len(IndependentOps) THEN Tests[1]
                              ELSE "m_op"]
    /\ op' = [r \in Ranks |-> op[r] + 1]
    /\ UNCHANGED <<file_basic, test, failing, counters, code, told, faults, hurt>>

\* END_INDEPENDENT_OP: MPI_Allreduce(MPI_LOR), then on, or all to error.
EndIndependentOp ==
    /\ AllAt("m_agree")
    /\ IF \E r \in Ranks : failing[r]
       THEN /\ pc' = [r \in Ranks |-> "m_finalize"]
            /\ code' = [r \in Ranks |-> 1]
            /\ told' = TRUE
            /\ UNCHANGED op
       ELSE /\ pc' = [r \in Ranks |-> IF op[r] = Len(IndependentOps)
                                      THEN Tests[1] ELSE "m_op"]
            /\ op' = [r \in Ranks |-> IF op[r] = Len(IndependentOps)
                                      THEN op[r] ELSE op[r] + 1]
            /\ UNCHANGED <<code, told>>
    /\ UNCHANGED <<file_basic, test, failing, counters, faults, hurt>>

-----------------------------------------------------------------------------
(* The file tests. *)

\* The ranks of S go through the call they are in; those of Bad fail.
Through(S, Bad) ==
    LET at(r) == Flow[pc[r]] IN
    /\ pc' = [r \in Ranks |-> IF r \notin S THEN pc[r]
                              ELSE IF r \in Bad THEN at(r).ko ELSE at(r).ok]
    /\ ran' = [r \in Ranks |-> IF r \in S THEN ran[r] + at(r).testing ELSE ran[r]]
    /\ passed' = [r \in Ranks |-> IF r \in S \ Bad THEN passed[r] + at(r).passed
                                  ELSE passed[r]]
    /\ failed' = [r \in Ranks |-> IF r \in Bad THEN failed[r] + at(r).failed
                                  ELSE failed[r]]
    /\ failing' = [r \in Ranks |-> failing[r] \/ (r \in Bad /\ pc[r] \notin Tried)]
    /\ hurt' = hurt \cup {<<r, test[r]>> : r \in {b \in Bad : at(b).failed > 0}}
    /\ told' = (told \/ \E r \in Bad : pc[r] \notin Tried)
    /\ faults' = IF Bad = {} THEN faults ELSE faults + 1
    /\ UNCHANGED <<file_basic, op, test, code>>

LocalCall(r) ==
    /\ InFlow(r) /\ Flow[pc[r]].comm = "none"
    /\ \/ Through({r}, {})
       \/ /\ Flow[pc[r]].call \in LocalFaults /\ faults < MaxFaults
          /\ Through({r}, {r})

CollectiveCall(r) ==
    /\ InFlow(r) /\ Flow[pc[r]].comm # "none"
    /\ Met(r)
    /\ \E Bad \in SUBSET Members(r) :
          /\ Bad # {} => faults < MaxFaults
          /\ Bad # {} => \/ Flow[pc[r]].call \in PartialFaults
                         \/ Flow[pc[r]].call \in AgreedFaults /\ Bad = Members(r)
          /\ Through(Members(r), Bad)

\* After MPI_Comm_split: odd ranks to the barrier, even ranks to the file.
SplitAccess(r) ==
    /\ pc[r] = "s_access"
    /\ pc' = [pc EXCEPT ![r] = IF r % 2 = 1 THEN "s_barrier" ELSE "s_fapl"]
    /\ UNCHANGED <<file_basic, op, test, failing, counters, code, told, faults, hurt>>

\* FAULTY: err_occurred is not reduced.
SplitAgreeAlone ==
    /\ \A r \in Ranks : pc[r] \in {"s_agree", "s_unclosed"}
    /\ pc' = [r \in Ranks |-> IF pc[r] = "s_unclosed" THEN "s_cleanup"
                              ELSE IF failing[r] THEN "barrier" ELSE "s_free"]
    /\ failed' = [r \in Ranks |-> IF failing[r] THEN failed[r] + 1 ELSE failed[r]]
    /\ hurt' = hurt \cup {<<r, test[r]>> : r \in {s \in Ranks : failing[s]}}
    /\ told' = (told \/ \E r \in Ranks : failing[r])
    /\ UNCHANGED <<file_basic, op, test, failing, ran, passed, code, faults>>

\* FAULTY: only the ranks with an error count the test as failed.
SplitAgreeOnOwn ==
    /\ \A r \in Ranks : pc[r] \in {"s_agree", "s_unclosed"}
    /\ pc' = [r \in Ranks |-> IF pc[r] = "s_unclosed" THEN "s_cleanup"
                              ELSE IF \E s \in Ranks : failing[s] THEN "barrier"
                              ELSE "s_free"]
    /\ failed' = [r \in Ranks |-> IF failing[r] THEN failed[r] + 1 ELSE failed[r]]
    /\ hurt' = hurt \cup {<<r, test[r]>> : r \in {s \in Ranks : failing[s]}}
    /\ told' = (told \/ \E r \in Ranks : failing[r])
    /\ UNCHANGED <<file_basic, op, test, failing, ran, passed, code, faults>>

\* MPI_Allreduce(err_occurred, MPI_LOR) at access_end.  A rank that could
\* not close its file tries again on the way out.
SplitAgree ==
    /\ \A r \in Ranks : pc[r] \in {"s_agree", "s_unclosed"}
    /\ IF \E r \in Ranks : failing[r]
       THEN /\ pc' = [r \in Ranks |-> IF pc[r] = "s_unclosed" THEN "s_cleanup"
                                      ELSE "barrier"]
            /\ failed' = [r \in Ranks |-> failed[r] + 1]
            /\ hurt' = hurt \cup {<<r, test[r]>> : r \in Ranks}
            /\ told' = TRUE
       ELSE /\ pc' = [r \in Ranks |-> "s_free"]
            /\ UNCHANGED <<failed, hurt, told>>
    /\ UNCHANGED <<file_basic, op, test, failing, ran, passed, code, faults>>

\* END_MULTIPART: to error if a part failed, else to the test's clean-up.
EndMultipart(r) ==
    /\ pc[r] = "o_end"
    /\ pc' = [pc EXCEPT ![r] = IF failing[r] THEN "barrier" ELSE "o_pclose"]
    /\ UNCHANGED <<file_basic, op, test, failing, counters, code, told, faults, hurt>>

\* MPI_Barrier after each test, then the next one or cleanup_files.
TestBarrier ==
    /\ AllAt("barrier")
    /\ pc' = [r \in Ranks |-> IF test[r] < Len(Tests) THEN Tests[test[r] + 1]
                              ELSE "f_fapl"]
    /\ test' = [r \in Ranks |-> IF test[r] < Len(Tests) THEN test[r] + 1
                                ELSE test[r]]
    /\ failing' = [r \in Ranks |-> FALSE]
    /\ UNCHANGED <<file_basic, op, counters, code, told, faults, hurt>>

-----------------------------------------------------------------------------
(* main: statistics and exit. *)

\* if (n_tests_run_g > 0), on this rank.
Statistics(r) ==
    /\ pc[r] = "m_stats"
    /\ pc' = [pc EXCEPT ![r] = IF ran[r] > 0 THEN "m_passed" ELSE "m_finalize"]
    /\ UNCHANGED <<file_basic, op, test, failing, counters, code, told, faults, hurt>>

\* MPI_Allreduce(MPI_MIN) of a tally.
LeastAt(tally, r) == \A s \in Ranks : tally[r] <= tally[s]

ReducePassed ==
    /\ AllAt("m_passed")
    /\ \E r \in Ranks : /\ LeastAt(passed, r)
                       /\ passed' = [s \in Ranks |-> passed[r]]
    /\ pc' = [r \in Ranks |-> "m_failed"]
    /\ UNCHANGED <<file_basic, op, test, failing, ran, failed, code, told, faults,
                   hurt>>

ReduceFailed ==
    /\ AllAt("m_failed")
    /\ \E r \in Ranks : /\ LeastAt(failed, r)
                       /\ failed' = [s \in Ranks |-> failed[r]]
    /\ pc' = [r \in Ranks |-> "m_finalize"]
    /\ UNCHANGED <<file_basic, op, test, failing, ran, passed, code, told, faults,
                   hurt>>

\* MPI_Finalize, then HDexit.
Finalize ==
    /\ AllAt("m_finalize")
    /\ pc' = [r \in Ranks |-> "exited"]
    /\ UNCHANGED <<file_basic, op, test, failing, counters, code, told, faults, hurt>>

Exited == AllAt("exited") /\ UNCHANGED vars

\* A rank is in a collective call.
Waits(r) == \/ InFlow(r) /\ Flow[pc[r]].comm # "none"
            \/ pc[r] \in {"m_seed", "m_agree", "s_agree", "s_unclosed",
                          "barrier", "m_passed", "m_failed", "m_finalize"}

\* A rank polls for the others inside a collective call.
Polling == (\E r \in Ranks : Waits(r)) /\ UNCHANGED vars

Go ==
    \/ BcastSeed \/ EndIndependentOp \/ SplitAgree \/ TestBarrier
    \/ ReducePassed \/ ReduceFailed \/ Finalize
    \/ \E r \in Ranks :
          \/ IndependentOp(r) \/ LocalCall(r)
          \/ CollectiveCall(r) \/ SplitAccess(r) \/ EndMultipart(r)
          \/ Statistics(r)

Next == Go \/ Exited \/ Polling

Spec == Init /\ [][Next]_vars

\* Every rank is a process of its own that keeps running, and MPI completes
\* a collective call that all its ranks have entered.
FairSpec == Spec /\ WF_vars(Go)

-----------------------------------------------------------------------------

\* The collective call a rank waits in, with its communicator.
CallOf(r) ==
    CASE InFlow(r) -> <<Flow[pc[r]].comm, Flow[pc[r]].call>>
      [] pc[r] = "m_agree" -> <<"world", IndependentOps[op[r]]>>
      [] pc[r] = "s_unclosed" -> <<"world", "s_agree">>
      [] OTHER -> <<"world", pc[r]>>

(* "the processes will freeze up sooner or later due to MPI_Barrier calls  *)
(* being mixed up" (test_split_comm_file_access) does not happen: two      *)
(* ranks that wait on the same communicator wait in the same call.         *)
CallsMatch ==
    \A r, s \in Ranks :
        /\ Waits(r) /\ Waits(s)
        /\ CallOf(r)[1] = CallOf(s)[1]
        /\ CallOf(r)[1] = "sub" => s \in Sub(r)
        => CallOf(r) = CallOf(s)

HurtTests == {h[2] : h \in hurt}

(* A test that fails on one rank has failed on all of them by the time     *)
(* the group's barrier is reached: also the split test, whose file only    *)
(* the even ranks use ("collectively failing").                            *)
FailTogether ==
    AllAt("barrier") =>
        \A t \in HurtTests : \A r \in Ranks : <<r, t>> \in hurt

(* When every failure is agreed on, the report of rank 0 is right: it      *)
(* counts a failure exactly when a test failed on some rank, and then the  *)
(* output has a string by which the driver fails the test, the exit status *)
(* being no help.                                                          *)
ReportIsRight ==
    AllAt("exited") /\ code[0] = 0 =>
        /\ failed[0] > 0 <=> hurt # {}
        /\ hurt # {} => told

(* A connector without basic file support, which only rank 0 finds out,    *)
(* has no test run on any rank, and every rank exits with an error.        *)
UnsupportedRunsNoTest ==
    ~file_basic =>
        \A r \in Ranks : ran[r] = 0 /\ (pc[r] = "exited" => code[r] = 1)

(* One rank's failed independent operation ends the program on every rank, *)
(* before any of them runs a test: no rank goes on with a container or a   *)
(* connector that another rank does not have (END_INDEPENDENT_OP).         *)
ErrorIsCollective ==
    (\E r \in Ranks : code[r] = 1) =>
        \A s \in Ranks : code[s] = 1 /\ ran[s] = 0 /\ pc[s] \in {"m_finalize", "exited"}

\* All ranks of a collective call have come to it.
Complete ==
    \/ \E r \in Ranks : InFlow(r) /\ Flow[pc[r]].comm # "none" /\ Met(r)
    \/ \A r \in Ranks : pc[r] \in {"s_agree", "s_unclosed"}
    \/ \E call \in {"m_seed", "m_agree", "barrier", "m_passed", "m_failed",
                    "m_finalize"} : AllAt(call)

(* Until all have exited, a rank can go on by itself or a collective call  *)
(* has all its ranks: no ranks are left waiting for ones that have gone    *)
(* another way, in the error branches of a test as little as in the two    *)
(* halves of test_split_comm_file_access.                                  *)
NoneStranded ==
    \/ AllAt("exited")
    \/ \E r \in Ranks : pc[r] # "exited" /\ ~Waits(r)
    \/ Complete

(* Every rank gets to its end: the program ends on every rank.             *)
Terminates == <>AllAt("exited")

-----------------------------------------------------------------------------
(* The ranks as one program. *)

\* The points of main before the first test, and those after the last.
StartUp == {"m_seed", "m_op", "m_agree"}
Conclusion == {"f_fapl", "f_delete", "f_pclose", "m_delete", "m_stats", "m_passed",
               "m_failed", "m_finalize", "exited"}

\* The test the ranks are in, which begins and ends at a call of all of them.
Current ==
    IF pc[0] \in StartUp \/ code[0] = 1 THEN 0
    ELSE IF pc[0] \in Conclusion THEN Len(Tests) + 1 ELSE test[0]

\* The earlier tests a rank counts as failed.
FailuresOf(r) == {t \in 1..Len(Tests) : t < Current /\ <<r, t>> \in hurt}

\* What a rank leaves: its status, the failures its report counts, and a string the
\* driver takes for an error.
VerdictOf(r) ==
    IF pc[r] # "exited" THEN "none"
    ELSE CASE code[r] = 1 -> "error"
           [] code[r] = 0 /\ failed[r] = 0 -> "passed"
           [] code[r] = 0 /\ failed[r] > 0 -> IF told THEN "failed" ELSE "unheard"

One == INSTANCE OneProgram WITH
    Last <- Len(Tests),
    current <- Current,
    failures <- [r \in Ranks |-> FailuresOf(r)],
    verdict <- [r \in Ranks |-> VerdictOf(r)]

(* The ranks act as one program: each test ends with the same result on    *)
(* all of them before any begins the next, although a failure may be one   *)
(* rank's or one half's alone for a while, and every rank's report is      *)
(* about all the tests and about what each of them came to on any rank.    *)
ActAsOne == One!Spec

-----------------------------------------------------------------------------
(* What a comment of the code says, and the code does not do.              *)

(* "Get the collective results about whether an error occurred"            *)
(* (test_split_comm_file_access): a rank with an error gets them.          *)
SplitErrorShared ==
    \A r \in Ranks :
        pc[r] = "s_agree" /\ failing[r] ~> pc[r] # "s_agree"

=============================================================================
