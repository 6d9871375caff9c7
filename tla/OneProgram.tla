----------------------------- MODULE OneProgram -----------------------------
(***************************************************************************)
(* What the parallel test program promises to who reads its report: its    *)
(* ranks act as one program.  It refuses to start, or it makes its tests   *)
(* one after the other, each of which passes on all ranks or fails on all  *)
(* of them, and then says on every rank whether one has failed.            *)
(***************************************************************************)
EXTENDS Naturals

CONSTANTS Ranks, Last       \* the last test

VARIABLES
    current,    \* the test the program has come to: 0 at start-up
    failures,   \* what each rank knows of the tests before it: those that failed
    verdict     \* what it has said: "none", "error", "passed" or "failed"

oneVars == <<current, failures, verdict>>

Say(word) == verdict' = [r \in Ranks |-> word]

Init ==
    /\ current = 0
    /\ failures = [r \in Ranks |-> {}]
    /\ verdict = [r \in Ranks |-> "none"]

\* The start-up succeeds, or all ranks give up.
Begin ==
    /\ current = 0 /\ \A r \in Ranks : verdict[r] = "none"
    /\ current' = 1
    /\ UNCHANGED <<failures, verdict>>

Refuse ==
    /\ current = 0 /\ \A r \in Ranks : verdict[r] = "none"
    /\ Say("error")
    /\ UNCHANGED <<current, failures>>

\* A test has the same result on all ranks.
EndTest ==
    /\ current \in 1..Last
    /\ current' = current + 1
    /\ \/ UNCHANGED failures
       \/ failures' = [r \in Ranks |-> failures[r] \cup {current}]
    /\ UNCHANGED verdict

\* The report is about all tests.
Report ==
    /\ current = Last + 1 /\ \A r \in Ranks : verdict[r] = "none"
    /\ Say(IF \E r \in Ranks : failures[r] # {} THEN "failed" ELSE "passed")
    /\ UNCHANGED <<current, failures>>

Next == Begin \/ Refuse \/ EndTest \/ Report

Spec == Init /\ [][Next]_oneVars
=============================================================================
