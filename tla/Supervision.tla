---------------------------- MODULE Supervision -----------------------------
(***************************************************************************)
(* What the test driver promises, whatever its calls and time-outs: every  *)
(* process is launched at most once, the client only after all the others, *)
(* and the verdict is given when nothing that was launched is left, and is *)
(* a pass only if everything was launched and the client was right.        *)
(***************************************************************************)
CONSTANTS Workers, Lead

VARIABLES
    stage,      \* "idle", "live" or "gone"
    lead,       \* how the lead ended: "unknown", "right" or "wrong"
    outcome     \* "none", "pass" or "fail"

superVars == <<stage, lead, outcome>>

Init ==
    /\ stage = [w \in Workers |-> "idle"]
    /\ lead = "unknown"
    /\ outcome = "none"

Launch(w) ==
    /\ outcome = "none" /\ stage[w] = "idle"
    /\ w = Lead => \A v \in Workers \ {Lead} : stage[v] # "idle"
    /\ stage' = [stage EXCEPT ![w] = "live"]
    /\ UNCHANGED <<lead, outcome>>

\* The lead's end becomes known while it is still to be collected.
LeadEnds ==
    /\ outcome = "none" /\ stage[Lead] = "live" /\ lead = "unknown"
    /\ lead' \in {"right", "wrong"}
    /\ UNCHANGED <<stage, outcome>>

\* A process is collected; an unfinished lead is collected as wrong.
Collect(w) ==
    /\ outcome = "none" /\ stage[w] = "live"
    /\ stage' = [stage EXCEPT ![w] = "gone"]
    /\ lead' = IF w = Lead /\ lead = "unknown" THEN "wrong" ELSE lead
    /\ UNCHANGED outcome

Judge ==
    /\ outcome = "none"
    /\ \A w \in Workers : stage[w] # "live"
    /\ outcome' \in {"pass", "fail"}
    /\ outcome' = "pass" => lead = "right" /\ \A w \in Workers : stage[w] = "gone"
    /\ UNCHANGED <<stage, lead>>

Next == LeadEnds \/ Judge \/ \E w \in Workers : Launch(w) \/ Collect(w)

Spec == Init /\ [][Next]_superVars
=============================================================================
