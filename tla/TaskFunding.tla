------------------------------ MODULE TaskFunding ------------------------------
(***************************************************************************)
(* What the creation of a task promises: a task is queued only on points   *)
(* that are held and stay held, and a creation that fails holds nothing.   *)
(* A creation whose points are uncertain is escalated to an operator; only *)
(* then may points move after its outcome is known.                        *)
(***************************************************************************)
VARIABLES
    outcome,    \* "open", "queued", "failed" or "escalated"
    hold        \* "none", "held" or "returned"

vars == <<outcome, hold>>

Init == outcome = "open" /\ hold = "none"

Reserve ==
    /\ outcome \in {"open", "escalated"} /\ hold = "none"
    /\ hold' = "held"
    /\ UNCHANGED outcome

Return ==
    /\ outcome \in {"open", "escalated"} /\ hold = "held"
    /\ hold' = "returned"
    /\ UNCHANGED outcome

Queue ==
    /\ outcome = "open" /\ hold = "held"
    /\ outcome' = "queued"
    /\ UNCHANGED hold

Fail ==
    /\ outcome = "open" /\ hold # "held"
    /\ outcome' = "failed"
    /\ UNCHANGED hold

Escalate ==
    /\ outcome = "open"
    /\ outcome' = "escalated"
    /\ UNCHANGED hold

Next == Reserve \/ Return \/ Queue \/ Fail \/ Escalate

Spec == Init /\ [][Next]_vars
=============================================================================
