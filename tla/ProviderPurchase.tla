---------------------------- MODULE ProviderPurchase ----------------------------
(***************************************************************************)
(* What the execution of a task promises about the provider: the task is   *)
(* bought at most once, nobody asks for it again while a purchase may be   *)
(* on its way, and a task given up as failed has not been bought and never *)
(* will be.                                                                *)
(***************************************************************************)
VARIABLES
    purchase,   \* "none", "asked" or "held": what the provider has
    verdict     \* "open", "unknown", "watched", "over" or "failed"

vars == <<purchase, verdict>>

Init == purchase = "none" /\ verdict = "open"

Ask ==
    /\ purchase = "none" /\ verdict \in {"open", "unknown"}
    /\ purchase' = "asked"
    /\ UNCHANGED verdict

Refuse ==
    /\ purchase = "asked"
    /\ purchase' = "none"
    /\ UNCHANGED verdict

Buy ==
    /\ purchase = "asked"
    /\ purchase' = "held"
    /\ UNCHANGED verdict

Doubt ==
    /\ verdict \in {"open", "watched"}
    /\ verdict' = "unknown"
    /\ UNCHANGED purchase

Watch ==
    /\ purchase = "held" /\ verdict \in {"open", "unknown"}
    /\ verdict' = "watched"
    /\ UNCHANGED purchase

Finish ==
    /\ purchase = "held" /\ verdict \in {"open", "unknown", "watched"}
    /\ verdict' = "over"
    /\ UNCHANGED purchase

GiveUp ==
    /\ purchase = "none" /\ verdict = "open"
    /\ verdict' = "failed"
    /\ UNCHANGED purchase

Next == Ask \/ Refuse \/ Buy \/ Doubt \/ Watch \/ Finish \/ GiveUp

Spec == Init /\ [][Next]_vars
=============================================================================
