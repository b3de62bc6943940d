------------------------------ MODULE PointsHold ------------------------------
(***************************************************************************)
(* What a reservation of points promises: the amount held is charged at    *)
(* most once, the rest is returned, and it is closed when nothing is held. *)
(***************************************************************************)
EXTENDS Naturals

CONSTANT Amount     \* the points reserved, a natural number

VARIABLES held, charged, closed

vars == <<held, charged, closed>>

TypeOK ==
    /\ held \in 0..Amount
    /\ charged \in 0..Amount
    /\ closed \in BOOLEAN

Init == held = Amount /\ charged = 0 /\ closed = FALSE

\* Points of the hold become revenue.
Charge(p) ==
    /\ ~closed /\ charged = 0
    /\ held' = held - p
    /\ charged' = p
    /\ UNCHANGED closed

\* Points of the hold become available again.
Return(p) ==
    /\ ~closed
    /\ held' = held - p
    /\ UNCHANGED <<charged, closed>>

Close ==
    /\ ~closed /\ held = 0
    /\ closed' = TRUE
    /\ UNCHANGED <<held, charged>>

Next ==
    \/ \E p \in 1..held : Charge(p) \/ Return(p)
    \/ Close

Spec == Init /\ [][Next]_vars
=============================================================================
