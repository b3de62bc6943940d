------------------------------ MODULE PointsSale ------------------------------
(***************************************************************************)
(* What selling points promises: points are given once, against money the  *)
(* channel holds; they are taken back once, after the money was returned;  *)
(* and a sale is closed as refunded when both happened.                    *)
(***************************************************************************)
CONSTANT Orders

VARIABLES
    received,   \* orders whose money the channel has taken
    given,      \* orders whose points the wallet holds
    returned,   \* orders whose money the channel gave back
    taken,      \* orders whose points were taken back
    closed      \* orders recorded as refunded

vars == <<received, given, returned, taken, closed>>

Init ==
    /\ received = {} /\ given = {} /\ returned = {}
    /\ taken = {} /\ closed = {}

Receive(o) ==
    /\ o \notin received
    /\ received' = received \cup {o}
    /\ UNCHANGED <<given, returned, taken, closed>>

Give(o) ==
    /\ o \in received \ given
    /\ given' = given \cup {o}
    /\ UNCHANGED <<received, returned, taken, closed>>

Return(o) ==
    /\ o \in received \ returned
    /\ returned' = returned \cup {o}
    /\ UNCHANGED <<received, given, taken, closed>>

Take(o) ==
    /\ o \in returned \ taken
    /\ taken' = taken \cup {o}
    /\ UNCHANGED <<received, given, returned, closed>>

Close(o) ==
    /\ o \in taken \ closed
    /\ closed' = closed \cup {o}
    /\ UNCHANGED <<received, given, returned, taken>>

Next == \E o \in Orders : Receive(o) \/ Give(o) \/ Return(o) \/ Take(o) \/ Close(o)

Spec == Init /\ [][Next]_vars
=============================================================================
