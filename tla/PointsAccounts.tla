--------------------------- MODULE PointsAccounts ---------------------------
(***************************************************************************)
(* What the wallet promises to the services that command it: every user    *)
(* has available and frozen points, a command moves points at most once    *)
(* however often it is sent, in the way its kind says, and no balance is   *)
(* ever overdrawn.  WalletLedger implements this with accounts, entries    *)
(* and snapshots.                                                          *)
(***************************************************************************)
EXTENDS Integers

CONSTANTS Users, Points, Commands, None

VARIABLES
    available,  \* points a user may spend
    frozen,     \* points held for the user's running work
    done        \* done[c]: what command c did, or None

vars == <<available, frozen, done>>

Init ==
    /\ available = [u \in Users |-> 0]
    /\ frozen = [u \in Users |-> 0]
    /\ done = [c \in Commands |-> None]

\* The command takes effect now, and never again.
Once(c, kind, u, points) ==
    /\ done[c] = None
    /\ done' = [done EXCEPT ![c] = [kind |-> kind, user |-> u, points |-> points]]

\* A paid order or a correction adds points.
Deposit(c, u, p) ==
    /\ Once(c, "CREDIT", u, p) \/ Once(c, "ADJUST", u, p)
    /\ available' = [available EXCEPT ![u] = @ + p]
    /\ UNCHANGED frozen

\* A refund or a correction takes points back.
Withdraw(c, u, p) ==
    /\ Once(c, "REFUND", u, p) \/ Once(c, "ADJUST", u, -p)
    /\ available[u] >= p
    /\ available' = [available EXCEPT ![u] = @ - p]
    /\ UNCHANGED frozen

\* Work is about to start: its price is set aside.
Hold(c, u, p) ==
    /\ Once(c, "RESERVE", u, p)
    /\ available[u] >= p
    /\ available' = [available EXCEPT ![u] = @ - p]
    /\ frozen' = [frozen EXCEPT ![u] = @ + p]

\* Work was done: points set aside are spent.
Spend(c, u, p) ==
    /\ Once(c, "SETTLE", u, p)
    /\ frozen[u] >= p
    /\ frozen' = [frozen EXCEPT ![u] = @ - p]
    /\ UNCHANGED available

\* Work was not done: points set aside are returned.
Return(c, u, p) ==
    /\ Once(c, "RELEASE", u, p)
    /\ frozen[u] >= p
    /\ available' = [available EXCEPT ![u] = @ + p]
    /\ frozen' = [frozen EXCEPT ![u] = @ - p]

Next == \E c \in Commands, u \in Users, p \in Points :
    \/ Deposit(c, u, p)
    \/ Withdraw(c, u, p)
    \/ Hold(c, u, p)
    \/ Spend(c, u, p)
    \/ Return(c, u, p)

Spec == Init /\ [][Next]_vars
=============================================================================
