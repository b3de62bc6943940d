--------------------------- MODULE MCWalletLedger ---------------------------
(* Instances of WalletLedger for TLC.                                      *)
EXTENDS WalletLedger, TLC

CONSTANT
    ControlUser     \* the user whose wallet is adjusted and reconciled

SymmetricSets == Permutations(Keys) \cup Permutations(Calls) \cup
                 Permutations(Approvers)

\* A snapshot restored one point too high or one too low.
SmallDrifts == {-1, 1}

\* The controls act on a wallet that two commands of one point have posted to at
\* most (one opens its accounts before a scan, one comes in between); the many
\* commands compete in wallets that no control has touched.
\* Only platform accounts are damaged: the promise to users presupposes that
\* theirs are not (a torn scan blocks single users all the same).
Controlled == requests # [r \in Requests |-> None] \/ scan # Unread
              \/ restricted # {} \/ \E a \in Accounts : drift[a] # 0

Within ==
    /\ \A a \in Accounts : drift[a] # 0 => a[2] = Platform
    /\ Controlled =>
           /\ Cardinality(PostedTransactions \cap Keys) <= 2
           /\ \A k \in PostedTransactions : ledger[k].user = ControlUser /\ ledger[k].points \in {-1, 1}
           /\ \A r \in Requests : requests[r] # None =>
                  requests[r].user = ControlUser /\ requests[r].points \in {-1, 1}

BoundedSpec == Init /\ [][Next /\ Within']_vars
=============================================================================
