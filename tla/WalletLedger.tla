---------------------------- MODULE WalletLedger ----------------------------
(***************************************************************************)
(* The points wallet (services/wallet-service): a double-entry ledger with *)
(* materialised balances, dual-approval adjustments and the daily          *)
(* reconciliation that blocks a wallet whose balance disagrees with its    *)
(* entries.                                                                *)
(*                                                                         *)
(* One posting runs in a SERIALIZABLE transaction and is one step.  What   *)
(* spans several transactions is several steps: an approval (read, add the *)
(* approval, post, mark posted) and a reconciliation (three reads, record). *)
(*                                                                         *)
(* Data abstraction.  The immutable entries of an account are only ever    *)
(* read through their sum (the journal); a transaction id stands for its   *)
(* unique business key; the trace id and the reason carry no control.      *)
(***************************************************************************)
EXTENDS Integers, FiniteSets, FiniteSetsExt

CONSTANTS
    Users,      \* wallet owners
    Keys,       \* business keys the other services choose
    Points,     \* amounts a command may carry
    Requests,   \* ids of adjustment requests, and their business keys
    Admins,     \* administrators
    Approvers,  \* administrators in WALLET_ADJUSTMENT_APPROVERS
    Calls,      \* concurrent calls of AdjustmentService.approve
    Drifts,     \* amounts by which a snapshot may be damaged from outside
    None,       \* the absent record
    Platform,   \* the owner of the platform accounts
    Everyone    \* the restriction '*'

ASSUME PointsAssumption == Points \subseteq Nat \ {0}

ASSUME DriftsAssumption == Drifts \subseteq Int

ASSUME ApproversAssumption == Approvers \subseteq Admins

ASSUME KeysAssumption == Keys \cap Requests = {}

ASSUME OwnersAssumption == Platform \notin Users /\ Everyone \notin Users

\* The sum over all accounts is one of finitely many.
ASSUME UsersAssumption == IsFiniteSet(Users)

VARIABLES
    journal,    \* journal[a]: the sum of the immutable entries of account a
    snapshot,   \* snapshot[a]: BalanceSnapshot.balance
    drift,      \* what damage from outside has added to a snapshot (history)
    ledger,     \* ledger[k]: the transaction with business key k, or None
    restricted, \* wallets with a WalletRestriction that was not lifted
    requests,   \* requests[r]: the AdjustmentRequest, or None
    approvals,  \* approvals[r]: the admins with an AdjustmentApproval of r
    calls,      \* the running calls of approve
    scan        \* the running reconciliation

walletVars == <<journal, snapshot, drift, ledger>>
adjustVars == <<requests, approvals, calls>>
vars == <<walletVars, adjustVars, restricted, scan>>

-----------------------------------------------------------------------------
(* Accounts and the double entry of each kind of command (domain/ledger).  *)

UserKinds == {"USER_AVAILABLE", "USER_FROZEN"}

PlatformKinds == {"PLATFORM_LIABILITY", "PLATFORM_CONSUMED", "ADJUSTMENT"}

Accounts == (UserKinds \X Users) \cup (PlatformKinds \X {Platform})

Kinds == {"CREDIT", "REFUND", "RESERVE", "SETTLE", "RELEASE", "ADJUST"}

DebitKind == [CREDIT  |-> "PLATFORM_LIABILITY", REFUND |-> "USER_AVAILABLE",
              RESERVE |-> "USER_AVAILABLE",     SETTLE |-> "USER_FROZEN",
              RELEASE |-> "USER_FROZEN",        ADJUST |-> "ADJUSTMENT"]

\* Mutant: settling gives the points back to the user.
CreditKind_SettleReturns ==
    [CREDIT  |-> "USER_AVAILABLE",  REFUND |-> "PLATFORM_LIABILITY",
     RESERVE |-> "USER_FROZEN",     SETTLE |-> "USER_AVAILABLE",
     RELEASE |-> "USER_AVAILABLE",  ADJUST |-> "USER_AVAILABLE"]

CreditKind == [CREDIT  |-> "USER_AVAILABLE",    REFUND |-> "PLATFORM_LIABILITY",
               RESERVE |-> "USER_FROZEN",       SETTLE |-> "PLATFORM_CONSUMED",
               RELEASE |-> "USER_AVAILABLE",    ADJUST |-> "USER_AVAILABLE"]

Account(kind, user) == <<kind, IF kind \in UserKinds THEN user ELSE Platform>>

Debited(tx) == Account(DebitKind[tx.kind], tx.user)

Credited(tx) == Account(CreditKind[tx.kind], tx.user)

\* The balances b after the two entries of tx, which sum to zero.
Entered(b, tx) == [b EXCEPT ![Debited(tx)]  = @ - tx.points,
                            ![Credited(tx)] = @ + tx.points]

\* An adjustment may also take points away.
SignedPoints == Points \cup {-p : p \in Points}

Transactions == [kind : Kinds, user : Users, points : SignedPoints]

BusinessKeys == Keys \cup Requests

PostedTransactions == {k \in BusinessKeys : ledger[k] # None}

\* The accounts with a row, and with it a snapshot: a posting creates those it
\* enters, and nothing deletes one.
Opened == UNION {{Debited(ledger[k]), Credited(ledger[k])} : k \in PostedTransactions}

-----------------------------------------------------------------------------
(* Posting (WalletService.post, PrismaLedgerRepository.post).              *)

\* Mutant: the unique business key is not looked up.
Fresh_Unchecked(key) == TRUE

\* A reused key either is the same command, whose posted result is returned,
\* or is refused with IDEMPOTENCY_CONFLICT; neither changes anything.
Fresh(key) == ledger[key] = None

\* Mutant: the restriction '*' is forgotten.
Unrestricted_UserOnly(tx) == tx.kind = "ADJUST" \/ tx.user \notin restricted

Unrestricted(tx) ==
    tx.kind = "ADJUST" \/ restricted \cap {tx.user, Everyone} = {}

\* Mutant: the frozen balance is not checked.
Covered_AvailableOnly(tx) ==
    \A a \in {Debited(tx), Credited(tx)} :
        a[1] = "USER_AVAILABLE" => Entered(snapshot, tx)[a] >= 0

\* No user account may go below zero, neither available nor frozen.
Covered(tx) ==
    \A a \in {Debited(tx), Credited(tx)} :
        a[1] \in UserKinds => Entered(snapshot, tx)[a] >= 0

CanPost(key, tx) == Fresh(key) /\ Unrestricted(tx) /\ Covered(tx)

\* Mutant: only the debit entry is created.
Commit_DebitOnly(key, tx) ==
    /\ ledger' = [ledger EXCEPT ![key] = tx]
    /\ journal' = [journal EXCEPT ![Debited(tx)] = @ - tx.points]
    /\ snapshot' = Entered(snapshot, tx)
    /\ UNCHANGED drift

Commit(key, tx) ==
    /\ ledger' = [ledger EXCEPT ![key] = tx]
    /\ journal' = Entered(journal, tx)
    /\ snapshot' = Entered(snapshot, tx)
    /\ UNCHANGED drift

\* credit, refund, reserve, settle and release on behalf of another service.
Post(key, kind, user, points) ==
    LET tx == [kind |-> kind, user |-> user, points |-> points] IN
    /\ CanPost(key, tx)
    /\ Commit(key, tx)
    /\ UNCHANGED <<adjustVars, restricted, scan>>

-----------------------------------------------------------------------------
(* Adjustments (AdjustmentService).                                        *)

AdjustmentRecords == [user : Users, points : SignedPoints, requestedBy : Admins,
                      status : {"PENDING", "POSTED"}, announced : Nat]

ASSUME NoneAssumption == None \notin Transactions \cup AdjustmentRecords

\* The call is over, or was lost with its process.
NoCall == [stage |-> "idle"]

CallRecords == {NoCall} \cup
    [stage : {"authorized", "approved", "posted"}, request : Requests, admin : Approvers]

RequestAdjustment(r, user, signedPoints, admin) ==
    /\ requests[r] = None
    /\ requests' = [requests EXCEPT ![r] =
           [user |-> user, points |-> signedPoints, requestedBy |-> admin,
            status |-> "PENDING", announced |-> 0]]
    /\ UNCHANGED <<walletVars, approvals, calls, restricted, scan>>

\* Mutant: the requester may approve.
ApproveRead_SelfApproval(c, r, admin) ==
    /\ calls[c] = NoCall
    /\ requests[r] # None
    /\ requests[r].status # "POSTED"
    /\ admin \in Approvers
    /\ calls' = [calls EXCEPT ![c] =
           [stage |-> "authorized", request |-> r, admin |-> admin]]
    /\ UNCHANGED <<walletVars, requests, approvals, restricted, scan>>

\* approve reads the request; a POSTED one is returned as it is, an
\* unauthorised admin and the requester are refused.
ApproveRead(c, r, admin) ==
    /\ calls[c] = NoCall
    /\ requests[r] # None
    /\ requests[r].status # "POSTED"
    /\ admin \in Approvers
    /\ requests[r].requestedBy # admin
    /\ calls' = [calls EXCEPT ![c] =
           [stage |-> "authorized", request |-> r, admin |-> admin]]
    /\ UNCHANGED <<walletVars, requests, approvals, restricted, scan>>

\* addAdjustmentApproval upserts the approval; with fewer than two the call
\* returns.
ApproveAdd(c) ==
    /\ calls[c].stage = "authorized"
    /\ LET r == calls[c].request
           added == approvals[r] \cup {calls[c].admin}
       IN  /\ approvals' = [approvals EXCEPT ![r] = added]
           /\ calls' = [calls EXCEPT ![c] =
                  IF Cardinality(added) < 2 THEN NoCall ELSE [@ EXCEPT !.stage = "approved"]]
    /\ UNCHANGED <<walletVars, requests, restricted, scan>>

AdjustmentOf(r) ==
    [kind |-> "ADJUST", user |-> requests[r].user, points |-> requests[r].points]

\* wallet.adjust under the request's own business key: posted now, or found
\* posted by another call.
ApprovePost(c) ==
    /\ calls[c].stage = "approved"
    /\ LET r == calls[c].request IN
       \/ CanPost(r, AdjustmentOf(r)) /\ Commit(r, AdjustmentOf(r))
       \/ ledger[r] = AdjustmentOf(r) /\ UNCHANGED walletVars
    /\ calls' = [calls EXCEPT ![c].stage = "posted"]
    /\ UNCHANGED <<requests, approvals, restricted, scan>>

\* markAdjustmentPosted with its wallet.adjustment-posted.v1 outbox event.
ApproveMark(c) ==
    /\ calls[c].stage = "posted"
    /\ LET r == calls[c].request IN
       requests' = [requests EXCEPT ![r].status = "POSTED", ![r].announced = @ + 1]
    /\ calls' = [calls EXCEPT ![c] = NoCall]
    /\ UNCHANGED <<walletVars, approvals, restricted, scan>>

\* The wallet refuses (INSUFFICIENT_AVAILABLE_POINTS, a serialisation retry
\* exhausted), the database fails, or the process stops: the call ends here.
ApproveAbort(c) ==
    /\ calls[c] # NoCall
    /\ calls' = [calls EXCEPT ![c] = NoCall]
    /\ UNCHANGED <<walletVars, requests, approvals, restricted, scan>>

-----------------------------------------------------------------------------
(* Reconciliation (ReconciliationJob, findReconciliationMismatches).       *)

Unread == [accounts |-> {}, snapshots |-> None, entries |-> None]

\* findMany selects the accounts and reads each included relation of theirs in
\* a statement of its own, outside a transaction: postings may commit between.
\* Before the first posting there is no account and nothing to compare.
ReadAccounts ==
    /\ scan.accounts = {}
    /\ scan' = [scan EXCEPT !.accounts = Opened]
    /\ UNCHANGED <<walletVars, adjustVars, restricted>>

ReadSnapshots ==
    /\ scan.accounts # {} /\ scan.snapshots = None
    /\ scan' = [scan EXCEPT !.snapshots = snapshot]
    /\ UNCHANGED <<walletVars, adjustVars, restricted>>

ReadEntries ==
    /\ scan.snapshots # None /\ scan.entries = None
    /\ scan' = [scan EXCEPT !.entries = journal]
    /\ UNCHANGED <<walletVars, adjustVars, restricted>>

\* An account that was opened after the accounts were selected is not compared.
Mismatched == {a \in scan.accounts : scan.snapshots[a] # scan.entries[a]}

RestrictionOf(owner) == IF owner = Platform THEN Everyone ELSE owner

\* recordReconciliation: nothing in the service lifts a restriction.
RecordReconciliation ==
    /\ scan.entries # None
    /\ restricted' = restricted \cup {RestrictionOf(a[2]) : a \in Mismatched}
    /\ scan' = Unread
    /\ UNCHANGED <<walletVars, adjustVars>>

\* Damage from outside the service, such as a partial restore: one snapshot
\* is changed without an entry.  Bounded to one damage per behaviour.
SnapshotDrift(a, d) ==
    /\ a \in Opened
    /\ \A b \in Accounts : drift[b] = 0
    /\ a[1] \in UserKinds => snapshot[a] + d >= 0
    /\ snapshot' = [snapshot EXCEPT ![a] = @ + d]
    /\ drift' = [drift EXCEPT ![a] = @ + d]
    /\ UNCHANGED <<journal, ledger, adjustVars, restricted, scan>>

-----------------------------------------------------------------------------
Init ==
    /\ journal = [a \in Accounts |-> 0]
    /\ snapshot = [a \in Accounts |-> 0]
    /\ drift = [a \in Accounts |-> 0]
    /\ ledger = [k \in BusinessKeys |-> None]
    /\ restricted = {}
    /\ requests = [r \in Requests |-> None]
    /\ approvals = [r \in Requests |-> {}]
    /\ calls = [c \in Calls |-> NoCall]
    /\ scan = Unread

Approve(c) ==
    \/ \E r \in Requests, admin \in Admins : ApproveRead(c, r, admin)
    \/ ApproveAdd(c)
    \/ ApprovePost(c)
    \/ ApproveMark(c)
    \/ ApproveAbort(c)

Next ==
    \/ \E k \in Keys, kind \in Kinds \ {"ADJUST"}, u \in Users, p \in Points :
           Post(k, kind, u, p)
    \/ \E r \in Requests, u \in Users, p \in SignedPoints, admin \in Admins :
           RequestAdjustment(r, u, p, admin)
    \/ \E c \in Calls : Approve(c)
    \/ ReadAccounts
    \/ ReadSnapshots
    \/ ReadEntries
    \/ RecordReconciliation
    \/ \E a \in Accounts, d \in Drifts : SnapshotDrift(a, d)

Spec == Init /\ [][Next]_vars

-----------------------------------------------------------------------------
(* Correctness.                                                            *)

TypeOK ==
    /\ journal \in [Accounts -> Int]
    /\ snapshot \in [Accounts -> Int]
    /\ drift \in [Accounts -> Int]
    /\ ledger \in [BusinessKeys -> Transactions \cup {None}]
    /\ restricted \subseteq Users \cup {Everyone}
    /\ requests \in [Requests -> AdjustmentRecords \cup {None}]
    /\ approvals \in [Requests -> SUBSET Approvers]
    /\ calls \in [Calls -> CallRecords]
    /\ scan \in [accounts  : SUBSET Accounts,
                 snapshots : [Accounts -> Int] \cup {None},
                 entries   : [Accounts -> Int] \cup {None}]

\* A balance is the sum of its entries and of nothing else that the service
\* did (BalanceSnapshot is updated in the transaction that creates entries).
SnapshotsExplained == \A a \in Accounts : snapshot[a] = journal[a] + drift[a]

\* No user spends points twice: neither the available nor the frozen balance
\* is ever negative, whatever commands compete (runbook wallet-payment 1).
NoOverdraft == \A a \in Accounts : a[1] \in UserKinds => snapshot[a] >= 0

\* The entries of an account are exactly those of the transactions under
\* distinct business keys, and the whole ledger sums to zero: no retry or
\* duplicate of a command has left an entry of its own (runbook 8).
Delta(tx, a) == Entered([b \in Accounts |-> 0], tx)[a]

LedgerExplainsEntries ==
    /\ \A a \in Accounts :
           journal[a] = MapThenSumSet(LAMBDA k : Delta(ledger[k], a), PostedTransactions)
    /\ MapThenSumSet(LAMBDA a : journal[a], Accounts) = 0

\* An adjustment that reached the ledger is the one requested, and two
\* approvers other than its requester had approved it, however their calls
\* interleave or are cut short (AdjustmentService.approve).
DualApproved(r) ==
    /\ requests[r] # None
    /\ ledger[r] = AdjustmentOf(r)
    /\ \E a, b \in approvals[r] \ {requests[r].requestedBy} : a # b

AdjustmentsDualApproved == \A r \in Requests : ledger[r] # None => DualApproved(r)

\* Ledger facts are append-only, and a balance only moves with the one fact
\* that explains it or by damage from outside.
LedgerAppendOnly ==
    [][ /\ \A k \in PostedTransactions : ledger'[k] = ledger[k]
        /\ journal' # journal => \E k \in BusinessKeys \ PostedTransactions :
               ledger'[k] # None /\ journal' = Entered(journal, ledger'[k]) ]_vars

\* From the moment a reconciliation blocks a wallet its frozen points stay
\* where they are and its available points only move by an adjustment that
\* two administrators approved (postInTransaction's restriction check).
BlockedFundsStay ==
    [][\A u \in Users : restricted \cap {u, Everyone} # {} =>
          /\ journal'[<<"USER_FROZEN", u>>] = journal[<<"USER_FROZEN", u>>]
          /\ journal'[<<"USER_AVAILABLE", u>>] # journal[<<"USER_AVAILABLE", u>>] =>
                 \E r \in Requests : ledger[r] = None /\ DualApproved(r)']_vars

\* While nothing damages a snapshot, the ledger is the exactly-once accounts
\* of PointsAccounts: a user's balances move once per business key, by what
\* the command says, and are never overdrawn.
Promise == INSTANCE PointsAccounts WITH
    Commands  <- BusinessKeys,
    available <- [u \in Users |-> snapshot[<<"USER_AVAILABLE", u>>]],
    frozen    <- [u \in Users |-> snapshot[<<"USER_FROZEN", u>>]],
    done      <- ledger

KeepsPromise == Promise!Spec

\* runbook wallet-payment 5: a wallet is blocked when its snapshot differs
\* from the sum of its entries.
BlockedOnlyWhenDamaged ==
    \A o \in restricted : \E a \in Accounts : RestrictionOf(a[2]) = o /\ drift[a] # 0
=============================================================================
