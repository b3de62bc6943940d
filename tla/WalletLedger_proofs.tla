------------------------ MODULE WalletLedger_proofs -------------------------
(***************************************************************************)
(* What holds of WalletLedger for every set of users, keys, amounts,       *)
(* administrators and concurrent calls.                                    *)
(***************************************************************************)
EXTENDS WalletLedger, FiniteSetTheorems, WellFoundedInduction, TLAPS

-----------------------------------------------------------------------------
(* Accounts and entries.                                                   *)

\* Both entries of a transaction are on accounts of the ledger.
LEMMA EntriesOnAccounts ==
    ASSUME NEW tx \in Transactions
    PROVE  Debited(tx) \in Accounts /\ Credited(tx) \in Accounts
BY DEF Transactions, Kinds, Debited, Credited, DebitKind, CreditKind, Account,
       Accounts, UserKinds, PlatformKinds

\* Amounts, and amounts taken away, are integers.
LEMMA PointsOfTransactions ==
    /\ \A p \in SignedPoints : p \in Int
    /\ \A tx \in Transactions : tx.points \in Int
<1>1. ASSUME NEW p \in SignedPoints PROVE p \in Int
  <2>1. CASE p \in Points
    BY <2>1, PointsAssumption
  <2>2. CASE \E q \in Points : p = -q
    BY <2>2, PointsAssumption
  <2> QED
    BY <2>1, <2>2 DEF SignedPoints
<1>2. ASSUME NEW tx \in Transactions PROVE tx.points \in SignedPoints
  BY DEF Transactions
<1> QED
  BY <1>1, <1>2

\* Entering a transaction keeps integer balances on the same accounts.
LEMMA EnteredType ==
    ASSUME NEW tx \in Transactions, NEW b \in [Accounts -> Int]
    PROVE  Entered(b, tx) \in [Accounts -> Int]
<1>1. tx.points \in Int
  BY PointsOfTransactions
<1> QED
  BY <1>1, EntriesOnAccounts DEF Entered

\* Balances that differ by d still differ by d once both enter a transaction.
LEMMA EnteredKeepsDifference ==
    ASSUME NEW tx \in Transactions, NEW b \in [Accounts -> Int],
           NEW c \in [Accounts -> Int], NEW d \in [Accounts -> Int],
           \A a \in Accounts : b[a] = c[a] + d[a]
    PROVE  \A a \in Accounts : Entered(b, tx)[a] = Entered(c, tx)[a] + d[a]
<1>1. tx.points \in Int
  BY PointsOfTransactions
<1> QED
  BY <1>1, EntriesOnAccounts DEF Entered

\* Only the debited and the credited account change.
LEMMA EnteredElsewhere ==
    ASSUME NEW tx \in Transactions, NEW b \in [Accounts -> Int],
           NEW a \in Accounts \ {Debited(tx), Credited(tx)}
    PROVE  Entered(b, tx)[a] = b[a]
BY EntriesOnAccounts DEF Entered

-----------------------------------------------------------------------------
(* Types.                                                                  *)

\* A posting keeps every balance, and the ledger, well typed.
LEMMA CommitType ==
    ASSUME TypeOK, NEW key \in BusinessKeys, NEW tx \in Transactions, Commit(key, tx)
    PROVE  /\ journal' \in [Accounts -> Int]
           /\ snapshot' \in [Accounts -> Int]
           /\ drift' \in [Accounts -> Int]
           /\ ledger' \in [BusinessKeys -> Transactions \cup {None}]
BY EnteredType DEF TypeOK, Commit

\* What a posting opened is an account of the ledger.
LEMMA OpenedAreAccounts ==
    ASSUME TypeOK
    PROVE  Opened \subseteq Accounts
<1>1. \A k \in PostedTransactions : ledger[k] \in Transactions
  BY DEF TypeOK, PostedTransactions
<1> QED
  BY <1>1, EntriesOnAccounts DEF Opened

\* The adjustment of a request is a transaction.
LEMMA AdjustmentType ==
    ASSUME TypeOK, NEW r \in Requests, requests[r] # None
    PROVE  AdjustmentOf(r) \in Transactions
<1>1. requests[r] \in AdjustmentRecords
  BY DEF TypeOK
<1> QED
  BY <1>1 DEF AdjustmentOf, AdjustmentRecords, Transactions, Kinds

\* TypeOK is not inductive alone: an approval under way must have a request.
RunningCallsHaveRequest ==
    \A c \in Calls : calls[c] # NoCall => requests[calls[c].request] # None

Typing == TypeOK /\ RunningCallsHaveRequest

\* A call that is not idle has a stage, a request and an authorised admin.
LEMMA RunningCall ==
    ASSUME Typing, NEW c \in Calls, calls[c] # NoCall
    PROVE  /\ calls[c] \in [stage : {"authorized", "approved", "posted"},
                            request : Requests, admin : Approvers]
           /\ calls[c].request \in Requests
           /\ calls[c].admin \in Approvers
           /\ requests[calls[c].request] # None
           /\ requests[calls[c].request] \in AdjustmentRecords
BY DEF Typing, TypeOK, RunningCallsHaveRequest, CallRecords

\* A call with a stage is not idle.
LEMMA StagedCall ==
    ASSUME NEW c \in Calls, calls[c].stage \in {"authorized", "approved", "posted"}
    PROVE  calls[c] # NoCall
BY DEF NoCall

\* Types are kept, and requests are never withdrawn from under a call.
LEMMA TypingInvariant == Spec => []Typing
<1>1. Init => Typing
  BY DEF Init, Typing, TypeOK, RunningCallsHaveRequest, CallRecords, Unread
<1>2. Typing /\ [Next]_vars => Typing'
  <2> SUFFICES ASSUME Typing, [Next]_vars PROVE Typing'
    OBVIOUS
  <2> USE DEF Typing, RunningCallsHaveRequest
  <2>1. ASSUME NEW k \in Keys, NEW kind \in Kinds \ {"ADJUST"}, NEW u \in Users,
               NEW p \in Points, Post(k, kind, u, p)
        PROVE  Typing'
    <3> DEFINE tx == [kind |-> kind, user |-> u, points |-> p]
    <3>1. tx \in Transactions
      BY PointsAssumption DEF Transactions, SignedPoints
    <3>2. k \in BusinessKeys /\ Commit(k, tx)
      BY <2>1 DEF Post, BusinessKeys
    <3> QED
      BY <2>1, <3>1, <3>2, CommitType DEF Post, TypeOK, adjustVars
  <2>2. ASSUME NEW r \in Requests, NEW u \in Users, NEW p \in SignedPoints,
               NEW admin \in Admins, RequestAdjustment(r, u, p, admin)
        PROVE  Typing'
    <3> QED
      BY <2>2 DEF RequestAdjustment, TypeOK, AdjustmentRecords, walletVars
  <2>3. ASSUME NEW c \in Calls, NEW r \in Requests, NEW admin \in Admins,
               ApproveRead(c, r, admin)
        PROVE  Typing'
    BY <2>3 DEF ApproveRead, TypeOK, CallRecords, walletVars
  <2>4. ASSUME NEW c \in Calls, ApproveAdd(c)
        PROVE  Typing'
    <3>1. calls[c] # NoCall
      BY <2>4, StagedCall DEF ApproveAdd
    <3>2. approvals' \in [Requests -> SUBSET Approvers]
      BY <2>4, <3>1, RunningCall DEF ApproveAdd, TypeOK
    <3>3. \/ calls' = [calls EXCEPT ![c] = NoCall]
          \/ calls' = [calls EXCEPT ![c] = [@ EXCEPT !.stage = "approved"]]
      BY <2>4 DEF ApproveAdd
    <3>4. [calls[c] EXCEPT !.stage = "approved"] \in CallRecords
      BY <3>1, RunningCall DEF CallRecords
    <3>5. calls' \in [Calls -> CallRecords]
      BY <3>3, <3>4 DEF TypeOK, CallRecords
    <3> QED
      BY <2>4, <3>1, <3>2, <3>3, <3>5, RunningCall DEF ApproveAdd, TypeOK, walletVars
  <2>5. ASSUME NEW c \in Calls, ApprovePost(c)
        PROVE  Typing'
    <3> DEFINE r == calls[c].request
    <3>1. calls[c] # NoCall /\ r \in Requests /\ AdjustmentOf(r) \in Transactions
      BY <2>5, StagedCall, RunningCall, AdjustmentType DEF ApprovePost
    <3>2. /\ journal' \in [Accounts -> Int]
          /\ snapshot' \in [Accounts -> Int]
          /\ drift' \in [Accounts -> Int]
          /\ ledger' \in [BusinessKeys -> Transactions \cup {None}]
      <4>1. CASE Commit(r, AdjustmentOf(r))
        BY <3>1, <4>1, CommitType DEF BusinessKeys
      <4>2. CASE UNCHANGED walletVars
        BY <4>2 DEF TypeOK, walletVars
      <4> QED
        BY <2>5, <4>1, <4>2 DEF ApprovePost
    <3>3. calls' = [calls EXCEPT ![c] = [@ EXCEPT !.stage = "posted"]]
      BY <2>5 DEF ApprovePost
    <3>4. [calls[c] EXCEPT !.stage = "posted"] \in CallRecords
      BY <3>1, RunningCall DEF CallRecords
    <3> QED
      BY <2>5, <3>1, <3>2, <3>3, <3>4, RunningCall DEF ApprovePost, TypeOK
  <2>6. ASSUME NEW c \in Calls, ApproveMark(c)
        PROVE  Typing'
    <3> DEFINE r == calls[c].request
    <3>1. calls[c] # NoCall /\ r \in Requests /\ requests[r] \in AdjustmentRecords
      BY <2>6, StagedCall, RunningCall DEF ApproveMark
    <3>2. requests'[r] \in AdjustmentRecords
      BY <2>6, <3>1 DEF ApproveMark, AdjustmentRecords, TypeOK
    <3>3. /\ requests' \in [Requests -> AdjustmentRecords \cup {None}]
          /\ \A q \in Requests : requests[q] # None => requests'[q] # None
      BY <2>6, <3>1, <3>2, NoneAssumption DEF ApproveMark, TypeOK
    <3>4. calls' = [calls EXCEPT ![c] = NoCall]
      BY <2>6 DEF ApproveMark
    <3> QED
      BY <2>6, <3>3, <3>4, RunningCall DEF ApproveMark, TypeOK, CallRecords, walletVars
  <2>7. ASSUME NEW c \in Calls, ApproveAbort(c)
        PROVE  Typing'
    BY <2>7 DEF ApproveAbort, TypeOK, CallRecords, walletVars
  <2>8. CASE ReadAccounts
    BY <2>8, OpenedAreAccounts DEF ReadAccounts, TypeOK, walletVars, adjustVars
  <2>9. CASE ReadSnapshots \/ ReadEntries
    BY <2>9 DEF ReadSnapshots, ReadEntries, TypeOK, walletVars, adjustVars
  <2>10. CASE RecordReconciliation
    BY <2>10 DEF RecordReconciliation, TypeOK, walletVars, adjustVars, Unread,
                 RestrictionOf, Mismatched, Accounts
  <2>11. ASSUME NEW a \in Accounts, NEW d \in Drifts, SnapshotDrift(a, d)
         PROVE  Typing'
    BY <2>11, DriftsAssumption DEF SnapshotDrift, TypeOK, adjustVars
  <2>12. CASE UNCHANGED vars
    BY <2>12 DEF vars, walletVars, adjustVars, TypeOK
  <2> QED
    BY <2>1, <2>2, <2>3, <2>4, <2>5, <2>6, <2>7, <2>8, <2>9, <2>10, <2>11, <2>12
       DEF Next, Approve
<1> QED
  BY <1>1, <1>2, PTL DEF Spec

\* Every part of the wallet's state stays in its type.
THEOREM TypeCorrect == Spec => []TypeOK
<1>1. Typing => TypeOK
  BY DEF Typing
<1> QED
  BY <1>1, TypingInvariant, PTL

-----------------------------------------------------------------------------
(* Balances.                                                               *)

\* Only a posting, the posting of an adjustment and damage from outside
\* touch the balances and the ledger.
LEMMA StepsOfTheLedger ==
    ASSUME Typing, [Next]_vars
    PROVE  \/ \E k \in BusinessKeys, tx \in Transactions :
                  /\ tx.kind = "ADJUST" => k \in Requests
                  /\ tx.kind # "ADJUST" => tx.points \in Points
                  /\ CanPost(k, tx) /\ Commit(k, tx)
           \/ \E a \in Accounts, d \in Drifts : SnapshotDrift(a, d)
           \/ UNCHANGED walletVars
<1>1. ASSUME NEW k \in Keys, NEW kind \in Kinds \ {"ADJUST"}, NEW u \in Users,
             NEW p \in Points, Post(k, kind, u, p)
      PROVE  \E key \in BusinessKeys, tx \in Transactions :
                 /\ tx.kind = "ADJUST" => key \in Requests
                 /\ tx.kind # "ADJUST" => tx.points \in Points
                 /\ CanPost(key, tx) /\ Commit(key, tx)
  <2> DEFINE tx == [kind |-> kind, user |-> u, points |-> p]
  <2>1. tx \in Transactions /\ k \in BusinessKeys
    BY PointsAssumption DEF Transactions, SignedPoints, BusinessKeys
  <2>2. tx.kind # "ADJUST" /\ CanPost(k, tx) /\ Commit(k, tx)
    BY <1>1 DEF Post
  <2> QED
    BY <2>1, <2>2
<1>2. ASSUME NEW c \in Calls, ApprovePost(c)
      PROVE  \/ \E k \in BusinessKeys, tx \in Transactions :
                    /\ tx.kind = "ADJUST" => k \in Requests
                    /\ tx.kind # "ADJUST" => tx.points \in Points
                    /\ CanPost(k, tx) /\ Commit(k, tx)
             \/ UNCHANGED walletVars
  <2> DEFINE r == calls[c].request
  <2>1. r \in Requests /\ r \in BusinessKeys /\ AdjustmentOf(r) \in Transactions
    BY <1>2, StagedCall, RunningCall, AdjustmentType DEF ApprovePost, BusinessKeys, Typing
  <2>2. \/ CanPost(r, AdjustmentOf(r)) /\ Commit(r, AdjustmentOf(r))
        \/ UNCHANGED walletVars
    BY <1>2 DEF ApprovePost
  <2>3. AdjustmentOf(r).kind = "ADJUST"
    BY DEF AdjustmentOf
  <2> QED
    BY <2>1, <2>2, <2>3
<1> QED
  BY <1>1, <1>2 DEF Next, Approve, RequestAdjustment, ApproveRead, ApproveAdd, ApproveMark,
     ApproveAbort, ReadAccounts, ReadSnapshots, ReadEntries, RecordReconciliation, vars

\* Posting keeps a snapshot equal to its entries, and user balances covered.
LEMMA CommitKeepsBalances ==
    ASSUME TypeOK, SnapshotsExplained, NoOverdraft,
           NEW k \in BusinessKeys, NEW tx \in Transactions,
           CanPost(k, tx), Commit(k, tx)
    PROVE  SnapshotsExplained' /\ NoOverdraft'
<1>1. SnapshotsExplained'
  BY EnteredKeepsDifference DEF SnapshotsExplained, Commit, TypeOK
<1>2. NoOverdraft'
  <2> SUFFICES ASSUME NEW a \in Accounts, a[1] \in UserKinds
               PROVE  Entered(snapshot, tx)[a] >= 0
    BY DEF NoOverdraft, Commit
  <2>1. CASE a \in {Debited(tx), Credited(tx)}
    BY <2>1 DEF CanPost, Covered
  <2>2. CASE a \notin {Debited(tx), Credited(tx)}
    BY <2>2, EnteredElsewhere DEF NoOverdraft, TypeOK
  <2> QED
    BY <2>1, <2>2
<1> QED
  BY <1>1, <1>2

\* A snapshot is explained by its entries and damage from outside, and no
\* user's available or frozen points are ever overdrawn.
THEOREM BalancesCorrect == Spec => [](SnapshotsExplained /\ NoOverdraft)
<1> DEFINE Balanced == SnapshotsExplained /\ NoOverdraft
<1>1. Init => Balanced
  BY DEF Init, SnapshotsExplained, NoOverdraft
<1>2. Balanced /\ Typing /\ [Next]_vars => Balanced'
  <2> SUFFICES ASSUME Balanced, Typing, [Next]_vars PROVE Balanced'
    OBVIOUS
  <2>1. ASSUME NEW k \in BusinessKeys, NEW tx \in Transactions,
               CanPost(k, tx), Commit(k, tx)
        PROVE  Balanced'
    BY <2>1, CommitKeepsBalances DEF Typing
  <2>2. ASSUME NEW a \in Accounts, NEW d \in Drifts, SnapshotDrift(a, d)
        PROVE  Balanced'
    BY <2>2, DriftsAssumption
       DEF SnapshotDrift, SnapshotsExplained, NoOverdraft, Typing, TypeOK
  <2>3. CASE UNCHANGED walletVars
    BY <2>3 DEF walletVars, SnapshotsExplained, NoOverdraft
  <2> QED
    BY <2>1, <2>2, <2>3, StepsOfTheLedger
<1> QED
  BY <1>1, <1>2, TypingInvariant, PTL DEF Spec

\* A posted transaction is never changed or dropped, and entries appear only
\* with the new transaction that explains them.
THEOREM LedgerIsAppendOnly == Spec => LedgerAppendOnly
<1>1. Typing /\ [Next]_vars =>
        /\ \A k \in PostedTransactions : ledger'[k] = ledger[k]
        /\ journal' # journal => \E k \in BusinessKeys \ PostedTransactions :
               ledger'[k] # None /\ journal' = Entered(journal, ledger'[k])
  <2> SUFFICES ASSUME Typing, [Next]_vars
               PROVE  /\ \A k \in PostedTransactions : ledger'[k] = ledger[k]
                      /\ journal' # journal => \E k \in BusinessKeys \ PostedTransactions :
                             ledger'[k] # None /\ journal' = Entered(journal, ledger'[k])
    OBVIOUS
  <2>1. ASSUME NEW k \in BusinessKeys, NEW tx \in Transactions,
               CanPost(k, tx), Commit(k, tx)
        PROVE  /\ \A j \in PostedTransactions : ledger'[j] = ledger[j]
               /\ k \notin PostedTransactions
               /\ ledger'[k] # None /\ journal' = Entered(journal, ledger'[k])
    BY <2>1, NoneAssumption DEF CanPost, Fresh, Commit, PostedTransactions, Typing, TypeOK
  <2>2. ASSUME NEW a \in Accounts, NEW d \in Drifts, SnapshotDrift(a, d)
        PROVE  UNCHANGED <<journal, ledger>>
    BY <2>2 DEF SnapshotDrift
  <2>3. ASSUME UNCHANGED walletVars
        PROVE  UNCHANGED <<journal, ledger>>
    BY <2>3 DEF walletVars
  <2> QED
    BY <2>1, <2>2, <2>3, StepsOfTheLedger
<1> QED
  BY <1>1, TypingInvariant, PTL DEF Spec, LedgerAppendOnly

-----------------------------------------------------------------------------
(* Dual approval.                                                          *)

\* Two different administrators, neither of them the requester, approved r.
TwoApproved(r) ==
    \E a, b \in approvals[r] \ {requests[r].requestedBy} : a # b

\* The requester of r is not among its approvers, a request nobody made has
\* neither, and only an approved request has its transaction.
RequestsInOrder ==
    \A r \in Requests :
        /\ IsFiniteSet(approvals[r])
        /\ requests[r] = None => approvals[r] = {}
        /\ requests[r] # None => requests[r].requestedBy \notin approvals[r]
        /\ ledger[r] # None => DualApproved(r)

\* A call past its checks is not the requester's, and past its approval it
\* knows that two approvals are stored.
CallsInOrder ==
    \A c \in Calls, r \in Requests : calls[c] # NoCall /\ calls[c].request = r =>
        /\ calls[c].admin # requests[r].requestedBy
        /\ calls[c].stage \in {"approved", "posted"} => TwoApproved(r)

DualInv == RequestsInOrder /\ CallsInOrder

\* A finite set that does not have fewer than two members has two.
LEMMA TwoMembers ==
    ASSUME NEW S, IsFiniteSet(S), ~(Cardinality(S) < 2)
    PROVE  \E a, b \in S : a # b
<1>1. S # {}
  BY FS_EmptySet
<1>2. PICK a \in S : TRUE
  BY <1>1
<1>3. S # {a}
  BY FS_Singleton
<1> QED
  BY <1>2, <1>3

\* What a step leaves of a request that exists: who made it and for what.
LEMMA RequestsKept ==
    ASSUME Typing, [Next]_vars, NEW r \in Requests, requests[r] # None
    PROVE  /\ requests'[r] # None
           /\ requests'[r].requestedBy = requests[r].requestedBy
           /\ AdjustmentOf(r)' = AdjustmentOf(r)
<1>1. ASSUME NEW q \in Requests, NEW u \in Users, NEW p \in SignedPoints,
             NEW admin \in Admins, RequestAdjustment(q, u, p, admin)
      PROVE  requests'[r] = requests[r]
  BY <1>1 DEF RequestAdjustment, Typing, TypeOK
<1>2. ASSUME NEW c \in Calls, ApproveMark(c)
      PROVE  /\ requests'[r] # None
             /\ requests'[r].requestedBy = requests[r].requestedBy
             /\ requests'[r].user = requests[r].user
             /\ requests'[r].points = requests[r].points
  <2>1. requests[r] \in AdjustmentRecords
    BY DEF Typing, TypeOK
  <2>2. /\ requests'[r] \in AdjustmentRecords
        /\ requests'[r].requestedBy = requests[r].requestedBy
        /\ requests'[r].user = requests[r].user
        /\ requests'[r].points = requests[r].points
    BY <1>2, <2>1, StagedCall, RunningCall DEF ApproveMark, AdjustmentRecords, Typing, TypeOK
  <2> QED
    BY <2>2, NoneAssumption
<1>3. \/ \E q \in Requests, u \in Users, p \in SignedPoints, admin \in Admins :
            RequestAdjustment(q, u, p, admin)
      \/ \E c \in Calls : ApproveMark(c)
      \/ requests' = requests
  BY DEF Next, Approve, Post, ApproveRead, ApproveAdd, ApprovePost,
     ApproveAbort, ReadAccounts, ReadSnapshots, ReadEntries, RecordReconciliation,
     SnapshotDrift, vars, adjustVars
<1>4. /\ requests'[r] # None
      /\ requests'[r].requestedBy = requests[r].requestedBy
      /\ requests'[r].user = requests[r].user
      /\ requests'[r].points = requests[r].points
  BY <1>1, <1>2, <1>3
<1> QED
  BY <1>4 DEF AdjustmentOf

\* Posting anything but r's own transaction leaves r's transaction alone.
LEMMA LedgerOfRequests ==
    ASSUME Typing, [Next]_vars, NEW r \in Requests
    PROVE  \/ ledger'[r] = ledger[r]
           \/ /\ ledger'[r] = AdjustmentOf(r)
              /\ \E c \in Calls : /\ calls[c] # NoCall
                                  /\ calls[c].stage = "approved"
                                  /\ calls[c].request = r
<1>1. ASSUME NEW k \in Keys, NEW kind \in Kinds \ {"ADJUST"}, NEW u \in Users,
             NEW p \in Points, Post(k, kind, u, p)
      PROVE  ledger'[r] = ledger[r]
  BY <1>1, KeysAssumption DEF Post, Commit, Typing, TypeOK, BusinessKeys
<1>2. ASSUME NEW c \in Calls, ApprovePost(c)
      PROVE  \/ ledger'[r] = ledger[r]
             \/ /\ ledger'[r] = AdjustmentOf(r)
                /\ calls[c] # NoCall /\ calls[c].stage = "approved" /\ calls[c].request = r
  BY <1>2, StagedCall DEF ApprovePost, Commit, walletVars, Typing, TypeOK, BusinessKeys
<1>3. \/ \E k \in Keys, kind \in Kinds \ {"ADJUST"}, u \in Users, p \in Points :
            Post(k, kind, u, p)
      \/ \E c \in Calls : ApprovePost(c)
      \/ ledger' = ledger
  BY DEF Next, Approve, RequestAdjustment, ApproveRead, ApproveAdd, ApproveMark,
     ApproveAbort, ReadAccounts, ReadSnapshots, ReadEntries, RecordReconciliation, SnapshotDrift,
     vars, walletVars
<1> QED
  BY <1>1, <1>2, <1>3

\* How approvals grow: by an authorised call's admin, which may then go on.
LEMMA ApprovalsOfRequests ==
    ASSUME Typing, [Next]_vars, NEW r \in Requests
    PROVE  \/ approvals'[r] = approvals[r]
           \/ \E c \in Calls : /\ calls[c] # NoCall
                               /\ calls[c].request = r
                               /\ approvals'[r] = approvals[r] \cup {calls[c].admin}
<1>1. ASSUME NEW c \in Calls, ApproveAdd(c)
      PROVE  \/ approvals'[r] = approvals[r]
             \/ /\ calls[c] # NoCall /\ calls[c].request = r
                /\ approvals'[r] = approvals[r] \cup {calls[c].admin}
  BY <1>1, StagedCall, RunningCall DEF ApproveAdd, Typing, TypeOK
<1>2. (\E c \in Calls : ApproveAdd(c)) \/ approvals' = approvals
  BY DEF Next, Approve, Post, RequestAdjustment, ApproveRead, ApprovePost, ApproveMark,
     ApproveAbort, ReadAccounts, ReadSnapshots, ReadEntries, RecordReconciliation, SnapshotDrift,
     vars, adjustVars
<1> QED
  BY <1>1, <1>2

\* Approvals are only added, and what two of them approved stays approved.
LEMMA TwoApprovedKept ==
    ASSUME Typing, [Next]_vars, NEW r \in Requests, requests[r] # None, TwoApproved(r)
    PROVE  TwoApproved(r)'
<1>1. approvals[r] \subseteq approvals'[r]
  BY ApprovalsOfRequests
<1> QED
  BY <1>1, RequestsKept DEF TwoApproved

\* How a call that is still running after a step came to be where it is.
LEMMA StepsOfACall ==
    ASSUME Typing, [Next]_vars, NEW c \in Calls, calls'[c] # NoCall
    PROVE  \/ calls'[c] = calls[c]
           \/ \E r \in Requests, admin \in Admins : ApproveRead(c, r, admin)
           \/ ApproveAdd(c)
           \/ ApprovePost(c)
<1>1. ASSUME NEW d \in Calls, d # c, Approve(d)
      PROVE  calls'[c] = calls[c]
  BY <1>1 DEF Approve, ApproveRead, ApproveAdd, ApprovePost, ApproveMark, ApproveAbort,
     Typing, TypeOK
<1>2. ASSUME Approve(c)
      PROVE  \/ \E r \in Requests, admin \in Admins : ApproveRead(c, r, admin)
             \/ ApproveAdd(c)
             \/ ApprovePost(c)
  BY <1>2 DEF Approve, ApproveMark, ApproveAbort, Typing, TypeOK
<1>3. (\E d \in Calls : Approve(d)) \/ calls' = calls
  BY DEF Next, Post, RequestAdjustment, ReadAccounts, ReadSnapshots, ReadEntries,
     RecordReconciliation, SnapshotDrift, vars, adjustVars
<1> QED
  BY <1>1, <1>2, <1>3

\* Requests and calls stay in order whatever the calls' interleaving.
LEMMA DualInvariant == Spec => []DualInv
<1>1. Init => DualInv
  BY FS_EmptySet DEF Init, DualInv, RequestsInOrder, CallsInOrder, BusinessKeys
<1>2. DualInv /\ Typing /\ [Next]_vars => DualInv'
  <2> SUFFICES ASSUME DualInv, Typing, [Next]_vars PROVE DualInv'
    OBVIOUS
  <2>1. RequestsInOrder'
    <3> SUFFICES ASSUME NEW r \in Requests
                 PROVE  /\ IsFiniteSet(approvals'[r])
                        /\ requests'[r] = None => approvals'[r] = {}
                        /\ requests'[r] # None => requests'[r].requestedBy \notin approvals'[r]
                        /\ ledger'[r] # None => DualApproved(r)'
      BY DEF RequestsInOrder
    <3>1. IsFiniteSet(approvals'[r])
      <4>1. IsFiniteSet(approvals[r])
        BY DEF DualInv, RequestsInOrder
      <4>2. \A e : IsFiniteSet(approvals[r] \cup {e})
        BY <4>1, FS_AddElement
      <4>3. \/ approvals'[r] = approvals[r]
            \/ \E e : approvals'[r] = approvals[r] \cup {e}
        BY ApprovalsOfRequests
      <4> QED
        BY <4>1, <4>2, <4>3
    <3>2. CASE requests[r] = None
      <4>1. approvals'[r] = {}
        BY <3>2, ApprovalsOfRequests, RunningCall DEF DualInv, RequestsInOrder
      <4>2. ledger'[r] = None
        BY <3>2, LedgerOfRequests, RunningCall
           DEF DualInv, RequestsInOrder, DualApproved
      <4> QED
        BY <3>1, <4>1, <4>2
    <3>3. CASE requests[r] # None
      <4>1. requests'[r].requestedBy \notin approvals'[r]
        BY <3>3, RequestsKept, ApprovalsOfRequests DEF DualInv, RequestsInOrder, CallsInOrder
      <4>2. ledger'[r] # None => TwoApproved(r) /\ ledger'[r] = AdjustmentOf(r)
        BY LedgerOfRequests DEF DualInv, RequestsInOrder, CallsInOrder, DualApproved, TwoApproved
      <4>3. ledger'[r] # None => DualApproved(r)'
        BY <3>3, <4>2, RequestsKept, TwoApprovedKept DEF DualApproved, TwoApproved
      <4> QED
        BY <3>1, <3>3, <4>1, <4>3, RequestsKept
    <3> QED
      BY <3>2, <3>3
  <2>2. CallsInOrder'
    <3> SUFFICES ASSUME NEW c \in Calls, NEW r \in Requests,
                        calls'[c] # NoCall, calls'[c].request = r
                 PROVE  /\ calls'[c].admin # requests'[r].requestedBy
                        /\ calls'[c].stage \in {"approved", "posted"} => TwoApproved(r)'
      BY DEF CallsInOrder
    <3>1. CASE calls'[c] = calls[c]
      BY <3>1, RunningCall, RequestsKept, TwoApprovedKept DEF DualInv, CallsInOrder
    <3>2. ASSUME NEW q \in Requests, NEW admin \in Admins, ApproveRead(c, q, admin)
          PROVE  /\ calls'[c].stage = "authorized"
                 /\ calls'[c].admin # requests'[r].requestedBy
      BY <3>2 DEF ApproveRead, Typing, TypeOK
    <3>3. ASSUME ApproveAdd(c)
          PROVE  calls'[c].admin # requests'[r].requestedBy /\ TwoApproved(r)'
      <4>1. calls[c] # NoCall
        BY <3>3, StagedCall DEF ApproveAdd
      <4>2. /\ calls[c].request = r /\ calls'[c].admin = calls[c].admin
            /\ approvals'[r] = approvals[r] \cup {calls[c].admin}
            /\ ~(Cardinality(approvals'[r]) < 2)
            /\ requests' = requests
        BY <3>3, <4>1, RunningCall DEF ApproveAdd, Typing, TypeOK
      <4>3. PICK a \in approvals'[r], b \in approvals'[r] : a # b
        BY <2>1, <4>2, TwoMembers DEF RequestsInOrder
      <4>4. requests'[r] # None /\ requests'[r].requestedBy \notin approvals'[r]
        BY <2>1, <4>1, <4>2, RunningCall DEF RequestsInOrder
      <4> QED
        BY <4>1, <4>2, <4>3, <4>4 DEF TwoApproved, DualInv, CallsInOrder
    <3>4. ASSUME ApprovePost(c)
          PROVE  calls'[c].admin # requests'[r].requestedBy /\ TwoApproved(r)'
      <4>1. calls[c] # NoCall /\ calls[c].stage = "approved"
        BY <3>4, StagedCall DEF ApprovePost
      <4>2. calls[c].request = r /\ calls'[c].admin = calls[c].admin
        BY <3>4, <4>1, RunningCall DEF ApprovePost, Typing, TypeOK
      <4> QED
        BY <4>1, <4>2, RunningCall, RequestsKept, TwoApprovedKept DEF DualInv, CallsInOrder
    <3> QED
      BY <3>1, <3>2, <3>3, <3>4, StepsOfACall
  <2> QED
    BY <2>1, <2>2 DEF DualInv
<1> QED
  BY <1>1, <1>2, TypingInvariant, PTL DEF Spec

\* An adjustment in the ledger is the requested one, approved by two others.
THEOREM AdjustmentsNeedTwo == Spec => []AdjustmentsDualApproved
<1>1. DualInv => AdjustmentsDualApproved
  BY DEF DualInv, RequestsInOrder, AdjustmentsDualApproved
<1> QED
  BY <1>1, DualInvariant, PTL

-----------------------------------------------------------------------------
(* Blocked wallets.                                                        *)

Blocked(u) == restricted \cap {u, Everyone} # {}

\* What a posting may do to the points of a blocked user: nothing, or adjust
\* the available ones.
LEMMA PostingToBlocked ==
    ASSUME TypeOK, NEW k \in BusinessKeys, NEW tx \in Transactions,
           CanPost(k, tx), Commit(k, tx), NEW u \in Users, Blocked(u)
    PROVE  /\ journal'[<<"USER_FROZEN", u>>] = journal[<<"USER_FROZEN", u>>]
           /\ journal'[<<"USER_AVAILABLE", u>>] # journal[<<"USER_AVAILABLE", u>>]
                  => tx.kind = "ADJUST"
<1> DEFINE af == <<"USER_FROZEN", u>>
           av == <<"USER_AVAILABLE", u>>
<1>1. af \in Accounts /\ av \in Accounts
  BY DEF Accounts, UserKinds
<1>2. CASE tx.kind = "ADJUST"
  <2>1. Debited(tx)[1] = "ADJUSTMENT" /\ Credited(tx)[1] = "USER_AVAILABLE"
    BY <1>2 DEF Debited, Credited, DebitKind, CreditKind, Account
  <2>2. af \notin {Debited(tx), Credited(tx)}
    BY <2>1
  <2> QED
    BY <1>1, <1>2, <2>2, EnteredElsewhere DEF Commit, TypeOK
<1>3. CASE tx.kind # "ADJUST"
  <2>1. tx.user # u
    BY <1>3 DEF CanPost, Unrestricted, Blocked
  <2>2. Debited(tx)[2] \in {tx.user, Platform} /\ Credited(tx)[2] \in {tx.user, Platform}
    BY DEF Debited, Credited, Account
  <2>3. af \notin {Debited(tx), Credited(tx)} /\ av \notin {Debited(tx), Credited(tx)}
    BY <2>1, <2>2, OwnersAssumption
  <2> QED
    BY <1>1, <2>3, EnteredElsewhere DEF Commit, TypeOK
<1> QED
  BY <1>2, <1>3

\* A blocked user's points only move by an adjustment two admins approved.
THEOREM BlockedStaysBlocked == Spec => BlockedFundsStay
<1>1. Typing /\ DualInv' /\ [Next]_vars =>
        \A u \in Users : restricted \cap {u, Everyone} # {} =>
          /\ journal'[<<"USER_FROZEN", u>>] = journal[<<"USER_FROZEN", u>>]
          /\ journal'[<<"USER_AVAILABLE", u>>] # journal[<<"USER_AVAILABLE", u>>] =>
                 \E r \in Requests : ledger[r] = None /\ DualApproved(r)'
  <2> SUFFICES ASSUME Typing, DualInv', [Next]_vars, NEW u \in Users, Blocked(u)
               PROVE  /\ journal'[<<"USER_FROZEN", u>>] = journal[<<"USER_FROZEN", u>>]
                      /\ journal'[<<"USER_AVAILABLE", u>>] # journal[<<"USER_AVAILABLE", u>>] =>
                             \E r \in Requests : ledger[r] = None /\ DualApproved(r)'
    BY DEF Blocked
  <2>1. ASSUME NEW k \in BusinessKeys, NEW tx \in Transactions,
               tx.kind = "ADJUST" => k \in Requests, CanPost(k, tx), Commit(k, tx)
        PROVE  /\ journal'[<<"USER_FROZEN", u>>] = journal[<<"USER_FROZEN", u>>]
               /\ journal'[<<"USER_AVAILABLE", u>>] # journal[<<"USER_AVAILABLE", u>>] =>
                      \E r \in Requests : ledger[r] = None /\ DualApproved(r)'
    <3>1. tx.kind = "ADJUST" => /\ k \in Requests /\ ledger[k] = None
                                /\ DualApproved(k)'
      BY <2>1, NoneAssumption DEF CanPost, Fresh, Commit, Typing, TypeOK, DualInv, RequestsInOrder
    <3> QED
      BY <2>1, <3>1, PostingToBlocked DEF Typing
  <2>2. ASSUME NEW a \in Accounts, NEW d \in Drifts, SnapshotDrift(a, d)
        PROVE  journal' = journal
    BY <2>2 DEF SnapshotDrift
  <2>3. ASSUME UNCHANGED walletVars
        PROVE  journal' = journal
    BY <2>3 DEF walletVars
  <2> QED
    BY <2>1, <2>2, <2>3, StepsOfTheLedger
<1> QED
  BY <1>1, TypingInvariant, DualInvariant, PTL DEF Spec, BlockedFundsStay

-----------------------------------------------------------------------------
(* The promise to the other services.                                      *)

\* The two accounts of a transaction differ, and what each gains or loses.
LEMMA EnteredAccounts ==
    ASSUME NEW tx \in Transactions, NEW b \in [Accounts -> Int], NEW a \in Accounts
    PROVE  Entered(b, tx)[a] = IF a = Credited(tx) THEN b[a] + tx.points
                               ELSE IF a = Debited(tx) THEN b[a] - tx.points
                               ELSE b[a]
<1>1. Debited(tx) # Credited(tx)
  BY DEF Transactions, Kinds, Debited, Credited, DebitKind, CreditKind, Account
<1>2. tx.points \in Int
  BY PointsOfTransactions
<1> QED
  BY <1>1, <1>2, EntriesOnAccounts DEF Entered

\* A transaction is posted once, as what it is.
LEMMA CommitIsOnce ==
    ASSUME NEW k \in BusinessKeys, NEW tx \in Transactions, CanPost(k, tx), Commit(k, tx)
    PROVE  Promise!Once(k, tx.kind, tx.user, tx.points)
<1>1. tx = [kind |-> tx.kind, user |-> tx.user, points |-> tx.points]
  BY DEF Transactions
<1> QED
  BY <1>1 DEF CanPost, Fresh, Commit, Promise!Once

\* Every posting is one command of the abstract accounts, once.
LEMMA CommitIsACommand ==
    ASSUME TypeOK, NEW k \in BusinessKeys, NEW tx \in Transactions,
           tx.kind # "ADJUST" => tx.points \in Points,
           CanPost(k, tx), Commit(k, tx)
    PROVE  Promise!Next
<1> DEFINE av(u) == <<"USER_AVAILABLE", u>>
           fr(u) == <<"USER_FROZEN", u>>
           user == tx.user
           p == tx.points
           available == [u \in Users |-> snapshot[av(u)]]
           frozen == [u \in Users |-> snapshot[fr(u)]]
<1>1. user \in Users /\ tx.kind \in Kinds /\ p \in SignedPoints /\ p \in Int
  BY PointsOfTransactions DEF Transactions
<1>2. Promise!Once(k, tx.kind, user, p)
  BY CommitIsOnce
<1>3. \A u \in Users : av(u) \in Accounts /\ fr(u) \in Accounts
  BY DEF Accounts, UserKinds
<1>4. \A a \in Accounts : snapshot'[a] = IF a = Credited(tx) THEN snapshot[a] + p
                                        ELSE IF a = Debited(tx) THEN snapshot[a] - p
                                        ELSE snapshot[a]
  BY EnteredAccounts DEF Commit, TypeOK
<1>5. /\ Credited(tx) \in Accounts /\ Debited(tx) \in Accounts
      /\ Credited(tx)[1] \in UserKinds => snapshot'[Credited(tx)] >= 0
      /\ Debited(tx)[1] \in UserKinds => snapshot'[Debited(tx)] >= 0
  BY EntriesOnAccounts DEF CanPost, Covered, Commit
<1>6. /\ snapshot \in [Accounts -> Int]
      /\ \A u \in Users : snapshot[av(u)] \in Int /\ snapshot[fr(u)] \in Int
      /\ available[user] = snapshot[av(user)] /\ frozen[user] = snapshot[fr(user)]
  BY <1>1, <1>3 DEF TypeOK
<1>7. \A u \in Users :
        /\ av(u) = Account("USER_AVAILABLE", user) <=> u = user
        /\ fr(u) = Account("USER_FROZEN", user) <=> u = user
        /\ av(u) # Account("USER_FROZEN", user) /\ fr(u) # Account("USER_AVAILABLE", user)
        /\ \A kind \in PlatformKinds : av(u) # Account(kind, user) /\ fr(u) # Account(kind, user)
  BY <1>1 DEF Account, UserKinds, PlatformKinds
<1>8. CASE tx.kind = "CREDIT" \/ (tx.kind = "ADJUST" /\ p \in Points)
  <2>1. /\ Credited(tx) = Account("USER_AVAILABLE", user)
        /\ \E kind \in PlatformKinds : Debited(tx) = Account(kind, user)
    BY <1>8 DEF Credited, Debited, CreditKind, DebitKind, PlatformKinds
  <2>2. \A u \in Users : /\ snapshot'[av(u)] = IF u = user THEN snapshot[av(u)] + p
                                               ELSE snapshot[av(u)]
                         /\ snapshot'[fr(u)] = snapshot[fr(u)]
    BY <1>3, <1>4, <1>7, <2>1
  <2>3. Promise!Deposit(k, user, p)
    BY <1>1, <1>2, <1>8, <2>2 DEF Promise!Deposit
  <2> QED
    BY <1>1, <1>8, <2>3 DEF Promise!Next
<1>9. ASSUME NEW q \in Points, q \in Int,
             \/ tx.kind = "REFUND" /\ p = q
             \/ tx.kind = "ADJUST" /\ p = -q
      PROVE  Promise!Next
  <2>1. \/ /\ Debited(tx) = Account("USER_AVAILABLE", user)
           /\ \E kind \in PlatformKinds : Credited(tx) = Account(kind, user)
           /\ p = q
        \/ /\ Credited(tx) = Account("USER_AVAILABLE", user)
           /\ \E kind \in PlatformKinds : Debited(tx) = Account(kind, user)
           /\ p = -q
    BY <1>9 DEF Credited, Debited, CreditKind, DebitKind, PlatformKinds
  <2>2. \A u \in Users : /\ snapshot'[av(u)] = IF u = user THEN snapshot[av(u)] - q
                                               ELSE snapshot[av(u)]
                         /\ snapshot'[fr(u)] = snapshot[fr(u)]
    <3> TAKE u \in Users
    <3>1. /\ av(u) = Account("USER_AVAILABLE", user) <=> u = user
          /\ \A kind \in PlatformKinds : av(u) # Account(kind, user) /\ fr(u) # Account(kind, user)
          /\ fr(u) # Account("USER_AVAILABLE", user)
      BY <1>7
    <3>2. /\ Credited(tx) \in {Account("USER_AVAILABLE", user)}
                 \cup {Account(kind, user) : kind \in PlatformKinds}
          /\ Debited(tx) \in {Account("USER_AVAILABLE", user)}
                 \cup {Account(kind, user) : kind \in PlatformKinds}
      BY <2>1
    <3>3. fr(u) # Credited(tx) /\ fr(u) # Debited(tx)
      BY <3>1, <3>2
    <3>4. snapshot'[fr(u)] = snapshot[fr(u)]
      BY <1>3, <1>4, <3>3
    <3>5. snapshot'[av(u)] = IF av(u) = Credited(tx) THEN snapshot[av(u)] + p
                             ELSE IF av(u) = Debited(tx) THEN snapshot[av(u)] - p
                             ELSE snapshot[av(u)]
      BY <1>3, <1>4
    <3>6. snapshot[av(u)] \in Int
      BY <1>6
    <3>7. CASE /\ Debited(tx) = Account("USER_AVAILABLE", user)
               /\ \E kind \in PlatformKinds : Credited(tx) = Account(kind, user)
               /\ p = q
      BY <3>1, <3>4, <3>5, <3>6, <3>7
    <3>8. CASE /\ Credited(tx) = Account("USER_AVAILABLE", user)
               /\ \E kind \in PlatformKinds : Debited(tx) = Account(kind, user)
               /\ p = -q
      <4>1. snapshot[av(u)] + p = snapshot[av(u)] - q
        BY <1>9, <3>6, <3>8
      <4>2. av(u) = Credited(tx) <=> u = user
        BY <3>1, <3>8
      <4>3. av(u) # Debited(tx)
        BY <3>1, <3>8
      <4> QED
        BY <3>4, <3>5, <4>1, <4>2, <4>3
    <3> QED
      BY <2>1, <3>7, <3>8
  <2>3. snapshot'[av(user)] >= 0
    BY <1>1, <1>5, <1>7, <2>1 DEF UserKinds
  <2>4. available[user] >= q
    <3> DEFINE before == snapshot[av(user)]
               after == snapshot'[av(user)]
    <3>1. before \in Int /\ q \in Int /\ after = before - q /\ after >= 0
      BY <1>1, <1>6, <1>9, <2>2, <2>3
    <3>2. before >= q
      <4> HIDE DEF before, after
      <4> QED
        BY <3>1
    <3> QED
      BY <1>6, <3>2
  <2>5. Promise!Withdraw(k, user, q)
    BY <1>1, <1>2, <1>9, <2>2, <2>4 DEF Promise!Withdraw
  <2> QED
    BY <1>1, <2>5 DEF Promise!Next
<1>10. CASE tx.kind = "RESERVE"
  <2>1. /\ Debited(tx) = Account("USER_AVAILABLE", user)
        /\ Credited(tx) = Account("USER_FROZEN", user)
    BY <1>10 DEF Credited, Debited, CreditKind, DebitKind
  <2>2. \A u \in Users : /\ snapshot'[av(u)] = IF u = user THEN snapshot[av(u)] - p
                                               ELSE snapshot[av(u)]
                         /\ snapshot'[fr(u)] = IF u = user THEN snapshot[fr(u)] + p
                                               ELSE snapshot[fr(u)]
    BY <1>3, <1>4, <1>7, <2>1
  <2>3. snapshot'[av(user)] >= 0
    BY <1>1, <1>5, <1>7, <2>1 DEF UserKinds
  <2>4. available[user] >= p
    <3> DEFINE before == snapshot[av(user)]
               after == snapshot'[av(user)]
    <3>1. before \in Int /\ p \in Int /\ after = before - p /\ after >= 0
      BY <1>1, <1>6, <2>2, <2>3
    <3>2. before >= p
      <4> HIDE DEF before, after
      <4> QED
        BY <3>1
    <3> QED
      BY <1>6, <3>2
  <2>5. Promise!Hold(k, user, p)
    BY <1>1, <1>2, <1>10, <2>2, <2>4 DEF Promise!Hold
  <2> QED
    BY <1>1, <1>10, <2>5 DEF Promise!Next
<1>11. CASE tx.kind = "SETTLE"
  <2>1. /\ Debited(tx) = Account("USER_FROZEN", user)
        /\ \E kind \in PlatformKinds : Credited(tx) = Account(kind, user)
    BY <1>11 DEF Credited, Debited, CreditKind, DebitKind, PlatformKinds
  <2>2. \A u \in Users : /\ snapshot'[av(u)] = snapshot[av(u)]
                         /\ snapshot'[fr(u)] = IF u = user THEN snapshot[fr(u)] - p
                                               ELSE snapshot[fr(u)]
    BY <1>3, <1>4, <1>7, <2>1
  <2>3. snapshot'[fr(user)] >= 0
    BY <1>1, <1>5, <1>7, <2>1 DEF UserKinds
  <2>4. frozen[user] >= p
    <3> DEFINE before == snapshot[fr(user)]
               after == snapshot'[fr(user)]
    <3>1. before \in Int /\ p \in Int /\ after = before - p /\ after >= 0
      BY <1>1, <1>6, <2>2, <2>3
    <3>2. before >= p
      <4> HIDE DEF before, after
      <4> QED
        BY <3>1
    <3> QED
      BY <1>6, <3>2
  <2>5. Promise!Spend(k, user, p)
    BY <1>1, <1>2, <1>11, <2>2, <2>4 DEF Promise!Spend
  <2> QED
    BY <1>1, <1>11, <2>5 DEF Promise!Next
<1>12. CASE tx.kind = "RELEASE"
  <2>1. /\ Debited(tx) = Account("USER_FROZEN", user)
        /\ Credited(tx) = Account("USER_AVAILABLE", user)
    BY <1>12 DEF Credited, Debited, CreditKind, DebitKind
  <2>2. \A u \in Users : /\ snapshot'[av(u)] = IF u = user THEN snapshot[av(u)] + p
                                               ELSE snapshot[av(u)]
                         /\ snapshot'[fr(u)] = IF u = user THEN snapshot[fr(u)] - p
                                               ELSE snapshot[fr(u)]
    BY <1>3, <1>4, <1>7, <2>1
  <2>3. snapshot'[fr(user)] >= 0
    BY <1>1, <1>5, <1>7, <2>1 DEF UserKinds
  <2>4. frozen[user] >= p
    <3> DEFINE before == snapshot[fr(user)]
               after == snapshot'[fr(user)]
    <3>1. before \in Int /\ p \in Int /\ after = before - p /\ after >= 0
      BY <1>1, <1>6, <2>2, <2>3
    <3>2. before >= p
      <4> HIDE DEF before, after
      <4> QED
        BY <3>1
    <3> QED
      BY <1>6, <3>2
  <2>5. Promise!Return(k, user, p)
    BY <1>1, <1>2, <1>12, <2>2, <2>4 DEF Promise!Return
  <2> QED
    BY <1>1, <1>12, <2>5 DEF Promise!Next
<1>13. CASE tx.kind = "ADJUST" /\ p \notin Points
  <2>1. PICK q \in Points : p = -q
    BY <1>1, <1>13 DEF SignedPoints
  <2>2. q \in Int
    BY PointsAssumption
  <2> QED
    BY <1>9, <1>13, <2>1, <2>2
<1>14. CASE tx.kind = "REFUND"
  BY <1>1, <1>9, <1>14
<1> QED
  BY <1>1, <1>8, <1>10, <1>11, <1>12, <1>13, <1>14 DEF Kinds

\* Undamaged, the wallet implements the exactly-once accounts.
THEOREM WalletKeepsPromise ==
    ASSUME Drifts = {}
    PROVE  Spec => KeepsPromise
<1>1. Init => Promise!Init
  BY DEF Init, Promise!Init, Accounts, UserKinds
<1>2. Typing /\ [Next]_vars => [Promise!Next]_(Promise!vars)
  <2> SUFFICES ASSUME Typing, [Next]_vars PROVE [Promise!Next]_(Promise!vars)
    OBVIOUS
  <2>1. ASSUME NEW k \in BusinessKeys, NEW tx \in Transactions,
               tx.kind # "ADJUST" => tx.points \in Points, CanPost(k, tx), Commit(k, tx)
        PROVE  Promise!Next
    BY <2>1, CommitIsACommand DEF Typing
  <2>2. ASSUME UNCHANGED walletVars
        PROVE  UNCHANGED Promise!vars
    BY <2>2 DEF walletVars, Promise!vars
  <2> QED
    BY <2>1, <2>2, StepsOfTheLedger
<1> QED
  BY <1>1, <1>2, TypingInvariant, PTL DEF Spec, KeepsPromise, Promise!Spec

-----------------------------------------------------------------------------
(* Sums over finite sets (MapThenSumSet).  The fold adds what it picks; that *)
(* it exists, and adds each member once whatever it picks, follows from      *)
(* looking at a smallest set that would be an exception.                     *)

Pick(s) == CHOOSE x \in s : TRUE

\* F is the fold of f over the subsets of S.
IsSum(F, f, S) ==
    F = [s \in SUBSET S |-> IF s = {} THEN 0 ELSE f[Pick(s)] + F[s \ {Pick(s)}]]

Sum(f, S) == MapThenSumSet(LAMBDA x : f[x], S)

LEMMA PickIsMember == ASSUME NEW s, s # {} PROVE Pick(s) \in s
  BY DEF Pick

\* Of subsets of a finite set there is a smallest.
LEMMA SmallestSet ==
    ASSUME NEW S, IsFiniteSet(S), NEW T \in SUBSET SUBSET S, T # {}
    PROVE  \E s \in T : \A t \in T : t \subseteq s => t = s
<1>1. IsWellFoundedOn(StrictSubsetOrdering(S), FiniteSubsetsOf(S))
  BY FS_StrictSubsetOrderingWellFounded
<1>2. T \subseteq FiniteSubsetsOf(S)
  BY FS_Subset DEF FiniteSubsetsOf
<1>3. PICK s \in T : \A t \in T : ~ (<<t, s>> \in StrictSubsetOrdering(S))
  BY <1>1, <1>2, WFMin
<1>4. ASSUME NEW t \in T, t \subseteq s PROVE t = s
  BY <1>3, <1>4 DEF StrictSubsetOrdering
<1> QED
  BY <1>4

LEMMA SumOfNothing ==
    ASSUME NEW S, NEW f, NEW F, IsSum(F, f, S)
    PROVE  F[{}] = 0
  BY DEF IsSum

LEMMA SumOfPicked ==
    ASSUME NEW S, NEW f, NEW F, IsSum(F, f, S), NEW s \in SUBSET S, s # {},
           NEW x, x = Pick(s)
    PROVE  F[s] = f[x] + F[s \ {x}]
<1>1. F[s] = IF s = {} THEN 0 ELSE f[Pick(s)] + F[s \ {Pick(s)}]
  BY DEF IsSum
<1> QED
  BY <1>1

\* Folds of functions that agree on C agree on the subsets of C.
LEMMA SumsAgree ==
    ASSUME NEW A, NEW B, NEW f, NEW g, NEW F, NEW G, IsSum(F, f, A), IsSum(G, g, B),
           NEW C \in SUBSET (A \cap B), IsFiniteSet(C), \A x \in C : f[x] = g[x]
    PROVE  \A s \in SUBSET C : F[s] = G[s]
<1>1. PICK T : T = {s \in SUBSET C : F[s] # G[s]}
  OBVIOUS
<1>2. SUFFICES ASSUME T # {} PROVE FALSE
  BY <1>1
<1>3. T \in SUBSET SUBSET C
  BY <1>1
<1>4. PICK s \in T : \A t \in T : t \subseteq s => t = s
  BY <1>2, <1>3, SmallestSet
<1>5. s \in SUBSET A /\ s \in SUBSET B /\ s \in SUBSET C /\ F[s] # G[s]
  BY <1>1, <1>4
<1>6. s # {}
  BY <1>5, SumOfNothing
<1>7. PICK x : x = Pick(s)
  OBVIOUS
<1>8. x \in s
  BY <1>6, <1>7, PickIsMember
<1>9. F[s \ {x}] = G[s \ {x}]
  BY <1>1, <1>4, <1>5, <1>8
<1>10. F[s] = f[x] + F[s \ {x}]
  BY <1>5, <1>6, <1>7, SumOfPicked
<1>11. G[s] = g[x] + G[s \ {x}]
  BY <1>5, <1>6, <1>7, SumOfPicked
<1>12. f[x] = g[x]
  BY <1>5, <1>8
<1> QED
  BY <1>5, <1>9, <1>10, <1>11, <1>12

\* Every function has a fold over a finite set.
LEMMA SumExists ==
    ASSUME NEW S, IsFiniteSet(S), NEW f
    PROVE  \E F : IsSum(F, f, S)
<1>1. PICK T : T = {s \in SUBSET S : ~ \E F : IsSum(F, f, s)}
  OBVIOUS
<1>2. SUFFICES ASSUME T # {} PROVE FALSE
  BY <1>1
<1>3. T \in SUBSET SUBSET S
  BY <1>1
<1>4. PICK s \in T : \A t \in T : t \subseteq s => t = s
  BY <1>2, <1>3, SmallestSet
<1>5. s \in SUBSET S /\ ~ \E F : IsSum(F, f, s)
  BY <1>1, <1>4
<1> DEFINE Fold(t) == CHOOSE F : IsSum(F, f, t)
           H == [t \in SUBSET s |-> IF t = {} THEN 0
                                    ELSE f[Pick(t)] + Fold(t \ {Pick(t)})[t \ {Pick(t)}]]
<1>6. ASSUME NEW t \in SUBSET s, t # s PROVE IsSum(Fold(t), f, t)
  <2>1. t \in SUBSET S /\ t \notin T
    BY <1>4, <1>5, <1>6
  <2>2. \E F : IsSum(F, f, t)
    BY <1>1, <2>1
  <2> QED
    BY <2>2
<1>7. ASSUME NEW t \in SUBSET s, t # s PROVE H[t] = Fold(t)[t]
  <2>1. IsSum(Fold(t), f, t)
    BY <1>6, <1>7
  <2>2. CASE t = {}
    <3> HIDE DEF Fold
    <3>1. Fold(t)[t] = 0
      BY <2>1, <2>2, SumOfNothing
    <3> QED
      BY <2>2, <3>1
  <2>3. CASE t # {}
    <3>1. PICK x : x = Pick(t)
      OBVIOUS
    <3>2. PICK r : r = t \ {x}
      OBVIOUS
    <3>3. x \in t /\ r \in SUBSET s /\ r # s /\ r \in SUBSET t
      BY <2>3, <3>1, <3>2, PickIsMember
    <3>4. IsSum(Fold(r), f, r)
      BY <1>6, <3>3
    <3>5. IsFiniteSet(r)
      BY <1>5, <3>3, FS_Subset
    <3> HIDE DEF Fold
    <3>6. Fold(t)[r] = Fold(r)[r]
      BY <2>1, <3>3, <3>4, <3>5, SumsAgree
    <3>7. Fold(t)[t] = f[x] + Fold(t)[r]
      BY <2>1, <2>3, <3>1, <3>2, SumOfPicked
    <3>8. H[t] = f[x] + Fold(r)[r]
      BY <2>3, <3>1, <3>2
    <3> QED
      BY <3>6, <3>7, <3>8
  <2> QED
    BY <2>2, <2>3
<1>8. ASSUME NEW t \in SUBSET s, t # {}
      PROVE  Fold(t \ {Pick(t)})[t \ {Pick(t)}] = H[t \ {Pick(t)}]
  <2>1. PICK r : r = t \ {Pick(t)}
    OBVIOUS
  <2>2. r \in SUBSET s /\ r # s
    BY <1>8, <2>1, PickIsMember
  <2>3. H[r] = Fold(r)[r]
    BY <1>7, <2>2
  <2> HIDE DEF Fold, H
  <2> QED
    BY <2>1, <2>3
<1>9. H = [t \in SUBSET s |-> IF t = {} THEN 0 ELSE f[Pick(t)] + H[t \ {Pick(t)}]]
  <2> DEFINE K == [t \in SUBSET s |-> IF t = {} THEN 0 ELSE f[Pick(t)] + H[t \ {Pick(t)}]]
  <2>1. ASSUME NEW t \in SUBSET s PROVE H[t] = K[t]
    <3>1. CASE t = {}
      BY <3>1
    <3>2. CASE t # {}
      <4>1. H[t] = f[Pick(t)] + Fold(t \ {Pick(t)})[t \ {Pick(t)}]
        BY <3>2
      <4>2. K[t] = f[Pick(t)] + H[t \ {Pick(t)}]
        BY <3>2
      <4> HIDE DEF Fold, H, K
      <4> QED
        BY <1>8, <3>2, <4>1, <4>2
    <3> QED
      BY <3>1, <3>2
  <2> QED
    BY <2>1
<1>10. IsSum(H, f, s)
  <2> HIDE DEF Fold, H
  <2> QED
    BY <1>9 DEF IsSum
<1> QED
  BY <1>5, <1>10

\* The sum is what any fold says.
LEMMA SumIs ==
    ASSUME NEW S, NEW f, NEW F, IsFiniteSet(S), IsSum(F, f, S)
    PROVE  Sum(f, S) = F[S]
<1> PICK G : G = CHOOSE H : IsSum(H, f, S)
  OBVIOUS
<1>1. IsSum(G, f, S)
  OBVIOUS
<1>2. Sum(f, S) = G[S]
  BY Zenon DEF Sum, MapThenSumSet, MapThenFoldSet, Pick, IsSum
<1>3. G[S] = F[S]
  BY <1>1, SumsAgree
<1> QED
  BY <1>2, <1>3

\* Sums of integers are integers.
LEMMA SumsAreIntegers ==
    ASSUME NEW S, IsFiniteSet(S), NEW f, \A x \in S : f[x] \in Int,
           NEW F, IsSum(F, f, S)
    PROVE  \A s \in SUBSET S : F[s] \in Int
<1>1. PICK T : T = {s \in SUBSET S : F[s] \notin Int}
  OBVIOUS
<1>2. SUFFICES ASSUME T # {} PROVE FALSE
  BY <1>1
<1>3. T \in SUBSET SUBSET S
  BY <1>1
<1>4. PICK s \in T : \A t \in T : t \subseteq s => t = s
  BY <1>2, <1>3, SmallestSet
<1>5. s \in SUBSET S /\ F[s] \notin Int
  BY <1>1, <1>4
<1>6. s # {}
  BY <1>5, SumOfNothing
<1>7. PICK x : x = Pick(s)
  OBVIOUS
<1>8. x \in s
  BY <1>6, <1>7, PickIsMember
<1>9. F[s \ {x}] \in Int
  BY <1>1, <1>4, <1>5, <1>8
<1>10. F[s] = f[x] + F[s \ {x}]
  BY <1>5, <1>6, <1>7, SumOfPicked
<1>11. f[x] \in Int
  BY <1>5, <1>8
<1> QED
  BY <1>5, <1>9, <1>10, <1>11

\* Whatever the fold picks first, each member counts once.
LEMMA EachCountsOnce ==
    ASSUME NEW S, IsFiniteSet(S), NEW f, \A x \in S : f[x] \in Int,
           NEW F, IsSum(F, f, S)
    PROVE  \A s \in SUBSET S : \A x \in s : F[s] = F[s \ {x}] + f[x]
<1>1. PICK T : T = {s \in SUBSET S : \E x \in s : F[s] # F[s \ {x}] + f[x]}
  OBVIOUS
<1>2. SUFFICES ASSUME T # {} PROVE FALSE
  BY <1>1
<1>3. T \in SUBSET SUBSET S
  BY <1>1
<1>4. PICK s \in T : \A t \in T : t \subseteq s => t = s
  BY <1>2, <1>3, SmallestSet
<1>5. s \in SUBSET S
  BY <1>1, <1>4
<1>6. PICK x \in s : F[s] # F[s \ {x}] + f[x]
  BY <1>1, <1>4
<1>7. PICK y : y = Pick(s)
  OBVIOUS
<1>8. y \in s /\ s # {}
  BY <1>6, <1>7, PickIsMember
<1>9. F[s] = f[y] + F[s \ {y}]
  BY <1>5, <1>7, <1>8, SumOfPicked
<1>10. \A t \in SUBSET S : F[t] \in Int
  BY SumsAreIntegers
<1>11. f[x] \in Int /\ f[y] \in Int
  BY <1>5, <1>6, <1>8
<1>12. x # y
  <2>1. F[s \ {y}] \in Int
    BY <1>5, <1>10
  <2>2. F[s] = F[s \ {y}] + f[y]
    BY <1>9, <1>11, <2>1
  <2> QED
    BY <1>6, <2>2
<1>13. s \ {y} \in SUBSET S /\ s \ {x} \in SUBSET S /\ s \ {y} \notin T /\ s \ {x} \notin T
  BY <1>4, <1>5, <1>6, <1>8
<1>14. PICK u : u = (s \ {y}) \ {x}
  OBVIOUS
<1>15. u = (s \ {x}) \ {y} /\ u \in SUBSET S
  BY <1>5, <1>14
<1>16. F[s \ {y}] = F[u] + f[x]
  BY <1>1, <1>6, <1>12, <1>13, <1>14
<1>17. F[s \ {x}] = F[u] + f[y]
  BY <1>1, <1>8, <1>12, <1>13, <1>15
<1>18. F[u] \in Int
  BY <1>10, <1>15
<1> QED
  BY <1>6, <1>9, <1>11, <1>16, <1>17, <1>18

\* The sum with one more member.
LEMMA SumWithout ==
    ASSUME NEW S, IsFiniteSet(S), NEW f, \A x \in S : f[x] \in Int, NEW x \in S
    PROVE  /\ Sum(f, S) = Sum(f, S \ {x}) + f[x]
           /\ Sum(f, S) \in Int /\ Sum(f, S \ {x}) \in Int
<1>1. IsFiniteSet(S \ {x})
  BY FS_RemoveElement
<1> PICK F : IsSum(F, f, S)
  BY SumExists
<1> PICK G : IsSum(G, f, S \ {x})
  BY <1>1, SumExists
<1>2. G[S \ {x}] = F[S \ {x}]
  <2>1. S \ {x} \in SUBSET (S \cap (S \ {x}))
    OBVIOUS
  <2> QED
    BY <1>1, <2>1, SumsAgree
<1>3. Sum(f, S) = F[S] /\ Sum(f, S \ {x}) = F[S \ {x}]
  BY <1>1, <1>2, SumIs
<1>4. F[S] = F[S \ {x}] + f[x]
  BY EachCountsOnce
<1>5. F[S] \in Int /\ F[S \ {x}] \in Int
  BY SumsAreIntegers
<1> QED
  BY <1>3, <1>4, <1>5

\* Sums of functions that agree are equal.
LEMMA SumSame ==
    ASSUME NEW S, IsFiniteSet(S), NEW f, NEW g, \A x \in S : f[x] = g[x]
    PROVE  Sum(f, S) = Sum(g, S)
<1> PICK F : IsSum(F, f, S)
  BY SumExists
<1> PICK G : IsSum(G, g, S)
  BY SumExists
<1>1. F[S] = G[S]
  BY SumsAgree
<1> QED
  BY <1>1, SumIs

LEMMA SumEmpty == ASSUME NEW f PROVE Sum(f, {}) = 0
<1>1. IsFiniteSet({})
  BY FS_EmptySet
<1>2. PICK F : IsSum(F, f, {})
  BY <1>1, SumExists
<1>3. F[{}] = 0
  BY <1>2, SumOfNothing
<1> QED
  BY <1>1, <1>2, <1>3, SumIs

\* Zeros sum to zero.
LEMMA SumOfZeros ==
    ASSUME NEW S, IsFiniteSet(S), NEW f, \A x \in S : f[x] = 0
    PROVE  Sum(f, S) = 0
<1>1. PICK F : IsSum(F, f, S)
  BY SumExists
<1>2. PICK T : T = {s \in SUBSET S : F[s] # 0}
  OBVIOUS
<1>3. ASSUME T # {} PROVE FALSE
  <2>1. T \in SUBSET SUBSET S
    BY <1>2
  <2>2. PICK s \in T : \A t \in T : t \subseteq s => t = s
    BY <1>3, <2>1, SmallestSet
  <2>3. s \in SUBSET S /\ F[s] # 0
    BY <1>2, <2>2
  <2>4. s # {}
    BY <1>1, <2>3, SumOfNothing
  <2>5. PICK x : x = Pick(s)
    OBVIOUS
  <2>6. x \in s
    BY <2>4, <2>5, PickIsMember
  <2>7. F[s \ {x}] = 0
    BY <1>2, <2>2, <2>3, <2>6
  <2>8. F[s] = f[x] + F[s \ {x}]
    BY <1>1, <2>3, <2>4, <2>5, SumOfPicked
  <2> QED
    BY <2>3, <2>6, <2>7, <2>8
<1>4. F[S] = 0
  BY <1>2, <1>3
<1> QED
  BY <1>1, <1>4, SumIs

\* What one member gains and another loses leaves the sum.
LEMMA SumMoved ==
    ASSUME NEW S, IsFiniteSet(S), NEW f \in [S -> Int], NEW g \in [S -> Int],
           NEW c \in S, NEW d \in S, c # d, NEW p \in Int,
           g[c] = f[c] + p, g[d] = f[d] - p,
           \A x \in S \ {c, d} : g[x] = f[x]
    PROVE  Sum(g, S) = Sum(f, S)
<1> DEFINE A == S \ {c}
           B == A \ {d}
<1>1. IsFiniteSet(A) /\ IsFiniteSet(B) /\ d \in A
  BY FS_RemoveElement
<1>2. /\ Sum(f, S) = Sum(f, A) + f[c] /\ Sum(g, S) = Sum(g, A) + g[c]
  BY SumWithout
<1>3. /\ Sum(f, A) = Sum(f, B) + f[d] /\ Sum(g, A) = Sum(g, B) + g[d]
      /\ Sum(f, B) \in Int
  BY <1>1, SumWithout
<1>4. Sum(f, B) = Sum(g, B)
  BY <1>1, SumSame
<1>5. f[c] \in Int /\ f[d] \in Int
  OBVIOUS
<1> HIDE DEF A, B
<1> QED
  BY <1>2, <1>3, <1>4, <1>5

-----------------------------------------------------------------------------
(* The entries and the transactions that explain them.                     *)

\* What the transactions under the keys of S have entered on account a.
Explained(led, S, a) == [k \in S |-> Delta(led[k], a)]

\* The fold of LedgerExplainsEntries.
IsExplained(F, led, S, a) ==
    F = [s \in SUBSET S |-> IF s = {} THEN 0
                            ELSE Delta(led[Pick(s)], a) + F[s \ {Pick(s)}]]

LEMMA SameFold ==
    ASSUME NEW led, NEW S, NEW a, NEW F
    PROVE  IsExplained(F, led, S, a) <=> IsSum(F, Explained(led, S, a), S)
<1> DEFINE f == Explained(led, S, a)
           G == [s \in SUBSET S |-> IF s = {} THEN 0 ELSE f[Pick(s)] + F[s \ {Pick(s)}]]
           H == [s \in SUBSET S |-> IF s = {} THEN 0
                                    ELSE Delta(led[Pick(s)], a) + F[s \ {Pick(s)}]]
<1>1. ASSUME NEW s \in SUBSET S PROVE G[s] = H[s]
  <2>1. CASE s = {}
    BY <2>1
  <2>2. CASE s # {}
    <3>1. Pick(s) \in S
      BY <2>2, PickIsMember
    <3>2. f[Pick(s)] = Delta(led[Pick(s)], a)
      BY <3>1 DEF Explained
    <3> HIDE DEF f
    <3> QED
      BY <2>2, <3>2
  <2> QED
    BY <2>1, <2>2
<1>2. G = H
  <2> HIDE DEF f
  <2> QED
    BY <1>1
<1> QED
  BY <1>2, Zenon DEF IsSum, IsExplained

LEMMA ExplainedSum ==
    ASSUME NEW led, NEW S, IsFiniteSet(S), NEW a
    PROVE  MapThenSumSet(LAMBDA k : Delta(led[k], a), S) = Sum(Explained(led, S, a), S)
<1>1. PICK F : F = CHOOSE G : IsExplained(G, led, S, a)
  OBVIOUS
<1>2. PICK G : IsSum(G, Explained(led, S, a), S)
  BY SumExists
<1>3. IsExplained(G, led, S, a)
  BY <1>2, SameFold
<1>4. IsExplained(F, led, S, a)
  BY <1>1, <1>3
<1>5. IsSum(F, Explained(led, S, a), S)
  BY <1>4, SameFold
<1>6. Sum(Explained(led, S, a), S) = F[S]
  BY <1>5, SumIs
<1>7. MapThenSumSet(LAMBDA k : Delta(led[k], a), S) = F[S]
  BY <1>1, Zenon DEF MapThenSumSet, MapThenFoldSet, Pick, IsExplained
<1> QED
  BY <1>6, <1>7

LEMMA AccountsAreFinite == IsFiniteSet(Accounts)
<1>1. IsFiniteSet(UserKinds) /\ IsFiniteSet(PlatformKinds) /\ IsFiniteSet({Platform})
  <2>1. IsFiniteSet({} \cup {Platform})
    BY FS_EmptySet, FS_AddElement
  <2>2. IsFiniteSet(({} \cup {"USER_AVAILABLE"}) \cup {"USER_FROZEN"})
    BY FS_EmptySet, FS_AddElement
  <2>3. IsFiniteSet((({} \cup {"PLATFORM_LIABILITY"}) \cup {"PLATFORM_CONSUMED"}) \cup {"ADJUSTMENT"})
    BY FS_EmptySet, FS_AddElement
  <2>4. {} \cup {Platform} = {Platform}
    OBVIOUS
  <2>5. ({} \cup {"USER_AVAILABLE"}) \cup {"USER_FROZEN"} = UserKinds
    BY DEF UserKinds
  <2>6. (({} \cup {"PLATFORM_LIABILITY"}) \cup {"PLATFORM_CONSUMED"}) \cup {"ADJUSTMENT"}
            = PlatformKinds
    BY DEF PlatformKinds
  <2> QED
    BY <2>1, <2>2, <2>3, <2>4, <2>5, <2>6
<1>2. IsFiniteSet(UserKinds \X Users) /\ IsFiniteSet(PlatformKinds \X {Platform})
  BY <1>1, UsersAssumption, FS_Product
<1> QED
  BY <1>2, FS_Union DEF Accounts

\* What a transaction adds to an account does not depend on its balance.
LEMMA DeltaEntered ==
    ASSUME NEW tx \in Transactions, NEW b \in [Accounts -> Int], NEW a \in Accounts
    PROVE  Delta(tx, a) \in Int /\ Entered(b, tx)[a] = b[a] + Delta(tx, a)
<1>1. PICK zeros : zeros = [c \in Accounts |-> 0]
  OBVIOUS
<1>2. zeros \in [Accounts -> Int] /\ zeros[a] = 0
  BY <1>1
<1>3. tx.points \in Int /\ b[a] \in Int
  BY PointsOfTransactions
<1>4. Delta(tx, a) = Entered(zeros, tx)[a]
  BY <1>1 DEF Delta
<1>5. Entered(zeros, tx)[a] = IF a = Credited(tx) THEN zeros[a] + tx.points
                              ELSE IF a = Debited(tx) THEN zeros[a] - tx.points
                              ELSE zeros[a]
  BY <1>2, EnteredAccounts
<1>6. Entered(b, tx)[a] = IF a = Credited(tx) THEN b[a] + tx.points
                          ELSE IF a = Debited(tx) THEN b[a] - tx.points
                          ELSE b[a]
  BY EnteredAccounts
<1> QED
  BY <1>2, <1>3, <1>4, <1>5, <1>6

\* The transactions are finitely many, and explain the entries.
ExplainedInv ==
    /\ IsFiniteSet(PostedTransactions)
    /\ \A a \in Accounts :
           journal[a] = Sum(Explained(ledger, PostedTransactions, a), PostedTransactions)
    /\ Sum(journal, Accounts) = 0

LEMMA ExplainedInit == Init => ExplainedInv
<1> SUFFICES ASSUME Init PROVE ExplainedInv
  OBVIOUS
<1>1. PostedTransactions = {}
  BY DEF Init, PostedTransactions
<1>2. IsFiniteSet(PostedTransactions)
  BY <1>1, FS_EmptySet
<1>3. \A a \in Accounts : journal[a] = 0
  BY DEF Init
<1>4. ASSUME NEW a \in Accounts
      PROVE  Sum(Explained(ledger, PostedTransactions, a), PostedTransactions) = 0
  BY <1>1, SumEmpty
<1>5. Sum(journal, Accounts) = 0
  BY <1>3, AccountsAreFinite, SumOfZeros
<1> QED
  BY <1>2, <1>3, <1>4, <1>5 DEF ExplainedInv

\* The entries that one transaction adds are explained by that transaction.
LEMMA CommitIsExplained ==
    ASSUME TypeOK, ExplainedInv, NEW key \in BusinessKeys, NEW tx \in Transactions,
           CanPost(key, tx), Commit(key, tx)
    PROVE  ExplainedInv'
<1>1. PICK old : old = PostedTransactions
  OBVIOUS
<1>2. PICK new : new = old \cup {key}
  OBVIOUS
<1>3. /\ ledger' = [ledger EXCEPT ![key] = tx] /\ ledger[key] = None
      /\ journal' = Entered(journal, tx) /\ tx # None
      /\ ledger \in [BusinessKeys -> Transactions \cup {None}]
      /\ journal \in [Accounts -> Int]
  BY NoneAssumption DEF Commit, CanPost, Fresh, TypeOK
<1>4. PostedTransactions' = new /\ key \notin old /\ key \in new /\ new \ {key} = old
  BY <1>1, <1>2, <1>3 DEF PostedTransactions
<1>5. IsFiniteSet(old) /\ IsFiniteSet(new)
  BY <1>1, <1>2, FS_AddElement DEF ExplainedInv
<1>6. /\ \A k \in new : ledger'[k] \in Transactions
      /\ \A k \in old : ledger'[k] = ledger[k]
      /\ ledger'[key] = tx
  BY <1>1, <1>2, <1>3, <1>4 DEF PostedTransactions
<1>7. ASSUME NEW a \in Accounts
      PROVE  journal'[a] = Sum(Explained(ledger', new, a), new)
  <2>1. PICK f : f = Explained(ledger, old, a)
    OBVIOUS
  <2>2. PICK g : g = Explained(ledger', new, a)
    OBVIOUS
  <2>3. \A k \in new : g[k] \in Int
    BY <1>6, <2>2, DeltaEntered, <1>3 DEF Explained
  <2>4. Sum(g, new) = Sum(g, old) + g[key]
    BY <1>4, <1>5, <2>3, SumWithout
  <2>5. \A k \in old : g[k] = f[k]
    BY <1>2, <1>6, <2>1, <2>2 DEF Explained
  <2>6. Sum(g, old) = Sum(f, old)
    BY <1>5, <2>5, SumSame
  <2>7. g[key] = Delta(tx, a)
    BY <1>4, <1>6, <2>2 DEF Explained
  <2>8. journal'[a] = journal[a] + Delta(tx, a)
    BY <1>3, DeltaEntered
  <2>9. journal[a] = Sum(f, old)
    BY <1>1, <2>1 DEF ExplainedInv
  <2> QED
    BY <2>2, <2>4, <2>6, <2>7, <2>8, <2>9
<1>8. Sum(journal', Accounts) = 0
  <2>1. PICK after : after = journal'
    OBVIOUS
  <2>2. PICK c : c = Credited(tx)
    OBVIOUS
  <2>3. PICK d : d = Debited(tx)
    OBVIOUS
  <2>4. /\ c \in Accounts /\ d \in Accounts /\ c # d /\ tx.points \in Int
        /\ after \in [Accounts -> Int]
    BY <1>3, <2>1, <2>2, <2>3, EntriesOnAccounts, PointsOfTransactions, EnteredType
    DEF Transactions, Kinds, Debited, Credited, DebitKind, CreditKind, Account
  <2>5. \A a \in Accounts : after[a] = IF a = c THEN journal[a] + tx.points
                                       ELSE IF a = d THEN journal[a] - tx.points
                                       ELSE journal[a]
    BY <1>3, <2>1, <2>2, <2>3, EnteredAccounts
  <2>6. /\ after[c] = journal[c] + tx.points /\ after[d] = journal[d] - tx.points
        /\ \A a \in Accounts \ {c, d} : after[a] = journal[a]
    BY <2>4, <2>5
  <2>7. Sum(after, Accounts) = Sum(journal, Accounts)
    BY <1>3, <2>4, <2>6, AccountsAreFinite, SumMoved
  <2> QED
    BY <2>1, <2>7 DEF ExplainedInv
<1> QED
  BY <1>4, <1>5, <1>7, <1>8 DEF ExplainedInv

\* The entries of an account are those of the transactions under distinct
\* business keys, and the whole ledger sums to zero.
THEOREM LedgerExplained == Spec => []LedgerExplainsEntries
<1>1. Init => ExplainedInv
  BY ExplainedInit
<1>2. Typing /\ ExplainedInv /\ [Next]_vars => ExplainedInv'
  <2> SUFFICES ASSUME Typing, ExplainedInv, [Next]_vars PROVE ExplainedInv'
    OBVIOUS
  <2>1. ASSUME NEW k \in BusinessKeys, NEW tx \in Transactions, CanPost(k, tx), Commit(k, tx)
        PROVE  ExplainedInv'
    BY <2>1, CommitIsExplained DEF Typing
  <2>2. ASSUME UNCHANGED <<journal, ledger>>
        PROVE  ExplainedInv'
    BY <2>2 DEF ExplainedInv, PostedTransactions
  <2>3. ASSUME NEW a \in Accounts, NEW d \in Drifts, SnapshotDrift(a, d)
        PROVE  UNCHANGED <<journal, ledger>>
    BY <2>3 DEF SnapshotDrift
  <2>4. ASSUME UNCHANGED walletVars
        PROVE  UNCHANGED <<journal, ledger>>
    BY <2>4 DEF walletVars
  <2> QED
    BY <2>1, <2>2, <2>3, <2>4, StepsOfTheLedger
<1>3. ExplainedInv => LedgerExplainsEntries
  <2> SUFFICES ASSUME ExplainedInv PROVE LedgerExplainsEntries
    OBVIOUS
  <2>1. MapThenSumSet(LAMBDA a : journal[a], Accounts) = 0
    BY Zenon DEF ExplainedInv, Sum
  <2>2. ASSUME NEW a \in Accounts
        PROVE  journal[a] = MapThenSumSet(LAMBDA k : Delta(ledger[k], a), PostedTransactions)
    BY ExplainedSum DEF ExplainedInv
  <2> QED
    BY <2>1, <2>2, Zenon DEF LedgerExplainsEntries
<1> QED
  BY <1>1, <1>2, <1>3, TypingInvariant, PTL DEF Spec
=============================================================================
