------------------------------ MODULE TaskSaga ------------------------------
(***************************************************************************)
(* The saga of one generation task (services/generation-service): provider *)
(* events, cancel commands and asset events are consumed at least once and *)
(* in any order by several workers while the repair job converges stale    *)
(* tasks, and every outcome moves the points reserved for the task.        *)
(*                                                                         *)
(* A transaction of the repository is one step.  It commits only when its  *)
(* caller still holds the lease of its message and no other transaction    *)
(* wrote the task since the caller read it (the version and saga version   *)
(* compare-and-set): `leased' and `fresh' of the caller's session.  A      *)
(* consumer that claims a message and then writes is one step: if anything *)
(* wrote the task in between, its write is fenced and changes nothing.     *)
(*                                                                         *)
(* The wallet appears through what this task posts to it.  Everything      *)
(* about the provider side (provider-runtime and the provider behind it)   *)
(* and the asset service is external.  EXPIRED is left out: no code of the *)
(* service moves a task there.                                             *)
(***************************************************************************)
EXTENDS Integers, Sequences, FiniteSets

CONSTANTS
    Workers,        \* concurrent consumers and repair jobs, on any replica
    Quote,          \* points reserved for the task
    Others,         \* points of the same user frozen for other tasks
    Terms,          \* the terms a task may have been created under
    None

ASSUME PointsAssumption == Quote \in Nat \ {0} /\ Others \in Nat

ASSUME TermsAssumption ==
    Terms \subseteq [settlement : Nat,              \* points to settle on success
                     charge     : Nat \cup {None},  \* of a cancellation, or no rule
                     substitute : Nat \cup {None},  \* price of the failover candidate
                     authorized : BOOLEAN,  \* the routing snapshot authorises failover
                     billing    : BOOLEAN,  \* inspect establishes acceptance, billing
                     cancels    : BOOLEAN,  \* the provider may cancel by itself
                     commands   : Nat]      \* bound on the user's cancel commands

VARIABLES
    terms,      \* the terms of this task (snapshots stored with it)
    task,       \* GenerationTask with its TaskSaga
    escalated,  \* an operator case of the task is open
    posted,     \* posted[k]: the wallet command with business key k, or None
    sessions,   \* sessions[w]: what worker w is doing
    pending,    \* messages sent and not yet processed
    asked,      \* task versions for which a cancel command was sent
    exec,       \* exec[e]: the provider execution of route epoch e
    remote,     \* the provider confirmed the cancellation
    asset       \* the asset import at the asset service

external == <<exec, remote, asset>>
vars == <<task, escalated, posted, sessions, pending, asked, external>>

SettlementPoints == terms.settlement
ChargePoints     == terms.charge
SubstitutePoints == terms.substitute

-----------------------------------------------------------------------------
(* The task state machine (taskTransitionPath).                            *)

Statuses == {"QUEUED", "SUBMITTING", "RUNNING", "SUCCEEDED", "FAILED",
             "CANCELED", "SETTLED", "REFUNDED"}

\* PathLength[to][from]: the transitions taskTransitionPath(from, to) records.
PathLength == [
    RUNNING   |-> [QUEUED |-> 2, SUBMITTING |-> 1],
    SUCCEEDED |-> [QUEUED |-> 3, SUBMITTING |-> 2, RUNNING |-> 1],
    FAILED    |-> [QUEUED |-> 2, SUBMITTING |-> 1, RUNNING |-> 1],
    CANCELED  |-> [QUEUED |-> 1, SUBMITTING |-> 2, RUNNING |-> 1],
    SETTLED   |-> [SUCCEEDED |-> 1, CANCELED |-> 1],
    REFUNDED  |-> [FAILED |-> 1, CANCELED |-> 1]]

\* Otherwise writeStatus throws ILLEGAL_TASK_TRANSITION.
CanMove(t, to) == t.status = to \/ t.status \in DOMAIN PathLength[to]

Moved(t, to) ==
    IF t.status = to THEN t
    ELSE [t EXCEPT !.status = to, !.version = @ + PathLength[to][t.status]]

-----------------------------------------------------------------------------
(* The financial plan a disposition stands for (applyCancellationFinance,  *)
(* settleAndReleaseDifference; pendingFinancialPlan builds it again).      *)

Release(key, points, reason) ==
    [key |-> key, kind |-> "RELEASE", points |-> points, reason |-> reason]

SettleAndRelease(points, reason) ==
    <<[key |-> "settle", kind |-> "SETTLE", points |-> points, reason |-> reason]>>
    \o IF points < Quote
       THEN <<Release("quote-difference-release", Quote - points, "QUOTE_DIFFERENCE")>>
       ELSE <<>>

PlanOf(disposition, settlement) ==
    CASE disposition = "PRE_ACCEPTANCE_FULL_RELEASE" ->
             <<Release("pre-acceptance-cancel-release", Quote,
                       "CANCELED_BEFORE_PROVIDER_ACCEPTANCE")>>
      [] disposition = "PROVIDER_FAILED_FULL_RELEASE" ->
             <<Release("provider-failure-release", Quote, "PROVIDER_FAILED")>>
      [] disposition = "PROVIDER_CANCELED_FULL_RELEASE" ->
             <<Release("provider-failure-release", Quote, "PROVIDER_CANCELED")>>
      [] disposition = "USER_CANCEL_RULE" /\ ChargePoints = 0 ->
             <<Release("quote-difference-release", Quote, "PROVIDER_CANCEL_CONFIRMED")>>
      [] disposition = "USER_CANCEL_RULE" /\ ChargePoints # 0 ->
             SettleAndRelease(ChargePoints, "PROVIDER_CANCEL_CONFIRMED")
      [] disposition = "SUCCESS_SETTLEMENT" ->
             SettleAndRelease(settlement, "GENERATION_SUCCEEDED")

GoalOf(disposition) ==
    IF \/ disposition = "SUCCESS_SETTLEMENT"
       \/ disposition = "USER_CANCEL_RULE" /\ ChargePoints # 0
    THEN "SETTLED" ELSE "REFUNDED"

\* Both amounts are checked against the quote before anything is posted.
Affordable(disposition, settlement) ==
    CASE disposition = "USER_CANCEL_RULE"   -> ChargePoints <= Quote
      [] disposition = "SUCCESS_SETTLEMENT" -> settlement <= Quote
      [] OTHER -> TRUE

WalletKeys == {"pre-acceptance-cancel-release", "provider-failure-release",
               "settle", "quote-difference-release"}

PointsUnder(key, kind) ==
    IF posted[key] # None /\ posted[key].kind = kind THEN posted[key].points ELSE 0

PostedPoints(kind) ==
    PointsUnder("settle", kind) + PointsUnder("pre-acceptance-cancel-release", kind)
    + PointsUnder("provider-failure-release", kind)
    + PointsUnder("quote-difference-release", kind)

Frozen == Quote + Others - PostedPoints("SETTLE") - PostedPoints("RELEASE")

\* The wallet posts a new command that the frozen points cover, and answers
\* a repeated one with its first result.
WalletAccepts(c) ==
    \/ posted[c.key] = c
    \/ posted[c.key] = None /\ c.points > 0 /\ c.points <= Frozen

-----------------------------------------------------------------------------
(* Sessions.                                                               *)

Idle == [stage |-> "idle", msg |-> None, leased |-> FALSE, fresh |-> FALSE,
         nested |-> FALSE, calls |-> <<>>, goal |-> None, expect |-> None]

\* The worker has failed and is not back yet.
Down == [Idle EXCEPT !.stage = "down"]

Busy(w) == sessions[w] \notin {Idle, Down}

\* A claimed message; `nested' says that a repair session consumes it.
Working(stage, msg, nested, calls, goal) ==
    [stage |-> stage, msg |-> msg, leased |-> TRUE, fresh |-> TRUE,
     nested |-> nested, calls |-> calls, goal |-> goal, expect |-> None]

\* Repair messages are claimed under a new id each time.
RepairMessage == [type |-> "repair"]

\* A committed write of w leaves every other snapshot stale.
Commit(w, t, s) ==
    /\ task' = t
    /\ sessions' = [v \in Workers |->
           IF v = w THEN s ELSE [sessions[v] EXCEPT !.fresh = FALSE]]

\* w claims m from the queue, unless another worker holds its lease, or
\* consumes the event its repair made of an inspection.
Takes(w, m) ==
    \/ /\ sessions[w] = Idle
       /\ m \in pending
       /\ \A v \in Workers : sessions[v].msg = m => ~sessions[v].leased
    \/ sessions[w].stage = "replay" /\ sessions[w].msg = m

Nested(w) == sessions[w].nested \/ sessions[w].stage = "replay"

\* The write that also marks message m processed.
Complete(w, m, t) ==
    /\ Commit(w, t, IF Nested(w) THEN Working("closing", RepairMessage, FALSE, <<>>, None)
                    ELSE Idle)
    /\ pending' = IF Nested(w) THEN pending ELSE pending \ {m}

\* Mutant: the message is acknowledged before its work is done.
Continue_Acks(w, m, t, stage, calls, goal) ==
    /\ Commit(w, t, Working(stage, m, Nested(w), calls, goal))
    /\ pending' = pending \ {m}

\* The write after which w goes on with what it must do outside the task.
Continue(w, m, t, stage, calls, goal) ==
    /\ Commit(w, t, Working(stage, m, Nested(w), calls, goal))
    /\ UNCHANGED pending

MayWrite(w) == sessions[w].leased /\ sessions[w].fresh

ToStage(w, stage) == sessions' = [sessions EXCEPT ![w].stage = stage]

-----------------------------------------------------------------------------
(* Provider events (ProviderEventsConsumer).                               *)

EventTypes == {"accepted", "running", "succeeded", "failed", "canceled", "ambiguous"}

\* `known': the event names the provider's task; `result': it has result URLs.
Event(type, epoch, known, result) ==
    [type |-> type, epoch |-> epoch, known |-> known, result |-> result]

EventOf(m) == m.type \in EventTypes

RankOf == [accepted |-> 1, running |-> 2]

\* Mutant: an event of an earlier route is taken for the current one.
Bound_AnyEpoch(m, t) == EventOf(m)

\* providerBindingMatches: an epoch has one execution, at one provider.
Bound(m, t) == EventOf(m) /\ m.epoch = t.epoch

\* providerIdentityPatch.
Identified(t, m) == [t EXCEPT !.identified = TRUE, !.known = m.known]

\* completeNoop: the message is stale.
Ignore(w, m) == Complete(w, m, task) /\ UNCHANGED escalated

\* operatorRequired.
AskOperator(w, m, t) == Complete(w, m, t) /\ escalated' = TRUE

OnOtherEpoch(w, m) ==
    /\ EventOf(m) /\ ~Bound(m, task)
    /\ AskOperator(w, m, task)

OnAmbiguous(w, m) ==
    /\ Bound(m, task) /\ m.type = "ambiguous"
    /\ LET t == Identified(task, m) IN
       AskOperator(w, m, IF t.status = "QUEUED"
                         THEN [t EXCEPT !.status = "SUBMITTING", !.version = @ + 1]
                         ELSE t)

OnProgress(w, m) ==
    /\ Bound(m, task) /\ m.type \in DOMAIN RankOf
    /\ IF RankOf[m.type] <= task.rank
       THEN Ignore(w, m)
       ELSE /\ CanMove(task, "RUNNING")
            /\ Complete(w, m, [Moved(Identified(task, m), "RUNNING") EXCEPT
                                  !.accepted = TRUE, !.rank = RankOf[m.type]])
            /\ UNCHANGED escalated

\* Mutant: the import is requested before SUCCEEDED is durable.
OnSucceeded_ImportFirst(w, m) ==
    /\ Bound(m, task) /\ m.type = "succeeded"
    /\ \/ /\ task.status \in {"SETTLED", "FAILED", "CANCELED", "REFUNDED"}
          /\ Ignore(w, m)
       \/ /\ task.status \notin {"SETTLED", "FAILED", "CANCELED", "REFUNDED"} /\ m.result
          /\ sessions' = [sessions EXCEPT
                 ![w] = Working("import", m, Nested(w), <<>>, None)]
          /\ UNCHANGED <<task, escalated, pending>>

\* The import is requested only once SUCCEEDED is durable.
OnSucceeded(w, m) ==
    /\ Bound(m, task) /\ m.type = "succeeded"
    /\ \/ /\ task.status \in {"SETTLED", "FAILED", "CANCELED", "REFUNDED"}
          /\ Ignore(w, m)
       \/ /\ task.status \notin {"SETTLED", "FAILED", "CANCELED", "REFUNDED"}
          /\ ~m.result
          /\ AskOperator(w, m, Identified(task, m))
       \/ /\ task.status = "SUCCEEDED" /\ task.importRequested /\ m.result
          /\ sessions' = [sessions EXCEPT
                 ![w] = Working("import", m, Nested(w), <<>>, None)]
          /\ UNCHANGED <<task, escalated, pending>>
       \/ /\ task.status \in {"QUEUED", "SUBMITTING", "RUNNING"} /\ m.result
          /\ Continue(w, m, [Moved(Identified(task, m), "SUCCEEDED") EXCEPT
                                !.accepted = TRUE, !.rank = 3, !.importRequested = TRUE],
                      "import", <<>>, None)
          /\ UNCHANGED escalated

\* AssetImportPort.requestImport, after ensureLease.
RequestImport(w) ==
    /\ sessions[w].stage = "import" /\ sessions[w].leased
    /\ asset' = IF asset = "none" THEN "requested" ELSE asset
    /\ ToStage(w, "importing")
    /\ UNCHANGED <<task, escalated, posted, pending, asked, exec, remote>>

\* The task is read again: it may have been written since.
CompleteImport(w) ==
    /\ sessions[w].stage = "importing" /\ sessions[w].leased
    /\ Complete(w, sessions[w].msg, task)
    /\ UNCHANGED <<escalated, posted, asked, external>>

\* Mutant: the plan is forgotten until the money has moved.
Plan_Later(w, m, t, disposition) ==
    Continue(w, m, t,
             IF Affordable(disposition, t.settlement) THEN "calls"
             ELSE IF disposition = "USER_CANCEL_RULE" THEN "unresolved" ELSE "refused",
             PlanOf(disposition, t.settlement), GoalOf(disposition))

\* The wallet is called only when the plan it carries out is durable.
Plan(w, m, t, disposition) ==
    LET planned == [t EXCEPT !.disposition = disposition] IN
    Continue(w, m, planned,
             IF Affordable(disposition, t.settlement) THEN "calls"
             ELSE IF disposition = "USER_CANCEL_RULE" THEN "unresolved" ELSE "refused",
             PlanOf(disposition, t.settlement), GoalOf(disposition))

OnAssetImported(w, m) ==
    /\ m.type = "imported"
    /\ \/ task.status = "SETTLED" /\ Ignore(w, m)
       \/ /\ task.status # "SETTLED"
          /\ (task.status # "SUCCEEDED" \/ ~task.importRequested)
          /\ AskOperator(w, m, task)
       \/ /\ task.status = "SUCCEEDED" /\ task.importRequested
          /\ Plan(w, m, [task EXCEPT !.imported = TRUE], "SUCCESS_SETTLEMENT")
          /\ UNCHANGED escalated

UserCancels(t) == t.cancelRequested /\ t.disposition = "USER_CANCEL_RULE"

\* onFailed(PROVIDER_FAILED).
OnFailed(w, m) ==
    /\ Bound(m, task) /\ m.type = "failed"
    /\ IF task.status \in {"REFUNDED", "SUCCEEDED", "CANCELED", "SETTLED"}
       THEN Ignore(w, m)
       ELSE /\ Plan(w, m, [Moved(Identified(task, m), "FAILED") EXCEPT !.rank = 3],
                    "PROVIDER_FAILED_FULL_RELEASE")
            /\ UNCHANGED escalated

\* onFailed(PROVIDER_CANCELED): the user's stored rule applies when the user
\* asked for it; otherwise the provider's cancellation is a full release.
OnCanceled(w, m) ==
    /\ Bound(m, task) /\ m.type = "canceled"
    /\ \/ task.status = "REFUNDED" /\ Ignore(w, m)
       \/ /\ task.status # "REFUNDED" /\ UserCancels(task)
          /\ CanMove(task, "CANCELED")
          /\ Plan(w, m, [Moved(Identified(task, m), "CANCELED") EXCEPT !.rank = 3],
                  "USER_CANCEL_RULE")
          /\ UNCHANGED escalated
       \/ /\ ~UserCancels(task)
          /\ task.status \in {"SUCCEEDED", "FAILED", "SETTLED"}
          /\ Ignore(w, m)
       \/ /\ ~UserCancels(task)
          /\ task.status \in {"QUEUED", "SUBMITTING", "RUNNING", "CANCELED"}
          /\ Plan(w, m, [Moved(Identified(task, m), "CANCELED") EXCEPT !.rank = 3],
                  "PROVIDER_CANCELED_FULL_RELEASE")
          /\ UNCHANGED escalated

-----------------------------------------------------------------------------
(* Cancel commands (TaskManagementService.cancel, onCancel).               *)

\* One command per task version, bounded by the terms.
RequestCancel ==
    /\ task.status \in {"QUEUED", "RUNNING"}
    /\ task.version \notin asked /\ Cardinality(asked) < terms.commands
    /\ asked' = asked \cup {task.version}
    /\ pending' = pending \cup
           {[type |-> "cancel", status |-> task.status, version |-> task.version]}
    /\ UNCHANGED <<task, escalated, posted, sessions, external>>

Resumable(t) ==
    /\ t.cancelRequested
    /\ \/ t.disposition = "PRE_ACCEPTANCE_FULL_RELEASE" /\ t.status = "CANCELED"
       \/ t.disposition = "USER_CANCEL_RULE" /\ t.status \in {"RUNNING", "CANCELED"}

Current(m, t) ==
    /\ Resumable(t) \/ (m.status = t.status /\ m.version = t.version)
    /\ t.status \notin {"SUCCEEDED", "FAILED", "SETTLED", "REFUNDED"}

NeverAccepted(t) == ~t.accepted /\ ~t.known /\ t.status \in {"QUEUED", "CANCELED"}

OnCancel(w, m) ==
    /\ m.type = "cancel"
    /\ \/ ~Current(m, task) /\ Ignore(w, m)
       \/ /\ Current(m, task) /\ NeverAccepted(task) /\ task.status # "CANCELED"
          /\ Plan(w, m, [Moved(task, "CANCELED") EXCEPT !.rank = 3, !.cancelRequested = TRUE],
                  "PRE_ACCEPTANCE_FULL_RELEASE")
          /\ UNCHANGED escalated
       \/ /\ Current(m, task) /\ NeverAccepted(task) /\ task.status = "CANCELED"
          /\ sessions' = [sessions EXCEPT ![w] =
                 Working("calls", m, FALSE, PlanOf(task.disposition, task.settlement),
                         "REFUNDED")]
          /\ UNCHANGED <<task, escalated, pending>>
       \/ /\ Current(m, task) /\ ~NeverAccepted(task)
          /\ ~task.accepted \/ ~task.known \/ ChargePoints = None
          /\ AskOperator(w, m, task)
       \/ /\ Current(m, task) /\ task.accepted /\ task.known /\ ChargePoints # None
          /\ IF UserCancels(task)
             THEN /\ sessions' = [sessions EXCEPT
                         ![w] = Working("cancel", m, FALSE, <<>>, None)]
                  /\ UNCHANGED <<task, pending>>
             ELSE Continue(w, m, [task EXCEPT !.cancelRequested = TRUE,
                                              !.disposition = "USER_CANCEL_RULE"],
                           "cancel", <<>>, None)
          /\ UNCHANGED escalated

\* Mutant: an answer that never came is taken for a confirmation.
RemoteCancel_Optimistic(w) ==
    /\ sessions[w].stage = "cancel" /\ sessions[w].leased
    /\ \E taken \in BOOLEAN :
           /\ taken => exec[task.epoch].state \in {"accepted", "running", "ambiguous", "canceled"}
           /\ remote' = (remote \/ taken)
    /\ ToStage(w, "confirmed")
    /\ UNCHANGED <<task, escalated, posted, pending, asked, exec, asset>>

\* CancellationPort.cancel.  A confirmed cancellation may still be answered
\* with a timeout, and a refused one leaves the execution as it is.
RemoteCancel(w) ==
    /\ sessions[w].stage = "cancel" /\ sessions[w].leased
    /\ \E taken \in BOOLEAN, confirmed \in BOOLEAN :
           /\ taken => exec[task.epoch].state \in {"accepted", "running", "ambiguous", "canceled"}
           /\ confirmed => taken
           /\ remote' = (remote \/ taken)
           /\ ToStage(w, IF confirmed THEN "confirmed" ELSE "unresolved")
    /\ UNCHANGED <<task, escalated, posted, pending, asked, exec, asset>>

\* The confirmed cancellation is written before its price is posted.
ConfirmCancel(w) ==
    /\ sessions[w].stage = "confirmed" /\ MayWrite(w) /\ CanMove(task, "CANCELED")
    /\ Plan(w, sessions[w].msg, [Moved(task, "CANCELED") EXCEPT !.rank = 3],
            task.disposition)
    /\ UNCHANGED <<escalated, posted, asked, external>>

\* The cancellation was not confirmed, or its charge exceeds the quote.
Unresolved(w) ==
    /\ sessions[w].stage = "unresolved" /\ MayWrite(w)
    /\ AskOperator(w, sessions[w].msg, task)
    /\ UNCHANGED <<posted, asked, external>>

Consume(w, m) ==
    /\ Takes(w, m)
    /\ \/ OnOtherEpoch(w, m)
       \/ OnAmbiguous(w, m)
       \/ OnProgress(w, m)
       \/ OnSucceeded(w, m)
       \/ OnAssetImported(w, m)
       \/ OnFailed(w, m)
       \/ OnCanceled(w, m)
       \/ OnCancel(w, m)
    /\ UNCHANGED <<posted, asked, external>>

-----------------------------------------------------------------------------
(* Carrying out a plan.                                                    *)

\* ensureLease, then the HTTP call: from here on it can reach the wallet
\* after the lease has passed to another worker.
Send(w) ==
    /\ sessions[w].stage = "calls" /\ sessions[w].calls # <<>> /\ sessions[w].leased
    /\ ToStage(w, "sent")
    /\ UNCHANGED <<task, escalated, posted, pending, asked, external>>

Deliver(w) ==
    /\ sessions[w].stage = "sent"
    /\ LET c == Head(sessions[w].calls) IN
       /\ WalletAccepts(c)
       /\ posted' = [posted EXCEPT ![c.key] = c]
    /\ sessions' = [sessions EXCEPT ![w].stage = "calls", ![w].calls = Tail(@)]
    /\ UNCHANGED <<task, escalated, pending, asked, external>>

\* Mutant: the task is closed while a call is outstanding.
Conclude_Early(w) ==
    /\ sessions[w].stage \in {"calls", "sent"} /\ Len(sessions[w].calls) < 2 /\ MayWrite(w)
    /\ CanMove(task, sessions[w].goal)
    /\ Complete(w, sessions[w].msg, Moved(task, sessions[w].goal))
    /\ UNCHANGED <<escalated, posted, asked, external>>

\* Every call was answered: finishRefund, or the move to SETTLED, which
\* records the points that were settled.
Conclude(w) ==
    /\ sessions[w].stage = "calls" /\ sessions[w].calls = <<>> /\ MayWrite(w)
    /\ CanMove(task, sessions[w].goal)
    /\ Complete(w, sessions[w].msg,
                [Moved(task, sessions[w].goal) EXCEPT
                    !.settlement = IF sessions[w].goal = "SETTLED" /\ UserCancels(task)
                                   THEN ChargePoints ELSE @])
    /\ UNCHANGED <<escalated, posted, asked, external>>

\* Time passes: the lease of w's message expires.
Lapse(w) ==
    /\ sessions[w].leased
    /\ sessions' = [sessions EXCEPT ![w].leased = FALSE]
    /\ UNCHANGED <<task, escalated, posted, pending, asked, external>>

\* The handler of w throws: its lease is gone, its write would be fenced, the
\* wallet refuses, or the amounts are invalid.  A consumer's message is
\* delivered again.
GiveUp(w) ==
    /\ Busy(w)
    /\ \/ ~sessions[w].leased /\ sessions[w].stage # "sent"
       \/ /\ ~sessions[w].fresh
          /\ \/ sessions[w].stage \in {"confirmed", "unresolved", "planned", "unplanned"}
             \/ sessions[w].stage = "calls" /\ sessions[w].calls = <<>>
       \/ /\ sessions[w].stage = "sent" /\ ~WalletAccepts(Head(sessions[w].calls))
          /\ ~sessions[w].leased \/ sessions[w].msg # RepairMessage
       \/ sessions[w].stage = "refused"
    /\ sessions' = [sessions EXCEPT ![w] = Idle]
    /\ UNCHANGED <<task, escalated, posted, pending, asked, external>>

\* The process of w dies, or a call or a transaction fails for reasons of
\* its own.
Crash(w) ==
    /\ Busy(w)
    /\ sessions' = [sessions EXCEPT ![w] = Down]
    /\ UNCHANGED <<task, escalated, posted, pending, asked, external>>

Restart(w) ==
    /\ sessions[w] = Down
    /\ sessions' = [sessions EXCEPT ![w] = Idle]
    /\ UNCHANGED <<task, escalated, posted, pending, asked, external>>

-----------------------------------------------------------------------------
(* The repair job (TaskRepairJob).                                         *)

\* localExpectedProviderState, when the execution can be inspected at all.
Expected(t) ==
    CASE t.status = "SUCCEEDED" -> "succeeded"
      [] t.status = "FAILED"    -> "failed"
      [] t.status = "CANCELED"  -> "canceled"
      [] OTHER                  -> None

\* providerIdentity.
Inspectable(t) == t.identified /\ t.known

\* pendingFinancialPlan is PENDING.
HasPlan(t) ==
    /\ \/ t.status = "SUCCEEDED" /\ t.disposition = "SUCCESS_SETTLEMENT" /\ t.imported
       \/ t.status = "FAILED" /\ t.disposition = "PROVIDER_FAILED_FULL_RELEASE"
       \/ t.status = "CANCELED" /\ t.disposition \in
              {"PRE_ACCEPTANCE_FULL_RELEASE", "PROVIDER_CANCELED_FULL_RELEASE",
               "USER_CANCEL_RULE"}
    /\ Affordable(t.disposition, t.settlement)

\* pendingFinancialPlan is INVALID: a disposition that the status does not carry
\* out, or cannot.
InvalidPlan(t) ==
    t.status \in {"SUCCEEDED", "FAILED", "CANCELED"} /\ t.disposition # None /\ ~HasPlan(t)

\* A scan finds the task older than its deadline and claims a repair of it;
\* what follows uses the task as the scan read it.
RepairScan(w) ==
    /\ sessions[w] = Idle
    /\ task.status \notin {"SETTLED", "REFUNDED"}
    /\ sessions' = [sessions EXCEPT ![w] =
           IF HasPlan(task)
           THEN [Working("planned", RepairMessage, FALSE,
                         PlanOf(task.disposition, task.settlement),
                         GoalOf(task.disposition)) EXCEPT
                    !.expect = IF Inspectable(task)
                               THEN [epoch |-> task.epoch, state |-> Expected(task)]
                               ELSE None]
           ELSE Working("unplanned", RepairMessage, FALSE, <<>>, None)]
    /\ UNCHANGED <<task, escalated, posted, pending, asked, external>>

\* No provider task to inspect, or it is in the state that the plan implies.
AsExpected(x) == x # None => exec[x.epoch].state = x.state

\* convergeFinancial, when the provider's state does not contradict the plan
\* or cannot be inspected.  A stale snapshot is only noticed by a write.
RepairConverge(w) ==
    /\ sessions[w].stage = "planned" /\ sessions[w].leased
    /\ AsExpected(sessions[w].expect)
    /\ ToStage(w, "calls")
    /\ UNCHANGED <<task, escalated, posted, pending, asked, external>>

\* Mutant: an execution that has failed is taken for one never accepted.
Accepted_ByState(x) == x.state \in {"accepted", "running", "succeeded"}

\* The inspection proves acceptance by the provider's own record.
Accepted(x) == x.taken

\* What inspect establishes must not contradict what the task knows.
Contradicts(t, x) ==
    \/ Expected(t) # None /\ x.state # Expected(t)
    \/ ~terms.billing
    \/ x.state = "ambiguous"
    \/ ~Accepted(x) /\ t.accepted
    \/ Accepted(x) /\ ~t.accepted /\ t.rank > 0

\* isSafeFailoverAuthorized.  After a failover the substitute is the task's
\* provider, so that epoch 1 is the last.
SafeFailover(t) ==
    /\ terms.authorized
    /\ t.status = "SUBMITTING" /\ ~t.accepted /\ t.rank = 0
    /\ t.disposition = None
    /\ t.identified /\ t.epoch = 0
    /\ SubstitutePoints # None /\ SubstitutePoints <= Quote

\* scheduleFailover: the substitute is queued under a new route epoch.
RepairFailover(w) ==
    /\ sessions[w].stage = "unplanned" /\ MayWrite(w)
    /\ Inspectable(task)
    /\ LET x == exec[task.epoch] IN
       ~Contradicts(task, x) /\ ~Accepted(x) /\ x.state \in {"failed", "canceled"}
    /\ SafeFailover(task)
    /\ Commit(w, [task EXCEPT !.status = "QUEUED", !.version = @ + 1, !.accepted = FALSE,
                              !.rank = 0, !.known = FALSE, !.identified = FALSE,
                              !.epoch = @ + 1, !.settlement = SubstitutePoints],
              Idle)
    /\ UNCHANGED <<escalated, posted, pending, asked, external>>

\* The state of an accepted execution is replayed as a new provider event.  The
\* lease is renewed, but nothing looks whether the task was written since the
\* scan: of a stale snapshot, e is its route epoch, and what else it held when
\* it was compared with the inspection is left open.
RepairReplay(w) ==
    /\ sessions[w].stage = "unplanned" /\ sessions[w].leased
    /\ terms.billing
    /\ \E e \in 0..task.epoch :
       LET x == exec[e] IN
       /\ sessions[w].fresh => /\ e = task.epoch /\ Inspectable(task)
                              /\ ~InvalidPlan(task) /\ ~Contradicts(task, x)
       /\ Accepted(x) /\ x.state # "ambiguous"
       /\ x.state = "succeeded" => x.result
       /\ sessions' = [sessions EXCEPT ![w].stage = "replay",
                           ![w].msg = Event(x.state, e, TRUE, x.result)]
    /\ UNCHANGED <<task, escalated, posted, pending, asked, external>>

\* completeRepairMessage: reads the task again.
RepairClose(w) ==
    /\ sessions[w].stage = "closing" /\ sessions[w].leased
    /\ Commit(w, task, Idle)
    /\ UNCHANGED <<escalated, posted, pending, asked, external>>

\* operatorCase: nothing to converge and nothing to replay safely.  With a stale
\* snapshot its write is fenced, which only ends the repair (GiveUp).
RepairEscalate(w) ==
    /\ MayWrite(w)
    /\ \/ sessions[w].stage = "planned" /\ ~AsExpected(sessions[w].expect)
       \/ /\ sessions[w].stage = "unplanned"
          /\ \/ InvalidPlan(task)
             \/ ~Inspectable(task)
             \/ Contradicts(task, exec[task.epoch])
             \/ ~Accepted(exec[task.epoch]) /\ ~SafeFailover(task)
             \/ exec[task.epoch].state = "succeeded" /\ ~exec[task.epoch].result
    /\ escalated' = TRUE
    /\ Commit(w, task, Idle)
    /\ UNCHANGED <<posted, pending, asked, external>>

\* An error in the middle of a repair opens a case on the task as it is now.
RepairError(w) ==
    /\ sessions[w].leased
    /\ sessions[w].msg = RepairMessage \/ Nested(w)
    /\ escalated' = TRUE
    /\ Commit(w, task, Down)
    /\ UNCHANGED <<posted, pending, asked, external>>

-----------------------------------------------------------------------------
(* The provider side and the asset service.                                *)

Unsubmitted == [state |-> "none", known |-> FALSE, taken |-> FALSE, result |-> FALSE]

Terminal == {"succeeded", "failed", "canceled"}

Report(e, x) ==
    /\ exec' = [exec EXCEPT ![e] = x]
    /\ pending' = pending \cup {Event(x.state, e, x.known, x.result)}
    /\ UNCHANGED <<task, escalated, posted, sessions, asked, remote, asset>>

\* The first answer of provider-runtime to generation.task-queued.
Submit(e) ==
    /\ exec[e].state = "none" /\ e <= task.epoch
    /\ \/ \E s \in {"accepted", "running"} :
              Report(e, [state |-> s, known |-> TRUE, taken |-> TRUE, result |-> FALSE])
       \/ Report(e, [state |-> "failed", known |-> FALSE, taken |-> FALSE, result |-> FALSE])
       \/ \E known \in BOOLEAN :
              Report(e, [state |-> "ambiguous", known |-> known, taken |-> FALSE,
                         result |-> FALSE])

\* A callback or a poll.  States only advance, ambiguity is resolved only
\* for a known provider task, and a confirmed cancellation is final.
Advance(e) ==
    /\ exec[e].known /\ exec[e].state \notin Terminal
    /\ \/ /\ exec[e].state = "accepted" /\ ~remote
          /\ Report(e, [exec[e] EXCEPT !.state = "running"])
       \/ /\ exec[e].state \in {"accepted", "running"}
          /\ Report(e, [exec[e] EXCEPT !.state = "ambiguous"])
       \/ /\ ~(remote /\ e = task.epoch)
          /\ \/ \E result \in BOOLEAN :
                    Report(e, [exec[e] EXCEPT !.state = "succeeded", !.taken = TRUE,
                                              !.result = result])
             \/ Report(e, [exec[e] EXCEPT !.state = "failed"])
       \/ /\ remote \/ terms.cancels
          /\ Report(e, [exec[e] EXCEPT !.state = "canceled"])

\* The asset service stores the results and announces it.
ImportAsset ==
    /\ asset = "requested"
    /\ asset' = "imported"
    /\ pending' = pending \cup {[type |-> "imported"]}
    /\ UNCHANGED <<task, escalated, posted, sessions, asked, exec, remote>>

-----------------------------------------------------------------------------
Epochs == {0, 1}

NewTask == [status |-> "QUEUED", version |-> 0, accepted |-> FALSE, rank |-> 0,
            identified |-> FALSE, known |-> FALSE, epoch |-> 0,
            importRequested |-> FALSE, imported |-> FALSE, cancelRequested |-> FALSE,
            disposition |-> None, settlement |-> SettlementPoints]

Init ==
    /\ terms \in Terms
    /\ task = NewTask
    /\ escalated = FALSE
    /\ posted = [k \in WalletKeys |-> None]
    /\ sessions = [w \in Workers |-> Idle]
    /\ pending = {}
    /\ asked = {}
    /\ exec = [e \in Epochs |-> Unsubmitted]
    /\ remote = FALSE
    /\ asset = "none"

Step(w) ==
    \/ RequestImport(w)
    \/ CompleteImport(w)
    \/ RemoteCancel(w)
    \/ ConfirmCancel(w)
    \/ Unresolved(w)
    \/ Send(w)
    \/ Deliver(w)
    \/ Conclude(w)
    \/ RepairConverge(w)
    \/ RepairClose(w)

Messages == pending \cup {sessions[w].msg : w \in Workers}

Act ==
    \/ \E w \in Workers :
           \/ \E m \in Messages : Consume(w, m)
           \/ Step(w)
           \/ Lapse(w)
           \/ GiveUp(w)
           \/ Crash(w)
           \/ Restart(w)
           \/ RepairScan(w)
           \/ RepairFailover(w)
           \/ RepairReplay(w)
           \/ RepairEscalate(w)
           \/ RepairError(w)
    \/ RequestCancel
    \/ \E e \in Epochs : Submit(e) \/ Advance(e)
    \/ ImportAsset

Next == Act /\ UNCHANGED terms

Spec == Init /\ [][Next]_<<vars, terms>>

\* Queues redeliver to consumers that the repair job does not hold up: a
\* message that can be taken again and again is taken (only what the repair job
\* cannot make up for is assumed).  A repair of the task comes once in its
\* deadline of minutes, so that it does not fence the last write of a handler
\* for ever.  Workers take their steps and come back.
Fairness ==
    /\ \A type \in {"succeeded", "imported"} :
           SF_vars(\E w \in Workers, m \in pending : m.type = type /\ Consume(w, m))
    /\ \A w \in Workers :
           /\ SF_vars(Conclude(w) \/ ConfirmCancel(w))
           /\ WF_vars(Step(w) \/ GiveUp(w) \/ Restart(w) \/ RepairEscalate(w))
           /\ WF_vars(RepairScan(w))
    /\ WF_vars(ImportAsset)

LiveSpec == Spec /\ Fairness

-----------------------------------------------------------------------------
(* Correctness.                                                            *)

Dispositions == {"PRE_ACCEPTANCE_FULL_RELEASE", "PROVIDER_FAILED_FULL_RELEASE",
                 "PROVIDER_CANCELED_FULL_RELEASE", "USER_CANCEL_RULE", "SUCCESS_SETTLEMENT"}

Commands == [key : WalletKeys, kind : {"SETTLE", "RELEASE"}, points : Nat,
             reason : {"CANCELED_BEFORE_PROVIDER_ACCEPTANCE", "PROVIDER_FAILED",
                       "PROVIDER_CANCELED", "PROVIDER_CANCEL_CONFIRMED",
                       "GENERATION_SUCCEEDED", "QUOTE_DIFFERENCE"}]

\* None stands for a field of the database that is null.
ASSUME NoneAssumption == None \notin Dispositions \cup Commands \cup Nat

TypeOK ==
    /\ task \in [status : Statuses, version : Nat, accepted : BOOLEAN, rank : 0..3,
                 identified : BOOLEAN, known : BOOLEAN, epoch : Epochs,
                 importRequested : BOOLEAN, imported : BOOLEAN, cancelRequested : BOOLEAN,
                 disposition : Dispositions \cup {None}, settlement : Nat]
    /\ {escalated, remote} \subseteq BOOLEAN
    /\ posted \in [WalletKeys -> Commands \cup {None}]
    /\ \A w \in Workers :
           /\ {sessions[w].leased, sessions[w].fresh, sessions[w].nested} \subseteq BOOLEAN
           /\ sessions[w].calls \in Seq(Commands)
           /\ sessions[w].goal \in {"SETTLED", "REFUNDED", None}
    /\ asked \subseteq Nat
    /\ exec \in [Epochs -> [state : EventTypes \cup {"none"}, known : BOOLEAN,
                            taken : BOOLEAN, result : BOOLEAN]]
    /\ asset \in {"none", "requested", "imported"}

\* Whatever was posted to the wallet is a command of the task's durable plan:
\* no worker carries out a plan that another has replaced, and no call goes
\* out before its plan is written (runbook generation-provider 10).
PostedByPlan ==
    \A k \in WalletKeys : posted[k] # None =>
        /\ task.disposition # None
        /\ LET plan == PlanOf(task.disposition, task.settlement) IN
           \E i \in DOMAIN plan : plan[i] = posted[k]

\* The user pays for a result only when it is durably stored, and is never
\* refunded a result that is being stored (runbook generation-provider 10).
PaidForAsset ==
    /\ posted["settle"] # None /\ posted["settle"].reason = "GENERATION_SUCCEEDED"
           => asset = "imported"
    /\ task.status = "REFUNDED" => asset = "none"

\* A cancellation is charged only after the provider has confirmed it.
ChargedWhenCanceled ==
    posted["settle"] # None /\ posted["settle"].reason = "PROVIDER_CANCEL_CONFIRMED"
        => remote \/ exec[task.epoch].state = "canceled"

\* A charge is for what happened: a stored result, or a confirmed
\* cancellation (provider-events.consumer.ts).
ChargedForOutcome == PaidForAsset /\ ChargedWhenCanceled

\* The wallet is told what the plan says and what the outcome is worth,
\* whoever takes the task over half way (provider-events.consumer.ts).
PostedAsDue == PostedByPlan /\ ChargedForOutcome

\* A task is routed to a substitute only if the first provider never took
\* it, whatever events are still on their way, and nothing was posted.
FailoverIsSafe ==
    task.epoch = 1 => ~exec[0].taken /\ task.settlement <= Quote

\* The outcome of a task is that of the execution it is now routed to: a late
\* event of a substituted provider decides nothing.
OutcomeOfRoute ==
    /\ task.status = "FAILED" => exec[task.epoch].state = "failed"
    /\ task.status = "SUCCEEDED" => exec[task.epoch].state = "succeeded"
    /\ task.accepted => exec[task.epoch].taken

\* The route of a task is safe, and decides its outcome
\* (provider-events.consumer.ts, task-repair.job.ts).
RouteStands == FailoverIsSafe /\ OutcomeOfRoute

\* What the task does with its reservation is what an exclusive hold allows:
\* it is spent once and in full, and nothing moves after the task is closed.
Hold == INSTANCE PointsHold WITH
    Amount  <- Quote,
    held    <- Quote - PostedPoints("SETTLE") - PostedPoints("RELEASE"),
    charged <- PostedPoints("SETTLE"),
    closed  <- task.status \in {"SETTLED", "REFUNDED"}

KeepsHold == Hold!Spec

\* Every outcome is eventually paid out, whichever worker had recorded it:
\* once workers stop failing and leases stop expiring, a task with an outcome
\* is settled or refunded.  The one exception is a task whose outcome the
\* provider's record contradicts, and that one an operator has before him.
Calm == <>[]\A w \in Workers : sessions[w] = Idle \/ sessions[w].leased

Contradicted ==
    Inspectable(task) /\ exec[task.epoch].state # Expected(task) /\ escalated

OutcomesArePaid ==
    Calm => (task.status \in {"SUCCEEDED", "FAILED", "CANCELED"}
                 ~> task.status \in {"SETTLED", "REFUNDED"} \/ Contradicted)

\* runbook generation-provider 10: a cancellation before acceptance releases
\* the whole quote under one unique business key; 12: releasing twice is P0.
ReleasedOnce == PostedPoints("SETTLE") + PostedPoints("RELEASE") <= Quote
=============================================================================
