-------------------------- MODULE TaskSaga_proofs ---------------------------
(***************************************************************************)
(* What holds of TaskSaga for any number of workers, any amounts and any   *)
(* terms of the task, however the messages are delivered and whichever     *)
(* workers fail.                                                           *)
(***************************************************************************)
EXTENDS TaskSaga, SequenceTheorems, FiniteSetTheorems, TLAPS

-----------------------------------------------------------------------------
(* Types.                                                                  *)

Tasks == [status : Statuses, version : Nat, accepted : BOOLEAN, rank : 0..3,
          identified : BOOLEAN, known : BOOLEAN, epoch : Epochs,
          importRequested : BOOLEAN, imported : BOOLEAN, cancelRequested : BOOLEAN,
          disposition : Dispositions \cup {None}, settlement : Nat]

Executions == [state : EventTypes \cup {"none"}, known : BOOLEAN,
               taken : BOOLEAN, result : BOOLEAN]

Events == [type : EventTypes, epoch : Epochs, known : BOOLEAN, result : BOOLEAN]

Imported == [type |-> "imported"]

Cancels == [type : {"cancel"}, status : {"QUEUED", "RUNNING"}, version : Nat]

Sent == Events \cup {Imported} \cup Cancels

Stages == {"idle", "down", "import", "importing", "cancel", "confirmed", "unresolved",
           "refused", "calls", "sent", "planned", "unplanned", "replay", "closing"}

Expectations == [epoch : Epochs, state : {"succeeded", "failed", "canceled", None}]

Sessions == [stage : Stages, msg : Sent \cup {RepairMessage, None}, leased : BOOLEAN,
             fresh : BOOLEAN, nested : BOOLEAN, calls : Seq(Commands),
             goal : {"SETTLED", "REFUNDED", None}, expect : Expectations \cup {None}]

TypeInv ==
    /\ terms \in Terms
    /\ task \in Tasks
    /\ escalated \in BOOLEAN /\ remote \in BOOLEAN
    /\ posted \in [WalletKeys -> Commands \cup {None}]
    /\ sessions \in [Workers -> Sessions]
    /\ pending \subseteq Sent
    /\ asked \subseteq Nat /\ IsFiniteSet(asked)
    /\ exec \in [Epochs -> Executions]
    /\ asset \in {"none", "requested", "imported"}

-----------------------------------------------------------------------------
(* The inductive invariant of the route and of the outcome.                *)

\* What a message says is so, or was so when it was sent and cannot be undone.
Justified(m) ==
    /\ m \in Events =>
           /\ m.type \in {"accepted", "running", "succeeded"} => exec[m.epoch].taken
           /\ m.type \in Terminal => exec[m.epoch].state = m.type
    /\ m = Imported => asset = "imported"
    /\ m \in Cancels => terms.commands > 0

MessageInv == \A m \in pending : Justified(m)

ExecInv ==
    \A e \in Epochs :
        /\ exec[e].state \in {"accepted", "running", "succeeded"} => exec[e].taken
        /\ exec[e].taken => exec[e].state # "none"
        /\ exec[e].state = "canceled" => remote \/ terms.cancels

CanceledByProvider == remote \/ exec[task.epoch].state = "canceled"

\* What the price of a command rests on has happened.
Due(c) ==
    /\ task.disposition # None
    /\ c.reason = "GENERATION_SUCCEEDED" => asset = "imported"
    /\ c.reason = "PROVIDER_CANCEL_CONFIRMED" => CanceledByProvider

TaskOK(t) ==
    /\ t.status = "FAILED" => exec[t.epoch].state = "failed"
    /\ t.status = "SUCCEEDED" => exec[t.epoch].state = "succeeded"
    /\ t.accepted => exec[t.epoch].taken
    /\ t.epoch = 1 => /\ exec[0].state \in {"failed", "canceled"} /\ ~exec[0].taken
                         /\ t.settlement <= Quote
    /\ t.disposition = "USER_CANCEL_RULE" =>
           t.cancelRequested /\ t.accepted /\ ChargePoints \in Nat
    /\ t.disposition = "SUCCESS_SETTLEMENT" => asset = "imported"
    /\ t.disposition = "PRE_ACCEPTANCE_FULL_RELEASE" =>
           /\ t.status \in {"CANCELED", "SETTLED", "REFUNDED"}
           /\ ~t.accepted /\ terms.commands > 0
    /\ t.status = "CANCELED" =>
           /\ t.disposition \in {"PRE_ACCEPTANCE_FULL_RELEASE",
                                    "PROVIDER_CANCELED_FULL_RELEASE", "USER_CANCEL_RULE"}
           /\ t.disposition = "USER_CANCEL_RULE" =>
               remote \/ exec[t.epoch].state = "canceled"
    /\ asset # "none" => t.status \in {"SUCCEEDED", "SETTLED"}
    /\ remote => t.accepted

TaskInv == TaskOK(task)

\* The task may become t: what others rely on stays.
Follows(t) ==
    /\ t \in Tasks /\ TaskOK(t)
    /\ task.accepted => t.accepted
    /\ task.status \in {"SUCCEEDED", "SETTLED"} => t.status \in {"SUCCEEDED", "SETTLED"}
    /\ task.disposition # None => t.disposition # None /\ t.epoch = task.epoch

Paying == {"planned", "calls", "sent"}

SessionInv(w) ==
    /\ sessions[w].stage = "replay" => sessions[w].msg \in Sent /\ Justified(sessions[w].msg)
    /\ sessions[w].stage \in Paying => sessions[w].goal \in {"SETTLED", "REFUNDED"}
    /\ sessions[w].fresh /\ sessions[w].stage \in Paying /\ sessions[w].goal = "SETTLED"
       /\ UserCancels(task) => ChargePoints <= Quote
    /\ sessions[w].stage = "cancel" => task.accepted
    /\ sessions[w].stage = "confirmed" => remote
    /\ sessions[w].fresh /\ sessions[w].stage \in {"cancel", "confirmed"} =>
           UserCancels(task)
    /\ sessions[w].stage = "import" => task.status \in {"SUCCEEDED", "SETTLED"}
    /\ sessions[w].stage \notin Paying \cup {"unresolved", "refused"} =>
           sessions[w].calls = <<>>
    /\ sessions[w].stage = "sent" => sessions[w].calls # <<>>
    /\ \A i \in DOMAIN sessions[w].calls : Due(sessions[w].calls[i])

PostedInv == \A k \in WalletKeys : posted[k] # None => Due(posted[k])

IInv ==
    /\ TypeInv
    /\ MessageInv
    /\ ExecInv
    /\ TaskInv
    /\ \A w \in Workers : SessionInv(w)
    /\ PostedInv

-----------------------------------------------------------------------------
(* The operators.                                                          *)

LEMMA ConstantTypes ==
    /\ Quote \in Nat \ {0}
    /\ None \notin Dispositions /\ None \notin Commands /\ None \notin Nat
BY PointsAssumption, NoneAssumption

LEMMA TermsType ==
    ASSUME terms \in Terms
    PROVE  /\ SettlementPoints \in Nat
           /\ ChargePoints \in Nat \cup {None}
           /\ SubstitutePoints \in Nat \cup {None}
           /\ terms.commands \in Nat
BY TermsAssumption DEF SettlementPoints, ChargePoints, SubstitutePoints

LEMMA MovedType ==
    ASSUME NEW t \in Tasks, NEW to \in DOMAIN PathLength, CanMove(t, to)
    PROVE  /\ Moved(t, to) \in Tasks
           /\ Moved(t, to) = [t EXCEPT !.status = to, !.version = Moved(t, to).version]
<1>1. CASE t.status = to
  BY <1>1 DEF Moved, Tasks
<1>2. CASE t.status # to
  <2>1. t.status \in DOMAIN PathLength[to]
    BY <1>2 DEF CanMove
  <2>2. PathLength[to][t.status] \in Nat /\ to \in Statuses
    <3>1. to \in {"RUNNING", "SUCCEEDED", "FAILED", "CANCELED", "SETTLED", "REFUNDED"}
      BY DEF PathLength
    <3>2. CASE to = "RUNNING"
      BY <2>1, <3>2 DEF PathLength, Statuses
    <3>3. CASE to = "SUCCEEDED"
      BY <2>1, <3>3 DEF PathLength, Statuses
    <3>4. CASE to = "FAILED"
      BY <2>1, <3>4 DEF PathLength, Statuses
    <3>5. CASE to = "CANCELED"
      BY <2>1, <3>5 DEF PathLength, Statuses
    <3>6. CASE to = "SETTLED"
      BY <2>1, <3>6 DEF PathLength, Statuses
    <3>7. CASE to = "REFUNDED"
      BY <2>1, <3>7 DEF PathLength, Statuses
    <3> QED
      BY <3>1, <3>2, <3>3, <3>4, <3>5, <3>6, <3>7
  <2> DEFINE n == PathLength[to][t.status]
  <2>3. Moved(t, to) = [t EXCEPT !.status = to, !.version = t.version + n]
    BY <1>2 DEF Moved
  <2>4. t.version + n \in Nat
    BY <2>2 DEF Tasks
  <2> HIDE DEF n
  <2> QED
    BY <2>2, <2>3, <2>4 DEF Tasks
<1> QED
  BY <1>1, <1>2

\* From where each transition starts.
LEMMA MovesFrom ==
    ASSUME NEW t
    PROVE  /\ CanMove(t, "RUNNING") => t.status \in {"QUEUED", "SUBMITTING", "RUNNING"}
           /\ CanMove(t, "CANCELED") =>
                  t.status \in {"QUEUED", "SUBMITTING", "RUNNING", "CANCELED"}
           /\ CanMove(t, "SETTLED") => t.status \in {"SUCCEEDED", "CANCELED", "SETTLED"}
           /\ CanMove(t, "REFUNDED") => t.status \in {"FAILED", "CANCELED", "REFUNDED"}
           /\ t.status \in {"QUEUED", "SUBMITTING", "RUNNING", "SUCCEEDED"} =>
                  CanMove(t, "SUCCEEDED")
           /\ t.status \in {"QUEUED", "SUBMITTING", "RUNNING", "FAILED"} =>
                  CanMove(t, "FAILED")
           /\ t.status \in {"QUEUED", "SUBMITTING", "RUNNING", "CANCELED"} =>
                  CanMove(t, "CANCELED")
           /\ DOMAIN PathLength =
                  {"RUNNING", "SUCCEEDED", "FAILED", "CANCELED", "SETTLED", "REFUNDED"}
BY DEF CanMove, PathLength

LEMMA ReleaseType ==
    ASSUME NEW k \in WalletKeys, NEW p \in Nat, NEW r,
           r \in {"CANCELED_BEFORE_PROVIDER_ACCEPTANCE", "PROVIDER_FAILED",
                  "PROVIDER_CANCELED", "PROVIDER_CANCEL_CONFIRMED", "QUOTE_DIFFERENCE"}
    PROVE  /\ Release(k, p, r) \in Commands
           /\ <<Release(k, p, r)>> \in Seq(Commands)
           /\ Release(k, p, r).reason = r
BY DEF Release, Commands

LEMMA Pair ==
    ASSUME NEW S, NEW x \in S, NEW y \in S
    PROVE  <<x>> \o <<y>> = <<x, y>>
<1> DEFINE s == <<x>>
           t == <<y>>
           u == <<x, y>>
<1>1. /\ s \in Seq(S) /\ Len(s) = 1 /\ s[1] = x
      /\ t \in Seq(S) /\ Len(t) = 1 /\ t[1] = y
      /\ u \in Seq(S) /\ Len(u) = 2 /\ u[1] = x /\ u[2] = y
  OBVIOUS
<1> HIDE DEF s, t, u
<1>2. /\ s \o t \in Seq(S) /\ Len(s \o t) = 2
      /\ (s \o t)[1] = x /\ (s \o t)[2] = y
  BY <1>1, ConcatProperties
<1>3. s \o t = u
  <2>1. \A i \in 1..2 : (s \o t)[i] = u[i]
    BY <1>1, <1>2
  <2> QED
    BY <1>1, <1>2, <2>1, SeqEqual
<1> QED
  BY <1>3 DEF s, t, u

LEMMA SettleType ==
    ASSUME NEW p \in Nat, NEW r \in {"PROVIDER_CANCEL_CONFIRMED", "GENERATION_SUCCEEDED"}
    PROVE  /\ SettleAndRelease(p, r) \in Seq(Commands)
           /\ \A i \in DOMAIN SettleAndRelease(p, r) :
                  SettleAndRelease(p, r)[i].reason \in {r, "QUOTE_DIFFERENCE"}
<1> DEFINE c == [key |-> "settle", kind |-> "SETTLE", points |-> p, reason |-> r]
           d == Release("quote-difference-release", Quote - p, "QUOTE_DIFFERENCE")
<1>1. c \in Commands /\ c.reason = r
  BY DEF Commands, WalletKeys
<1>2. CASE p < Quote
  <2>1. d \in Commands /\ d.reason = "QUOTE_DIFFERENCE"
    <3>1. Quote - p \in Nat
      BY <1>2, ConstantTypes
    <3> QED
      BY <3>1, ReleaseType DEF WalletKeys
  <2>2. SettleAndRelease(p, r) = <<c, d>>
    <3> HIDE DEF d
    <3>1. SettleAndRelease(p, r) = <<c>> \o <<d>>
      BY <1>2 DEF SettleAndRelease, d
    <3> QED
      BY <1>1, <2>1, <3>1, Pair
  <2> HIDE DEF c, d
  <2> QED
    BY <1>1, <2>1, <2>2
<1>3. CASE ~(p < Quote)
  <2>1. SettleAndRelease(p, r) = <<c>>
    <3>1. SettleAndRelease(p, r) = <<c>> \o << >>
      BY <1>3 DEF SettleAndRelease
    <3> HIDE DEF c
    <3> QED
      BY <3>1
  <2> HIDE DEF c
  <2> QED
    BY <1>1, <2>1
<1> QED
  BY <1>2, <1>3

\* What a plan posts, and for which reasons.
LEMMA PlanType ==
    ASSUME NEW d \in Dispositions, NEW s \in Nat,
           d = "USER_CANCEL_RULE" => ChargePoints \in Nat
    PROVE  /\ PlanOf(d, s) \in Seq(Commands)
           /\ \A i \in DOMAIN PlanOf(d, s) :
                  /\ PlanOf(d, s)[i].reason = "GENERATION_SUCCEEDED" => d = "SUCCESS_SETTLEMENT"
                  /\ PlanOf(d, s)[i].reason = "PROVIDER_CANCEL_CONFIRMED" =>
                         d = "USER_CANCEL_RULE"
<1>0. Quote \in Nat
  BY ConstantTypes
<1>1. CASE d = "PRE_ACCEPTANCE_FULL_RELEASE"
  BY <1>0, <1>1, ReleaseType DEF PlanOf, WalletKeys
<1>2. CASE d = "PROVIDER_FAILED_FULL_RELEASE"
  BY <1>0, <1>2, ReleaseType DEF PlanOf, WalletKeys
<1>3. CASE d = "PROVIDER_CANCELED_FULL_RELEASE"
  BY <1>0, <1>3, ReleaseType DEF PlanOf, WalletKeys
<1>4. CASE d = "USER_CANCEL_RULE" /\ ChargePoints = 0
  BY <1>0, <1>4, ReleaseType DEF PlanOf, WalletKeys
<1>5. CASE d = "USER_CANCEL_RULE" /\ ChargePoints # 0
  <2>1. PlanOf(d, s) = SettleAndRelease(ChargePoints, "PROVIDER_CANCEL_CONFIRMED")
    BY <1>5 DEF PlanOf
  <2> QED
    BY <1>5, <2>1, SettleType
<1>6. CASE d = "SUCCESS_SETTLEMENT"
  <2>1. PlanOf(d, s) = SettleAndRelease(s, "GENERATION_SUCCEEDED")
    BY <1>6 DEF PlanOf
  <2> QED
    BY <1>6, <2>1, SettleType
<1> QED
  BY <1>1, <1>2, <1>3, <1>4, <1>5, <1>6 DEF Dispositions

LEMMA SessionTypes ==
    /\ Idle \in Sessions /\ Down \in Sessions
    /\ Idle.stage = "idle" /\ Idle.calls = <<>>
    /\ Down.stage = "down" /\ Down.calls = <<>>
    /\ \A stage \in Stages, m \in Sent \cup {RepairMessage, None}, nested \in BOOLEAN,
          calls \in Seq(Commands), goal \in {"SETTLED", "REFUNDED", None} :
           Working(stage, m, nested, calls, goal) \in Sessions
<1>1. << >> \in Seq(Commands)
  OBVIOUS
<1>2. Idle \in Sessions
  BY <1>1 DEF Idle, Sessions, Stages
<1>3. Idle.stage = "idle" /\ Idle.calls = <<>>
  BY DEF Idle
<1>4. Down \in Sessions /\ Down.stage = "down" /\ Down.calls = <<>>
  BY <1>2, <1>3 DEF Down, Sessions, Stages
<1>5. ASSUME NEW stage \in Stages, NEW m \in Sent \cup {RepairMessage, None},
             NEW nested \in BOOLEAN, NEW calls \in Seq(Commands),
             NEW goal \in {"SETTLED", "REFUNDED", None}
      PROVE  Working(stage, m, nested, calls, goal) \in Sessions
  BY <1>5 DEF Working, Sessions
<1> QED
  BY <1>2, <1>3, <1>4, <1>5

LEMMA GoalType == \A d : GoalOf(d) \in {"SETTLED", "REFUNDED"}
BY DEF GoalOf

-----------------------------------------------------------------------------
(* What a step of one worker does to the others.                           *)

\* The sessions other than w's are as they were, or have become stale.
Alone(w) ==
    \A v \in Workers \ {w} :
        \/ sessions'[v] = sessions[v] /\ task' = task
        \/ sessions'[v] = [sessions[v] EXCEPT !.fresh = FALSE]

LEMMA CommitType ==
    ASSUME TypeInv, NEW w \in Workers, NEW t, NEW s \in Sessions, Commit(w, t, s)
    PROVE  /\ task' = t
           /\ sessions' \in [Workers -> Sessions]
           /\ sessions'[w] = s
           /\ Alone(w)
<1>1. \A v \in Workers : [sessions[v] EXCEPT !.fresh = FALSE] \in Sessions
  BY DEF TypeInv, Sessions
<1> QED
  BY <1>1 DEF TypeInv, Commit, Alone

LEMMA SetType ==
    ASSUME TypeInv, NEW w \in Workers, NEW s \in Sessions,
           sessions' = [sessions EXCEPT ![w] = s], UNCHANGED task
    PROVE  /\ sessions' \in [Workers -> Sessions]
           /\ sessions'[w] = s
           /\ Alone(w)
BY DEF TypeInv, Alone

\* What has happened stays so.
Grows ==
    /\ \A e \in Epochs :
           /\ exec[e].taken => exec'[e].taken
           /\ exec[e].state \in Terminal => exec'[e] = exec[e]
    /\ asset = "imported" => asset' = "imported"
    /\ remote => remote'
    /\ task.accepted => task'.accepted
    /\ task.status \in {"SUCCEEDED", "SETTLED"} => task'.status \in {"SUCCEEDED", "SETTLED"}
    /\ task.disposition # None => task'.disposition # None /\ task'.epoch = task.epoch
    /\ terms' = terms

LEMMA JustifiedStays ==
    ASSUME Grows, NEW m, Justified(m)
    PROVE  Justified(m)'
BY DEF Grows, Justified, Events, Terminal

LEMMA DueStays ==
    ASSUME TypeInv, Grows, NEW c, Due(c)
    PROVE  Due(c)'
BY DEF TypeInv, Tasks, Grows, Due, CanceledByProvider, Terminal

LEMMA MessagesStay ==
    ASSUME MessageInv, Grows, \A m \in pending' : m \in pending \/ Justified(m)'
    PROVE  MessageInv'
BY JustifiedStays DEF MessageInv

LEMMA PostedStays ==
    ASSUME TypeInv, PostedInv, Grows, UNCHANGED posted
    PROVE  PostedInv'
BY DueStays DEF PostedInv

LEMMA SessionStays ==
    ASSUME TypeInv, Grows, NEW v \in Workers, SessionInv(v),
           \/ sessions'[v] = sessions[v] /\ task' = task
           \/ sessions'[v] = [sessions[v] EXCEPT !.fresh = FALSE]
    PROVE  SessionInv(v)'
<1>1. /\ sessions'[v].stage = sessions[v].stage /\ sessions'[v].msg = sessions[v].msg
      /\ sessions'[v].goal = sessions[v].goal /\ sessions'[v].calls = sessions[v].calls
      /\ sessions'[v].fresh => sessions[v].fresh /\ task' = task
  <2>1. sessions[v] \in Sessions
    BY DEF TypeInv
  <2> QED
    BY <2>1 DEF Sessions
<1>2. ChargePoints' = ChargePoints
  BY DEF Grows, ChargePoints
<1>3. (sessions[v].stage = "replay" => sessions[v].msg \in Sent /\ Justified(sessions[v].msg))'
  <2>1. sessions[v].stage = "replay" => sessions[v].msg \in Sent /\ Justified(sessions[v].msg)
    BY DEF SessionInv
  <2>2. PICK m : m = sessions[v].msg
    OBVIOUS
  <2>3. sessions[v].stage = "replay" => m \in Sent /\ Justified(m)
    BY <2>1, <2>2 DEF Justified
  <2>4. sessions[v].stage = "replay" => m \in Sent /\ Justified(m)'
    BY <2>3, JustifiedStays
  <2> QED
    BY <1>1, <2>2, <2>4 DEF Justified
<1>4. (\A i \in DOMAIN sessions[v].calls : Due(sessions[v].calls[i]))'
  <2>1. PICK c : c = sessions[v].calls
    OBVIOUS
  <2>2. \A i \in DOMAIN c : Due(c[i])
    BY <2>1 DEF SessionInv
  <2>3. \A i \in DOMAIN c : Due(c[i])'
    BY <2>2, DueStays
  <2> QED
    BY <1>1, <2>1, <2>3 DEF Due
<1> QED
  BY <1>1, <1>2, <1>3, <1>4 DEF SessionInv, Grows, UserCancels

-----------------------------------------------------------------------------
(* What a step must establish.                                             *)

\* The step leaves everything but the task and the sessions alone.
Quiet == UNCHANGED <<posted, asked, exec, remote, asset, terms>>

\* A session that holds nothing the invariant speaks of.
Blank == {"idle", "down", "importing", "unresolved", "refused", "closing", "unplanned"}

LEMMA BlankSession ==
    ASSUME NEW w \in Workers, sessions[w].stage \in Blank, sessions[w].calls = <<>>
    PROVE  SessionInv(w)
BY DEF SessionInv, Blank, Paying

LEMMA WriteGrows ==
    ASSUME TypeInv, NEW t, Follows(t), task' = t, Quiet
    PROVE  Grows /\ TaskInv' /\ t \in Tasks
<1>1. Grows
  BY DEF Follows, Grows, Quiet
<1>2. TaskOK(t)'
  BY DEF Follows, Quiet, TaskOK, ChargePoints
<1> QED
  BY <1>1, <1>2 DEF TaskInv, TaskOK, Follows

LEMMA SameFollows ==
    ASSUME TypeInv, TaskInv
    PROVE  Follows(task)
BY DEF TypeInv, TaskInv, Follows

LEMMA Keeps ==
    ASSUME IInv, NEW w \in Workers, Grows, TaskInv', Alone(w), SessionInv(w)',
           sessions' \in [Workers -> Sessions], task' \in Tasks, escalated' \in BOOLEAN,
           pending' \subseteq pending, Quiet
    PROVE  IInv'
<1>1. TypeInv'
  BY DEF IInv, TypeInv, Quiet
<1>2. MessageInv'
  BY MessagesStay DEF IInv
<1>3. ExecInv'
  BY DEF IInv, ExecInv, Quiet
<1>4. \A v \in Workers : SessionInv(v)'
  BY SessionStays DEF IInv, Alone
<1>5. PostedInv'
  BY PostedStays DEF IInv, Quiet
<1> QED
  BY <1>1, <1>2, <1>3, <1>4, <1>5 DEF IInv

LEMMA WriteKeeps ==
    ASSUME IInv, NEW w \in Workers, NEW t, NEW s \in Sessions, Follows(t), Commit(w, t, s),
           SessionInv(w)', escalated' \in BOOLEAN, pending' \subseteq pending, Quiet
    PROVE  IInv'
<1>1. /\ task' = t /\ sessions' \in [Workers -> Sessions] /\ Alone(w)
  BY CommitType DEF IInv
<1>2. Grows /\ TaskInv' /\ t \in Tasks
  BY <1>1, WriteGrows DEF IInv
<1> QED
  BY <1>1, <1>2, Keeps

LEMMA SetKeeps ==
    ASSUME IInv, NEW w \in Workers, NEW s \in Sessions,
           sessions' = [sessions EXCEPT ![w] = s], SessionInv(w)', UNCHANGED task,
           escalated' \in BOOLEAN, pending' \subseteq pending, Quiet
    PROVE  IInv'
<1>1. /\ sessions' \in [Workers -> Sessions] /\ Alone(w)
  BY SetType DEF IInv
<1>2. Follows(task)
  BY SameFollows DEF IInv
<1>3. Grows /\ TaskInv' /\ task' \in Tasks
  BY <1>2, WriteGrows DEF IInv
<1> QED
  BY <1>1, <1>3, Keeps

LEMMA CompleteKeeps ==
    ASSUME IInv, NEW w \in Workers, NEW m, NEW t, Follows(t), Complete(w, m, t),
           escalated' \in BOOLEAN, Quiet
    PROVE  IInv'
<1> DEFINE s == IF Nested(w) THEN Working("closing", RepairMessage, FALSE, <<>>, None)
                ELSE Idle
<1>1. s \in Sessions /\ s.stage \in Blank /\ s.calls = <<>>
  <2>1. Working("closing", RepairMessage, FALSE, <<>>, None) \in Sessions
    <3>1. << >> \in Seq(Commands)
      OBVIOUS
    <3> QED
      BY <3>1, SessionTypes DEF Stages
  <2>2. /\ Working("closing", RepairMessage, FALSE, <<>>, None).stage = "closing"
        /\ Working("closing", RepairMessage, FALSE, <<>>, None).calls = <<>>
    BY DEF Working
  <2> QED
    BY <2>1, <2>2, SessionTypes DEF Blank
<1>2. Commit(w, t, s) /\ pending' \subseteq pending
  BY DEF Complete
<1> HIDE DEF s
<1>3. sessions'[w] = s
  BY <1>1, <1>2, CommitType DEF IInv
<1>4. SessionInv(w)'
  BY <1>1, <1>3 DEF SessionInv, Blank, Paying
<1> QED
  BY <1>1, <1>2, <1>4, WriteKeeps

\* w goes on to request the import, or the cancellation.
LEMMA ContinueKeeps ==
    ASSUME IInv, NEW w \in Workers, NEW m \in Sent, NEW t, Follows(t),
           NEW stage \in {"import", "cancel"}, Continue(w, m, t, stage, <<>>, None),
           stage = "import" => t.status = "SUCCEEDED",
           stage = "cancel" => t.accepted /\ UserCancels(t),
           escalated' \in BOOLEAN, Quiet
    PROVE  IInv'
<1> DEFINE s == Working(stage, m, Nested(w), <<>>, None)
<1>0. Nested(w) \in BOOLEAN
  <2>1. sessions[w] \in Sessions
    BY DEF IInv, TypeInv
  <2> QED
    BY <2>1 DEF Nested, Sessions
<1>1. s \in Sessions
  <2>1. << >> \in Seq(Commands)
    OBVIOUS
  <2> QED
    BY <1>0, <2>1, SessionTypes DEF Stages
<1>2. s.stage = stage /\ s.calls = <<>>
  BY DEF Working
<1>3. Commit(w, t, s) /\ pending' \subseteq pending
  BY DEF Continue
<1> HIDE DEF s
<1>4. sessions'[w] = s /\ task' = t
  BY <1>1, <1>3, CommitType DEF IInv
<1>5. SessionInv(w)'
  BY <1>2, <1>4 DEF SessionInv, Paying, UserCancels
<1> QED
  BY <1>1, <1>3, <1>5, WriteKeeps

LEMMA PlanKeeps ==
    ASSUME IInv, NEW w \in Workers, NEW m \in Sent \cup {RepairMessage, None},
           NEW t \in Tasks, NEW d \in Dispositions, Plan(w, m, t, d),
           Follows([t EXCEPT !.disposition = d]), t.epoch = task.epoch,
           d = "USER_CANCEL_RULE" => ChargePoints \in Nat /\ CanceledByProvider,
           d = "SUCCESS_SETTLEMENT" => asset = "imported",
           escalated' \in BOOLEAN, Quiet
    PROVE  IInv'
<1> DEFINE planned == [t EXCEPT !.disposition = d]
           stage == IF Affordable(d, t.settlement) THEN "calls"
                    ELSE IF d = "USER_CANCEL_RULE" THEN "unresolved" ELSE "refused"
           calls == PlanOf(d, t.settlement)
           s == Working(stage, m, Nested(w), calls, GoalOf(d))
<1>0. Nested(w) \in BOOLEAN
  <2>1. sessions[w] \in Sessions
    BY DEF IInv, TypeInv
  <2> QED
    BY <2>1 DEF Nested, Sessions
<1>1. /\ calls \in Seq(Commands)
      /\ \A i \in DOMAIN calls :
             /\ calls[i].reason = "GENERATION_SUCCEEDED" => asset = "imported"
             /\ calls[i].reason = "PROVIDER_CANCEL_CONFIRMED" => CanceledByProvider
  <2>1. t.settlement \in Nat
    BY DEF Tasks
  <2> QED
    BY <2>1, PlanType
<1>2. stage \in {"calls", "unresolved", "refused"}
  OBVIOUS
<1>3. stage = "calls" /\ d = "USER_CANCEL_RULE" => ChargePoints <= Quote
  BY DEF Affordable
<1>4. Commit(w, planned, s) /\ pending' \subseteq pending
  BY DEF Plan, Continue
<1>5. planned \in Tasks /\ planned.disposition = d /\ planned.epoch = task.epoch
  BY DEF Tasks
<1> HIDE DEF planned, stage, calls
<1>6. s \in Sessions
  BY <1>0, <1>1, <1>2, GoalType, SessionTypes DEF Stages
<1>7. /\ s.stage = stage /\ s.calls = calls /\ s.goal = GoalOf(d)
  BY DEF Working
<1> HIDE DEF s
<1>8. sessions'[w] = s /\ task' = planned
  BY <1>4, <1>6, CommitType DEF IInv
<1>9. (\A i \in DOMAIN sessions[w].calls : Due(sessions[w].calls[i]))'
  <2>1. PICK c : c = calls
    OBVIOUS
  <2>2. d # None
    BY ConstantTypes
  <2>3. \A i \in DOMAIN c : Due(c[i])'
    BY <1>1, <1>5, <1>8, <2>1, <2>2 DEF Due, CanceledByProvider, Quiet
  <2> QED
    BY <1>7, <1>8, <2>1, <2>3 DEF Due
<1>10. SessionInv(w)'
  <2>1. s.goal \in {"SETTLED", "REFUNDED"}
    BY <1>7, GoalType
  <2>2. ChargePoints' = ChargePoints
    BY DEF Quiet, ChargePoints
  <2> QED
    BY <1>2, <1>3, <1>5, <1>7, <1>8, <1>9, <2>1, <2>2 DEF SessionInv, Paying, UserCancels
<1> QED
  BY <1>4, <1>6, <1>10, WriteKeeps DEF planned

-----------------------------------------------------------------------------
(* The handlers of the messages.                                           *)

LEMMA SentTypes ==
    ASSUME NEW m \in Sent
    PROVE  /\ EventOf(m) => m \in Events
           /\ m.type = "imported" => m = Imported
           /\ m.type = "cancel" => m \in Cancels
BY DEF Sent, Events, Imported, Cancels, EventOf, EventTypes

\* What a transition and an identification leave as it was.
LEMMA MovedFields ==
    ASSUME NEW t \in Tasks, NEW to \in DOMAIN PathLength, CanMove(t, to)
    PROVE  /\ Moved(t, to) \in Tasks
           /\ Moved(t, to).status = to
           /\ Moved(t, to).accepted = t.accepted
           /\ Moved(t, to).epoch = t.epoch
           /\ Moved(t, to).disposition = t.disposition
           /\ Moved(t, to).cancelRequested = t.cancelRequested
           /\ Moved(t, to).settlement = t.settlement
<1> DEFINE x == Moved(t, to)
<1>1. x \in Tasks /\ x = [t EXCEPT !.status = to, !.version = x.version]
  BY MovedType
<1> HIDE DEF x
<1>2. /\ x.status = to /\ x.accepted = t.accepted /\ x.epoch = t.epoch
      /\ x.disposition = t.disposition /\ x.cancelRequested = t.cancelRequested
      /\ x.settlement = t.settlement
  BY <1>1 DEF Tasks
<1> QED
  BY <1>1, <1>2 DEF x

LEMMA IdentifiedFields ==
    ASSUME NEW t \in Tasks, NEW m \in Events
    PROVE  /\ Identified(t, m) \in Tasks
           /\ Identified(t, m).status = t.status
           /\ Identified(t, m).accepted = t.accepted
           /\ Identified(t, m).epoch = t.epoch
           /\ Identified(t, m).disposition = t.disposition
           /\ Identified(t, m).cancelRequested = t.cancelRequested
           /\ Identified(t, m).settlement = t.settlement
BY DEF Identified, Tasks, Events

LEMMA MovedByEvent ==
    ASSUME NEW t \in Tasks, NEW m \in Events, NEW to \in DOMAIN PathLength, CanMove(t, to)
    PROVE  /\ Moved(Identified(t, m), to) \in Tasks
           /\ Moved(Identified(t, m), to).status = to
           /\ Moved(Identified(t, m), to).accepted = t.accepted
           /\ Moved(Identified(t, m), to).epoch = t.epoch
           /\ Moved(Identified(t, m), to).disposition = t.disposition
           /\ Moved(Identified(t, m), to).cancelRequested = t.cancelRequested
           /\ Moved(Identified(t, m), to).settlement = t.settlement
<1> DEFINE x == Identified(t, m)
<1>1. /\ x \in Tasks /\ x.status = t.status /\ x.accepted = t.accepted /\ x.epoch = t.epoch
      /\ x.disposition = t.disposition /\ x.cancelRequested = t.cancelRequested
      /\ x.settlement = t.settlement
  BY IdentifiedFields
<1> HIDE DEF x
<1>2. CanMove(x, to)
  BY <1>1 DEF CanMove
<1>3. /\ Moved(x, to) \in Tasks
      /\ Moved(x, to).status = to
      /\ Moved(x, to).accepted = x.accepted
      /\ Moved(x, to).epoch = x.epoch
      /\ Moved(x, to).disposition = x.disposition
      /\ Moved(x, to).cancelRequested = x.cancelRequested
      /\ Moved(x, to).settlement = x.settlement
  BY <1>1, <1>2, MovedFields
<1> QED
  BY <1>1, <1>3 DEF x

LEMMA IgnoreKeeps ==
    ASSUME IInv, NEW w \in Workers, NEW m, Ignore(w, m), Quiet
    PROVE  IInv'
<1>1. Follows(task)
  BY SameFollows DEF IInv
<1> QED
  BY <1>1, CompleteKeeps DEF Ignore, IInv, TypeInv

LEMMA AskKeeps ==
    ASSUME IInv, NEW w \in Workers, NEW m, NEW t, Follows(t), AskOperator(w, m, t), Quiet
    PROVE  IInv'
BY CompleteKeeps DEF AskOperator

LEMMA OtherEpochKeeps ==
    ASSUME IInv, NEW w \in Workers, NEW m \in Sent, OnOtherEpoch(w, m), Quiet
    PROVE  IInv'
<1>1. Follows(task)
  BY SameFollows DEF IInv
<1> QED
  BY <1>1, AskKeeps DEF OnOtherEpoch

LEMMA AmbiguousKeeps ==
    ASSUME IInv, NEW w \in Workers, NEW m \in Sent, OnAmbiguous(w, m), Quiet
    PROVE  IInv'
<1> DEFINE x == Identified(task, m)
           t == IF x.status = "QUEUED"
                THEN [x EXCEPT !.status = "SUBMITTING", !.version = @ + 1] ELSE x
<1>1. /\ x \in Tasks /\ x.status = task.status /\ x.accepted = task.accepted
      /\ x.epoch = task.epoch /\ x.disposition = task.disposition
      /\ x.cancelRequested = task.cancelRequested /\ x.settlement = task.settlement
  BY SentTypes, IdentifiedFields DEF OnAmbiguous, Bound, IInv, TypeInv
<1>2. AskOperator(w, m, t)
  BY DEF OnAmbiguous
<1> HIDE DEF x
<1>3. /\ t \in Tasks /\ t.accepted = task.accepted
      /\ t.epoch = task.epoch /\ t.disposition = task.disposition
      /\ t.cancelRequested = task.cancelRequested /\ t.settlement = task.settlement
      /\ \/ t.status = task.status
         \/ task.status = "QUEUED" /\ t.status = "SUBMITTING"
  <2>1. CASE x.status = "QUEUED"
    <3>1. t = [x EXCEPT !.status = "SUBMITTING", !.version = @ + 1]
      BY <2>1
    <3>2. x.version + 1 \in Nat /\ "SUBMITTING" \in Statuses
      BY <1>1 DEF Tasks, Statuses
    <3> HIDE DEF t
    <3> QED
      BY <1>1, <2>1, <3>1, <3>2 DEF Tasks
  <2>2. CASE x.status # "QUEUED"
    BY <1>1, <2>2
  <2> QED
    BY <2>1, <2>2
<1> HIDE DEF t
<1>4. Follows(t)
  BY <1>3 DEF Follows, TaskOK, IInv, TaskInv
<1> QED
  BY <1>2, <1>4, AskKeeps

LEMMA ProgressKeeps ==
    ASSUME IInv, NEW w \in Workers, NEW m \in Sent, Justified(m), OnProgress(w, m), Quiet
    PROVE  IInv'
<1>1. CASE RankOf[m.type] <= task.rank
  BY <1>1, IgnoreKeeps DEF OnProgress
<1>2. CASE ~(RankOf[m.type] <= task.rank)
  <2> DEFINE x == Moved(Identified(task, m), "RUNNING")
             t == [x EXCEPT !.accepted = TRUE, !.rank = RankOf[m.type]]
  <2>1. m \in Events /\ m.epoch = task.epoch /\ m.type \in {"accepted", "running"}
        /\ RankOf[m.type] \in 0..3
    <3>1. m.type \in {"accepted", "running"} /\ RankOf[m.type] \in 0..3
      BY DEF OnProgress, RankOf
    <3> QED
      BY <3>1, SentTypes DEF OnProgress, Bound
  <2>2. CanMove(task, "RUNNING") /\ Complete(w, m, t) /\ UNCHANGED escalated
    BY <1>2 DEF OnProgress
  <2>3. /\ x \in Tasks /\ x.status = "RUNNING" /\ x.epoch = task.epoch
        /\ x.disposition = task.disposition
        /\ x.cancelRequested = task.cancelRequested /\ x.settlement = task.settlement
    BY <2>1, <2>2, MovedByEvent, MovesFrom DEF IInv, TypeInv
  <2> HIDE DEF x
  <2>4. /\ t \in Tasks /\ t.status = "RUNNING" /\ t.epoch = task.epoch /\ t.accepted
        /\ t.disposition = task.disposition
        /\ t.cancelRequested = task.cancelRequested /\ t.settlement = task.settlement
    BY <2>1, <2>3 DEF Tasks
  <2> HIDE DEF t
  <2>5. exec[task.epoch].taken /\ task.status \in {"QUEUED", "SUBMITTING", "RUNNING"}
    BY <2>1, <2>2, MovesFrom DEF Justified
  <2>6. Follows(t)
    BY <2>4, <2>5 DEF Follows, TaskOK, IInv, TypeInv, TaskInv
  <2> QED
    BY <2>2, <2>6, CompleteKeeps DEF IInv, TypeInv
<1> QED
  BY <1>1, <1>2

\* w goes on without writing the task.
LEMMA GoOnKeeps ==
    ASSUME IInv, NEW w \in Workers, NEW m \in Sent, NEW stage \in {"import", "cancel"},
           NEW nested \in BOOLEAN,
           sessions' = [sessions EXCEPT ![w] = Working(stage, m, nested, <<>>, None)],
           stage = "import" => task.status = "SUCCEEDED",
           stage = "cancel" => task.accepted /\ UserCancels(task),
           UNCHANGED <<task, escalated, pending>>, Quiet
    PROVE  IInv'
<1> DEFINE s == Working(stage, m, nested, <<>>, None)
<1>1. s \in Sessions
  <2>1. << >> \in Seq(Commands)
    OBVIOUS
  <2> QED
    BY <2>1, SessionTypes DEF Stages
<1>2. s.stage = stage /\ s.calls = <<>>
  BY DEF Working
<1>3. sessions' = [sessions EXCEPT ![w] = s]
  OBVIOUS
<1> HIDE DEF s
<1>4. sessions'[w] = s
  BY <1>3 DEF IInv, TypeInv
<1>5. SessionInv(w)'
  BY <1>2, <1>4 DEF SessionInv, Paying, UserCancels
<1> QED
  BY <1>1, <1>3, <1>5, SetKeeps DEF IInv, TypeInv

LEMMA NestedType ==
    ASSUME IInv, NEW w \in Workers
    PROVE  Nested(w) \in BOOLEAN
<1>1. sessions[w] \in Sessions
  BY DEF IInv, TypeInv
<1> QED
  BY <1>1 DEF Nested, Sessions

LEMMA SucceededKeeps ==
    ASSUME IInv, NEW w \in Workers, NEW m \in Sent, Justified(m), OnSucceeded(w, m), Quiet
    PROVE  IInv'
<1>0. m \in Events /\ m.epoch = task.epoch /\ m.type = "succeeded"
  BY SentTypes DEF OnSucceeded, Bound
<1>1. CASE task.status \in {"SETTLED", "FAILED", "CANCELED", "REFUNDED"} /\ Ignore(w, m)
  BY <1>1, IgnoreKeeps
<1>2. CASE AskOperator(w, m, Identified(task, m))
  <2> DEFINE t == Identified(task, m)
  <2>1. /\ t \in Tasks /\ t.status = task.status /\ t.accepted = task.accepted
        /\ t.epoch = task.epoch /\ t.disposition = task.disposition
        /\ t.cancelRequested = task.cancelRequested /\ t.settlement = task.settlement
    BY <1>0, IdentifiedFields DEF IInv, TypeInv
  <2> HIDE DEF t
  <2>2. Follows(t)
    BY <2>1 DEF Follows, TaskOK, IInv, TaskInv
  <2> QED
    BY <1>2, <2>2, AskKeeps DEF t
<1>3. CASE /\ task.status = "SUCCEEDED"
           /\ sessions' = [sessions EXCEPT ![w] = Working("import", m, Nested(w), <<>>, None)]
           /\ UNCHANGED <<task, escalated, pending>>
  BY <1>3, NestedType, GoOnKeeps
<1>4. CASE /\ task.status \in {"QUEUED", "SUBMITTING", "RUNNING"}
           /\ Continue(w, m, [Moved(Identified(task, m), "SUCCEEDED") EXCEPT
                                 !.accepted = TRUE, !.rank = 3, !.importRequested = TRUE],
                       "import", <<>>, None)
           /\ UNCHANGED escalated
  <2> DEFINE x == Moved(Identified(task, m), "SUCCEEDED")
             t == [x EXCEPT !.accepted = TRUE, !.rank = 3, !.importRequested = TRUE]
  <2>1. /\ x \in Tasks /\ x.status = "SUCCEEDED" /\ x.epoch = task.epoch
        /\ x.disposition = task.disposition
        /\ x.cancelRequested = task.cancelRequested /\ x.settlement = task.settlement
    BY <1>0, <1>4, MovedByEvent, MovesFrom DEF IInv, TypeInv
  <2> HIDE DEF x
  <2>2. /\ t \in Tasks /\ t.status = "SUCCEEDED" /\ t.epoch = task.epoch /\ t.accepted
        /\ t.disposition = task.disposition
        /\ t.cancelRequested = task.cancelRequested /\ t.settlement = task.settlement
    <3>1. t \in Tasks
      <4>1. 3 \in 0..3
        OBVIOUS
      <4> QED
        BY <2>1, <4>1 DEF Tasks
    <3>2. /\ t.status = x.status /\ t.epoch = x.epoch /\ t.disposition = x.disposition
          /\ t.cancelRequested = x.cancelRequested /\ t.settlement = x.settlement
      BY <2>1 DEF Tasks
    <3>3. t.accepted
      BY <2>1 DEF Tasks
    <3> QED
      BY <2>1, <3>1, <3>2, <3>3
  <2>3. Continue(w, m, t, "import", <<>>, None)
    BY <1>4 DEF x
  <2> HIDE DEF t
  <2>4. exec[task.epoch].taken /\ exec[task.epoch].state = "succeeded"
    BY <1>0 DEF Justified, Terminal
  <2>5. Follows(t)
    BY <1>4, <2>2, <2>4 DEF Follows, TaskOK, IInv, TypeInv, TaskInv
  <2> QED
    BY <1>4, <2>2, <2>3, <2>5, ContinueKeeps DEF IInv, TypeInv
<1> QED
  BY <1>1, <1>2, <1>3, <1>4 DEF OnSucceeded

\* What remains to show of a plan: the planned task.
LEMMA PlannedFields ==
    ASSUME NEW x \in Tasks, NEW d \in Dispositions
    PROVE  /\ [x EXCEPT !.disposition = d] \in Tasks
           /\ [x EXCEPT !.disposition = d].status = x.status
           /\ [x EXCEPT !.disposition = d].accepted = x.accepted
           /\ [x EXCEPT !.disposition = d].epoch = x.epoch
           /\ [x EXCEPT !.disposition = d].disposition = d
           /\ [x EXCEPT !.disposition = d].cancelRequested = x.cancelRequested
           /\ [x EXCEPT !.disposition = d].settlement = x.settlement
BY DEF Tasks

LEMMA RankedFields ==
    ASSUME NEW x \in Tasks
    PROVE  /\ [x EXCEPT !.rank = 3] \in Tasks
           /\ [x EXCEPT !.rank = 3].status = x.status
           /\ [x EXCEPT !.rank = 3].accepted = x.accepted
           /\ [x EXCEPT !.rank = 3].epoch = x.epoch
           /\ [x EXCEPT !.rank = 3].disposition = x.disposition
           /\ [x EXCEPT !.rank = 3].cancelRequested = x.cancelRequested
           /\ [x EXCEPT !.rank = 3].settlement = x.settlement
<1>1. 3 \in 0..3
  OBVIOUS
<1> QED
  BY <1>1 DEF Tasks

LEMMA ImportedKeeps ==
    ASSUME IInv, NEW w \in Workers, NEW m \in Sent, Justified(m), OnAssetImported(w, m), Quiet
    PROVE  IInv'
<1>1. CASE Ignore(w, m)
  BY <1>1, IgnoreKeeps
<1>2. CASE AskOperator(w, m, task)
  BY <1>2, AskKeeps, SameFollows DEF IInv
<1>3. CASE /\ task.status = "SUCCEEDED"
           /\ Plan(w, m, [task EXCEPT !.imported = TRUE], "SUCCESS_SETTLEMENT")
           /\ UNCHANGED escalated
  <2> DEFINE t == [task EXCEPT !.imported = TRUE]
             d == "SUCCESS_SETTLEMENT"
             p == [t EXCEPT !.disposition = d]
  <2>1. asset = "imported" /\ d \in Dispositions
    BY SentTypes DEF OnAssetImported, Justified, Dispositions
  <2>2. /\ t \in Tasks /\ t.status = "SUCCEEDED" /\ t.accepted = task.accepted
        /\ t.epoch = task.epoch /\ t.settlement = task.settlement
    BY <1>3 DEF IInv, TypeInv, Tasks
  <2>3. Plan(w, m, t, d)
    BY <1>3
  <2> HIDE DEF t
  <2>4. /\ p \in Tasks /\ p.status = "SUCCEEDED" /\ p.accepted = task.accepted
        /\ p.epoch = task.epoch /\ p.settlement = task.settlement /\ p.disposition = d
    BY <2>1, <2>2, PlannedFields
  <2>5. Follows(p)
    <3> HIDE DEF p
    <3>1. d # None
      BY <2>1, ConstantTypes
    <3> QED
      BY <1>3, <2>1, <2>4, <3>1 DEF Follows, TaskOK, IInv, TaskInv
  <2> QED
    BY <1>3, <2>1, <2>2, <2>3, <2>5, PlanKeeps DEF IInv, TypeInv
<1> QED
  BY <1>1, <1>2, <1>3 DEF OnAssetImported

LEMMA FailedKeeps ==
    ASSUME IInv, NEW w \in Workers, NEW m \in Sent, Justified(m), OnFailed(w, m), Quiet
    PROVE  IInv'
<1>1. CASE Ignore(w, m)
  BY <1>1, IgnoreKeeps
<1>2. CASE /\ task.status \notin {"REFUNDED", "SUCCEEDED", "CANCELED", "SETTLED"}
           /\ Plan(w, m, [Moved(Identified(task, m), "FAILED") EXCEPT !.rank = 3],
                   "PROVIDER_FAILED_FULL_RELEASE")
           /\ UNCHANGED escalated
  <2> DEFINE x == Moved(Identified(task, m), "FAILED")
             t == [x EXCEPT !.rank = 3]
             d == "PROVIDER_FAILED_FULL_RELEASE"
             p == [t EXCEPT !.disposition = d]
  <2>1. /\ m \in Events /\ m.epoch = task.epoch /\ exec[task.epoch].state = "failed"
        /\ d \in Dispositions
        /\ task.status \in {"QUEUED", "SUBMITTING", "RUNNING", "FAILED"}
    <3>1. m \in Events /\ m.epoch = task.epoch /\ m.type = "failed"
      BY SentTypes DEF OnFailed, Bound
    <3>2. task.status \in Statuses
      BY DEF IInv, TypeInv, Tasks
    <3> QED
      BY <1>2, <3>1, <3>2 DEF Justified, Terminal, Dispositions, Statuses
  <2>2. /\ x \in Tasks /\ x.status = "FAILED" /\ x.epoch = task.epoch
        /\ x.accepted = task.accepted /\ x.settlement = task.settlement
    BY <2>1, MovedByEvent, MovesFrom DEF IInv, TypeInv
  <2> HIDE DEF x
  <2>3. /\ t \in Tasks /\ t.status = "FAILED" /\ t.epoch = task.epoch
        /\ t.accepted = task.accepted /\ t.settlement = task.settlement
    BY <2>2, RankedFields
  <2>4. Plan(w, m, t, d)
    BY <1>2 DEF x
  <2> HIDE DEF t
  <2>5. /\ p \in Tasks /\ p.status = "FAILED" /\ p.accepted = task.accepted
        /\ p.epoch = task.epoch /\ p.settlement = task.settlement /\ p.disposition = d
    BY <2>1, <2>3, PlannedFields
  <2>6. Follows(p)
    <3> HIDE DEF p
    <3>1. d # None
      BY <2>1, ConstantTypes
    <3> QED
      BY <2>1, <2>5, <3>1 DEF Follows, TaskOK, IInv, TaskInv
  <2> QED
    BY <1>2, <2>1, <2>3, <2>4, <2>6, PlanKeeps DEF IInv, TypeInv
<1> QED
  BY <1>1, <1>2 DEF OnFailed

\* A cancellation is planned, whichever side asked for it.
LEMMA CanceledPlan ==
    ASSUME IInv, NEW w \in Workers, NEW m \in Sent \cup {RepairMessage, None},
           NEW t \in Tasks, t.status = "CANCELED", t.epoch = task.epoch,
           t.accepted = task.accepted, t.settlement = task.settlement,
           task.status \in {"QUEUED", "SUBMITTING", "RUNNING", "CANCELED"},
           NEW d \in {"PRE_ACCEPTANCE_FULL_RELEASE", "PROVIDER_CANCELED_FULL_RELEASE",
                      "USER_CANCEL_RULE"},
           d = "PRE_ACCEPTANCE_FULL_RELEASE" => ~task.accepted /\ terms.commands > 0,
           d = "USER_CANCEL_RULE" =>
               task.disposition = d /\ t.cancelRequested /\ CanceledByProvider,
           Plan(w, m, t, d), UNCHANGED escalated, Quiet
    PROVE  IInv'
<1> DEFINE p == [t EXCEPT !.disposition = d]
<1>1. d \in Dispositions /\ d # None
  BY ConstantTypes DEF Dispositions
<1>2. /\ p \in Tasks /\ p.status = "CANCELED" /\ p.accepted = task.accepted
      /\ p.epoch = task.epoch /\ p.settlement = task.settlement /\ p.disposition = d
      /\ p.cancelRequested = t.cancelRequested
  BY <1>1, PlannedFields
<1>3. d = "USER_CANCEL_RULE" => ChargePoints \in Nat /\ task.accepted
  BY DEF IInv, TaskInv, TaskOK
<1>4. Follows(p)
  <2> HIDE DEF p
  <2> QED
    BY <1>1, <1>2, <1>3 DEF Follows, TaskOK, IInv, TaskInv, CanceledByProvider
<1> QED
  BY <1>1, <1>3, <1>4, PlanKeeps DEF IInv, TypeInv

LEMMA CanceledKeeps ==
    ASSUME IInv, NEW w \in Workers, NEW m \in Sent, Justified(m), OnCanceled(w, m), Quiet
    PROVE  IInv'
<1> DEFINE x == Moved(Identified(task, m), "CANCELED")
           t == [x EXCEPT !.rank = 3]
<1>1. /\ m \in Events /\ m.epoch = task.epoch /\ CanceledByProvider
  <2>1. m \in Events /\ m.epoch = task.epoch /\ m.type = "canceled"
    BY SentTypes DEF OnCanceled, Bound
  <2> QED
    BY <2>1 DEF Justified, Terminal, CanceledByProvider
<1>2. ASSUME CanMove(task, "CANCELED")
      PROVE  /\ t \in Tasks /\ t.status = "CANCELED" /\ t.epoch = task.epoch
             /\ t.accepted = task.accepted /\ t.settlement = task.settlement
             /\ t.cancelRequested = task.cancelRequested
             /\ task.status \in {"QUEUED", "SUBMITTING", "RUNNING", "CANCELED"}
  <2>1. /\ x \in Tasks /\ x.status = "CANCELED" /\ x.epoch = task.epoch
        /\ x.accepted = task.accepted /\ x.settlement = task.settlement
        /\ x.cancelRequested = task.cancelRequested
    BY <1>1, <1>2, MovedByEvent, MovesFrom DEF IInv, TypeInv
  <2> HIDE DEF x
  <2> QED
    BY <1>2, <2>1, RankedFields, MovesFrom
<1>3. CASE Ignore(w, m)
  BY <1>3, IgnoreKeeps
<1>4. CASE /\ UserCancels(task) /\ CanMove(task, "CANCELED")
           /\ Plan(w, m, t, "USER_CANCEL_RULE") /\ UNCHANGED escalated
  <2> HIDE DEF t
  <2> QED
    BY <1>1, <1>2, <1>4, CanceledPlan DEF UserCancels
<1>5. CASE /\ task.status \in {"QUEUED", "SUBMITTING", "RUNNING", "CANCELED"}
           /\ Plan(w, m, t, "PROVIDER_CANCELED_FULL_RELEASE") /\ UNCHANGED escalated
  <2>1. CanMove(task, "CANCELED")
    BY <1>5, MovesFrom
  <2> HIDE DEF t
  <2> QED
    BY <1>2, <1>5, <2>1, CanceledPlan
<1> QED
  BY <1>3, <1>4, <1>5 DEF OnCanceled

LEMMA CancelKeeps ==
    ASSUME IInv, NEW w \in Workers, NEW m \in Sent, Justified(m), OnCancel(w, m), Quiet
    PROVE  IInv'
<1>1. m \in Cancels /\ terms.commands > 0 /\ task \in Tasks
  BY SentTypes DEF OnCancel, Justified, IInv, TypeInv
<1>2. CASE Ignore(w, m)
  BY <1>2, IgnoreKeeps
<1>3. CASE /\ Current(m, task) /\ NeverAccepted(task) /\ task.status # "CANCELED"
           /\ Plan(w, m, [Moved(task, "CANCELED") EXCEPT !.rank = 3, !.cancelRequested = TRUE],
                   "PRE_ACCEPTANCE_FULL_RELEASE")
           /\ UNCHANGED escalated
  <2> DEFINE x == Moved(task, "CANCELED")
             t == [x EXCEPT !.rank = 3, !.cancelRequested = TRUE]
  <2>1. task.status = "QUEUED" /\ ~task.accepted
    BY <1>3 DEF NeverAccepted
  <2>2. /\ x \in Tasks /\ x.status = "CANCELED" /\ x.epoch = task.epoch
        /\ x.accepted = task.accepted /\ x.settlement = task.settlement
    BY <1>1, <2>1, MovedFields, MovesFrom
  <2> HIDE DEF x
  <2>3. /\ t \in Tasks /\ t.status = "CANCELED" /\ t.epoch = task.epoch
        /\ t.accepted = task.accepted /\ t.settlement = task.settlement
    <3>1. 3 \in 0..3
      OBVIOUS
    <3>2. t \in Tasks
      BY <2>2, <3>1 DEF Tasks
    <3>3. /\ t.status = x.status /\ t.epoch = x.epoch
          /\ t.accepted = x.accepted /\ t.settlement = x.settlement
      BY <2>2 DEF Tasks
    <3> QED
      BY <2>2, <3>2, <3>3
  <2>4. Plan(w, m, t, "PRE_ACCEPTANCE_FULL_RELEASE")
    BY <1>3 DEF x
  <2> HIDE DEF t
  <2> QED
    BY <1>1, <1>3, <2>1, <2>3, <2>4, CanceledPlan
<1>4. CASE /\ Current(m, task) /\ NeverAccepted(task) /\ task.status = "CANCELED"
           /\ sessions' = [sessions EXCEPT ![w] =
                  Working("calls", m, FALSE, PlanOf(task.disposition, task.settlement),
                          "REFUNDED")]
           /\ UNCHANGED <<task, escalated, pending>>
  <2> DEFINE d == task.disposition
             calls == PlanOf(d, task.settlement)
             s == Working("calls", m, FALSE, calls, "REFUNDED")
  <2>1. d \in {"PRE_ACCEPTANCE_FULL_RELEASE", "PROVIDER_CANCELED_FULL_RELEASE"}
    BY <1>4 DEF NeverAccepted, IInv, TaskInv, TaskOK
  <2>2. d \in Dispositions /\ d # None /\ task.settlement \in Nat
    BY <1>1, <2>1, ConstantTypes DEF Dispositions, Tasks
  <2>3. /\ calls \in Seq(Commands)
        /\ \A i \in DOMAIN calls :
               /\ calls[i].reason # "GENERATION_SUCCEEDED"
               /\ calls[i].reason # "PROVIDER_CANCEL_CONFIRMED"
    BY <2>1, <2>2, PlanType
  <2> HIDE DEF calls
  <2>4. s \in Sessions
    BY <2>3, SessionTypes DEF Stages
  <2>5. s.stage = "calls" /\ s.calls = calls /\ s.goal = "REFUNDED"
    BY DEF Working
  <2>6. sessions' = [sessions EXCEPT ![w] = s]
    BY <1>4 DEF calls
  <2> HIDE DEF s
  <2>7. sessions'[w] = s
    BY <2>6 DEF IInv, TypeInv
  <2>8. (\A i \in DOMAIN sessions[w].calls : Due(sessions[w].calls[i]))'
    BY <1>4, <2>2, <2>3, <2>5, <2>7 DEF Due
  <2>9. SessionInv(w)'
    BY <2>5, <2>7, <2>8 DEF SessionInv, Paying
  <2> QED
    BY <1>4, <2>4, <2>6, <2>9, SetKeeps DEF IInv, TypeInv
<1>5. CASE AskOperator(w, m, task)
  BY <1>5, AskKeeps, SameFollows DEF IInv
<1>6. CASE /\ task.accepted /\ UserCancels(task)
           /\ sessions' = [sessions EXCEPT ![w] = Working("cancel", m, FALSE, <<>>, None)]
           /\ UNCHANGED <<task, escalated, pending>>
  BY <1>6, GoOnKeeps
<1>7. CASE /\ Current(m, task) /\ task.accepted /\ ChargePoints # None
           /\ Continue(w, m, [task EXCEPT !.cancelRequested = TRUE,
                                          !.disposition = "USER_CANCEL_RULE"],
                       "cancel", <<>>, None)
           /\ ~UserCancels(task) /\ UNCHANGED escalated
  <2> DEFINE d == "USER_CANCEL_RULE"
             t == [task EXCEPT !.cancelRequested = TRUE, !.disposition = d]
  <2>1. d \in Dispositions /\ d # None
    BY ConstantTypes DEF Dispositions
  <2>2. /\ t \in Tasks /\ t.status = task.status /\ t.epoch = task.epoch
        /\ t.accepted = task.accepted /\ t.settlement = task.settlement
        /\ t.disposition = d /\ t.cancelRequested
    <3>1. t \in Tasks
      BY <1>1, <2>1 DEF Tasks
    <3>2. /\ t.status = task.status /\ t.epoch = task.epoch
          /\ t.accepted = task.accepted /\ t.settlement = task.settlement
      BY <1>1 DEF Tasks
    <3>3. t.disposition = d /\ t.cancelRequested
      BY <1>1 DEF Tasks
    <3> QED
      BY <3>1, <3>2, <3>3
  <2>3. Continue(w, m, t, "cancel", <<>>, None)
    BY <1>7
  <2> HIDE DEF t
  <2>4. ChargePoints \in Nat
    BY <1>7, TermsType DEF IInv, TypeInv
  <2>5. task.status \notin {"CANCELED", "SUCCEEDED", "FAILED"}
    <3>1. m.status \in {"QUEUED", "RUNNING"}
      BY <1>1 DEF Cancels
    <3>2. task.disposition = "PRE_ACCEPTANCE_FULL_RELEASE" => ~task.accepted
      BY DEF IInv, TaskInv, TaskOK
    <3> QED
      BY <1>7, <3>1, <3>2 DEF Current, Resumable, UserCancels
  <2>6. Follows(t)
    BY <1>7, <2>1, <2>2, <2>4, <2>5 DEF Follows, TaskOK, IInv, TaskInv
  <2>7. UserCancels(t)
    BY <2>2 DEF UserCancels
  <2> QED
    BY <1>7, <2>2, <2>3, <2>6, <2>7, ContinueKeeps DEF IInv, TypeInv
<1> QED
  BY <1>2, <1>3, <1>4, <1>5, <1>6, <1>7 DEF OnCancel

LEMMA ConsumeKeeps ==
    ASSUME IInv, NEW w \in Workers, NEW m, Consume(w, m), UNCHANGED terms
    PROVE  IInv'
<1>1. m \in Sent /\ Justified(m)
  <2>1. CASE m \in pending
    BY <2>1 DEF IInv, TypeInv, MessageInv
  <2>2. CASE sessions[w].stage = "replay" /\ sessions[w].msg = m
    <3>1. sessions[w].msg \in Sent /\ Justified(sessions[w].msg)
      BY <2>2 DEF IInv, SessionInv
    <3> QED
      BY <2>2, <3>1 DEF Justified
  <2> QED
    BY <2>1, <2>2 DEF Consume, Takes
<1>2. Quiet
  BY DEF Consume, Quiet, external
<1> QED
  BY <1>1, <1>2, OtherEpochKeeps, AmbiguousKeeps, ProgressKeeps, SucceededKeeps,
     ImportedKeeps, FailedKeeps, CanceledKeeps, CancelKeeps
  DEF Consume

-----------------------------------------------------------------------------
(* The other steps of the workers.                                         *)

\* The task stays, while the provider and the asset service go on.
LEMMA TaskStays ==
    ASSUME TypeInv, TaskInv, Grows, UNCHANGED task,
           asset' # "none" => asset # "none" \/ task.status \in {"SUCCEEDED", "SETTLED"},
           remote' => task.accepted
    PROVE  TaskInv'
<1>1. task.epoch \in Epochs /\ 0 \in Epochs
  BY DEF TypeInv, Tasks, Epochs
<1>2. ChargePoints' = ChargePoints
  BY DEF Grows, ChargePoints
<1> QED
  BY <1>1, <1>2 DEF TaskInv, TaskOK, Grows, Terminal

LEMMA StageType ==
    ASSUME TypeInv, NEW w \in Workers, NEW stage \in Stages, ToStage(w, stage), UNCHANGED task
    PROVE  /\ sessions' \in [Workers -> Sessions] /\ Alone(w)
           /\ sessions'[w] = [sessions[w] EXCEPT !.stage = stage]
           /\ sessions'[w].stage = stage /\ sessions'[w].msg = sessions[w].msg
           /\ sessions'[w].calls = sessions[w].calls /\ sessions'[w].goal = sessions[w].goal
           /\ sessions'[w].fresh = sessions[w].fresh
<1> DEFINE s == [sessions[w] EXCEPT !.stage = stage]
<1>1. /\ s \in Sessions /\ s.stage = stage /\ s.msg = sessions[w].msg
      /\ s.calls = sessions[w].calls /\ s.goal = sessions[w].goal
      /\ s.fresh = sessions[w].fresh
  <2>1. sessions[w] \in Sessions
    BY DEF TypeInv
  <2> QED
    BY <2>1 DEF Sessions
<1>2. sessions' = [sessions EXCEPT ![w] = s]
  BY DEF ToStage
<1> HIDE DEF s
<1>3. sessions' \in [Workers -> Sessions] /\ sessions'[w] = s /\ Alone(w)
  BY <1>1, <1>2, SetType
<1> QED
  BY <1>1, <1>3 DEF s

\* A step of w on its own session only.
LEMMA OwnKeeps ==
    ASSUME IInv, NEW w \in Workers, sessions' \in [Workers -> Sessions], Alone(w),
           SessionInv(w)', UNCHANGED <<task, escalated, pending>>, Quiet
    PROVE  IInv'
<1>1. Grows /\ TaskInv'
  BY SameFollows, WriteGrows DEF IInv
<1> QED
  BY <1>1, Keeps DEF IInv, TypeInv

\* A session that moves on within a handler keeps what it is about to do.
LEMMA StageKeeps ==
    ASSUME IInv, NEW w \in Workers, NEW stage \in Stages, ToStage(w, stage),
           stage \in Paying \cup {"unresolved", "refused"} \/ sessions[w].calls = <<>>,
           stage \in Paying => sessions[w].stage \in Paying,
           stage = "sent" => sessions[w].calls # <<>>,
           stage \notin {"replay", "cancel", "confirmed", "import"},
           UNCHANGED <<task, escalated, pending>>, Quiet
    PROVE  IInv'
<1>1. /\ sessions' \in [Workers -> Sessions] /\ Alone(w)
      /\ sessions'[w].stage = stage
      /\ sessions'[w].calls = sessions[w].calls /\ sessions'[w].goal = sessions[w].goal
      /\ sessions'[w].fresh = sessions[w].fresh
  BY StageType DEF IInv
<1>2. (\A i \in DOMAIN sessions[w].calls : Due(sessions[w].calls[i]))'
  <2>1. \A i \in DOMAIN sessions[w].calls : Due(sessions[w].calls[i])
    BY DEF IInv, SessionInv
  <2> QED
    BY <1>1, <2>1 DEF Due, Quiet, CanceledByProvider
<1>3. ChargePoints' = ChargePoints /\ SessionInv(w)
  BY DEF Quiet, ChargePoints, IInv
<1>4. SessionInv(w)'
  BY <1>1, <1>2, <1>3 DEF SessionInv, UserCancels, Paying
<1> QED
  BY <1>1, <1>4, OwnKeeps

LEMMA SendKeeps ==
    ASSUME IInv, NEW w \in Workers, Send(w) \/ RepairConverge(w), UNCHANGED terms
    PROVE  IInv'
<1>1. Quiet /\ UNCHANGED <<task, escalated, pending>>
  BY DEF Send, RepairConverge, Quiet, external
<1>2. CASE Send(w)
  BY <1>1, <1>2, StageKeeps DEF Send, Stages, Paying
<1>3. CASE RepairConverge(w)
  BY <1>1, <1>3, StageKeeps DEF RepairConverge, Stages, Paying
<1> QED
  BY <1>2, <1>3

LEMMA LapseKeeps ==
    ASSUME IInv, NEW w \in Workers, Lapse(w), UNCHANGED terms
    PROVE  IInv'
<1> DEFINE s == [sessions[w] EXCEPT !.leased = FALSE]
<1>1. /\ s \in Sessions /\ s.stage = sessions[w].stage /\ s.msg = sessions[w].msg
      /\ s.calls = sessions[w].calls /\ s.goal = sessions[w].goal
      /\ s.fresh = sessions[w].fresh
  <2>1. sessions[w] \in Sessions
    BY DEF IInv, TypeInv
  <2> QED
    BY <2>1 DEF Sessions
<1>2. sessions' = [sessions EXCEPT ![w] = s]
  BY DEF Lapse
<1>3. Quiet /\ UNCHANGED <<task, escalated, pending>>
  BY DEF Lapse, Quiet, external
<1> HIDE DEF s
<1>4. sessions' \in [Workers -> Sessions] /\ sessions'[w] = s /\ Alone(w)
  BY <1>1, <1>2, <1>3, SetType DEF IInv
<1>5. SessionInv(w)
  BY DEF IInv
<1>6. SessionInv(w)'
  BY <1>1, <1>3, <1>4, <1>5
  DEF SessionInv, UserCancels, Quiet, ChargePoints, Justified, Due, CanceledByProvider
<1> QED
  BY <1>3, <1>4, <1>6, OwnKeeps

\* A session that is given up, crashes or restarts.
LEMMA ResetKeeps ==
    ASSUME IInv, NEW w \in Workers, GiveUp(w) \/ Crash(w) \/ Restart(w), UNCHANGED terms
    PROVE  IInv'
<1>1. PICK s \in {Idle, Down} : sessions' = [sessions EXCEPT ![w] = s]
  BY DEF GiveUp, Crash, Restart
<1>2. Quiet /\ UNCHANGED <<task, escalated, pending>>
  BY DEF GiveUp, Crash, Restart, Quiet, external
<1>3. s \in Sessions /\ s.stage \in {"idle", "down"} /\ s.calls = <<>>
  BY SessionTypes
<1>4. sessions' \in [Workers -> Sessions] /\ sessions'[w] = s /\ Alone(w)
  BY <1>1, <1>2, <1>3, SetType DEF IInv
<1>5. SessionInv(w)'
  BY <1>3, <1>4 DEF SessionInv, Paying
<1> QED
  BY <1>2, <1>4, <1>5, OwnKeeps

\* The writes that leave the task as it is.
LEMMA SameWriteKeeps ==
    ASSUME IInv, NEW w \in Workers, UNCHANGED terms,
           \/ CompleteImport(w) \/ Unresolved(w)
           \/ RepairClose(w) \/ RepairEscalate(w) \/ RepairError(w)
    PROVE  IInv'
<1>1. Follows(task)
  BY SameFollows DEF IInv
<1>2. CASE CompleteImport(w) \/ Unresolved(w)
  <2>1. Quiet /\ escalated' \in BOOLEAN /\ Complete(w, sessions[w].msg, task)
    BY <1>2 DEF CompleteImport, Unresolved, AskOperator, Quiet, external, IInv, TypeInv
  <2> QED
    BY <1>1, <2>1, CompleteKeeps
<1>3. CASE RepairClose(w) \/ RepairEscalate(w) \/ RepairError(w)
  <2>1. Quiet /\ escalated' \in BOOLEAN /\ UNCHANGED pending
    BY <1>3 DEF RepairClose, RepairEscalate, RepairError, Quiet, external, IInv, TypeInv
  <2>2. PICK s \in {Idle, Down} : Commit(w, task, s)
    BY <1>3 DEF RepairClose, RepairEscalate, RepairError
  <2>3. s \in Sessions /\ s.stage \in {"idle", "down"} /\ s.calls = <<>>
    BY SessionTypes
  <2>4. sessions'[w] = s
    BY <2>2, <2>3, CommitType DEF IInv
  <2>5. SessionInv(w)'
    BY <2>3, <2>4 DEF SessionInv, Paying
  <2> QED
    BY <1>1, <2>1, <2>2, <2>3, <2>5, WriteKeeps
<1> QED
  BY <1>2, <1>3

LEMMA ConfirmKeeps ==
    ASSUME IInv, NEW w \in Workers, ConfirmCancel(w), UNCHANGED terms
    PROVE  IInv'
<1> DEFINE x == Moved(task, "CANCELED")
           t == [x EXCEPT !.rank = 3]
<1>1. Quiet /\ UNCHANGED escalated /\ task \in Tasks
  BY DEF ConfirmCancel, Quiet, external, IInv, TypeInv
<1>2. /\ sessions[w].msg \in Sent \cup {RepairMessage, None}
      /\ remote /\ UserCancels(task)
  <2>1. sessions[w] \in Sessions /\ SessionInv(w)
    BY DEF IInv, TypeInv
  <2> QED
    BY <2>1 DEF ConfirmCancel, MayWrite, SessionInv, Sessions
<1>3. /\ t \in Tasks /\ t.status = "CANCELED" /\ t.epoch = task.epoch
      /\ t.accepted = task.accepted /\ t.settlement = task.settlement
      /\ t.cancelRequested = task.cancelRequested
      /\ task.status \in {"QUEUED", "SUBMITTING", "RUNNING", "CANCELED"}
  <2>1. CanMove(task, "CANCELED")
    BY DEF ConfirmCancel
  <2>2. /\ x \in Tasks /\ x.status = "CANCELED" /\ x.epoch = task.epoch
        /\ x.accepted = task.accepted /\ x.settlement = task.settlement
        /\ x.cancelRequested = task.cancelRequested
    BY <1>1, <2>1, MovedFields, MovesFrom
  <2> HIDE DEF x
  <2> QED
    BY <2>1, <2>2, RankedFields, MovesFrom
<1>4. Plan(w, sessions[w].msg, t, "USER_CANCEL_RULE")
  BY <1>2 DEF ConfirmCancel, UserCancels
<1> HIDE DEF t
<1>5. PICK m : m = sessions[w].msg
  OBVIOUS
<1> QED
  BY <1>1, <1>2, <1>3, <1>4, <1>5, CanceledPlan DEF UserCancels, CanceledByProvider

LEMMA ConcludeKeeps ==
    ASSUME IInv, NEW w \in Workers, Conclude(w), UNCHANGED terms
    PROVE  IInv'
<1> DEFINE goal == sessions[w].goal
           x == Moved(task, goal)
           points == IF goal = "SETTLED" /\ UserCancels(task)
                     THEN ChargePoints ELSE x.settlement
           t == [x EXCEPT !.settlement = points]
<1>1. Quiet /\ UNCHANGED escalated /\ task \in Tasks
  BY DEF Conclude, Quiet, external, IInv, TypeInv
<1>2. /\ goal \in {"SETTLED", "REFUNDED"} /\ CanMove(task, goal)
      /\ goal = "SETTLED" /\ UserCancels(task) => ChargePoints <= Quote /\ ChargePoints \in Nat
  <2>1. SessionInv(w) /\ TaskInv
    BY DEF IInv
  <2> QED
    BY <2>1 DEF Conclude, MayWrite, SessionInv, Paying, TaskInv, TaskOK, UserCancels
<1>3. Complete(w, sessions[w].msg, t)
  BY DEF Conclude
<1> HIDE DEF goal
<1>4. /\ x \in Tasks /\ x.status = goal /\ x.epoch = task.epoch
      /\ x.accepted = task.accepted /\ x.settlement = task.settlement
      /\ x.cancelRequested = task.cancelRequested /\ x.disposition = task.disposition
  BY <1>1, <1>2, MovedFields, MovesFrom
<1> HIDE DEF x
<1>5. points \in Nat /\ points \in {task.settlement, ChargePoints}
      /\ (task.settlement <= Quote => points <= Quote)
  BY <1>1, <1>2, <1>4 DEF Tasks
<1> HIDE DEF points
<1>6. /\ t \in Tasks /\ t.status = goal /\ t.epoch = task.epoch
      /\ t.accepted = task.accepted /\ t.settlement = points
      /\ t.cancelRequested = task.cancelRequested /\ t.disposition = task.disposition
  BY <1>4, <1>5 DEF Tasks
<1> HIDE DEF t
<1>7. /\ task.status \in {"SUCCEEDED", "SETTLED"} => goal = "SETTLED"
      /\ asset # "none" => goal = "SETTLED"
  BY <1>2, MovesFrom DEF IInv, TaskInv, TaskOK
<1>8. Follows(t)
  BY <1>2, <1>5, <1>6, <1>7 DEF Follows, TaskOK, IInv, TaskInv
<1> QED
  BY <1>1, <1>3, <1>8, CompleteKeeps DEF IInv, TypeInv

LEMMA FailoverKeeps ==
    ASSUME IInv, NEW w \in Workers, RepairFailover(w), UNCHANGED terms
    PROVE  IInv'
<1> DEFINE t == [task EXCEPT !.status = "QUEUED", !.version = @ + 1, !.accepted = FALSE,
                             !.rank = 0, !.known = FALSE, !.identified = FALSE,
                             !.epoch = @ + 1, !.settlement = SubstitutePoints]
<1>1. Quiet /\ UNCHANGED <<escalated, pending>> /\ task \in Tasks
  BY DEF RepairFailover, Quiet, external, IInv, TypeInv
<1>2. /\ task.epoch = 0 /\ task.disposition = None /\ task.status = "SUBMITTING"
      /\ ~task.accepted /\ SubstitutePoints <= Quote /\ SubstitutePoints \in Nat
      /\ exec[0].state \in {"failed", "canceled"} /\ ~exec[0].taken
  BY TermsType DEF RepairFailover, SafeFailover, Accepted, IInv, TypeInv
<1>3. Commit(w, t, Idle)
  BY DEF RepairFailover
<1>4. t \in Tasks
  <2>1. /\ task.version + 1 \in Nat /\ task.epoch + 1 \in Epochs /\ 0 \in 0..3
        /\ "QUEUED" \in Statuses
    BY <1>1, <1>2 DEF Tasks, Epochs, Statuses
  <2> QED
    BY <1>1, <1>2, <2>1 DEF Tasks
<1>5. t.status = "QUEUED" /\ t.epoch = 1 /\ ~t.accepted /\ t.disposition = None
  BY <1>1, <1>2 DEF Tasks
<1>6. t.settlement = SubstitutePoints
  BY <1>1 DEF Tasks
<1> HIDE DEF t
<1>7. Follows(t)
  <2>1. None \notin {"USER_CANCEL_RULE", "SUCCESS_SETTLEMENT", "PRE_ACCEPTANCE_FULL_RELEASE"}
    BY ConstantTypes DEF Dispositions
  <2> QED
    BY <1>2, <1>4, <1>5, <1>6, <2>1 DEF Follows, TaskOK, IInv, TaskInv
<1>8. sessions'[w] = Idle
  BY <1>3, SessionTypes, CommitType DEF IInv
<1>9. SessionInv(w)'
  BY <1>8, SessionTypes DEF SessionInv, Paying
<1> QED
  BY <1>1, <1>3, <1>7, <1>9, SessionTypes, WriteKeeps DEF IInv, TypeInv

LEMMA ScanKeeps ==
    ASSUME IInv, NEW w \in Workers, RepairScan(w), UNCHANGED terms
    PROVE  IInv'
<1>1. Quiet /\ UNCHANGED <<task, escalated, pending>> /\ task \in Tasks /\ TaskInv
  BY DEF RepairScan, Quiet, external, IInv, TypeInv
<1>2. CASE ~HasPlan(task)
  <2> DEFINE s == Working("unplanned", RepairMessage, FALSE, <<>>, None)
  <2>1. s \in Sessions
    <3>1. << >> \in Seq(Commands)
      OBVIOUS
    <3> QED
      BY <3>1, SessionTypes DEF Stages
  <2>2. s.stage = "unplanned" /\ s.calls = <<>>
    BY DEF Working
  <2>3. sessions' = [sessions EXCEPT ![w] = s]
    BY <1>2 DEF RepairScan
  <2> HIDE DEF s
  <2>4. sessions' \in [Workers -> Sessions] /\ sessions'[w] = s /\ Alone(w)
    BY <1>1, <2>1, <2>3, SetType DEF IInv
  <2>5. SessionInv(w)'
    BY <2>2, <2>4 DEF SessionInv, Paying
  <2> QED
    BY <1>1, <2>4, <2>5, OwnKeeps
<1>3. CASE HasPlan(task)
  <2> DEFINE d == task.disposition
             calls == PlanOf(d, task.settlement)
             expect == IF Inspectable(task)
                       THEN [epoch |-> task.epoch, state |-> Expected(task)] ELSE None
             z == Working("planned", RepairMessage, FALSE, calls, GoalOf(d))
             s == [z EXCEPT !.expect = expect]
  <2>1. /\ d \in Dispositions /\ d # None /\ task.settlement \in Nat
        /\ d = "USER_CANCEL_RULE" =>
               ChargePoints \in Nat /\ ChargePoints <= Quote /\ CanceledByProvider
        /\ d = "SUCCESS_SETTLEMENT" => asset = "imported"
    <3>1. task.status \in {"SUCCEEDED", "FAILED", "CANCELED"}
          /\ (d = "USER_CANCEL_RULE" => task.status = "CANCELED" /\ ChargePoints <= Quote)
          /\ d \in Dispositions
      BY <1>3 DEF HasPlan, Dispositions, Affordable
    <3> QED
      BY <1>1, <3>1, ConstantTypes DEF Tasks, TaskInv, TaskOK, CanceledByProvider
  <2>2. /\ calls \in Seq(Commands)
        /\ \A i \in DOMAIN calls : Due(calls[i])
    BY <2>1, PlanType DEF Due
  <2>3. expect \in Expectations \cup {None}
    <3>1. Expected(task) \in {"succeeded", "failed", "canceled", None}
      BY DEF Expected
    <3> QED
      BY <1>1, <3>1 DEF Expectations, Tasks
  <2>4. sessions' = [sessions EXCEPT ![w] = s]
    BY <1>3 DEF RepairScan
  <2> HIDE DEF calls, expect
  <2>5. /\ z \in Sessions /\ z.stage = "planned" /\ z.calls = calls /\ z.goal = GoalOf(d)
    <3>1. z \in Sessions
      BY <2>2, GoalType, SessionTypes DEF Stages
    <3> QED
      BY <3>1 DEF Working
  <2> HIDE DEF z
  <2>6. /\ s \in Sessions /\ s.stage = "planned" /\ s.calls = calls /\ s.goal = GoalOf(d)
    BY <2>3, <2>5 DEF Sessions
  <2> HIDE DEF s
  <2>7. sessions' \in [Workers -> Sessions] /\ sessions'[w] = s /\ Alone(w)
    BY <1>1, <2>4, <2>6, SetType DEF IInv
  <2>8. (\A i \in DOMAIN sessions[w].calls : Due(sessions[w].calls[i]))'
    <3>1. PICK c : c = calls
      OBVIOUS
    <3>2. \A i \in DOMAIN c : Due(c[i])
      BY <2>2, <3>1 DEF Due
    <3> QED
      BY <1>1, <2>6, <2>7, <3>1, <3>2 DEF Due, CanceledByProvider, Quiet
  <2>9. SessionInv(w)'
    <3>1. s.goal \in {"SETTLED", "REFUNDED"}
      BY <2>6, GoalType
    <3> QED
      BY <1>1, <2>1, <2>6, <2>7, <2>8, <3>1
      DEF SessionInv, Paying, UserCancels, Quiet, ChargePoints
  <2> QED
    BY <1>1, <2>7, <2>9, OwnKeeps
<1> QED
  BY <1>2, <1>3

LEMMA ReplayKeeps ==
    ASSUME IInv, NEW w \in Workers, RepairReplay(w), UNCHANGED terms
    PROVE  IInv'
<1>0. PICK e \in 0..task.epoch :
          /\ Accepted(exec[e]) /\ exec[e].state # "ambiguous"
          /\ sessions' = [sessions EXCEPT ![w].stage = "replay",
                 ![w].msg = Event(exec[e].state, e, TRUE, exec[e].result)]
  BY DEF RepairReplay
<1> DEFINE x == exec[e]
           event == Event(x.state, e, TRUE, x.result)
           s == [sessions[w] EXCEPT !.stage = "replay", !.msg = event]
<1>1. Quiet /\ UNCHANGED <<task, escalated, pending>>
  BY DEF RepairReplay, Quiet, external
<1>2. /\ x \in Executions /\ e \in Epochs /\ x.taken /\ x.state # "none"
      /\ sessions[w].stage = "unplanned" /\ sessions[w].calls = <<>>
  <2>1. e \in Epochs /\ x \in Executions
    <3>1. task.epoch \in {0, 1}
      BY DEF IInv, TypeInv, Tasks, Epochs
    <3>2. e \in Epochs
      BY <3>1 DEF Epochs
    <3> QED
      BY <3>2 DEF IInv, TypeInv
  <2>2. x.taken /\ sessions[w].stage = "unplanned"
    BY <1>0 DEF RepairReplay, Accepted
  <2>3. SessionInv(w) /\ ExecInv
    BY DEF IInv
  <2> QED
    BY <2>1, <2>2, <2>3 DEF SessionInv, ExecInv, Paying
<1>3. event \in Events /\ event.type = x.state /\ event.epoch = e
  BY <1>2 DEF Event, Events, Executions
<1>4. sessions' = [sessions EXCEPT ![w] = s]
  BY <1>0
<1>5. Justified(event)
  <2> HIDE DEF event
  <2>1. event # Imported /\ event \notin Cancels
    BY <1>3 DEF Events, Imported, Cancels, EventTypes
  <2> QED
    BY <1>2, <1>3, <2>1 DEF Justified
<1> HIDE DEF event
<1>6. s \in Sessions /\ s.stage = "replay" /\ s.msg = event /\ s.calls = <<>>
  <2>1. sessions[w] \in Sessions /\ event \in Sent
    BY <1>3 DEF IInv, TypeInv, Sent
  <2> QED
    BY <1>2, <2>1 DEF Sessions, Stages
<1> HIDE DEF s
<1>7. sessions' \in [Workers -> Sessions] /\ sessions'[w] = s /\ Alone(w)
  BY <1>1, <1>4, <1>6, SetType DEF IInv
<1>8. (sessions[w].msg \in Sent /\ Justified(sessions[w].msg))'
  <2>1. PICK m : m = event
    OBVIOUS
  <2>2. m \in Sent /\ Justified(m)
    BY <1>3, <1>5, <2>1 DEF Justified, Sent
  <2> QED
    BY <1>1, <1>6, <1>7, <2>1, <2>2 DEF Justified, Quiet
<1>9. SessionInv(w)'
  BY <1>6, <1>7, <1>8 DEF SessionInv, Paying
<1> QED
  BY <1>1, <1>7, <1>9, OwnKeeps

-----------------------------------------------------------------------------
(* The steps that reach the wallet, the provider and the asset service.    *)

\* What the steps outside the task leave to show.
LEMMA OutsideKeeps ==
    ASSUME IInv, TypeInv', Grows, UNCHANGED task, MessageInv', ExecInv', PostedInv',
           asset' # "none" => asset # "none" \/ task.status \in {"SUCCEEDED", "SETTLED"},
           remote' => task.accepted,
           \A w \in Workers : SessionInv(w)' \/ sessions'[w] = sessions[w]
    PROVE  IInv'
<1>1. TaskInv'
  BY TaskStays DEF IInv
<1>2. \A w \in Workers : SessionInv(w)'
  BY SessionStays DEF IInv
<1> QED
  BY <1>1, <1>2 DEF IInv

LEMMA RequestImportKeeps ==
    ASSUME IInv, NEW w \in Workers, RequestImport(w), UNCHANGED terms
    PROVE  IInv'
<1>1. /\ UNCHANGED <<task, escalated, posted, pending, asked, exec, remote>>
      /\ asset' \in {"none", "requested", "imported"} /\ (asset = "imported" => asset' = asset)
      /\ sessions[w].stage = "import" /\ ToStage(w, "importing")
  BY DEF RequestImport, IInv, TypeInv
<1>2. /\ sessions' \in [Workers -> Sessions] /\ Alone(w)
      /\ sessions'[w].stage = "importing" /\ sessions'[w].calls = sessions[w].calls
  BY <1>1, StageType DEF Stages, IInv
<1>3. SessionInv(w)
  BY DEF IInv
<1>4. Grows
  BY <1>1 DEF Grows
<1>5. TypeInv'
  BY <1>1, <1>2 DEF IInv, TypeInv
<1>6. MessageInv' /\ PostedInv' /\ ExecInv'
  BY <1>1, <1>4, MessagesStay, PostedStays DEF IInv, ExecInv
<1>7. SessionInv(w)'
  BY <1>1, <1>2, <1>3 DEF SessionInv, Paying
<1>8. \A v \in Workers : SessionInv(v)' \/ sessions'[v] = sessions[v]
  BY <1>1, <1>7 DEF ToStage, IInv, TypeInv
<1>9. task.status \in {"SUCCEEDED", "SETTLED"} /\ (remote => task.accepted)
  BY <1>1, <1>3 DEF SessionInv, IInv, TaskInv, TaskOK
<1> QED
  BY <1>1, <1>4, <1>5, <1>6, <1>8, <1>9, OutsideKeeps

LEMMA RemoteCancelKeeps ==
    ASSUME IInv, NEW w \in Workers, RemoteCancel(w), UNCHANGED terms
    PROVE  IInv'
<1>1. PICK stage \in {"confirmed", "unresolved"} :
          /\ ToStage(w, stage) /\ (stage = "confirmed" => remote')
          /\ remote' \in BOOLEAN /\ (remote => remote')
  BY DEF RemoteCancel, IInv, TypeInv
<1>2. /\ UNCHANGED <<task, escalated, posted, pending, asked, exec, asset>>
      /\ sessions[w].stage = "cancel"
  BY DEF RemoteCancel
<1>3. /\ sessions' \in [Workers -> Sessions] /\ Alone(w)
      /\ sessions'[w].stage = stage /\ sessions'[w].calls = sessions[w].calls
      /\ sessions'[w].fresh = sessions[w].fresh
  BY <1>1, <1>2, StageType DEF Stages, IInv
<1>4. SessionInv(w)
  BY DEF IInv
<1>5. Grows
  BY <1>1, <1>2 DEF Grows
<1>6. TypeInv'
  BY <1>1, <1>2, <1>3 DEF IInv, TypeInv
<1>7. MessageInv' /\ PostedInv' /\ ExecInv'
  BY <1>1, <1>2, <1>5, MessagesStay, PostedStays DEF IInv, ExecInv
<1>8. SessionInv(w)'
  BY <1>1, <1>2, <1>3, <1>4 DEF SessionInv, Paying, UserCancels
<1>9. \A v \in Workers : SessionInv(v)' \/ sessions'[v] = sessions[v]
  BY <1>1, <1>8 DEF ToStage, IInv, TypeInv
<1>10. task.accepted
  BY <1>2, <1>4 DEF SessionInv
<1> QED
  BY <1>2, <1>5, <1>6, <1>7, <1>9, <1>10, OutsideKeeps

\* The first call of a session, and those that follow it.
LEMMA CallsType ==
    ASSUME NEW calls \in Seq(Commands), calls # <<>>
    PROVE  /\ Head(calls) \in Commands /\ Head(calls) = calls[1] /\ 1 \in DOMAIN calls
           /\ Tail(calls) \in Seq(Commands)
           /\ \A i \in DOMAIN Tail(calls) :
                  i + 1 \in DOMAIN calls /\ Tail(calls)[i] = calls[i + 1]
OBVIOUS

LEMMA DeliverType ==
    ASSUME TypeInv, NEW w \in Workers, SessionInv(w), Deliver(w)
    PROVE  /\ UNCHANGED <<task, escalated, pending, asked, external>>
           /\ sessions[w].stage = "sent" /\ sessions[w].calls # <<>>
           /\ sessions[w].calls \in Seq(Commands)
           /\ Head(sessions[w].calls) \in Commands
           /\ WalletAccepts(Head(sessions[w].calls))
           /\ posted' = [posted EXCEPT
                  ![Head(sessions[w].calls).key] = Head(sessions[w].calls)]
           /\ posted' \in [WalletKeys -> Commands \cup {None}]
           /\ sessions' \in [Workers -> Sessions] /\ Alone(w)
           /\ sessions'[w].stage = "calls" /\ sessions'[w].calls = Tail(sessions[w].calls)
           /\ sessions'[w].goal = sessions[w].goal /\ sessions'[w].fresh = sessions[w].fresh
           /\ \A v \in Workers \ {w} : sessions'[v] = sessions[v]
<1> DEFINE c == Head(sessions[w].calls)
           s == [sessions[w] EXCEPT !.stage = "calls", !.calls = Tail(@)]
<1>1. /\ sessions[w].stage = "sent" /\ sessions[w].calls # <<>>
      /\ sessions[w] \in Sessions /\ sessions[w].calls \in Seq(Commands)
  BY DEF Deliver, SessionInv, TypeInv, Sessions
<1>2. c \in Commands /\ Tail(sessions[w].calls) \in Seq(Commands)
  BY <1>1, CallsType
<1>3. /\ s \in Sessions /\ s.stage = "calls" /\ s.calls = Tail(sessions[w].calls)
      /\ s.goal = sessions[w].goal /\ s.fresh = sessions[w].fresh
  BY <1>1, <1>2 DEF Sessions, Stages
<1>4. sessions' = [sessions EXCEPT ![w] = s] /\ UNCHANGED task
  BY DEF Deliver
<1> HIDE DEF s
<1>5. sessions' \in [Workers -> Sessions] /\ sessions'[w] = s /\ Alone(w)
  BY <1>3, <1>4, SetType
<1>6. posted' = [posted EXCEPT ![c.key] = c] /\ WalletAccepts(c)
  BY DEF Deliver
<1>7. posted' \in [WalletKeys -> Commands \cup {None}]
  BY <1>2, <1>6 DEF TypeInv, Commands
<1>8. \A v \in Workers \ {w} : sessions'[v] = sessions[v]
  BY <1>4 DEF TypeInv
<1> QED
  BY <1>1, <1>2, <1>3, <1>5, <1>6, <1>7, <1>8 DEF Deliver

LEMMA DeliverKeeps ==
    ASSUME IInv, NEW w \in Workers, Deliver(w), UNCHANGED terms
    PROVE  IInv'
<1>1. SessionInv(w) /\ TypeInv
  BY DEF IInv
<1> DEFINE c == Head(sessions[w].calls)
<1>2. /\ UNCHANGED <<task, escalated, pending, asked, external>>
      /\ sessions[w].stage = "sent" /\ sessions[w].calls # <<>>
      /\ sessions[w].calls \in Seq(Commands)
      /\ c \in Commands /\ posted' = [posted EXCEPT ![c.key] = c]
      /\ posted' \in [WalletKeys -> Commands \cup {None}]
      /\ sessions' \in [Workers -> Sessions]
      /\ sessions'[w].stage = "calls" /\ sessions'[w].calls = Tail(sessions[w].calls)
      /\ sessions'[w].goal = sessions[w].goal /\ sessions'[w].fresh = sessions[w].fresh
      /\ \A v \in Workers \ {w} : sessions'[v] = sessions[v]
  BY <1>1, DeliverType
<1>3. Grows
  BY <1>2 DEF Grows, external
<1>4. TypeInv'
  BY <1>2 DEF IInv, TypeInv, external
<1>5. MessageInv' /\ ExecInv'
  BY <1>2, <1>3, MessagesStay DEF IInv, ExecInv, external
<1>6. \A i \in DOMAIN sessions[w].calls : Due(sessions[w].calls[i])
  BY <1>1 DEF SessionInv
<1>7. PostedInv'
  <2>1. Due(c)
    BY <1>2, <1>6, CallsType DEF Due
  <2>2. \A k \in WalletKeys : posted'[k] # None => posted'[k] = c \/ posted'[k] = posted[k]
    BY <1>2 DEF IInv, TypeInv
  <2>3. \A k \in WalletKeys : posted[k] # None => Due(posted[k])
    BY DEF IInv, PostedInv
  <2> QED
    BY <1>2, <2>1, <2>2, <2>3 DEF PostedInv, Due, CanceledByProvider, external
<1>8. SessionInv(w)'
  <2>1. (\A i \in DOMAIN sessions[w].calls : Due(sessions[w].calls[i]))'
    <3>1. \A i \in DOMAIN Tail(sessions[w].calls) : Due(Tail(sessions[w].calls)[i])
      BY <1>2, <1>6, CallsType DEF Due
    <3> QED
      BY <1>2, <3>1 DEF Due, CanceledByProvider, external
  <2> QED
    BY <1>1, <1>2, <2>1 DEF SessionInv, Paying, UserCancels, external, ChargePoints
<1>9. asset' = asset /\ remote' = remote /\ (remote => task.accepted)
  BY <1>2 DEF external, IInv, TaskInv, TaskOK
<1> QED
  BY <1>2, <1>3, <1>4, <1>5, <1>7, <1>8, <1>9, OutsideKeeps

LEMMA RequestCancelKeeps ==
    ASSUME IInv, RequestCancel, UNCHANGED terms
    PROVE  IInv'
<1> DEFINE m == [type |-> "cancel", status |-> task.status, version |-> task.version]
<1>1. /\ UNCHANGED <<task, escalated, posted, sessions, exec, remote, asset>>
      /\ pending' = pending \cup {m} /\ asked' = asked \cup {task.version}
  BY DEF RequestCancel, external
<1>2. m \in Cancels
  BY DEF RequestCancel, IInv, TypeInv, Tasks, Cancels
<1>3. terms.commands > 0
  <2>1. Cardinality(asked) \in Nat /\ Cardinality(asked) < terms.commands
    BY FS_CardinalityType DEF RequestCancel, IInv, TypeInv
  <2>2. terms.commands \in Nat
    BY TermsType DEF IInv, TypeInv
  <2> QED
    BY <2>1, <2>2
<1>4. Grows
  BY <1>1 DEF Grows
<1>5. TypeInv'
  <2>1. asked' \subseteq Nat /\ IsFiniteSet(asked')
    BY <1>1, FS_AddElement DEF IInv, TypeInv, Tasks
  <2>2. pending' \subseteq Sent
    BY <1>1, <1>2 DEF IInv, TypeInv, Sent
  <2> QED
    BY <1>1, <2>1, <2>2 DEF IInv, TypeInv
<1>6. MessageInv'
  <2>1. m # Imported /\ m \notin Events
    BY <1>2 DEF Cancels, Imported, Events, EventTypes
  <2> HIDE DEF m
  <2>2. \A n \in pending' : n \in pending \/ Justified(n)'
    BY <1>1, <1>3, <2>1 DEF Justified
  <2> QED
    BY <1>4, <2>2, MessagesStay DEF IInv
<1>7. ExecInv' /\ PostedInv'
  BY <1>1, <1>4, PostedStays DEF IInv, ExecInv
<1>8. remote => task.accepted
  BY DEF IInv, TaskInv, TaskOK
<1> QED
  BY <1>1, <1>4, <1>5, <1>6, <1>7, <1>8, OutsideKeeps

LEMMA ImportAssetKeeps ==
    ASSUME IInv, ImportAsset, UNCHANGED terms
    PROVE  IInv'
<1>1. /\ UNCHANGED <<task, escalated, posted, sessions, asked, exec, remote>>
      /\ pending' = pending \cup {Imported} /\ asset' = "imported" /\ asset = "requested"
  BY DEF ImportAsset, Imported
<1>2. Grows
  BY <1>1 DEF Grows
<1>3. TypeInv'
  BY <1>1 DEF IInv, TypeInv, Sent
<1>4. MessageInv'
  <2>1. Imported \notin Events \cup Cancels
    BY DEF Imported, Events, Cancels, EventTypes
  <2>2. \A n \in pending' : n \in pending \/ Justified(n)'
    BY <1>1, <2>1 DEF Justified
  <2> QED
    BY <1>2, <2>2, MessagesStay DEF IInv
<1>5. ExecInv' /\ PostedInv'
  BY <1>1, <1>2, PostedStays DEF IInv, ExecInv
<1>6. remote => task.accepted
  BY DEF IInv, TaskInv, TaskOK
<1> QED
  BY <1>1, <1>2, <1>3, <1>4, <1>5, <1>6, OutsideKeeps

LEMMA ReportKeeps ==
    ASSUME IInv, NEW e \in Epochs, NEW x \in Executions, Report(e, x), UNCHANGED terms,
           exec[e].state \notin Terminal, x.state \in EventTypes,
           exec[e].taken => x.taken,
           x.state \in {"accepted", "running", "succeeded"} => x.taken,
           x.state = "canceled" => remote \/ terms.cancels
    PROVE  IInv'
<1> DEFINE m == Event(x.state, e, x.known, x.result)
<1>1. /\ UNCHANGED <<task, escalated, posted, sessions, asked, remote, asset>>
      /\ pending' = pending \cup {m} /\ exec' = [exec EXCEPT ![e] = x]
  BY DEF Report
<1>2. /\ exec' \in [Epochs -> Executions] /\ exec'[e] = x
      /\ \A f \in Epochs \ {e} : exec'[f] = exec[f]
  BY <1>1 DEF IInv, TypeInv
<1>3. m \in Events /\ m.type = x.state /\ m.epoch = e
  BY DEF Event, Events, Executions
<1> HIDE DEF m
<1>4. Grows
  BY <1>1, <1>2 DEF Grows
<1>5. TypeInv'
  BY <1>1, <1>2, <1>3 DEF IInv, TypeInv, Sent
<1>6. MessageInv'
  <2>1. m # Imported /\ m \notin Cancels
    BY <1>3 DEF Imported, Events, Cancels, EventTypes
  <2>2. \A n \in pending' : n \in pending \/ Justified(n)'
    BY <1>1, <1>2, <1>3, <2>1 DEF Justified
  <2> QED
    BY <1>4, <2>2, MessagesStay DEF IInv
<1>7. ExecInv'
  <2>1. x.state # "none"
    BY DEF EventTypes
  <2> QED
    BY <1>1, <1>2, <2>1 DEF IInv, ExecInv
<1>8. PostedInv' /\ (remote => task.accepted)
  BY <1>1, <1>4, PostedStays DEF IInv, TaskInv, TaskOK
<1> QED
  BY <1>1, <1>4, <1>5, <1>6, <1>7, <1>8, OutsideKeeps

LEMMA SubmitKeeps ==
    ASSUME IInv, NEW e \in Epochs, Submit(e), UNCHANGED terms
    PROVE  IInv'
<1>1. exec[e].state = "none" /\ ~exec[e].taken
  BY DEF Submit, IInv, ExecInv
<1>2. PICK x \in Executions :
          /\ Report(e, x) /\ x.state \in EventTypes /\ x.state # "canceled"
          /\ x.state \in {"accepted", "running", "succeeded"} => x.taken
  <2>1. CASE \E s \in {"accepted", "running"} :
                 Report(e, [state |-> s, known |-> TRUE, taken |-> TRUE, result |-> FALSE])
    <3>1. PICK s \in {"accepted", "running"} :
              Report(e, [state |-> s, known |-> TRUE, taken |-> TRUE, result |-> FALSE])
      BY <2>1
    <3> DEFINE x == [state |-> s, known |-> TRUE, taken |-> TRUE, result |-> FALSE]
    <3>2. x \in Executions /\ x.state = s
      BY DEF Executions, EventTypes
    <3>3. x.taken
      OBVIOUS
    <3> HIDE DEF x
    <3> QED
      BY <3>1, <3>2, <3>3 DEF x, EventTypes
  <2>2. CASE Report(e, [state |-> "failed", known |-> FALSE, taken |-> FALSE,
                        result |-> FALSE])
    <3> DEFINE x == [state |-> "failed", known |-> FALSE, taken |-> FALSE, result |-> FALSE]
    <3>1. x \in Executions /\ x.state = "failed"
      BY DEF Executions, EventTypes
    <3> HIDE DEF x
    <3> QED
      BY <2>2, <3>1 DEF x, EventTypes
  <2>3. CASE \E known \in BOOLEAN :
                 Report(e, [state |-> "ambiguous", known |-> known, taken |-> FALSE,
                            result |-> FALSE])
    <3>1. PICK known \in BOOLEAN :
              Report(e, [state |-> "ambiguous", known |-> known, taken |-> FALSE,
                         result |-> FALSE])
      BY <2>3
    <3> DEFINE x == [state |-> "ambiguous", known |-> known, taken |-> FALSE, result |-> FALSE]
    <3>2. x \in Executions /\ x.state = "ambiguous"
      BY DEF Executions, EventTypes
    <3> HIDE DEF x
    <3> QED
      BY <3>1, <3>2 DEF x, EventTypes
  <2> QED
    BY <2>1, <2>2, <2>3 DEF Submit
<1> QED
  BY <1>1, <1>2, ReportKeeps DEF Terminal

LEMMA AdvanceKeeps ==
    ASSUME IInv, NEW e \in Epochs, Advance(e), UNCHANGED terms
    PROVE  IInv'
<1>1. /\ exec[e] \in Executions /\ exec[e].state \notin Terminal
      /\ exec[e].state \in {"accepted", "running", "succeeded"} => exec[e].taken
  BY DEF Advance, IInv, TypeInv, ExecInv
<1>2. PICK x \in Executions :
          /\ Report(e, x) /\ x.state \in EventTypes /\ (exec[e].taken => x.taken)
          /\ x.state \in {"accepted", "running", "succeeded"} => x.taken
          /\ x.state = "canceled" => remote \/ terms.cancels
  <2>1. CASE /\ exec[e].state = "accepted"
             /\ Report(e, [exec[e] EXCEPT !.state = "running"])
    BY <1>1, <2>1 DEF Executions, EventTypes
  <2>2. CASE Report(e, [exec[e] EXCEPT !.state = "ambiguous"])
    BY <1>1, <2>2 DEF Executions, EventTypes
  <2>3. CASE \E result \in BOOLEAN :
                 Report(e, [exec[e] EXCEPT !.state = "succeeded", !.taken = TRUE,
                                           !.result = result])
    <3>1. PICK result \in BOOLEAN :
              Report(e, [exec[e] EXCEPT !.state = "succeeded", !.taken = TRUE,
                                        !.result = result])
      BY <2>3
    <3> DEFINE x == [exec[e] EXCEPT !.state = "succeeded", !.taken = TRUE, !.result = result]
    <3>2. x \in Executions /\ x.state = "succeeded"
      BY <1>1 DEF Executions, EventTypes
    <3>3. x.taken
      BY <1>1 DEF Executions
    <3> HIDE DEF x
    <3> QED
      BY <3>1, <3>2, <3>3 DEF x, EventTypes
  <2>4. CASE Report(e, [exec[e] EXCEPT !.state = "failed"])
    BY <1>1, <2>4 DEF Executions, EventTypes
  <2>5. CASE /\ remote \/ terms.cancels
             /\ Report(e, [exec[e] EXCEPT !.state = "canceled"])
    BY <1>1, <2>5 DEF Executions, EventTypes
  <2> QED
    BY <2>1, <2>2, <2>3, <2>4, <2>5 DEF Advance
<1> QED
  BY <1>1, <1>2, ReportKeeps

-----------------------------------------------------------------------------
(* The theorems that hold under any terms.                                 *)

LEMMA InitHolds == Init => IInv
<1> SUFFICES ASSUME Init PROVE IInv
  OBVIOUS
<1>1. SettlementPoints \in Nat
  BY TermsType DEF Init
<1>2. TypeInv
  <2>1. task \in Tasks
    BY <1>1 DEF Init, NewTask, Tasks, Statuses, Epochs
  <2>2. exec \in [Epochs -> Executions]
    BY DEF Init, Unsubmitted, Executions
  <2>3. sessions \in [Workers -> Sessions]
    BY SessionTypes DEF Init
  <2>4. IsFiniteSet(asked)
    BY FS_EmptySet DEF Init
  <2> QED
    BY <2>1, <2>2, <2>3, <2>4 DEF Init, TypeInv
<1>3. MessageInv /\ PostedInv
  BY DEF Init, MessageInv, PostedInv
<1>4. ExecInv
  BY DEF Init, ExecInv, Unsubmitted
<1>5. TaskInv
  <2>1. None \notin {"USER_CANCEL_RULE", "SUCCESS_SETTLEMENT", "PRE_ACCEPTANCE_FULL_RELEASE"}
    BY ConstantTypes DEF Dispositions
  <2> QED
    BY <2>1 DEF Init, NewTask, TaskInv, TaskOK
<1>6. \A w \in Workers : SessionInv(w)
  BY SessionTypes DEF Init, SessionInv, Paying
<1> QED
  BY <1>2, <1>3, <1>4, <1>5, <1>6 DEF IInv

LEMMA StepHolds ==
    ASSUME IInv, NEW w \in Workers, Step(w), UNCHANGED terms
    PROVE  IInv'
BY RequestImportKeeps, SameWriteKeeps, RemoteCancelKeeps, ConfirmKeeps, SendKeeps,
   DeliverKeeps, ConcludeKeeps
DEF Step

LEMMA StutterHolds ==
    ASSUME IInv, UNCHANGED <<vars, terms>>
    PROVE  IInv'
<1>1. UNCHANGED <<task, escalated, posted, sessions, pending, asked, exec, remote, asset, terms>>
  BY DEF vars, external
<1>2. Grows
  BY <1>1 DEF Grows
<1>3. TypeInv'
  BY <1>1 DEF IInv, TypeInv
<1>4. MessageInv' /\ ExecInv' /\ PostedInv'
  BY <1>1, <1>2, MessagesStay, PostedStays DEF IInv, ExecInv
<1>5. remote => task.accepted
  BY DEF IInv, TaskInv, TaskOK
<1> QED
  BY <1>1, <1>2, <1>3, <1>4, <1>5, OutsideKeeps

LEMMA IInvHolds == Spec => []IInv
<1>1. IInv /\ [Next]_<<vars, terms>> => IInv'
  <2> SUFFICES ASSUME IInv, Act, UNCHANGED terms PROVE IInv'
    BY StutterHolds DEF Next
  <2>1. ASSUME NEW w \in Workers, NEW m \in Messages, Consume(w, m) PROVE IInv'
    BY <2>1, ConsumeKeeps
  <2>2. ASSUME NEW w \in Workers, Step(w) PROVE IInv'
    BY <2>2, StepHolds
  <2>3. ASSUME NEW w \in Workers, Lapse(w) PROVE IInv'
    BY <2>3, LapseKeeps
  <2>4. ASSUME NEW w \in Workers, GiveUp(w) \/ Crash(w) \/ Restart(w) PROVE IInv'
    BY <2>4, ResetKeeps
  <2>5. ASSUME NEW w \in Workers, RepairScan(w) PROVE IInv'
    BY <2>5, ScanKeeps
  <2>6. ASSUME NEW w \in Workers, RepairFailover(w) PROVE IInv'
    BY <2>6, FailoverKeeps
  <2>7. ASSUME NEW w \in Workers, RepairReplay(w) PROVE IInv'
    BY <2>7, ReplayKeeps
  <2>8. ASSUME NEW w \in Workers, RepairEscalate(w) \/ RepairError(w) PROVE IInv'
    BY <2>8, SameWriteKeeps
  <2>9. CASE RequestCancel
    BY <2>9, RequestCancelKeeps
  <2>10. ASSUME NEW e \in Epochs, Submit(e) \/ Advance(e) PROVE IInv'
    BY <2>10, SubmitKeeps, AdvanceKeeps
  <2>11. CASE ImportAsset
    BY <2>11, ImportAssetKeeps
  <2> QED
    BY <2>1, <2>2, <2>3, <2>4, <2>5, <2>6, <2>7, <2>8, <2>9, <2>10, <2>11 DEF Act
<1> QED
  BY <1>1, InitHolds, PTL DEF Spec

\* The task, what was posted, the sessions and the executions have their types.
THEOREM TypeCorrect == Spec => []TypeOK
<1>1. IInv => TypeOK
  BY DEF IInv, TypeInv, TypeOK, Tasks, Sessions, Executions
<1> QED
  BY <1>1, IInvHolds, PTL

\* A task is routed to a substitute only when the first provider never took it,
\* and its outcome is that of the execution it is routed to, under any terms
\* and whatever repairs, late events and stale workers do (task-repair.job.ts,
\* provider-events.consumer.ts).
THEOREM RouteCorrect == Spec => []RouteStands
<1>1. IInv => RouteStands
  BY DEF IInv, TaskInv, TaskOK, RouteStands, FailoverIsSafe, OutcomeOfRoute
<1> QED
  BY <1>1, IInvHolds, PTL

\* A charge is for a result that is durably stored or for a cancellation that
\* the provider has confirmed, and no result that is being stored is refunded,
\* under any terms (provider-events.consumer.ts).
THEOREM ChargesCorrect == Spec => []ChargedForOutcome
<1>1. IInv => ChargedForOutcome
  BY DEF IInv, TaskInv, TaskOK, PostedInv, Due, CanceledByProvider, WalletKeys,
         ChargedForOutcome, PaidForAsset, ChargedWhenCanceled
<1> QED
  BY <1>1, IInvHolds, PTL

-----------------------------------------------------------------------------
(* The inductive invariant of the plan.  It rests on one of the two sides   *)
(* not cancelling: where both may, a task canceled before acceptance can    *)
(* have its plan replaced by the provider's cancellation (the run           *)
(* task_double_release).                                                    *)

OneSideCancels == \A t \in Terms : t.cancels => t.commands = 0

Closed(t) == t.status \in {"SETTLED", "REFUNDED"}

\* The task has an outcome, and a plan for it.
HasOutcome(t) ==
    \/ t.status = "FAILED" /\ t.disposition = "PROVIDER_FAILED_FULL_RELEASE"
    \/ t.status = "SUCCEEDED" /\ t.disposition = "SUCCESS_SETTLEMENT"
    \/ t.status = "CANCELED"
    \/ Closed(t) /\ t.disposition # None

\* The commands of the plan.
Dues(t) ==
    LET plan == PlanOf(t.disposition, t.settlement) IN {plan[i] : i \in DOMAIN plan}

Covers(t) == Affordable(t.disposition, t.settlement)

Owes(t, c) == HasOutcome(t) /\ c \in Dues(t)

\* Every command of the plan was posted.
Whole(t) ==
    /\ HasOutcome(t) /\ Covers(t)
    /\ \A c \in Dues(t) : posted[c.key] = c

\* A worker whose snapshot is current has the rest of the plan before it; one
\* whose snapshot is stale still carries out nothing else.
SessionPlan(w) ==
    /\ \A i \in DOMAIN sessions[w].calls : Owes(task, sessions[w].calls[i])
    /\ sessions[w].stage \in Paying /\ sessions[w].calls # <<>> => Covers(task)
    /\ sessions[w].fresh /\ sessions[w].stage \in Paying =>
           /\ HasOutcome(task) /\ Covers(task)
           /\ sessions[w].goal = GoalOf(task.disposition)
           /\ \A c \in Dues(task) :
                  posted[c.key] = c
                  \/ \E i \in DOMAIN sessions[w].calls : sessions[w].calls[i] = c

PostedPlan ==
    \A k \in WalletKeys : posted[k] # None =>
        /\ Owes(task, posted[k]) /\ Covers(task)
        /\ posted[k].key = k /\ posted[k].points > 0

PlanInv ==
    /\ task.status = "FAILED" => task.disposition = "PROVIDER_FAILED_FULL_RELEASE"
    /\ \A w \in Workers : SessionPlan(w)
    /\ PostedPlan
    /\ Closed(task) => Whole(task)

\* What a write of the task does to the plan.
PlanFollows(t) ==
    /\ HasOutcome(task) =>
           /\ HasOutcome(t) /\ t.disposition = task.disposition
           /\ Dues(t) = Dues(task) /\ (Covers(task) => Covers(t))
    /\ t.status = "FAILED" => t.disposition = "PROVIDER_FAILED_FULL_RELEASE"
    /\ Closed(task) => Closed(t)
    /\ Closed(t) => Closed(task) \/ Whole(t)

\* The step posts nothing and opens nothing that is closed.
Steady == UNCHANGED posted /\ (Closed(task) => Closed(task)')

LEMMA PlanSame ==
    ASSUME NEW t, task' = t, terms' = terms
    PROVE  /\ Dues(task)' = Dues(t) /\ Covers(task)' = Covers(t)
           /\ HasOutcome(task)' = HasOutcome(t) /\ Closed(task)' = Closed(t)
           /\ task'.disposition = t.disposition
<1>1. ChargePoints' = ChargePoints
  BY DEF ChargePoints
<1> QED
  BY <1>1 DEF Dues, Covers, HasOutcome, Closed, PlanOf, Affordable, SettleAndRelease, Release

\* A task that is due what it was due.
LEMMA PlanUnchanged ==
    ASSUME NEW t, t.status = task.status, t.disposition = task.disposition,
           t.settlement = task.settlement, PlanInv
    PROVE  PlanFollows(t)
BY DEF PlanFollows, PlanInv, HasOutcome, Closed, Dues, Covers

\* A task that had no outcome.
LEMMA PlanNew ==
    ASSUME NEW t, ~HasOutcome(task), ~Closed(task), ~Closed(t),
           t.status = "FAILED" => t.disposition = "PROVIDER_FAILED_FULL_RELEASE"
    PROVE  PlanFollows(t)
BY DEF PlanFollows

LEMMA OpenTask ==
    ASSUME task.status \in {"QUEUED", "SUBMITTING", "RUNNING"}
    PROVE  ~HasOutcome(task) /\ ~Closed(task)
BY DEF HasOutcome, Closed

\* What a task with an outcome is due are commands.
LEMMA OwedType ==
    ASSUME NEW t \in Tasks, TaskOK(t), HasOutcome(t)
    PROVE  /\ t.disposition \in Dispositions /\ t.settlement \in Nat
           /\ t.disposition = "USER_CANCEL_RULE" => ChargePoints \in Nat
           /\ Dues(t) \subseteq Commands
<1>1. t.disposition \in Dispositions
  BY DEF HasOutcome, TaskOK, Dispositions, Tasks
<1>2. t.settlement \in Nat /\ (t.disposition = "USER_CANCEL_RULE" => ChargePoints \in Nat)
  BY DEF TaskOK, Tasks
<1>3. PlanOf(t.disposition, t.settlement) \in Seq(Commands)
  BY <1>1, <1>2, PlanType
<1> QED
  BY <1>1, <1>2, <1>3 DEF Dues

\* The sessions other than the writer's.
LEMMA PlanSessionStays ==
    ASSUME IInv, NEW t, task' = t, terms' = terms, PlanFollows(t),
           \A k \in WalletKeys : posted[k] # None => posted'[k] = posted[k],
           PostedPlan, NEW v \in Workers, SessionPlan(v),
           \/ sessions'[v] = sessions[v] /\ task' = task
           \/ sessions'[v] = [sessions[v] EXCEPT !.fresh = FALSE]
    PROVE  SessionPlan(v)'
<1>1. sessions[v] \in Sessions
  BY DEF IInv, TypeInv
<1>2. /\ sessions'[v].stage = sessions[v].stage
      /\ sessions'[v].goal = sessions[v].goal /\ sessions'[v].calls = sessions[v].calls
      /\ sessions'[v].fresh => sessions[v].fresh /\ task' = task
  BY <1>1 DEF Sessions
<1>3. /\ Dues(task)' = Dues(t) /\ Covers(task)' = Covers(t)
      /\ HasOutcome(task)' = HasOutcome(t) /\ task'.disposition = t.disposition
  BY PlanSame
<1>4. \A i \in DOMAIN sessions[v].calls : Owes(task, sessions[v].calls[i])
  BY DEF SessionPlan
<1>5. (\A i \in DOMAIN sessions[v].calls : Owes(task, sessions[v].calls[i]))'
  BY <1>2, <1>3, <1>4 DEF Owes, PlanFollows
<1>6. sessions[v].calls # <<>> => HasOutcome(task)
  <2>1. sessions[v].calls \in Seq(Commands)
    BY <1>1 DEF Sessions
  <2>2. sessions[v].calls # <<>> => 1 \in DOMAIN sessions[v].calls
    BY <2>1, CallsType
  <2> QED
    BY <1>4, <2>2 DEF Owes
<1>7. (sessions[v].stage \in Paying /\ sessions[v].calls # <<>> => Covers(task))'
  BY <1>2, <1>3, <1>6 DEF SessionPlan, PlanFollows, Paying
<1>8. ASSUME sessions'[v].fresh, sessions'[v].stage \in Paying
      PROVE  /\ HasOutcome(task)' /\ Covers(task)'
             /\ sessions'[v].goal = GoalOf(task.disposition)'
             /\ \A c \in Dues(task)' :
                    posted'[c.key] = c
                    \/ \E i \in DOMAIN sessions'[v].calls : sessions'[v].calls[i] = c
  <2>1. /\ HasOutcome(task) /\ Covers(task)
        /\ sessions[v].goal = GoalOf(task.disposition)
        /\ \A c \in Dues(task) :
               posted[c.key] = c
               \/ \E i \in DOMAIN sessions[v].calls : sessions[v].calls[i] = c
    BY <1>2, <1>8 DEF SessionPlan
  <2>2. Dues(task) \subseteq Commands
    BY <2>1, OwedType DEF IInv, TypeInv, TaskInv
  <2>3. GoalOf(task.disposition)' = GoalOf(task.disposition)
    <3>1. ChargePoints' = ChargePoints
      BY DEF ChargePoints
    <3> QED
      BY <1>2, <1>8, <3>1 DEF GoalOf
  <2>4. \A c \in Dues(task) : posted[c.key] = c => posted'[c.key] = c
    BY <2>2, ConstantTypes DEF Commands
  <2> QED
    BY <1>2, <1>3, <1>8, <2>1, <2>3, <2>4
<1> QED
  BY <1>2, <1>3, <1>5, <1>7, <1>8 DEF SessionPlan, Paying


\* A session with nothing to pay.
LEMMA PlanBlank ==
    ASSUME NEW w \in Workers, sessions'[w].calls = <<>>, sessions'[w].stage \notin Paying
    PROVE  SessionPlan(w)'
BY DEF SessionPlan, Paying

\* What a step that posts nothing must show.
LEMMA PlanWrite ==
    ASSUME IInv, PlanInv, NEW t, task' = t, PlanFollows(t), UNCHANGED <<posted, terms>>,
           \A v \in Workers :
               \/ SessionPlan(v)'
               \/ sessions'[v] = sessions[v] /\ task' = task
               \/ sessions'[v] = [sessions[v] EXCEPT !.fresh = FALSE]
    PROVE  PlanInv' /\ Steady
<1>1. /\ Dues(task)' = Dues(t) /\ Covers(task)' = Covers(t)
      /\ HasOutcome(task)' = HasOutcome(t) /\ Closed(task)' = Closed(t)
  BY PlanSame
<1>2. \A v \in Workers : SessionPlan(v)'
  <2>1. \A v \in Workers : SessionPlan(v) /\ PostedPlan
    BY DEF PlanInv
  <2> QED
    BY <2>1, PlanSessionStays
<1>3. PostedPlan'
  BY <1>1 DEF PlanInv, PostedPlan, Owes, PlanFollows
<1>4. Whole(t) => Whole(task)'
  BY <1>1 DEF Whole
<1>5. Whole(task) => Whole(t)
  BY DEF Whole, PlanFollows
<1>6. Closed(task)' => Whole(task)'
  BY <1>1, <1>4, <1>5 DEF PlanInv, PlanFollows
<1>7. (task.status = "FAILED" => task.disposition = "PROVIDER_FAILED_FULL_RELEASE")'
  BY DEF PlanFollows
<1> QED
  BY <1>1, <1>2, <1>3, <1>6, <1>7 DEF PlanInv, Steady, PlanFollows

LEMMA PlanCommit ==
    ASSUME IInv, PlanInv, NEW w \in Workers, NEW t, NEW s \in Sessions, Commit(w, t, s),
           PlanFollows(t), SessionPlan(w)', Quiet
    PROVE  PlanInv' /\ Steady
<1>1. task' = t /\ Alone(w)
  BY CommitType DEF IInv
<1> QED
  BY <1>1, PlanWrite DEF Alone, Quiet

LEMMA PlanOwn ==
    ASSUME IInv, PlanInv, NEW w \in Workers, Alone(w), SessionPlan(w)', UNCHANGED task, Quiet
    PROVE  PlanInv' /\ Steady
<1>1. PlanFollows(task)
  BY PlanUnchanged
<1> QED
  BY <1>1, PlanWrite DEF Alone, Quiet

\* The session of a completed message.
LEMMA CompleteType ==
    ASSUME TypeInv, NEW w \in Workers, NEW m, NEW t, Complete(w, m, t)
    PROVE  \E s \in Sessions : /\ Commit(w, t, s)
                               /\ s.stage \in {"idle", "closing"} /\ s.calls = <<>>
<1>1. << >> \in Seq(Commands)
  OBVIOUS
<1>2. /\ Working("closing", RepairMessage, FALSE, <<>>, None) \in Sessions
      /\ Idle \in Sessions /\ Idle.stage = "idle" /\ Idle.calls = <<>>
  BY <1>1, SessionTypes DEF Stages
<1>3. /\ Working("closing", RepairMessage, FALSE, <<>>, None).stage = "closing"
      /\ Working("closing", RepairMessage, FALSE, <<>>, None).calls = <<>>
  BY DEF Working
<1>4. CASE Nested(w)
  BY <1>2, <1>3, <1>4 DEF Complete
<1>5. CASE ~Nested(w)
  BY <1>2, <1>5 DEF Complete
<1> QED
  BY <1>4, <1>5

LEMMA PlanComplete ==
    ASSUME IInv, PlanInv, NEW w \in Workers, NEW m, NEW t, Complete(w, m, t),
           PlanFollows(t), Quiet
    PROVE  PlanInv' /\ Steady
<1>1. PICK s \in Sessions : /\ Commit(w, t, s)
                            /\ s.stage \in {"idle", "closing"} /\ s.calls = <<>>
  BY CompleteType DEF IInv
<1>2. sessions'[w] = s
  BY <1>1, CommitType DEF IInv
<1>3. SessionPlan(w)'
  BY <1>1, <1>2, PlanBlank DEF Paying
<1> QED
  BY <1>1, <1>3, PlanCommit

LEMMA PlanContinue ==
    ASSUME IInv, PlanInv, NEW w \in Workers, NEW m \in Sent, NEW t,
           NEW stage \in {"import", "cancel"}, Continue(w, m, t, stage, <<>>, None),
           PlanFollows(t), Quiet
    PROVE  PlanInv' /\ Steady
<1> DEFINE s == Working(stage, m, Nested(w), <<>>, None)
<1>1. s \in Sessions
  <2>1. << >> \in Seq(Commands)
    OBVIOUS
  <2> QED
    BY <2>1, NestedType, SessionTypes DEF Stages
<1>2. s.stage = stage /\ s.calls = <<>>
  BY DEF Working
<1>3. Commit(w, t, s)
  BY DEF Continue
<1> HIDE DEF s
<1>4. sessions'[w] = s
  BY <1>1, <1>3, CommitType DEF IInv
<1>5. SessionPlan(w)'
  BY <1>2, <1>4, PlanBlank DEF Paying
<1> QED
  BY <1>1, <1>3, <1>5, PlanCommit

LEMMA PlanGoOn ==
    ASSUME IInv, PlanInv, NEW w \in Workers, NEW m \in Sent, NEW stage \in {"import", "cancel"},
           NEW nested \in BOOLEAN, UNCHANGED task,
           sessions' = [sessions EXCEPT ![w] = Working(stage, m, nested, <<>>, None)], Quiet
    PROVE  PlanInv' /\ Steady
<1> DEFINE s == Working(stage, m, nested, <<>>, None)
<1>1. s \in Sessions
  <2>1. << >> \in Seq(Commands)
    OBVIOUS
  <2> QED
    BY <2>1, SessionTypes DEF Stages
<1>2. s.stage = stage /\ s.calls = <<>>
  BY DEF Working
<1>3. sessions' = [sessions EXCEPT ![w] = s]
  OBVIOUS
<1> HIDE DEF s
<1>4. sessions'[w] = s /\ Alone(w)
  BY <1>1, <1>3, SetType DEF IInv
<1>5. SessionPlan(w)'
  BY <1>2, <1>4, PlanBlank DEF Paying
<1> QED
  BY <1>4, <1>5, PlanOwn

\* A session that begins to carry out the whole plan of t.
LEMMA PlanBegins ==
    ASSUME NEW w \in Workers, NEW t \in Tasks, TaskOK(t), HasOutcome(t), task' = t,
           sessions'[w].calls = PlanOf(t.disposition, t.settlement),
           sessions'[w].goal = GoalOf(t.disposition),
           sessions'[w].stage \in Paying => Covers(t), UNCHANGED terms
    PROVE  SessionPlan(w)'
<1>1. /\ Dues(task)' = Dues(t) /\ Covers(task)' = Covers(t)
      /\ HasOutcome(task)' = HasOutcome(t) /\ task'.disposition = t.disposition
  BY PlanSame
<1>2. \A i \in DOMAIN sessions'[w].calls : sessions'[w].calls[i] \in Dues(t)
  BY DEF Dues
<1>3. \A c \in Dues(t) : \E i \in DOMAIN sessions'[w].calls : sessions'[w].calls[i] = c
  BY DEF Dues
<1>4. GoalOf(task.disposition)' = GoalOf(t.disposition)
  BY DEF GoalOf, ChargePoints
<1> QED
  BY <1>1, <1>2, <1>3, <1>4 DEF SessionPlan, Owes, Paying

LEMMA PlanPlan ==
    ASSUME IInv, PlanInv, NEW w \in Workers, NEW m \in Sent \cup {RepairMessage, None},
           NEW t \in Tasks, NEW d \in Dispositions, Plan(w, m, t, d),
           PlanFollows([t EXCEPT !.disposition = d]), HasOutcome([t EXCEPT !.disposition = d]),
           TaskOK([t EXCEPT !.disposition = d]), Quiet
    PROVE  PlanInv' /\ Steady
<1> DEFINE planned == [t EXCEPT !.disposition = d]
           stage == IF Affordable(d, t.settlement) THEN "calls"
                    ELSE IF d = "USER_CANCEL_RULE" THEN "unresolved" ELSE "refused"
           calls == PlanOf(d, t.settlement)
           s == Working(stage, m, Nested(w), calls, GoalOf(d))
<1>1. /\ planned \in Tasks /\ planned.disposition = d /\ planned.settlement = t.settlement
  BY DEF Tasks
<1>2. t.settlement \in Nat /\ (d = "USER_CANCEL_RULE" => ChargePoints \in Nat)
  BY <1>1 DEF Tasks, TaskOK
<1>3. calls \in Seq(Commands)
  BY <1>2, PlanType
<1>4. stage \in Stages /\ (stage \in Paying => Affordable(d, t.settlement))
  BY DEF Stages, Paying
<1>5. Commit(w, planned, s)
  BY DEF Plan, Continue
<1> HIDE DEF planned, stage, calls
<1>6. s \in Sessions
  BY <1>3, <1>4, NestedType, GoalType, SessionTypes
<1>7. s.stage = stage /\ s.calls = calls /\ s.goal = GoalOf(d)
  BY DEF Working
<1> HIDE DEF s
<1>8. sessions'[w] = s /\ task' = planned
  BY <1>5, <1>6, CommitType DEF IInv
<1>9. PlanFollows(planned) /\ HasOutcome(planned) /\ TaskOK(planned)
  BY DEF planned
<1>10. SessionPlan(w)'
  BY <1>1, <1>4, <1>7, <1>8, <1>9, PlanBegins DEF calls, Covers, Quiet
<1> QED
  BY <1>5, <1>6, <1>9, <1>10, PlanCommit

-----------------------------------------------------------------------------
(* The plan under the handlers of the messages.                            *)

LEMMA PlanIgnore ==
    ASSUME IInv, PlanInv, NEW w \in Workers, NEW m, Ignore(w, m), Quiet
    PROVE  PlanInv' /\ Steady
BY PlanComplete, PlanUnchanged DEF Ignore

LEMMA PlanAsk ==
    ASSUME IInv, PlanInv, NEW w \in Workers, NEW m, NEW t, AskOperator(w, m, t),
           PlanFollows(t), Quiet
    PROVE  PlanInv' /\ Steady
BY PlanComplete DEF AskOperator

LEMMA PlanAmbiguous ==
    ASSUME IInv, PlanInv, NEW w \in Workers, NEW m \in Sent, OnAmbiguous(w, m), Quiet
    PROVE  PlanInv' /\ Steady
<1> DEFINE x == Identified(task, m)
           t == IF x.status = "QUEUED"
                THEN [x EXCEPT !.status = "SUBMITTING", !.version = @ + 1] ELSE x
<1>1. /\ x \in Tasks /\ x.status = task.status /\ x.disposition = task.disposition
      /\ x.settlement = task.settlement
  BY SentTypes, IdentifiedFields DEF OnAmbiguous, Bound, IInv, TypeInv
<1>2. AskOperator(w, m, t)
  BY DEF OnAmbiguous
<1> HIDE DEF x
<1>3. CASE x.status = "QUEUED"
  <2>1. t.status = "SUBMITTING"
    BY <1>1, <1>3 DEF Tasks
  <2> HIDE DEF t
  <2>2. PlanFollows(t)
    BY <1>1, <1>3, <2>1, OpenTask, PlanNew DEF Closed
  <2> QED
    BY <1>2, <2>2, PlanAsk
<1>4. CASE x.status # "QUEUED"
  <2>1. PlanFollows(t)
    BY <1>1, <1>4, PlanUnchanged
  <2> QED
    BY <1>2, <2>1, PlanAsk
<1> QED
  BY <1>3, <1>4

LEMMA PlanProgress ==
    ASSUME IInv, PlanInv, NEW w \in Workers, NEW m \in Sent, OnProgress(w, m), Quiet
    PROVE  PlanInv' /\ Steady
<1>1. CASE RankOf[m.type] <= task.rank
  BY <1>1, PlanIgnore DEF OnProgress
<1>2. CASE ~(RankOf[m.type] <= task.rank)
  <2> DEFINE x == Moved(Identified(task, m), "RUNNING")
             t == [x EXCEPT !.accepted = TRUE, !.rank = RankOf[m.type]]
  <2>1. CanMove(task, "RUNNING") /\ Complete(w, m, t)
    BY <1>2 DEF OnProgress
  <2>2. x \in Tasks /\ x.status = "RUNNING"
    BY <2>1, SentTypes, MovedByEvent, MovesFrom DEF OnProgress, Bound, IInv, TypeInv
  <2> HIDE DEF x
  <2>3. t.status = "RUNNING"
    BY <2>2 DEF Tasks
  <2> HIDE DEF t
  <2>4. PlanFollows(t)
    BY <2>1, <2>3, MovesFrom, OpenTask, PlanNew DEF Closed
  <2> QED
    BY <2>1, <2>4, PlanComplete
<1> QED
  BY <1>1, <1>2

LEMMA PlanSucceeded ==
    ASSUME IInv, PlanInv, NEW w \in Workers, NEW m \in Sent, OnSucceeded(w, m), Quiet
    PROVE  PlanInv' /\ Steady
<1>0. m \in Events
  BY SentTypes DEF OnSucceeded, Bound
<1>1. CASE Ignore(w, m)
  BY <1>1, PlanIgnore
<1>2. CASE AskOperator(w, m, Identified(task, m))
  <2>1. PlanFollows(Identified(task, m))
    BY <1>0, IdentifiedFields, PlanUnchanged DEF IInv, TypeInv
  <2> QED
    BY <1>2, <2>1, PlanAsk
<1>3. CASE /\ sessions' = [sessions EXCEPT ![w] = Working("import", m, Nested(w), <<>>, None)]
           /\ UNCHANGED task
  BY <1>3, NestedType, PlanGoOn
<1>4. CASE /\ task.status \in {"QUEUED", "SUBMITTING", "RUNNING"}
           /\ Continue(w, m, [Moved(Identified(task, m), "SUCCEEDED") EXCEPT
                                 !.accepted = TRUE, !.rank = 3, !.importRequested = TRUE],
                       "import", <<>>, None)
  <2> DEFINE x == Moved(Identified(task, m), "SUCCEEDED")
             t == [x EXCEPT !.accepted = TRUE, !.rank = 3, !.importRequested = TRUE]
  <2>1. x \in Tasks /\ x.status = "SUCCEEDED"
    BY <1>0, <1>4, MovedByEvent, MovesFrom DEF IInv, TypeInv
  <2> HIDE DEF x
  <2>2. t.status = "SUCCEEDED"
    BY <2>1 DEF Tasks
  <2>3. Continue(w, m, t, "import", <<>>, None)
    BY <1>4 DEF x
  <2> HIDE DEF t
  <2>4. PlanFollows(t)
    BY <1>4, <2>2, OpenTask, PlanNew DEF Closed
  <2> QED
    BY <2>3, <2>4, PlanContinue
<1> QED
  BY <1>1, <1>2, <1>3, <1>4 DEF OnSucceeded

LEMMA PlanImported ==
    ASSUME IInv, PlanInv, NEW w \in Workers, NEW m \in Sent, Justified(m),
           OnAssetImported(w, m), Quiet
    PROVE  PlanInv' /\ Steady
<1>1. CASE Ignore(w, m)
  BY <1>1, PlanIgnore
<1>2. CASE AskOperator(w, m, task)
  BY <1>2, PlanAsk, PlanUnchanged
<1>3. CASE /\ task.status = "SUCCEEDED"
           /\ Plan(w, m, [task EXCEPT !.imported = TRUE], "SUCCESS_SETTLEMENT")
  <2> DEFINE t == [task EXCEPT !.imported = TRUE]
             d == "SUCCESS_SETTLEMENT"
             p == [t EXCEPT !.disposition = d]
  <2>1. asset = "imported" /\ d \in Dispositions /\ d # None
    BY SentTypes, ConstantTypes DEF OnAssetImported, Justified, Dispositions
  <2>2. /\ t \in Tasks /\ t.status = "SUCCEEDED" /\ t.accepted = task.accepted
        /\ t.epoch = task.epoch /\ t.settlement = task.settlement
    BY <1>3 DEF IInv, TypeInv, Tasks
  <2>3. Plan(w, m, t, d)
    BY <1>3
  <2> HIDE DEF t
  <2>4. /\ p \in Tasks /\ p.status = "SUCCEEDED" /\ p.accepted = task.accepted
        /\ p.epoch = task.epoch /\ p.settlement = task.settlement /\ p.disposition = d
    BY <2>1, <2>2, PlannedFields
  <2>5. TaskOK(p) /\ HasOutcome(p)
    <3> HIDE DEF p
    <3> QED
      BY <1>3, <2>1, <2>4 DEF TaskOK, IInv, TaskInv, HasOutcome
  <2>6. PlanFollows(p)
    <3> HIDE DEF p
    <3>1. CASE task.disposition = d
      BY <1>3, <2>4, <3>1, PlanUnchanged
    <3>2. CASE task.disposition # d
      BY <1>3, <2>4, <3>2, PlanNew DEF HasOutcome, Closed
    <3> QED
      BY <3>1, <3>2
  <2> QED
    BY <2>1, <2>2, <2>3, <2>5, <2>6, PlanPlan
<1> QED
  BY <1>1, <1>2, <1>3 DEF OnAssetImported

LEMMA PlanFailed ==
    ASSUME IInv, PlanInv, NEW w \in Workers, NEW m \in Sent, Justified(m), OnFailed(w, m), Quiet
    PROVE  PlanInv' /\ Steady
<1>1. CASE Ignore(w, m)
  BY <1>1, PlanIgnore
<1>2. CASE /\ task.status \notin {"REFUNDED", "SUCCEEDED", "CANCELED", "SETTLED"}
           /\ Plan(w, m, [Moved(Identified(task, m), "FAILED") EXCEPT !.rank = 3],
                   "PROVIDER_FAILED_FULL_RELEASE")
  <2> DEFINE x == Moved(Identified(task, m), "FAILED")
             t == [x EXCEPT !.rank = 3]
             d == "PROVIDER_FAILED_FULL_RELEASE"
             p == [t EXCEPT !.disposition = d]
  <2>1. /\ m \in Events /\ m.epoch = task.epoch /\ exec[task.epoch].state = "failed"
        /\ d \in Dispositions
        /\ task.status \in {"QUEUED", "SUBMITTING", "RUNNING", "FAILED"}
    <3>1. m \in Events /\ m.epoch = task.epoch /\ m.type = "failed"
      BY SentTypes DEF OnFailed, Bound
    <3>2. task.status \in Statuses
      BY DEF IInv, TypeInv, Tasks
    <3> QED
      BY <1>2, <3>1, <3>2 DEF Justified, Terminal, Dispositions, Statuses
  <2>2. /\ x \in Tasks /\ x.status = "FAILED" /\ x.epoch = task.epoch
        /\ x.accepted = task.accepted /\ x.settlement = task.settlement
    BY <2>1, MovedByEvent, MovesFrom DEF IInv, TypeInv
  <2> HIDE DEF x
  <2>3. /\ t \in Tasks /\ t.status = "FAILED" /\ t.epoch = task.epoch
        /\ t.accepted = task.accepted /\ t.settlement = task.settlement
    BY <2>2, RankedFields
  <2>4. Plan(w, m, t, d)
    BY <1>2 DEF x
  <2> HIDE DEF t
  <2>5. /\ p \in Tasks /\ p.status = "FAILED" /\ p.accepted = task.accepted
        /\ p.epoch = task.epoch /\ p.settlement = task.settlement /\ p.disposition = d
    BY <2>1, <2>3, PlannedFields
  <2>6. TaskOK(p) /\ HasOutcome(p)
    <3> HIDE DEF p
    <3> QED
      BY <2>1, <2>5 DEF TaskOK, IInv, TaskInv, HasOutcome
  <2>7. PlanFollows(p)
    <3> HIDE DEF p
    <3>1. CASE task.status = "FAILED"
      BY <2>5, <3>1, PlanUnchanged DEF PlanInv
    <3>2. CASE task.status # "FAILED"
      BY <2>1, <2>5, <3>2, OpenTask, PlanNew DEF Closed
    <3> QED
      BY <3>1, <3>2
  <2> QED
    BY <2>1, <2>3, <2>4, <2>6, <2>7, PlanPlan
<1> QED
  BY <1>1, <1>2 DEF OnFailed

\* A cancellation replaces no plan: only a task canceled for the same reason
\* is planned again.
LEMMA PlanCanceledTask ==
    ASSUME IInv, PlanInv, NEW w \in Workers, NEW m \in Sent \cup {RepairMessage, None},
           NEW t \in Tasks, t.status = "CANCELED", t.epoch = task.epoch,
           t.accepted = task.accepted, t.settlement = task.settlement,
           task.status \in {"QUEUED", "SUBMITTING", "RUNNING", "CANCELED"},
           NEW d \in {"PRE_ACCEPTANCE_FULL_RELEASE", "PROVIDER_CANCELED_FULL_RELEASE",
                      "USER_CANCEL_RULE"},
           d = "PRE_ACCEPTANCE_FULL_RELEASE" => ~task.accepted /\ terms.commands > 0,
           d = "USER_CANCEL_RULE" =>
               task.disposition = d /\ t.cancelRequested /\ CanceledByProvider,
           task.status = "CANCELED" => task.disposition = d,
           Plan(w, m, t, d), Quiet
    PROVE  PlanInv' /\ Steady
<1> DEFINE p == [t EXCEPT !.disposition = d]
<1>1. d \in Dispositions /\ d # None
  BY ConstantTypes DEF Dispositions
<1>2. /\ p \in Tasks /\ p.status = "CANCELED" /\ p.accepted = task.accepted
      /\ p.epoch = task.epoch /\ p.settlement = task.settlement /\ p.disposition = d
      /\ p.cancelRequested = t.cancelRequested
  BY <1>1, PlannedFields
<1>3. d = "USER_CANCEL_RULE" => ChargePoints \in Nat /\ task.accepted
  BY DEF IInv, TaskInv, TaskOK
<1>4. TaskOK(p) /\ HasOutcome(p)
  <2> HIDE DEF p
  <2> QED
    BY <1>1, <1>2, <1>3 DEF TaskOK, IInv, TaskInv, CanceledByProvider, HasOutcome
<1>5. PlanFollows(p)
  <2> HIDE DEF p
  <2>1. CASE task.status = "CANCELED"
    BY <1>2, <2>1, PlanUnchanged
  <2>2. CASE task.status # "CANCELED"
    BY <1>2, <2>2, OpenTask, PlanNew DEF Closed
  <2> QED
    BY <2>1, <2>2
<1> QED
  BY <1>1, <1>4, <1>5, PlanPlan

\* Where only one side cancels, a task that was canceled before its acceptance
\* is not canceled by the provider as well.
LEMMA OneCancellation ==
    ASSUME OneSideCancels, IInv, exec[task.epoch].state = "canceled"
    PROVE  task.disposition # "PRE_ACCEPTANCE_FULL_RELEASE"
<1> SUFFICES ASSUME task.disposition = "PRE_ACCEPTANCE_FULL_RELEASE" PROVE FALSE
  OBVIOUS
<1>1. ~task.accepted /\ terms.commands > 0 /\ (remote => task.accepted)
  BY DEF IInv, TaskInv, TaskOK
<1>2. remote \/ terms.cancels
  BY DEF IInv, TypeInv, Tasks, ExecInv
<1>3. terms.cancels => terms.commands = 0
  BY DEF IInv, TypeInv, OneSideCancels
<1> QED
  BY <1>1, <1>2, <1>3

LEMMA PlanCanceled ==
    ASSUME OneSideCancels, IInv, PlanInv, NEW w \in Workers, NEW m \in Sent, Justified(m),
           OnCanceled(w, m), Quiet
    PROVE  PlanInv' /\ Steady
<1> DEFINE x == Moved(Identified(task, m), "CANCELED")
           t == [x EXCEPT !.rank = 3]
<1>1. m \in Events /\ m.epoch = task.epoch /\ exec[task.epoch].state = "canceled"
  <2>1. m \in Events /\ m.epoch = task.epoch /\ m.type = "canceled"
    BY SentTypes DEF OnCanceled, Bound
  <2> QED
    BY <2>1 DEF Justified, Terminal
<1>2. ASSUME CanMove(task, "CANCELED")
      PROVE  /\ t \in Tasks /\ t.status = "CANCELED" /\ t.epoch = task.epoch
             /\ t.accepted = task.accepted /\ t.settlement = task.settlement
             /\ t.cancelRequested = task.cancelRequested
             /\ task.status \in {"QUEUED", "SUBMITTING", "RUNNING", "CANCELED"}
  <2>1. /\ x \in Tasks /\ x.status = "CANCELED" /\ x.epoch = task.epoch
        /\ x.accepted = task.accepted /\ x.settlement = task.settlement
        /\ x.cancelRequested = task.cancelRequested
    BY <1>1, <1>2, MovedByEvent, MovesFrom DEF IInv, TypeInv
  <2> HIDE DEF x
  <2> QED
    BY <1>2, <2>1, RankedFields, MovesFrom
<1>3. CASE Ignore(w, m)
  BY <1>3, PlanIgnore
<1>4. CASE /\ UserCancels(task) /\ CanMove(task, "CANCELED")
           /\ Plan(w, m, t, "USER_CANCEL_RULE")
  <2> HIDE DEF t
  <2> QED
    BY <1>1, <1>2, <1>4, PlanCanceledTask DEF UserCancels, CanceledByProvider
<1>5. CASE /\ ~UserCancels(task)
           /\ task.status \in {"QUEUED", "SUBMITTING", "RUNNING", "CANCELED"}
           /\ Plan(w, m, t, "PROVIDER_CANCELED_FULL_RELEASE")
  <2>1. CanMove(task, "CANCELED")
    BY <1>5, MovesFrom
  <2>2. task.status = "CANCELED" => task.disposition = "PROVIDER_CANCELED_FULL_RELEASE"
    BY <1>1, <1>5, OneCancellation DEF IInv, TaskInv, TaskOK, UserCancels
  <2> HIDE DEF t
  <2> QED
    BY <1>2, <1>5, <2>1, <2>2, PlanCanceledTask
<1> QED
  BY <1>3, <1>4, <1>5 DEF OnCanceled

LEMMA PlanCancel ==
    ASSUME IInv, PlanInv, NEW w \in Workers, NEW m \in Sent, Justified(m), OnCancel(w, m), Quiet
    PROVE  PlanInv' /\ Steady
<1>1. m \in Cancels /\ terms.commands > 0 /\ task \in Tasks
  BY SentTypes DEF OnCancel, Justified, IInv, TypeInv
<1>2. CASE Ignore(w, m)
  BY <1>2, PlanIgnore
<1>3. CASE /\ NeverAccepted(task) /\ task.status # "CANCELED"
           /\ Plan(w, m, [Moved(task, "CANCELED") EXCEPT !.rank = 3, !.cancelRequested = TRUE],
                   "PRE_ACCEPTANCE_FULL_RELEASE")
  <2> DEFINE x == Moved(task, "CANCELED")
             t == [x EXCEPT !.rank = 3, !.cancelRequested = TRUE]
  <2>1. task.status = "QUEUED" /\ ~task.accepted
    BY <1>3 DEF NeverAccepted
  <2>2. /\ x \in Tasks /\ x.status = "CANCELED" /\ x.epoch = task.epoch
        /\ x.accepted = task.accepted /\ x.settlement = task.settlement
    BY <1>1, <2>1, MovedFields, MovesFrom
  <2> HIDE DEF x
  <2>3. /\ t \in Tasks /\ t.status = "CANCELED" /\ t.epoch = task.epoch
        /\ t.accepted = task.accepted /\ t.settlement = task.settlement
    <3>1. 3 \in 0..3
      OBVIOUS
    <3>2. t \in Tasks
      BY <2>2, <3>1 DEF Tasks
    <3>3. /\ t.status = x.status /\ t.epoch = x.epoch
          /\ t.accepted = x.accepted /\ t.settlement = x.settlement
      BY <2>2 DEF Tasks
    <3> QED
      BY <2>2, <3>2, <3>3
  <2>4. Plan(w, m, t, "PRE_ACCEPTANCE_FULL_RELEASE")
    BY <1>3 DEF x
  <2> HIDE DEF t
  <2> QED
    BY <1>1, <2>1, <2>3, <2>4, PlanCanceledTask
<1>4. CASE /\ NeverAccepted(task) /\ task.status = "CANCELED"
           /\ sessions' = [sessions EXCEPT ![w] =
                  Working("calls", m, FALSE, PlanOf(task.disposition, task.settlement),
                          "REFUNDED")]
           /\ UNCHANGED task
  <2> DEFINE d == task.disposition
             calls == PlanOf(d, task.settlement)
             s == Working("calls", m, FALSE, calls, "REFUNDED")
  <2>1. d \in {"PRE_ACCEPTANCE_FULL_RELEASE", "PROVIDER_CANCELED_FULL_RELEASE"}
    BY <1>4 DEF NeverAccepted, IInv, TaskInv, TaskOK
  <2>2. TaskOK(task) /\ HasOutcome(task)
    BY <1>4 DEF IInv, TaskInv, HasOutcome
  <2>3. Covers(task) /\ GoalOf(d) = "REFUNDED"
    BY <2>1 DEF Covers, Affordable, GoalOf
  <2>4. calls \in Seq(Commands)
    BY <1>1, <2>2, OwedType, PlanType
  <2> HIDE DEF calls
  <2>5. s \in Sessions
    BY <2>4, SessionTypes DEF Stages
  <2>6. s.stage = "calls" /\ s.calls = calls /\ s.goal = "REFUNDED"
    BY DEF Working
  <2>7. sessions' = [sessions EXCEPT ![w] = s]
    BY <1>4 DEF calls
  <2> HIDE DEF s
  <2>8. sessions'[w] = s /\ Alone(w)
    BY <1>4, <2>5, <2>7, SetType DEF IInv
  <2>9. SessionPlan(w)'
    <3>1. PICK t \in Tasks : t = task
      BY <1>1
    <3>2. TaskOK(t) /\ HasOutcome(t) /\ Covers(t)
      BY <2>2, <2>3, <3>1
    <3>3. /\ sessions'[w].calls = PlanOf(t.disposition, t.settlement)
          /\ sessions'[w].goal = GoalOf(t.disposition)
      BY <2>3, <2>6, <2>8, <3>1 DEF calls
    <3> QED
      BY <1>4, <3>1, <3>2, <3>3, PlanBegins DEF Quiet
  <2> QED
    BY <1>4, <2>8, <2>9, PlanOwn
<1>5. CASE AskOperator(w, m, task)
  BY <1>5, PlanAsk, PlanUnchanged
<1>6. CASE /\ sessions' = [sessions EXCEPT ![w] = Working("cancel", m, FALSE, <<>>, None)]
           /\ UNCHANGED task
  BY <1>6, PlanGoOn
<1>7. CASE /\ Current(m, task) /\ task.accepted
           /\ Continue(w, m, [task EXCEPT !.cancelRequested = TRUE,
                                          !.disposition = "USER_CANCEL_RULE"],
                       "cancel", <<>>, None)
           /\ ~UserCancels(task)
  <2> DEFINE t == [task EXCEPT !.cancelRequested = TRUE, !.disposition = "USER_CANCEL_RULE"]
  <2>1. t.status = task.status
    BY <1>1 DEF Tasks
  <2>2. Continue(w, m, t, "cancel", <<>>, None)
    BY <1>7
  <2> HIDE DEF t
  <2>3. task.status \in {"QUEUED", "SUBMITTING", "RUNNING"}
    <3>1. m.status \in {"QUEUED", "RUNNING"} /\ task.status \in Statuses
      BY <1>1 DEF Cancels, Tasks
    <3>2. task.disposition = "PRE_ACCEPTANCE_FULL_RELEASE" => ~task.accepted
      BY DEF IInv, TaskInv, TaskOK
    <3> QED
      BY <1>7, <3>1, <3>2 DEF Current, Resumable, UserCancels, Statuses
  <2>4. PlanFollows(t)
    BY <2>1, <2>3, OpenTask, PlanNew DEF Closed
  <2> QED
    BY <2>2, <2>4, PlanContinue
<1> QED
  BY <1>2, <1>3, <1>4, <1>5, <1>6, <1>7 DEF OnCancel

LEMMA PlanConsume ==
    ASSUME OneSideCancels, IInv, PlanInv, NEW w \in Workers, NEW m, Consume(w, m),
           UNCHANGED terms
    PROVE  PlanInv' /\ Steady
<1>1. m \in Sent /\ Justified(m)
  <2>1. CASE m \in pending
    BY <2>1 DEF IInv, TypeInv, MessageInv
  <2>2. CASE sessions[w].stage = "replay" /\ sessions[w].msg = m
    <3>1. sessions[w].msg \in Sent /\ Justified(sessions[w].msg)
      BY <2>2 DEF IInv, SessionInv
    <3> QED
      BY <2>2, <3>1 DEF Justified
  <2> QED
    BY <2>1, <2>2 DEF Consume, Takes
<1>2. Quiet
  BY DEF Consume, Quiet, external
<1>3. CASE OnOtherEpoch(w, m)
  BY <1>2, <1>3, PlanAsk, PlanUnchanged DEF OnOtherEpoch
<1> QED
  BY <1>1, <1>2, <1>3, PlanAmbiguous, PlanProgress, PlanSucceeded,
     PlanImported, PlanFailed, PlanCanceled, PlanCancel
  DEF Consume

-----------------------------------------------------------------------------
(* The plan under the other steps.                                         *)

\* A session that has the same before it.
LEMMA PlanSessionSame ==
    ASSUME NEW w \in Workers, SessionPlan(w), UNCHANGED <<task, posted, terms>>,
           sessions'[w].calls = sessions[w].calls, sessions'[w].goal = sessions[w].goal,
           sessions'[w].fresh = sessions[w].fresh,
           sessions'[w].stage \in Paying => sessions[w].stage \in Paying
    PROVE  SessionPlan(w)'
<1>1. /\ Dues(task)' = Dues(task) /\ Covers(task)' = Covers(task)
      /\ HasOutcome(task)' = HasOutcome(task)
  BY PlanSame
<1>2. GoalOf(task.disposition)' = GoalOf(task.disposition)
  BY DEF GoalOf, ChargePoints
<1> QED
  BY <1>1, <1>2 DEF SessionPlan, Owes, Paying

LEMMA PlanStage ==
    ASSUME IInv, PlanInv, NEW w \in Workers, NEW stage \in Stages, ToStage(w, stage),
           stage \in Paying => sessions[w].stage \in Paying, UNCHANGED <<task, posted, terms>>
    PROVE  PlanInv' /\ Steady
<1>1. /\ Alone(w) /\ sessions'[w].stage = stage
      /\ sessions'[w].calls = sessions[w].calls /\ sessions'[w].goal = sessions[w].goal
      /\ sessions'[w].fresh = sessions[w].fresh
  BY StageType DEF IInv
<1>2. SessionPlan(w)'
  BY <1>1, PlanSessionSame DEF PlanInv
<1> QED
  BY <1>1, <1>2, PlanWrite, PlanUnchanged DEF Alone

LEMMA PlanStages ==
    ASSUME IInv, PlanInv, NEW w \in Workers, UNCHANGED terms,
           \/ RequestImport(w) \/ RemoteCancel(w) \/ Send(w) \/ RepairConverge(w)
    PROVE  PlanInv' /\ Steady
<1>1. CASE RequestImport(w)
  BY <1>1, PlanStage DEF RequestImport, Stages, Paying
<1>2. CASE RemoteCancel(w)
  <2>1. PICK stage \in {"confirmed", "unresolved"} : ToStage(w, stage)
    BY <1>2 DEF RemoteCancel
  <2>2. UNCHANGED <<task, posted, terms>>
    BY <1>2 DEF RemoteCancel
  <2> QED
    BY <2>1, <2>2, PlanStage DEF Stages, Paying
<1>3. CASE Send(w)
  BY <1>3, PlanStage DEF Send, Stages, Paying
<1>4. CASE RepairConverge(w)
  BY <1>4, PlanStage DEF RepairConverge, Stages, Paying
<1> QED
  BY <1>1, <1>2, <1>3, <1>4

LEMMA PlanLapse ==
    ASSUME IInv, PlanInv, NEW w \in Workers, Lapse(w), UNCHANGED terms
    PROVE  PlanInv' /\ Steady
<1> DEFINE s == [sessions[w] EXCEPT !.leased = FALSE]
<1>1. /\ s \in Sessions /\ s.stage = sessions[w].stage
      /\ s.calls = sessions[w].calls /\ s.goal = sessions[w].goal
      /\ s.fresh = sessions[w].fresh
  <2>1. sessions[w] \in Sessions
    BY DEF IInv, TypeInv
  <2> QED
    BY <2>1 DEF Sessions
<1>2. sessions' = [sessions EXCEPT ![w] = s] /\ UNCHANGED <<task, posted, external>>
  BY DEF Lapse
<1> HIDE DEF s
<1>3. sessions'[w] = s /\ Alone(w)
  BY <1>1, <1>2, SetType DEF IInv
<1>4. SessionPlan(w)'
  BY <1>1, <1>2, <1>3, PlanSessionSame DEF PlanInv
<1> QED
  BY <1>2, <1>3, <1>4, PlanWrite, PlanUnchanged DEF Alone

LEMMA PlanReset ==
    ASSUME IInv, PlanInv, NEW w \in Workers, GiveUp(w) \/ Crash(w) \/ Restart(w),
           UNCHANGED terms
    PROVE  PlanInv' /\ Steady
<1>1. PICK s \in {Idle, Down} : sessions' = [sessions EXCEPT ![w] = s]
  BY DEF GiveUp, Crash, Restart
<1>2. UNCHANGED <<task, posted>>
  BY DEF GiveUp, Crash, Restart
<1>3. s \in Sessions /\ s.stage \in {"idle", "down"} /\ s.calls = <<>>
  BY SessionTypes
<1>4. sessions'[w] = s /\ Alone(w)
  BY <1>1, <1>2, <1>3, SetType DEF IInv
<1>5. SessionPlan(w)'
  BY <1>3, <1>4, PlanBlank DEF Paying
<1> QED
  BY <1>2, <1>4, <1>5, PlanWrite, PlanUnchanged DEF Alone

LEMMA PlanSameWrite ==
    ASSUME IInv, PlanInv, NEW w \in Workers, UNCHANGED terms,
           \/ CompleteImport(w) \/ Unresolved(w)
           \/ RepairClose(w) \/ RepairEscalate(w) \/ RepairError(w)
    PROVE  PlanInv' /\ Steady
<1>1. PlanFollows(task)
  BY PlanUnchanged
<1>2. CASE CompleteImport(w) \/ Unresolved(w)
  <2>1. Quiet /\ Complete(w, sessions[w].msg, task)
    BY <1>2 DEF CompleteImport, Unresolved, AskOperator, Quiet, external
  <2> QED
    BY <1>1, <2>1, PlanComplete
<1>3. CASE RepairClose(w) \/ RepairEscalate(w) \/ RepairError(w)
  <2>1. Quiet
    BY <1>3 DEF RepairClose, RepairEscalate, RepairError, Quiet, external
  <2>2. PICK s \in {Idle, Down} : Commit(w, task, s)
    BY <1>3 DEF RepairClose, RepairEscalate, RepairError
  <2>3. s \in Sessions /\ s.stage \in {"idle", "down"} /\ s.calls = <<>>
    BY SessionTypes
  <2>4. sessions'[w] = s
    BY <2>2, <2>3, CommitType DEF IInv
  <2>5. SessionPlan(w)'
    BY <2>3, <2>4, PlanBlank DEF Paying
  <2> QED
    BY <1>1, <2>1, <2>2, <2>3, <2>5, PlanCommit
<1> QED
  BY <1>2, <1>3

LEMMA PlanConfirm ==
    ASSUME IInv, PlanInv, NEW w \in Workers, ConfirmCancel(w), UNCHANGED terms
    PROVE  PlanInv' /\ Steady
<1> DEFINE x == Moved(task, "CANCELED")
           t == [x EXCEPT !.rank = 3]
<1>1. Quiet /\ task \in Tasks
  BY DEF ConfirmCancel, Quiet, external, IInv, TypeInv
<1>2. /\ sessions[w].msg \in Sent \cup {RepairMessage, None}
      /\ remote /\ UserCancels(task)
  <2>1. sessions[w] \in Sessions /\ SessionInv(w)
    BY DEF IInv, TypeInv
  <2> QED
    BY <2>1 DEF ConfirmCancel, MayWrite, SessionInv, Sessions
<1>3. /\ t \in Tasks /\ t.status = "CANCELED" /\ t.epoch = task.epoch
      /\ t.accepted = task.accepted /\ t.settlement = task.settlement
      /\ t.cancelRequested = task.cancelRequested
      /\ task.status \in {"QUEUED", "SUBMITTING", "RUNNING", "CANCELED"}
  <2>1. CanMove(task, "CANCELED")
    BY DEF ConfirmCancel
  <2>2. /\ x \in Tasks /\ x.status = "CANCELED" /\ x.epoch = task.epoch
        /\ x.accepted = task.accepted /\ x.settlement = task.settlement
        /\ x.cancelRequested = task.cancelRequested
    BY <1>1, <2>1, MovedFields, MovesFrom
  <2> HIDE DEF x
  <2> QED
    BY <2>1, <2>2, RankedFields, MovesFrom
<1>4. Plan(w, sessions[w].msg, t, "USER_CANCEL_RULE")
  BY <1>2 DEF ConfirmCancel, UserCancels
<1> HIDE DEF t
<1>5. PICK m : m = sessions[w].msg
  OBVIOUS
<1> QED
  BY <1>1, <1>2, <1>3, <1>4, <1>5, PlanCanceledTask DEF UserCancels, CanceledByProvider

\* Where a snapshot is current and no call is left, the plan was carried out.
LEMMA DoneIsWhole ==
    ASSUME IInv, PlanInv, NEW w \in Workers, sessions[w].stage = "calls",
           sessions[w].calls = <<>>, sessions[w].fresh
    PROVE  Whole(task) /\ sessions[w].goal = GoalOf(task.disposition)
BY DEF PlanInv, SessionPlan, Paying, Whole

LEMMA PlanConclude ==
    ASSUME IInv, PlanInv, NEW w \in Workers, Conclude(w), UNCHANGED terms
    PROVE  PlanInv' /\ Steady
<1> DEFINE goal == sessions[w].goal
           x == Moved(task, goal)
           points == IF goal = "SETTLED" /\ UserCancels(task)
                     THEN ChargePoints ELSE x.settlement
           t == [x EXCEPT !.settlement = points]
<1>1. Quiet /\ task \in Tasks /\ TaskOK(task)
  BY DEF Conclude, Quiet, external, IInv, TypeInv, TaskInv
<1>2. goal \in {"SETTLED", "REFUNDED"} /\ CanMove(task, goal) /\ Whole(task)
  <2>1. goal \in {"SETTLED", "REFUNDED"}
    BY DEF Conclude, IInv, SessionInv, Paying
  <2> QED
    BY <2>1, DoneIsWhole DEF Conclude, MayWrite
<1>3. Complete(w, sessions[w].msg, t)
  BY DEF Conclude
<1> HIDE DEF goal
<1>4. /\ x \in Tasks /\ x.status = goal /\ x.settlement = task.settlement
      /\ x.disposition = task.disposition
  BY <1>1, <1>2, MovedFields, MovesFrom
<1> HIDE DEF x
<1>5. task.disposition # "USER_CANCEL_RULE" => points = task.settlement
  BY <1>4 DEF UserCancels
<1> HIDE DEF points
<1>6. t.status = goal /\ t.settlement = points /\ t.disposition = task.disposition
  BY <1>4 DEF Tasks
<1> HIDE DEF t
<1>7. Dues(t) = Dues(task) /\ (Covers(task) => Covers(t))
  BY <1>5, <1>6 DEF Dues, Covers, PlanOf, Affordable
<1>8. HasOutcome(t)
  <2>1. HasOutcome(task)
    BY <1>2 DEF Whole
  <2>2. task.disposition # None
    BY <1>1, <2>1, OwedType, ConstantTypes
  <2> QED
    BY <1>2, <1>6, <2>2 DEF HasOutcome, Closed
<1>9. PlanFollows(t)
  BY <1>2, <1>6, <1>7, <1>8 DEF PlanFollows, Closed, Whole
<1> QED
  BY <1>1, <1>3, <1>9, PlanComplete

LEMMA PlanFailover ==
    ASSUME IInv, PlanInv, NEW w \in Workers, RepairFailover(w), UNCHANGED terms
    PROVE  PlanInv' /\ Steady
<1> DEFINE t == [task EXCEPT !.status = "QUEUED", !.version = @ + 1, !.accepted = FALSE,
                             !.rank = 0, !.known = FALSE, !.identified = FALSE,
                             !.epoch = @ + 1, !.settlement = SubstitutePoints]
<1>1. Quiet /\ task \in Tasks /\ task.status = "SUBMITTING"
  BY DEF RepairFailover, SafeFailover, Quiet, external, IInv, TypeInv
<1>2. Commit(w, t, Idle)
  BY DEF RepairFailover
<1>3. t.status = "QUEUED"
  BY <1>1 DEF Tasks
<1> HIDE DEF t
<1>4. PlanFollows(t)
  BY <1>1, <1>3, OpenTask, PlanNew DEF Closed
<1>5. sessions'[w] = Idle
  BY <1>2, SessionTypes, CommitType DEF IInv
<1>6. SessionPlan(w)'
  BY <1>5, SessionTypes, PlanBlank DEF Paying
<1> QED
  BY <1>1, <1>2, <1>4, <1>6, SessionTypes, PlanCommit

LEMMA PlanScan ==
    ASSUME IInv, PlanInv, NEW w \in Workers, RepairScan(w), UNCHANGED terms
    PROVE  PlanInv' /\ Steady
<1>1. Quiet /\ UNCHANGED <<task, posted>> /\ task \in Tasks /\ TaskOK(task)
  BY DEF RepairScan, Quiet, external, IInv, TypeInv, TaskInv
<1>2. CASE ~HasPlan(task)
  <2> DEFINE s == Working("unplanned", RepairMessage, FALSE, <<>>, None)
  <2>1. s \in Sessions
    <3>1. << >> \in Seq(Commands)
      OBVIOUS
    <3> QED
      BY <3>1, SessionTypes DEF Stages
  <2>2. s.stage = "unplanned" /\ s.calls = <<>>
    BY DEF Working
  <2>3. sessions' = [sessions EXCEPT ![w] = s]
    BY <1>2 DEF RepairScan
  <2> HIDE DEF s
  <2>4. sessions'[w] = s /\ Alone(w)
    BY <1>1, <2>1, <2>3, SetType DEF IInv
  <2>5. SessionPlan(w)'
    BY <2>2, <2>4, PlanBlank DEF Paying
  <2> QED
    BY <1>1, <2>4, <2>5, PlanOwn
<1>3. CASE HasPlan(task)
  <2> DEFINE d == task.disposition
             calls == PlanOf(d, task.settlement)
             expect == IF Inspectable(task)
                       THEN [epoch |-> task.epoch, state |-> Expected(task)] ELSE None
             z == Working("planned", RepairMessage, FALSE, calls, GoalOf(d))
             s == [z EXCEPT !.expect = expect]
  <2>1. HasOutcome(task) /\ Covers(task)
    BY <1>3 DEF HasPlan, HasOutcome, Covers
  <2>2. calls \in Seq(Commands)
    BY <1>1, <2>1, OwedType, PlanType
  <2>3. expect \in Expectations \cup {None}
    <3>1. Expected(task) \in {"succeeded", "failed", "canceled", None}
      BY DEF Expected
    <3> QED
      BY <1>1, <3>1 DEF Expectations, Tasks
  <2>4. sessions' = [sessions EXCEPT ![w] = s]
    BY <1>3 DEF RepairScan
  <2> HIDE DEF calls, expect
  <2>5. /\ z \in Sessions /\ z.stage = "planned" /\ z.calls = calls /\ z.goal = GoalOf(d)
    <3>1. z \in Sessions
      BY <2>2, GoalType, SessionTypes DEF Stages
    <3> QED
      BY <3>1 DEF Working
  <2> HIDE DEF z
  <2>6. /\ s \in Sessions /\ s.calls = calls /\ s.goal = GoalOf(d)
    BY <2>3, <2>5 DEF Sessions
  <2> HIDE DEF s
  <2>7. sessions'[w] = s /\ Alone(w)
    BY <1>1, <2>4, <2>6, SetType DEF IInv
  <2>8. SessionPlan(w)'
    <3>1. PICK t \in Tasks : t = task
      BY <1>1
    <3>2. TaskOK(t) /\ HasOutcome(t) /\ Covers(t)
      BY <1>1, <2>1, <3>1
    <3>3. /\ sessions'[w].calls = PlanOf(t.disposition, t.settlement)
          /\ sessions'[w].goal = GoalOf(t.disposition)
      BY <2>6, <2>7, <3>1 DEF calls
    <3> QED
      BY <1>1, <3>1, <3>2, <3>3, PlanBegins DEF Quiet
  <2> QED
    BY <1>1, <2>7, <2>8, PlanOwn
<1> QED
  BY <1>2, <1>3

LEMMA PlanReplay ==
    ASSUME IInv, PlanInv, NEW w \in Workers, RepairReplay(w), UNCHANGED terms
    PROVE  PlanInv' /\ Steady
<1>0. PICK m : sessions' = [sessions EXCEPT ![w].stage = "replay", ![w].msg = m]
  BY DEF RepairReplay
<1> DEFINE s == [sessions[w] EXCEPT !.stage = "replay", !.msg = m]
<1>1. UNCHANGED <<task, posted>> /\ sessions' = [sessions EXCEPT ![w] = s]
  BY <1>0 DEF RepairReplay
<1>2. sessions[w] \in Sessions /\ sessions[w].stage = "unplanned" /\ sessions[w].calls = <<>>
  BY DEF RepairReplay, IInv, TypeInv, SessionInv, Paying
<1>3. s.stage = "replay" /\ s.calls = <<>>
  BY <1>2 DEF Sessions
<1> HIDE DEF s
<1>4. sessions'[w] = s /\ \A v \in Workers \ {w} : sessions'[v] = sessions[v]
  BY <1>1 DEF IInv, TypeInv
<1>5. SessionPlan(w)'
  BY <1>3, <1>4, PlanBlank DEF Paying
<1> QED
  BY <1>1, <1>4, <1>5, PlanWrite, PlanUnchanged

\* The steps of the provider, the asset service and the user.
LEMMA PlanOutside ==
    ASSUME IInv, PlanInv, UNCHANGED <<task, posted, sessions, terms>>
    PROVE  PlanInv' /\ Steady
BY PlanWrite, PlanUnchanged

\* A call that reaches the wallet is due, and is posted at most once.
LEMMA DeliverPosts ==
    ASSUME IInv, PlanInv, NEW w \in Workers, Deliver(w), UNCHANGED terms
    PROVE  \E c \in Commands :
               /\ sessions[w].calls # <<>> /\ c = Head(sessions[w].calls)
               /\ Owes(task, c) /\ Covers(task) /\ c.points > 0
               /\ posted[c.key] \in {None, c}
               /\ posted' = [posted EXCEPT ![c.key] = c]
<1>1. SessionInv(w) /\ TypeInv /\ SessionPlan(w) /\ PostedPlan
  BY DEF IInv, PlanInv
<1> DEFINE c == Head(sessions[w].calls)
<1>2. /\ sessions[w].stage = "sent" /\ sessions[w].calls # <<>>
      /\ sessions[w].calls \in Seq(Commands)
      /\ c \in Commands /\ posted' = [posted EXCEPT ![c.key] = c] /\ WalletAccepts(c)
  BY <1>1, DeliverType
<1>3. Owes(task, c) /\ Covers(task)
  BY <1>1, <1>2, CallsType DEF SessionPlan, Paying
<1> HIDE DEF c
<1>4. posted[c.key] \in {None, c} /\ c.points > 0
  <2>1. CASE posted[c.key] = c
    <3>1. c # None /\ c.key \in WalletKeys
      BY <1>2, ConstantTypes DEF Commands
    <3> QED
      BY <1>1, <2>1, <3>1 DEF PostedPlan
  <2>2. CASE posted[c.key] = None /\ c.points > 0
    BY <2>2
  <2> QED
    BY <1>2, <2>1, <2>2 DEF WalletAccepts
<1> QED
  BY <1>2, <1>3, <1>4 DEF c

LEMMA PlanDeliver ==
    ASSUME IInv, PlanInv, NEW w \in Workers, Deliver(w), UNCHANGED terms
    PROVE  PlanInv'
<1>1. SessionInv(w) /\ TypeInv /\ SessionPlan(w) /\ PostedPlan
  BY DEF IInv, PlanInv
<1>2. PICK c \in Commands :
          /\ sessions[w].calls # <<>> /\ c = Head(sessions[w].calls)
          /\ Owes(task, c) /\ Covers(task) /\ c.points > 0
          /\ posted[c.key] \in {None, c}
          /\ posted' = [posted EXCEPT ![c.key] = c]
  BY DeliverPosts
<1>3. /\ UNCHANGED task /\ sessions[w].stage = "sent"
      /\ sessions[w].calls \in Seq(Commands)
      /\ sessions'[w].stage = "calls" /\ sessions'[w].calls = Tail(sessions[w].calls)
      /\ sessions'[w].goal = sessions[w].goal /\ sessions'[w].fresh = sessions[w].fresh
      /\ \A v \in Workers \ {w} : sessions'[v] = sessions[v]
  BY <1>1, DeliverType
<1>4. c # None /\ c.key \in WalletKeys /\ None \notin Commands
  BY ConstantTypes DEF Commands
<1>5. \A k \in WalletKeys : posted'[k] = IF k = c.key THEN c ELSE posted[k]
  BY <1>2 DEF IInv, TypeInv
<1>6. \A k \in WalletKeys : posted[k] # None => posted'[k] = posted[k]
  BY <1>2, <1>5
<1>7. /\ Dues(task)' = Dues(task) /\ Covers(task)' = Covers(task)
      /\ HasOutcome(task)' = HasOutcome(task) /\ Closed(task)' = Closed(task)
  BY <1>3, PlanSame
<1>8. GoalOf(task.disposition)' = GoalOf(task.disposition)
  BY <1>3 DEF GoalOf, ChargePoints
<1>9. HasOutcome(task) => Dues(task) \subseteq Commands
  BY OwedType DEF IInv, TypeInv, TaskInv
<1>10. PostedPlan'
  BY <1>1, <1>2, <1>5, <1>7 DEF PostedPlan, Owes
<1>11. SessionPlan(w)'
  <2>1. \A i \in DOMAIN sessions'[w].calls : Owes(task, sessions'[w].calls[i])
    BY <1>1, <1>2, <1>3, CallsType DEF SessionPlan
  <2>2. ASSUME sessions[w].fresh, NEW x \in Dues(task)
        PROVE  \/ posted'[x.key] = x
               \/ \E i \in DOMAIN sessions'[w].calls : sessions'[w].calls[i] = x
    <3>1. x \in Commands /\ x.key \in WalletKeys
      BY <1>2, <1>9, <2>2 DEF Owes, Commands
    <3>2. CASE posted[x.key] = x
      BY <1>4, <1>6, <3>1, <3>2
    <3>3. ASSUME NEW i \in DOMAIN sessions[w].calls, sessions[w].calls[i] = x
          PROVE  \/ posted'[x.key] = x
                 \/ \E j \in DOMAIN sessions'[w].calls : sessions'[w].calls[j] = x
      <4>1. CASE i = 1
        BY <1>2, <1>3, <1>5, <3>1, <3>3, <4>1, CallsType
      <4>2. CASE i # 1
        <5>1. i - 1 \in DOMAIN Tail(sessions[w].calls)
              /\ Tail(sessions[w].calls)[i - 1] = sessions[w].calls[i]
          BY <1>2, <1>3, <4>2
        <5> QED
          BY <1>3, <3>3, <5>1
      <4> QED
        BY <4>1, <4>2
    <3>4. \/ posted[x.key] = x
          \/ \E i \in DOMAIN sessions[w].calls : sessions[w].calls[i] = x
      BY <1>1, <1>3, <2>2 DEF SessionPlan, Paying
    <3> QED
      BY <3>2, <3>3, <3>4
  <2>3. /\ HasOutcome(task)
        /\ sessions[w].fresh => sessions[w].goal = GoalOf(task.disposition)
    BY <1>1, <1>2, <1>3 DEF SessionPlan, Paying, Owes
  <2> QED
    BY <1>2, <1>3, <1>7, <1>8, <2>1, <2>2, <2>3 DEF SessionPlan, Owes, Paying
<1>12. \A v \in Workers : SessionPlan(v)'
  <2>1. PlanFollows(task)
    BY PlanUnchanged
  <2>2. \A v \in Workers : SessionPlan(v)
    BY DEF PlanInv
  <2> QED
    BY <1>1, <1>3, <1>6, <1>11, <2>1, <2>2, PlanSessionStays
<1>13. Closed(task)' => Whole(task)'
  <2>1. \A x \in Commands : posted[x.key] = x => posted'[x.key] = x
    BY <1>4, <1>6 DEF Commands
  <2> QED
    BY <1>7, <1>9, <2>1 DEF PlanInv, Whole
<1> QED
  BY <1>3, <1>10, <1>12, <1>13 DEF PlanInv

-----------------------------------------------------------------------------
(* The amounts.                                                            *)

\* p of the points are charged, and the others released under k.
Splits(plan, p, k) ==
    /\ p \in 0..Quote /\ k \in WalletKeys \ {"settle"}
    /\ \A i \in DOMAIN plan :
           \/ plan[i].key = "settle" /\ plan[i].kind = "SETTLE" /\ plan[i].points = p
           \/ plan[i].key = k /\ plan[i].kind = "RELEASE" /\ plan[i].points = Quote - p
    /\ p > 0 => \E i \in DOMAIN plan : plan[i].key = "settle"
    /\ p < Quote => \E i \in DOMAIN plan : plan[i].key = k

LEMMA ReleaseSplits ==
    ASSUME NEW k \in WalletKeys \ {"settle"}, NEW r
    PROVE  Splits(<<Release(k, Quote, r)>>, 0, k)
<1> DEFINE c == Release(k, Quote, r)
<1>1. c.key = k /\ c.kind = "RELEASE" /\ c.points = Quote
  BY DEF Release
<1>2. Quote \in Nat \ {0} /\ 0 \in 0..Quote /\ Quote - 0 = Quote
  BY ConstantTypes
<1> HIDE DEF c
<1>3. DOMAIN <<c>> = {1} /\ <<c>>[1] = c
  OBVIOUS
<1>4. Splits(<<c>>, 0, k)
  BY <1>1, <1>2, <1>3 DEF Splits
<1> QED
  BY <1>4 DEF c

LEMMA SettleSplits ==
    ASSUME NEW p \in 0..Quote, NEW r \in {"PROVIDER_CANCEL_CONFIRMED", "GENERATION_SUCCEEDED"}
    PROVE  Splits(SettleAndRelease(p, r), p, "quote-difference-release")
<1> DEFINE c == [key |-> "settle", kind |-> "SETTLE", points |-> p, reason |-> r]
           d == Release("quote-difference-release", Quote - p, "QUOTE_DIFFERENCE")
           k == "quote-difference-release"
<1>0. Quote \in Nat /\ p \in Nat /\ k \in WalletKeys \ {"settle"}
  BY ConstantTypes DEF WalletKeys
<1>1. c.key = "settle" /\ c.kind = "SETTLE" /\ c.points = p
  OBVIOUS
<1>2. c \in Commands
  BY <1>0 DEF Commands, WalletKeys
<1>3. CASE p < Quote
  <2>1. d.key = k /\ d.kind = "RELEASE" /\ d.points = Quote - p /\ d \in Commands
    <3>1. Quote - p \in Nat
      BY <1>0, <1>3
    <3>2. d \in Commands
      BY <1>0, <3>1, ReleaseType
    <3> QED
      BY <3>2 DEF Release
  <2> HIDE DEF c, d
  <2>2. SettleAndRelease(p, r) = <<c, d>>
    <3>1. SettleAndRelease(p, r) = <<c>> \o <<d>>
      BY <1>3 DEF SettleAndRelease, c, d
    <3> QED
      BY <1>2, <2>1, <3>1, Pair
  <2>3. /\ DOMAIN <<c, d>> = {1, 2} /\ <<c, d>>[1] = c /\ <<c, d>>[2] = d
    OBVIOUS
  <2>4. Splits(<<c, d>>, p, k)
    BY <1>0, <1>1, <2>1, <2>3 DEF Splits
  <2> QED
    BY <2>2, <2>4
<1>4. CASE ~(p < Quote)
  <2> HIDE DEF c
  <2>1. SettleAndRelease(p, r) = <<c>>
    <3>1. SettleAndRelease(p, r) = <<c>> \o << >>
      BY <1>4 DEF SettleAndRelease, c
    <3> QED
      BY <3>1
  <2>2. DOMAIN <<c>> = {1} /\ <<c>>[1] = c
    OBVIOUS
  <2>3. Splits(<<c>>, p, k)
    BY <1>0, <1>1, <1>4, <2>2 DEF Splits
  <2> QED
    BY <2>1, <2>3
<1> QED
  BY <1>3, <1>4

\* Every plan that can be afforded accounts for the whole quote.
LEMMA PlanSplits ==
    ASSUME NEW d \in Dispositions, NEW s \in Nat, Affordable(d, s),
           d = "USER_CANCEL_RULE" => ChargePoints \in Nat
    PROVE  \E p, k : Splits(PlanOf(d, s), p, k)
<1>0. Quote \in Nat
  BY ConstantTypes
<1>1. CASE d = "PRE_ACCEPTANCE_FULL_RELEASE"
  BY <1>1, ReleaseSplits DEF PlanOf, WalletKeys
<1>2. CASE d = "PROVIDER_FAILED_FULL_RELEASE"
  BY <1>2, ReleaseSplits DEF PlanOf, WalletKeys
<1>3. CASE d = "PROVIDER_CANCELED_FULL_RELEASE"
  BY <1>3, ReleaseSplits DEF PlanOf, WalletKeys
<1>4. CASE d = "USER_CANCEL_RULE" /\ ChargePoints = 0
  BY <1>4, ReleaseSplits DEF PlanOf, WalletKeys
<1>5. CASE d = "USER_CANCEL_RULE" /\ ChargePoints # 0
  <2>1. ChargePoints \in 0..Quote
    BY <1>0, <1>5 DEF Affordable
  <2>2. PlanOf(d, s) = SettleAndRelease(ChargePoints, "PROVIDER_CANCEL_CONFIRMED")
    BY <1>5 DEF PlanOf
  <2> QED
    BY <2>1, <2>2, SettleSplits
<1>6. CASE d = "SUCCESS_SETTLEMENT"
  <2>1. s \in 0..Quote
    BY <1>0, <1>6 DEF Affordable
  <2>2. PlanOf(d, s) = SettleAndRelease(s, "GENERATION_SUCCEEDED")
    BY <1>6 DEF PlanOf
  <2> QED
    BY <2>1, <2>2, SettleSplits
<1> QED
  BY <1>1, <1>2, <1>3, <1>4, <1>5, <1>6 DEF Dispositions

\* What was posted is part of such a split.
Accounts(p, k) ==
    /\ p \in 0..Quote /\ k \in WalletKeys \ {"settle"}
    /\ \A x \in WalletKeys : posted[x] # None =>
           \/ x = "settle" /\ posted[x].kind = "SETTLE" /\ posted[x].points = p
           \/ x = k /\ posted[x].kind = "RELEASE" /\ posted[x].points = Quote - p

LEMMA AccountsPoints ==
    ASSUME NEW p, NEW k, Accounts(p, k)
    PROVE  /\ PostedPoints("SETTLE") = IF posted["settle"] # None THEN p ELSE 0
           /\ PostedPoints("RELEASE") = IF posted[k] # None THEN Quote - p ELSE 0
<1>1. Quote \in Nat /\ p \in Nat /\ Quote - p \in Nat
  BY ConstantTypes DEF Accounts
<1> QED
  BY <1>1 DEF Accounts, PostedPoints, PointsUnder, WalletKeys

LEMMA AccountsPointsNext ==
    ASSUME NEW p, NEW k, Accounts(p, k)'
    PROVE  /\ PostedPoints("SETTLE")' = IF posted'["settle"] # None THEN p ELSE 0
           /\ PostedPoints("RELEASE")' = IF posted'[k] # None THEN Quote - p ELSE 0
<1>1. Quote \in Nat /\ p \in Nat /\ Quote - p \in Nat
  BY ConstantTypes DEF Accounts
<1> QED
  BY <1>1 DEF Accounts, PostedPoints, PointsUnder, WalletKeys

\* The split of the task's plan.
LEMMA OutcomeAccounts ==
    ASSUME IInv, PlanInv, HasOutcome(task), Covers(task)
    PROVE  \E p, k : /\ Splits(PlanOf(task.disposition, task.settlement), p, k)
                     /\ Accounts(p, k)
<1>1. /\ task.disposition \in Dispositions /\ task.settlement \in Nat
      /\ task.disposition = "USER_CANCEL_RULE" => ChargePoints \in Nat
  BY OwedType DEF IInv, TypeInv, TaskInv
<1> DEFINE plan == PlanOf(task.disposition, task.settlement)
<1>2. PICK p, k : Splits(plan, p, k)
  BY <1>1, PlanSplits DEF Covers
<1>3. ASSUME NEW x \in WalletKeys, posted[x] # None
      PROVE  posted[x].key = x /\ \E i \in DOMAIN plan : plan[i] = posted[x]
  BY <1>3 DEF PlanInv, PostedPlan, Owes, Dues
<1> HIDE DEF plan
<1>4. Accounts(p, k)
  BY <1>2, <1>3 DEF Accounts, Splits
<1> QED
  BY <1>2, <1>4 DEF plan

\* A closed task has spent its reservation.
Spent == Closed(task) => PostedPoints("SETTLE") + PostedPoints("RELEASE") = Quote

LEMMA SpentHolds == IInv /\ PlanInv => Spent
<1> SUFFICES ASSUME IInv, PlanInv, Closed(task)
             PROVE  PostedPoints("SETTLE") + PostedPoints("RELEASE") = Quote
  BY DEF Spent
<1>1. HasOutcome(task) /\ Covers(task) /\ \A c \in Dues(task) : posted[c.key] = c
  BY DEF PlanInv, Whole
<1> DEFINE plan == PlanOf(task.disposition, task.settlement)
<1>2. PICK p, k : Splits(plan, p, k) /\ Accounts(p, k)
  BY <1>1, OutcomeAccounts
<1>3. \A i \in DOMAIN plan : posted[plan[i].key] # None
  <2>1. Dues(task) \subseteq Commands
    BY <1>1, OwedType DEF IInv, TypeInv, TaskInv
  <2> QED
    BY <1>1, <2>1, ConstantTypes DEF Dues
<1> HIDE DEF plan
<1>4. /\ p > 0 => posted["settle"] # None
      /\ p < Quote => posted[k] # None
  BY <1>2, <1>3 DEF Splits
<1>5. Quote \in Nat /\ p \in 0..Quote
  BY <1>2, ConstantTypes DEF Splits
<1>6. /\ PostedPoints("SETTLE") = IF posted["settle"] # None THEN p ELSE 0
      /\ PostedPoints("RELEASE") = IF posted[k] # None THEN Quote - p ELSE 0
  BY <1>2, AccountsPoints
<1> QED
  BY <1>4, <1>5, <1>6

LEMMA PointsType ==
    ASSUME TypeInv
    PROVE  PostedPoints("SETTLE") \in Nat /\ PostedPoints("RELEASE") \in Nat
<1>1. \A k \in WalletKeys : \A kind : PointsUnder(k, kind) \in Nat
  BY DEF TypeInv, PointsUnder, Commands
<1> QED
  BY <1>1 DEF PostedPoints, WalletKeys

-----------------------------------------------------------------------------
(* The plan holds, and the reservation is an exclusive hold.               *)

LEMMA PlanInit == Init => PlanInv
<1> SUFFICES ASSUME Init PROVE PlanInv
  OBVIOUS
<1>1. \A w \in Workers : SessionPlan(w)
  BY SessionTypes DEF Init, SessionPlan, Paying
<1>2. PostedPlan
  BY DEF Init, PostedPlan
<1>3. task.status = "QUEUED"
  BY DEF Init, NewTask
<1> QED
  BY <1>1, <1>2, <1>3 DEF PlanInv, Closed

LEMMA PlanStep ==
    ASSUME OneSideCancels, IInv, PlanInv, [Next]_<<vars, terms>>
    PROVE  /\ PlanInv'
           /\ Steady \/ (UNCHANGED terms /\ \E w \in Workers : Deliver(w))
<1>1. CASE UNCHANGED <<vars, terms>>
  BY <1>1, PlanOutside DEF vars
<1>2. CASE Act /\ UNCHANGED terms
  <2>1. ASSUME NEW w \in Workers, NEW m \in Messages, Consume(w, m)
        PROVE  PlanInv' /\ Steady
    BY <1>2, <2>1, PlanConsume
  <2>2. ASSUME NEW w \in Workers, Step(w)
        PROVE  PlanInv' /\ (Steady \/ Deliver(w))
    BY <1>2, <2>2, PlanStages, PlanSameWrite, PlanConfirm, PlanConclude, PlanDeliver DEF Step
  <2>3. ASSUME NEW w \in Workers,
               \/ Lapse(w) \/ GiveUp(w) \/ Crash(w) \/ Restart(w) \/ RepairScan(w)
               \/ RepairFailover(w) \/ RepairReplay(w) \/ RepairEscalate(w) \/ RepairError(w)
        PROVE  PlanInv' /\ Steady
    BY <1>2, <2>3, PlanLapse, PlanReset, PlanScan, PlanFailover, PlanReplay, PlanSameWrite
  <2>4. CASE RequestCancel \/ ImportAsset
    BY <1>2, <2>4, PlanOutside DEF RequestCancel, ImportAsset
  <2>5. ASSUME NEW e \in Epochs, Submit(e) \/ Advance(e)
        PROVE  PlanInv' /\ Steady
    <3>1. UNCHANGED <<task, posted, sessions>>
      BY <2>5 DEF Submit, Advance, Report
    <3> QED
      BY <1>2, <3>1, PlanOutside
  <2> QED
    BY <1>2, <2>1, <2>2, <2>3, <2>4, <2>5 DEF Act
<1> QED
  BY <1>1, <1>2 DEF Next

LEMMA PlanHolds ==
    ASSUME OneSideCancels
    PROVE  Spec => []PlanInv
<1>1. IInv /\ PlanInv /\ [Next]_<<vars, terms>> => PlanInv'
  BY PlanStep
<1> QED
  BY <1>1, PlanInit, IInvHolds, PTL DEF Spec

\* Where one of the two sides cannot cancel, the wallet is told what the plan
\* says and what the outcome is worth, whoever takes the task over half way and
\* however often (provider-events.consumer.ts).
THEOREM PostedCorrect ==
    ASSUME OneSideCancels
    PROVE  Spec => []PostedAsDue
<1>1. IInv /\ PlanInv => PostedByPlan
  <2> SUFFICES ASSUME IInv, PlanInv, NEW k \in WalletKeys, posted[k] # None
               PROVE  /\ task.disposition # None
                      /\ LET plan == PlanOf(task.disposition, task.settlement) IN
                         \E i \in DOMAIN plan : plan[i] = posted[k]
    BY DEF PostedByPlan
  <2>1. HasOutcome(task) /\ posted[k] \in Dues(task)
    BY DEF PlanInv, PostedPlan, Owes
  <2>2. task.disposition # None
    BY <2>1, OwedType, ConstantTypes DEF IInv, TypeInv, TaskInv
  <2> QED
    BY <2>1, <2>2 DEF Dues
<1>2. IInv => ChargedForOutcome
  BY DEF IInv, TaskInv, TaskOK, PostedInv, Due, CanceledByProvider, WalletKeys,
         ChargedForOutcome, PaidForAsset, ChargedWhenCanceled
<1>3. IInv /\ PlanInv => PostedAsDue
  BY <1>1, <1>2 DEF PostedAsDue
<1> QED
  BY <1>3, PlanHolds, IInvHolds, PTL

\* A call that is posted is a charge or a return of the hold.
LEMMA DeliverHolds ==
    ASSUME IInv, PlanInv, NEW w \in Workers, Deliver(w), UNCHANGED terms
    PROVE  [Hold!Next]_(Hold!vars)
<1>1. PICK c \in Commands :
          /\ Owes(task, c) /\ Covers(task) /\ c.points > 0
          /\ posted[c.key] \in {None, c}
          /\ posted' = [posted EXCEPT ![c.key] = c]
  BY DeliverPosts
<1>2. UNCHANGED task /\ posted \in [WalletKeys -> Commands \cup {None}] /\ c.key \in WalletKeys
  BY DEF Deliver, IInv, TypeInv, Commands
<1>3. CASE posted[c.key] = c
  <2>1. UNCHANGED <<posted, task>>
    BY <1>1, <1>2, <1>3
  <2> QED
    BY <2>1 DEF Hold!vars, PostedPoints, PointsUnder
<1>4. CASE posted[c.key] = None
  <2> DEFINE plan == PlanOf(task.disposition, task.settlement)
  <2>1. HasOutcome(task) /\ c \in Dues(task) /\ c # None
    BY <1>1, ConstantTypes DEF Owes
  <2>2. ~Closed(task)
    BY <1>4, <2>1 DEF PlanInv, Whole
  <2>3. PICK p, k : Splits(plan, p, k) /\ Accounts(p, k)
    BY <1>1, <2>1, OutcomeAccounts
  <2>4. \/ c.key = "settle" /\ c.kind = "SETTLE" /\ c.points = p
        \/ c.key = k /\ c.kind = "RELEASE" /\ c.points = Quote - p
    <3>1. \E i \in DOMAIN plan : plan[i] = c
      BY <2>1 DEF Dues
    <3> HIDE DEF plan
    <3> QED
      BY <2>3, <3>1 DEF Splits
  <2>5. \A x \in WalletKeys : posted'[x] = IF x = c.key THEN c ELSE posted[x]
    BY <1>1, <1>2
  <2>6. Accounts(p, k)'
    BY <2>3, <2>4, <2>5 DEF Accounts
  <2>7. /\ PostedPoints("SETTLE") = IF posted["settle"] # None THEN p ELSE 0
        /\ PostedPoints("RELEASE") = IF posted[k] # None THEN Quote - p ELSE 0
    BY <2>3, AccountsPoints
  <2>8. /\ PostedPoints("SETTLE")' = IF posted'["settle"] # None THEN p ELSE 0
        /\ PostedPoints("RELEASE")' = IF posted'[k] # None THEN Quote - p ELSE 0
    BY <2>6, AccountsPointsNext
  <2>9. /\ Quote \in Nat /\ p \in 0..Quote /\ "settle" # k
        /\ "settle" \in WalletKeys /\ k \in WalletKeys
    BY <2>3, ConstantTypes DEF Accounts, WalletKeys
  <2> DEFINE held == Quote - PostedPoints("SETTLE") - PostedPoints("RELEASE")
  <2>10. CASE c.key = "settle"
    <3>1. c.points = p /\ p > 0
      BY <1>1, <2>4, <2>9, <2>10
    <3>2. posted["settle"] = None /\ posted'["settle"] = c /\ posted'[k] = posted[k]
      BY <1>4, <2>5, <2>9, <2>10
    <3>3. /\ PostedPoints("SETTLE") = 0 /\ PostedPoints("SETTLE")' = p
          /\ PostedPoints("RELEASE")' = PostedPoints("RELEASE")
          /\ PostedPoints("RELEASE") \in {0, Quote - p}
      BY <2>1, <2>7, <2>8, <3>2
    <3>4. p \in 1..held /\ held' = held - p
      BY <2>9, <3>1, <3>3
    <3>5. Hold!Charge(p)
      BY <1>2, <2>2, <3>3, <3>4 DEF Hold!Charge, Closed
    <3> QED
      BY <3>4, <3>5 DEF Hold!Next
  <2>11. CASE c.key = k
    <3>1. c.points = Quote - p /\ Quote - p > 0
      BY <1>1, <2>4, <2>9, <2>11
    <3>2. posted[k] = None /\ posted'[k] = c /\ posted'["settle"] = posted["settle"]
      BY <1>4, <2>5, <2>9, <2>11
    <3>3. /\ PostedPoints("RELEASE") = 0 /\ PostedPoints("RELEASE")' = Quote - p
          /\ PostedPoints("SETTLE")' = PostedPoints("SETTLE")
          /\ PostedPoints("SETTLE") \in {0, p}
      BY <2>1, <2>7, <2>8, <3>2
    <3>4. Quote - p \in 1..held /\ held' = held - (Quote - p)
      BY <2>9, <3>1, <3>3
    <3>5. Hold!Return(Quote - p)
      BY <1>2, <2>2, <3>3, <3>4 DEF Hold!Return, Closed
    <3> QED
      BY <3>4, <3>5 DEF Hold!Next
  <2> QED
    BY <2>4, <2>10, <2>11
<1> QED
  BY <1>1, <1>3, <1>4

\* Every other step leaves the hold alone, or closes it when it is spent.
LEMMA SteadyHolds ==
    ASSUME TypeInv, Steady, Spent'
    PROVE  [Hold!Next]_(Hold!vars)
<1>1. /\ PostedPoints("SETTLE")' = PostedPoints("SETTLE")
      /\ PostedPoints("RELEASE")' = PostedPoints("RELEASE")
  BY DEF Steady, PostedPoints, PointsUnder
<1>2. CASE Closed(task)' = Closed(task)
  BY <1>1, <1>2 DEF Hold!vars, Closed
<1>3. CASE ~Closed(task) /\ Closed(task)'
  <2>1. PostedPoints("SETTLE") + PostedPoints("RELEASE") = Quote
    BY <1>1, <1>3 DEF Spent
  <2>2. Quote - PostedPoints("SETTLE") - PostedPoints("RELEASE") = 0
    BY <2>1, PointsType, ConstantTypes
  <2>3. Hold!Close
    BY <1>1, <1>3, <2>2 DEF Hold!Close, Closed
  <2> QED
    BY <2>3 DEF Hold!Next
<1> QED
  BY <1>2, <1>3 DEF Steady, Closed

LEMMA HoldInit == Init => Hold!Init
<1> SUFFICES ASSUME Init PROVE Hold!Init
  OBVIOUS
<1>1. PostedPoints("SETTLE") = 0 /\ PostedPoints("RELEASE") = 0
  BY DEF Init, PostedPoints, PointsUnder, WalletKeys
<1>2. task.status = "QUEUED"
  BY DEF Init, NewTask
<1> QED
  BY <1>1, <1>2, ConstantTypes DEF Hold!Init

\* Where one of the two sides cannot cancel, what the saga does with its
\* reservation is what an exclusive hold allows, for any amounts and any number
\* of workers: it is charged at most once, spent in full before the task is
\* closed, and nothing moves after that (generation-provider runbook 10, 12).
THEOREM SagaKeepsHold ==
    ASSUME OneSideCancels
    PROVE  Spec => KeepsHold
<1>1. IInv /\ PlanInv /\ Spent' /\ [Next]_<<vars, terms>> => [Hold!Next]_(Hold!vars)
  <2> SUFFICES ASSUME IInv, PlanInv, Spent', [Next]_<<vars, terms>>
               PROVE  [Hold!Next]_(Hold!vars)
    OBVIOUS
  <2>1. CASE Steady
    BY <2>1, SteadyHolds DEF IInv
  <2>2. CASE UNCHANGED terms /\ \E w \in Workers : Deliver(w)
    BY <2>2, DeliverHolds
  <2> QED
    BY <2>1, <2>2, PlanStep
<1>2. Spec => []Spent
  BY SpentHolds, PlanHolds, IInvHolds, PTL
<1> QED
  BY <1>1, <1>2, HoldInit, PlanHolds, IInvHolds, PTL DEF Spec, KeepsHold, Hold!Spec
PointsAreNumbers == PostedPoints("SETTLE") \in Nat /\ PostedPoints("RELEASE") \in Nat

PointsStay ==
    /\ PostedPoints("SETTLE")' = PostedPoints("SETTLE")
    /\ PostedPoints("RELEASE")' = PostedPoints("RELEASE")

\* A closed hold has no step left.
LEMMA ClosedHoldStays ==
    ASSUME PointsAreNumbers, PointsAreNumbers', [Hold!Next]_(Hold!vars), Closed(task)
    PROVE  PointsStay
<1>1. UNCHANGED Hold!vars
  BY DEF Hold!Next, Hold!Charge, Hold!Return, Hold!Close, Closed
<1>2. /\ PostedPoints("SETTLE")' = PostedPoints("SETTLE")
      /\ Quote - PostedPoints("SETTLE")' - PostedPoints("RELEASE")'
           = Quote - PostedPoints("SETTLE") - PostedPoints("RELEASE")
  BY <1>1 DEF Hold!vars
<1> QED
  BY <1>2, ConstantTypes DEF PointsAreNumbers, PointsStay

\* A task is closed when its whole reservation was charged or returned, and then
\* no worker, redelivery or repair moves a point of it
\* (provider-events.consumer.ts, task-repair.job.ts).
THEOREM ClosedIsFinal ==
    ASSUME OneSideCancels
    PROVE  Spec => []Spent /\ [][Closed(task) => PointsStay]_vars
<1>1. IInv => PointsAreNumbers
  BY PointsType DEF IInv, PointsAreNumbers
<1>2. PointsAreNumbers /\ PointsAreNumbers' /\ [Hold!Next]_(Hold!vars)
          => [Closed(task) => PointsStay]_vars
  BY ClosedHoldStays
<1>3. Spec => []PointsAreNumbers
  BY <1>1, IInvHolds, PTL
<1>4. Spec => [][Hold!Next]_(Hold!vars)
  BY SagaKeepsHold, PTL DEF KeepsHold, Hold!Spec
<1>5. Spec => []Spent
  BY SpentHolds, PlanHolds, IInvHolds, PTL
<1> QED
  BY <1>2, <1>3, <1>4, <1>5, PTL
=============================================================================
