---------------------- MODULE ProviderExecution_proofs ----------------------
(***************************************************************************)
(* Proofs about ProviderExecution, for any number of workers, messages,    *)
(* attempts, polls and provider events.                                    *)
(***************************************************************************)
EXTENDS ProviderExecution, TLAPS

\* The provider answers a create call by what it did with it.
Truthful == "garbled" \notin Faults

Buying(w) == sessions[w].at \in {"begun", "waiting", "answered"}

Polling(w) == sessions[w].at \in {"polling", "polled"}

\* Attempts follow each other, and each but the last was turned away.
CallsInOrder ==
    \A n \in Attempts :
        /\ n > exec.attempt => calls[n] = "none"
        /\ n < exec.attempt => calls[n] = "busy"

\* What a worker with an answer knows of the call it made.
AnswerFits(s) ==
    /\ s.answer \in Observable \cup {"garbled", "busy", "rejected", "network", "timeout",
                                     "circuit open"}
    /\ s.answer \in Observable \cup {"garbled"} => calls[s.number] = "taken"
    /\ s.answer \in Terminal => Remote = s.answer
    /\ s.answer \in {"busy", "rejected"} => calls[s.number] = s.answer
    /\ s.answer = "circuit open" => calls[s.number] = "none"
    /\ s.answer = "garbled" => ~Truthful

\* Only one worker is buying, and the row knows no more than that.
Buyer(w) ==
    /\ sessions[w].number = exec.attempt /\ exec.attempt \in Attempts
    /\ ~exec.known
    /\ exec.status = "SUBMITTING" \/ (exec.status = "AMBIGUOUS" /\ exec.lease = 0)
    /\ sessions[w].at = "begun" => calls[sessions[w].number] = "none"
    /\ sessions[w].at = "answered" => AnswerFits(sessions[w])

Buyers ==
    /\ \A w \in Workers : Buying(w) => Buyer(w)
    /\ \A v, w \in Workers : Buying(v) /\ Buying(w) => v = w

\* What a worker at a poll knows.
Poller(w) ==
    /\ exec.known
    /\ sessions[w].number \in 1..MaxPolls
    /\ sessions[w].at = "polled" =>
           /\ sessions[w].answer \in Observable \cup {"missing", "failed"}
           /\ sessions[w].answer \in Terminal => Remote = sessions[w].answer

\* A claim on a poll is a claim on work that is polled.
PollsFollow ==
    /\ \A w \in Workers : Polling(w) => Poller(w)
    /\ exec.poller # None => exec.action = "POLL"
    /\ exec.action = "POLL" => exec.known /\ exec.status \notin Terminal
    /\ ~exec.known => exec.polls = 0 /\ \A n \in 1..MaxPolls : polls[n] = "unsent"

\* What the status says of attempts and of the provider's task.
RowFits ==
    /\ exec.status # "NONE" => exec.attempt \in Attempts
    /\ exec.status = "NONE" => exec.attempt = 0
    /\ exec.known => Taken /\ exec.status \notin {"NONE", "SUBMITTING", "RETRY_SCHEDULED"}
    /\ exec.status \in {"ACCEPTED", "RUNNING", "SUCCEEDED", "CANCELED"} => exec.known
    /\ exec.status = "RETRY_SCHEDULED" => calls[exec.attempt] = "busy"

\* The provider's task exists before it has a history, and stops at its end.
HistoryFits ==
    /\ history # <<>> => Taken
    /\ \A i \in 1..Len(history) : history[i] \in Terminal => i = Len(history)

IInv ==
    /\ TypeOK /\ CallsInOrder /\ Buyers /\ PollsFollow /\ RowFits /\ HistoryFits
    /\ PollAwaited /\ EndAnnouncedOnce
    /\ Truthful => RecordedIsTrue

-----------------------------------------------------------------------------
LEMMA Bounds ==
  /\ MaxAttempts \in Nat /\ MaxAttempts >= 1
  /\ MaxPolls \in Nat /\ MaxPolls >= 1
  /\ MaxEvents \in Nat /\ MaxEvents >= 1
  BY BoundsAssumption

USE Bounds, MessagesAssumption DEF Attempts

LEMMA InitIInv == Init => IInv
<1> SUFFICES ASSUME Init PROVE IInv
  OBVIOUS
<1>1. TypeOK
  BY DEF Init, TypeOK, Idle, Statuses, MessageStates, AnswerSet, Places, Observable, Terminal, Rows, Sessions
<1>2. CallsInOrder
  BY DEF Init, CallsInOrder
<1>3. Buyers
  BY DEF Init, Buyers, Buying, Idle
<1>4. PollsFollow
  BY DEF Init, PollsFollow, Polling, Idle
<1>5. RowFits /\ HistoryFits
  BY DEF Init, RowFits, HistoryFits
<1>6. PollAwaited /\ EndAnnouncedOnce /\ RecordedIsTrue
  BY DEF Init, PollAwaited, EndAnnouncedOnce, RecordedIsTrue, Terminal
<1> QED
  BY <1>1, <1>2, <1>3, <1>4, <1>5, <1>6 DEF IInv

-----------------------------------------------------------------------------
(* Rows: what the updates of the repositories make of one.                 *)

\* The parts of a row that are kept together.
SameCall(s, r) == s.attempt = r.attempt /\ s.lease = r.lease /\ s.live = r.live

SamePolls(s, r) == s.polls = r.polls /\ s.poller = r.poller /\ s.polling = r.polling

LEMMA SubmittingRow ==
  ASSUME NEW r \in Rows, NEW n \in 0..MaxAttempts
  PROVE  /\ Submitting(r, n) \in Rows
         /\ Submitting(r, n).status = "SUBMITTING" /\ Submitting(r, n).action = "NONE"
         /\ Submitting(r, n).attempt = n /\ Submitting(r, n).lease = n
         /\ Submitting(r, n).known = r.known
         /\ SamePolls(Submitting(r, n), r)
<1> PICK s : s = Submitting(r, n)
  OBVIOUS
<1>1. s \in Rows
  BY DEF Rows, Submitting, Statuses, SamePolls
<1>2. /\ s.status = "SUBMITTING" /\ s.action = "NONE" /\ s.attempt = n /\ s.lease = n
     /\ s.known = r.known /\ SamePolls(s, r)
  BY DEF Rows, Submitting, Statuses, SamePolls
<1> QED
  BY <1>1, <1>2

LEMMA FirstRow ==
  ASSUME NEW r \in Rows, NEW m \in Queued
  PROVE  LET s == [r EXCEPT !.first = m]
         IN  /\ s \in Rows /\ SameCall(s, r) /\ SamePolls(s, r)
             /\ s.status = r.status /\ s.action = r.action /\ s.known = r.known
  BY DEF Rows, SameCall, SamePolls

LEMMA AmbiguousRow ==
  ASSUME NEW r \in Rows
  PROVE  /\ Ambiguous(r) \in Rows
         /\ Ambiguous(r).status = "AMBIGUOUS" /\ Ambiguous(r).action = "RECONCILE"
         /\ Ambiguous(r).attempt = r.attempt /\ Ambiguous(r).lease = 0 /\ ~Ambiguous(r).live
         /\ Ambiguous(r).known = r.known
         /\ SamePolls(Ambiguous(r), r)
<1> PICK s : s = Ambiguous(r)
  OBVIOUS
<1>. 0 \in 0..MaxAttempts
  OBVIOUS
<1>1. s \in Rows
  BY DEF Rows, Ambiguous, Statuses, SamePolls
<1>2. /\ s.status = "AMBIGUOUS" /\ s.action = "RECONCILE" /\ s.attempt = r.attempt
     /\ s.lease = 0 /\ ~s.live /\ s.known = r.known /\ SamePolls(s, r)
  BY DEF Rows, Ambiguous, Statuses, SamePolls
<1> QED
  BY <1>1, <1>2

LEMMA KnownRow ==
  ASSUME NEW r \in Rows, NEW b \in BOOLEAN
  PROVE  LET s == [r EXCEPT !.known = b]
         IN  /\ s \in Rows /\ SameCall(s, r) /\ SamePolls(s, r)
             /\ s.status = r.status /\ s.action = r.action /\ s.known = b
  BY DEF Rows, SamePolls, SameCall

LEMMA PolledRow ==
  ASSUME exec \in Rows, NEW n \in 0..MaxPolls, NEW a \in {"NONE", "POLL"}
  PROVE  /\ Polled(n, a) \in Rows /\ SameCall(Polled(n, a), exec)
         /\ Polled(n, a).status = exec.status /\ Polled(n, a).known = exec.known
         /\ Polled(n, a).action = a /\ Polled(n, a).polls = n
         /\ Polled(n, a).poller = None /\ ~Polled(n, a).polling
<1> PICK s : s = Polled(n, a)
  OBVIOUS
<1>1. s \in Rows
  BY DEF Rows, Polled, SameCall
<1>2. /\ s.status = exec.status /\ s.known = exec.known /\ s.action = a /\ s.polls = n
     /\ s.poller = None /\ ~s.polling /\ SameCall(s, exec)
  BY DEF Rows, Polled, SameCall
<1> QED
  BY <1>1, <1>2

LEMMA StatusRow ==
  ASSUME NEW r \in Rows, NEW t \in Statuses
  PROVE  LET s == [r EXCEPT !.status = t]
         IN  /\ s \in Rows /\ SameCall(s, r) /\ SamePolls(s, r)
             /\ s.status = t /\ s.action = r.action /\ s.known = r.known
  BY DEF Rows, SamePolls, SameCall

-----------------------------------------------------------------------------
(* Steps that leave the row, the polls and the provider as they are.       *)

LEMMA Frame ==
  ASSUME IInv, UNCHANGED <<exec, polls, announced, calls, history>>
  PROVE  (CallsInOrder /\ RowFits /\ HistoryFits /\ PollAwaited /\ EndAnnouncedOnce
             /\ (Truthful => RecordedIsTrue))'
<1>1. CallsInOrder' /\ RowFits' /\ HistoryFits'
  BY DEF IInv, CallsInOrder, RowFits, HistoryFits, Taken
<1>2. PollAwaited' /\ EndAnnouncedOnce'
  BY DEF IInv, PollAwaited, EndAnnouncedOnce
<1>3. (Truthful => RecordedIsTrue)'
  BY DEF IInv, RecordedIsTrue, Taken, Remote
<1> QED
  BY <1>1, <1>2, <1>3

\* Workers that forget what they were doing do no harm.
LEMMA Forgetting ==
  ASSUME IInv, TypeOK', UNCHANGED <<exec, polls, announced, calls, history>>,
         \A w \in Workers : sessions'[w] = sessions[w] \/ sessions'[w] = Idle
  PROVE  IInv'
<1>1. Buyers'
  <2>1. \A w \in Workers : Buying(w)' => Buying(w) /\ sessions'[w] = sessions[w]
    BY DEF Buying, Idle
  <2>2. \A w \in Workers : Buying(w)' => Buyer(w)'
    <3> TAKE w \in Workers
    <3> HAVE Buying(w)'
    <3>1. Buyer(w) /\ sessions'[w] = sessions[w]
      BY <2>1 DEF IInv, Buyers
    <3>2. AnswerFits(sessions[w]) => AnswerFits(sessions[w])'
      BY <3>1 DEF AnswerFits, Remote
    <3> QED
      BY <3>1, <3>2 DEF Buyer
  <2> QED
    BY <2>1, <2>2 DEF IInv, Buyers
<1>2. PollsFollow'
  <2>1. \A w \in Workers : Polling(w)' => Polling(w) /\ sessions'[w] = sessions[w]
    BY DEF Polling, Idle
  <2>2. \A w \in Workers : Polling(w)' => Poller(w)'
    BY <2>1 DEF IInv, PollsFollow, Poller, Remote
  <2> QED
    BY <2>2 DEF IInv, PollsFollow
<1> QED
  BY <1>1, <1>2, Frame DEF IInv

LEMMA SessionsKept ==
  ASSUME TypeOK, NEW w \in Workers, NEW s \in Sessions, Goes(w, s)
  PROVE  /\ sessions' \in [Workers -> Sessions]
         /\ sessions'[w] = s
         /\ \A v \in Workers \ {w} : sessions'[v] = sessions[v]
  BY DEF TypeOK, Goes

LEMMA IdleIsSession == Idle \in Sessions
  BY DEF Idle, Sessions, Places

LEMMA ForgettingSteps ==
  ASSUME IInv,
         \/ \E m \in Queued : RejectBinding(m) \/ DuplicateQueued(m)
         \/ \E w \in Workers : LoseAttempt(w) \/ LosePoll(w) \/ Drop(w)
         \/ LateLost
  PROVE  IInv'
<1>1. CASE \E m \in Queued : RejectBinding(m) \/ DuplicateQueued(m)
  <2> PICK m \in Queued : RejectBinding(m) \/ DuplicateQueued(m)
    BY <1>1
  <2>1. /\ queued' = Done(queued, m)
        /\ UNCHANGED <<exec, retries, polls, received, announced, sessions, late, provider>>
    BY DEF RejectBinding, DuplicateQueued
  <2>2. TypeOK'
    BY <2>1 DEF IInv, TypeOK, Done, MessageStates, provider
  <2> QED
    BY <2>1, <2>2, Forgetting DEF provider
<1>2. CASE \E w \in Workers : LoseAttempt(w) \/ LosePoll(w) \/ Drop(w)
  <2> PICK w \in Workers : LoseAttempt(w) \/ LosePoll(w) \/ Drop(w)
    BY <1>2
  <2>1. /\ Goes(w, Idle)
        /\ UNCHANGED <<exec, messages, received, announced, late, provider>>
    BY DEF LoseAttempt, LosePoll, Drop
  <2>2. /\ sessions' \in [Workers -> Sessions]
        /\ sessions'[w] = Idle
        /\ \A v \in Workers \ {w} : sessions'[v] = sessions[v]
    BY <2>1, SessionsKept, IdleIsSession DEF IInv
  <2>3. TypeOK'
    BY <2>1, <2>2 DEF IInv, TypeOK, messages, provider
  <2> QED
    BY <2>1, <2>2, <2>3, Forgetting DEF messages, provider
<1>3. CASE LateLost
  <2>1. TypeOK'
    BY <1>3 DEF IInv, TypeOK, LateLost, messages, provider
  <2> QED
    BY <1>3, <2>1, Forgetting DEF LateLost, messages, provider
<1> QED
  BY <1>1, <1>2, <1>3

-----------------------------------------------------------------------------
(* Submission.                                                             *)

\* Nobody is at a poll, and no poll is claimed, before the task is known.
LEMMA NoPollsYet ==
  ASSUME IInv, ~exec.known
  PROVE  /\ \A v \in Workers : ~Polling(v)
         /\ exec.poller = None /\ exec.action # "POLL" /\ exec.polls = 0
         /\ \A n \in 1..MaxPolls : polls[n] = "unsent"
  BY DEF IInv, PollsFollow, Poller

LEMMA SubmittingIsUnknown ==
  ASSUME IInv, exec.status \in {"NONE", "SUBMITTING", "RETRY_SCHEDULED"}
  PROVE  ~exec.known
  BY DEF IInv, RowFits

\* A worker starts attempt n.
LEMMA Starting ==
  ASSUME NEW w \in Workers, NEW n \in Attempts, NEW s \in Sessions, NEW r \in Rows,
         IInv, exec.status \in {"NONE", "RETRY_SCHEDULED"}, sessions[w] = Idle,
         exec' = r, r.status = "SUBMITTING", r.attempt = n, r.lease = n, r.action = "NONE",
         r.known = exec.known, SamePolls(r, exec),
         \A k \in Attempts : (k >= n => calls[k] = "none") /\ (k < n => calls[k] = "busy"),
         Goes(w, s), s.at = "begun", s.number = n,
         UNCHANGED <<messages, received, announced, late, provider>>
  PROVE  IInv'
<1>1. ~exec.known /\ \A v \in Workers : ~Buying(v)
  BY SubmittingIsUnknown DEF IInv, Buyers, Buyer
<1>2. /\ sessions' \in [Workers -> Sessions]
      /\ sessions'[w] = s
      /\ \A v \in Workers \ {w} : sessions'[v] = sessions[v]
  BY SessionsKept DEF IInv
<1>3. TypeOK'
  <2>1. exec'.polling => exec'.poller # None
    BY DEF IInv, TypeOK, SamePolls
  <2> QED
    BY <1>2, <2>1 DEF IInv, TypeOK, messages, provider
<1>4. CallsInOrder'
  BY DEF CallsInOrder, provider
<1>5. Buyers'
  <2>1. \A v \in Workers : Buying(v)' => v = w
    BY <1>1, <1>2 DEF Buying
  <2>2. Buyer(w)'
    BY <1>1, <1>2 DEF Buyer, provider
  <2> QED
    BY <2>1, <2>2 DEF Buyers
<1>6. PollsFollow'
  <2>1. \A v \in Workers : ~Polling(v)'
    BY <1>1, <1>2, NoPollsYet DEF Polling
  <2> QED
    BY <1>1, <2>1, NoPollsYet DEF PollsFollow, SamePolls, messages
<1>7. RowFits' /\ HistoryFits'
  BY <1>1 DEF IInv, RowFits, HistoryFits, provider, Taken
<1>8. PollAwaited' /\ EndAnnouncedOnce' /\ RecordedIsTrue'
  BY DEF IInv, PollAwaited, EndAnnouncedOnce, RecordedIsTrue, Terminal
<1> QED
  BY <1>3, <1>4, <1>5, <1>6, <1>7, <1>8 DEF IInv

LEMMA BeginStep ==
  ASSUME NEW w \in Workers, NEW m \in Queued, IInv, Begin(w, m)
  PROVE  IInv'
<1> PICK old \in Rows : old = exec
  BY DEF IInv, TypeOK
<1> PICK r : r = [Submitting(old, 1) EXCEPT !.first = m]
  OBVIOUS
<1> PICK s : s = [Idle EXCEPT !.at = "begun", !.number = 1, !.msg = m]
  OBVIOUS
<1>1. s \in Sessions /\ s.at = "begun" /\ s.number = 1
  BY DEF Idle, Sessions, Places
<1>2. 1 \in 0..MaxAttempts /\ 1 \in Attempts
  OBVIOUS
<1>3. Submitting(old, 1) \in Rows
  BY <1>2, SubmittingRow
<1>4. /\ r \in Rows /\ r.status = "SUBMITTING" /\ r.attempt = 1 /\ r.lease = 1
      /\ r.action = "NONE" /\ r.known = old.known /\ SamePolls(r, old)
  <2> PICK t \in Rows : t = Submitting(old, 1)
    BY <1>3
  <2>1. /\ t.status = "SUBMITTING" /\ t.action = "NONE" /\ t.attempt = 1 /\ t.lease = 1
        /\ t.known = old.known /\ SamePolls(t, old)
    BY <1>2, SubmittingRow
  <2>2. /\ r \in Rows /\ SameCall(r, t) /\ SamePolls(r, t)
        /\ r.status = t.status /\ r.action = t.action /\ r.known = t.known
    <3>1. r = [t EXCEPT !.first = m]
      OBVIOUS
    <3> QED
      BY <3>1, FirstRow
  <2> QED
    BY <2>1, <2>2 DEF SameCall, SamePolls
<1>5. \A k \in Attempts : (k >= 1 => calls[k] = "none") /\ (k < 1 => calls[k] = "busy")
  BY DEF Begin, IInv, CallsInOrder, RowFits
<1> QED
  BY <1>1, <1>2, <1>4, <1>5, Starting DEF Begin

LEMMA ClaimRetryStep ==
  ASSUME NEW w \in Workers, NEW n \in DOMAIN retries, IInv, ClaimRetry(w, n)
  PROVE  IInv'
<1>0. n \in 1..(MaxAttempts - 1)
  BY DEF IInv, TypeOK
<1> PICK k \in Attempts : k = n + 1
  BY <1>0
<1> PICK old \in Rows : old = exec
  BY DEF IInv, TypeOK
<1> PICK r : r = Submitting(old, k)
  OBVIOUS
<1> PICK s : s = [Idle EXCEPT !.at = "begun", !.number = k]
  OBVIOUS
<1>1. s \in Sessions /\ s.at = "begun" /\ s.number = k
  <2>1. k \in Nat
    OBVIOUS
  <2> QED
    BY <2>1 DEF Idle, Sessions, Places
<1>2. /\ r \in Rows /\ r.status = "SUBMITTING" /\ r.attempt = k /\ r.lease = k
      /\ r.action = "NONE" /\ r.known = old.known /\ SamePolls(r, old)
  <2>1. k \in 0..MaxAttempts
    OBVIOUS
  <2> QED
    BY <2>1, SubmittingRow
<1>3. \A j \in Attempts : (j >= k => calls[j] = "none") /\ (j < k => calls[j] = "busy")
  BY <1>0 DEF ClaimRetry, IInv, CallsInOrder, RowFits
<1> QED
  BY <1>1, <1>2, <1>3, Starting DEF ClaimRetry

\* A submission whose worker is gone becomes ambiguous.
LEMMA Recovering ==
  ASSUME IInv, exec.status = "SUBMITTING", exec' = Ambiguous(exec),
         queued' \in [Queued -> MessageStates],
         retries' \in [1..(MaxAttempts - 1) -> MessageStates],
         announced' = announced \cup {"AMBIGUOUS"},
         UNCHANGED <<polls, received, sessions, late, provider>>
  PROVE  IInv'
<1> PICK old \in Rows : old = exec
  BY DEF IInv, TypeOK
<1> PICK r \in Rows : r = Ambiguous(old)
  BY AmbiguousRow
<1>1. /\ r.status = "AMBIGUOUS" /\ r.action = "RECONCILE" /\ r.attempt = old.attempt
      /\ r.lease = 0 /\ ~r.live /\ r.known = old.known /\ SamePolls(r, old)
  BY AmbiguousRow
<1>2. ~exec.known
  BY SubmittingIsUnknown
<1>3. TypeOK'
  <2>1. exec'.polling => exec'.poller # None
    BY <1>1 DEF IInv, TypeOK, SamePolls
  <2> QED
    BY <1>1, <2>1 DEF IInv, TypeOK, Statuses, provider
<1>4. CallsInOrder' /\ HistoryFits'
  BY <1>1 DEF IInv, CallsInOrder, HistoryFits, Taken, provider
<1>5. Buyers'
  <2>1. \A w \in Workers : Buying(w) => Buyer(w)'
    BY <1>1 DEF IInv, Buyers, Buyer, AnswerFits, Remote, provider
  <2> QED
    BY <2>1 DEF IInv, Buyers, Buying
<1>6. PollsFollow'
  BY <1>1, <1>2, NoPollsYet DEF PollsFollow, Polling, SamePolls
<1>7. RowFits'
  BY <1>1, <1>2 DEF IInv, RowFits
<1>8. PollAwaited' /\ EndAnnouncedOnce' /\ RecordedIsTrue'
  BY <1>1 DEF IInv, PollAwaited, EndAnnouncedOnce, RecordedIsTrue, Terminal
<1> QED
  BY <1>3, <1>4, <1>5, <1>6, <1>7, <1>8 DEF IInv

LEMMA RecoverySteps ==
  ASSUME IInv,
         \/ \E m \in Queued : RecoverQueued(m)
         \/ \E n \in DOMAIN retries : RecoverRetry(n)
  PROVE  IInv'
<1>1. CASE \E m \in Queued : RecoverQueued(m)
  <2> PICK m \in Queued : RecoverQueued(m)
    BY <1>1
  <2>1. queued' \in [Queued -> MessageStates]
    BY DEF RecoverQueued, IInv, TypeOK, Done, MessageStates
  <2> QED
    BY <2>1, Recovering DEF RecoverQueued, IInv, TypeOK
<1>2. CASE \E n \in DOMAIN retries : RecoverRetry(n)
  <2> PICK n \in DOMAIN retries : RecoverRetry(n)
    BY <1>2
  <2>1. retries' \in [1..(MaxAttempts - 1) -> MessageStates]
    BY DEF RecoverRetry, IInv, TypeOK, Done, MessageStates
  <2> QED
    BY <2>1, Recovering DEF RecoverRetry, IInv, TypeOK
<1> QED
  BY <1>1, <1>2

-----------------------------------------------------------------------------
(* The call of the provider and its result.                                *)

\* The worker that buys has the attempt for itself.
LEMMA TheBuyer ==
  ASSUME NEW w \in Workers, IInv, Buying(w)
  PROVE  /\ Buyer(w) /\ ~exec.known /\ exec.attempt \in Attempts
         /\ exec.status \in {"SUBMITTING", "AMBIGUOUS"}
         /\ \A v \in Workers \ {w} : ~Buying(v)
         /\ \A v \in Workers : ~Polling(v)
<1>1. Buyer(w) /\ \A v \in Workers \ {w} : ~Buying(v)
  BY DEF IInv, Buyers
<1> QED
  BY <1>1, NoPollsYet DEF Buyer

LEMMA CreateTaskStep ==
  ASSUME NEW w \in Workers, IInv, CreateTask(w)
  PROVE  IInv'
<1> PICK n : n = sessions[w].number
  OBVIOUS
<1> PICK s : s = [sessions[w] EXCEPT !.at = "waiting"]
  OBVIOUS
<1>1. /\ Buyer(w) /\ ~exec.known /\ exec.status \in {"SUBMITTING", "AMBIGUOUS"}
      /\ \A v \in Workers \ {w} : ~Buying(v)
      /\ \A v \in Workers : ~Polling(v)
  BY TheBuyer DEF CreateTask, At, Buying
<1>2. n = exec.attempt /\ n \in Attempts /\ calls[n] = "none"
  BY <1>1 DEF Buyer, CreateTask, At
<1>3. s \in Sessions /\ s.at = "waiting" /\ s.number = n
  BY DEF IInv, TypeOK, Sessions, Places
<1>4. /\ sessions' \in [Workers -> Sessions]
      /\ sessions'[w] = s
      /\ \A v \in Workers \ {w} : sessions'[v] = sessions[v]
  BY <1>3, SessionsKept DEF IInv, CreateTask
<1>5. /\ calls' \in [Attempts -> {"none", "sent", "taken", "busy", "rejected"}]
      /\ calls'[n] = "sent"
      /\ \A k \in Attempts \ {n} : calls'[k] = calls[k]
  BY <1>2 DEF IInv, TypeOK, CreateTask
<1>6. TypeOK'
  BY <1>4, <1>5 DEF IInv, TypeOK, CreateTask, messages
<1>7. CallsInOrder'
  BY <1>2, <1>5 DEF IInv, CallsInOrder, CreateTask
<1>8. Buyers'
  <2>1. \A v \in Workers : Buying(v)' => v = w
    BY <1>1, <1>4 DEF Buying
  <2>2. Buyer(w)'
    BY <1>1, <1>3, <1>4 DEF Buyer, CreateTask
  <2> QED
    BY <2>1, <2>2 DEF Buyers
<1>9. PollsFollow'
  <2>1. \A v \in Workers : ~Polling(v)'
    BY <1>1, <1>3, <1>4 DEF Polling
  <2> QED
    BY <2>1 DEF IInv, PollsFollow, CreateTask, messages
<1>10. RowFits' /\ HistoryFits'
  <2>1. Taken => Taken'
    BY <1>2, <1>5 DEF Taken
  <2> QED
    BY <1>1, <2>1 DEF IInv, RowFits, HistoryFits, CreateTask
<1>11. PollAwaited' /\ EndAnnouncedOnce' /\ RecordedIsTrue'
  BY <1>1 DEF IInv, PollAwaited, EndAnnouncedOnce, RecordedIsTrue, Terminal, CreateTask, messages
<1> QED
  BY <1>6, <1>7, <1>8, <1>9, <1>10, <1>11 DEF IInv

\* The buyer gets an answer that fits what became of its call.
LEMMA Answering ==
  ASSUME NEW w \in Workers, NEW answer \in AnswerSet, IInv, At(w, "begun") \/ At(w, "waiting"),
         Answered(w, answer),
         UNCHANGED <<exec, messages, received, announced, late, provider>>,
         \A s \in Sessions : s.number = sessions[w].number /\ s.answer = answer => AnswerFits(s)
  PROVE  IInv'
<1> PICK s : s = [sessions[w] EXCEPT !.at = "answered", !.answer = answer]
  OBVIOUS
<1>1. /\ Buyer(w) /\ \A v \in Workers \ {w} : ~Buying(v)
      /\ \A v \in Workers : ~Polling(v)
  BY TheBuyer DEF At, Buying
<1>2. s \in Sessions /\ s.at = "answered" /\ s.number = sessions[w].number /\ s.answer = answer
  BY DEF IInv, TypeOK, Sessions, Places
<1>3. /\ sessions' \in [Workers -> Sessions]
      /\ sessions'[w] = s
      /\ \A v \in Workers \ {w} : sessions'[v] = sessions[v]
  BY <1>2, SessionsKept DEF IInv, Answered
<1>4. TypeOK'
  BY <1>3 DEF IInv, TypeOK, messages, provider
<1>5. Buyers'
  <2>1. \A v \in Workers : Buying(v)' => v = w
    BY <1>1, <1>3 DEF Buying
  <2>2. AnswerFits(s) /\ AnswerFits(s)'
    BY <1>2 DEF AnswerFits, Remote, provider
  <2>3. Buyer(w)'
    BY <1>1, <1>2, <1>3, <2>2 DEF Buyer
  <2> QED
    BY <2>1, <2>3 DEF Buyers
<1>6. PollsFollow'
  <2>1. \A v \in Workers : ~Polling(v)'
    BY <1>1, <1>2, <1>3 DEF Polling
  <2> QED
    BY <2>1 DEF IInv, PollsFollow, messages
<1> QED
  BY <1>4, <1>5, <1>6, Frame DEF IInv, messages, provider

LEMMA AnswerSteps ==
  ASSUME NEW w \in Workers, IInv, CircuitRejects(w) \/ GetAnswer(w) \/ LoseAnswer(w)
  PROVE  IInv'
<1>1. CASE CircuitRejects(w)
  <2>1. calls[sessions[w].number] = "none"
    BY <1>1, TheBuyer DEF CircuitRejects, At, Buying, Buyer
  <2>2. "circuit open" \in AnswerSet
    BY DEF AnswerSet
  <2>3. \A s \in Sessions :
           s.number = sessions[w].number /\ s.answer = "circuit open" => AnswerFits(s)
    BY <2>1 DEF AnswerFits, Observable, Terminal
  <2> QED
    BY <1>1, <2>2, <2>3, Answering DEF CircuitRejects
<1>2. CASE GetAnswer(w)
  <2> PICK answer \in Answers(sessions[w].number) : Answered(w, answer)
    BY <1>2 DEF GetAnswer
  <2>1. Remote \in Observable
    BY DEF IInv, TypeOK, Remote, Observable, Terminal
  <2>2. \/ /\ calls[sessions[w].number] = "taken"
           /\ answer = Remote \/ (answer = "garbled" /\ ~Truthful)
        \/ answer \in {"busy", "rejected"} /\ calls[sessions[w].number] = answer
    BY DEF Answers, Truthful
  <2>3. answer \in AnswerSet
    BY <2>1, <2>2 DEF AnswerSet
  <2>4. \A s \in Sessions : s.number = sessions[w].number /\ s.answer = answer => AnswerFits(s)
    BY <2>1, <2>2 DEF AnswerFits, Observable, Terminal
  <2> QED
    BY <1>2, <2>3, <2>4, Answering DEF GetAnswer
<1>3. CASE LoseAnswer(w)
  <2> PICK answer \in {"network", "timeout"} : Answered(w, answer)
    BY <1>3 DEF LoseAnswer
  <2>1. answer \in AnswerSet
    BY DEF AnswerSet
  <2>2. \A s \in Sessions : s.number = sessions[w].number /\ s.answer = answer => AnswerFits(s)
    BY DEF AnswerFits, Observable, Terminal
  <2> QED
    BY <1>3, <2>1, <2>2, Answering DEF LoseAnswer
<1> QED
  BY <1>1, <1>2, <1>3

\* The buyer has its answer written and turns to something else.
LEMMA BuyerDone ==
  ASSUME NEW w \in Workers, IInv, At(w, "answered"), Goes(w, Idle)
  PROVE  /\ sessions' \in [Workers -> Sessions]
         /\ Buyer(w) /\ AnswerFits(sessions[w]) /\ ~exec.known
         /\ \A v \in Workers : ~Buying(v)' /\ ~Polling(v)'
<1>1. /\ Buyer(w) /\ ~exec.known
      /\ \A v \in Workers \ {w} : ~Buying(v)
      /\ \A v \in Workers : ~Polling(v)
  BY TheBuyer DEF At, Buying
<1>2. /\ sessions' \in [Workers -> Sessions]
      /\ sessions'[w] = Idle
      /\ \A v \in Workers \ {w} : sessions'[v] = sessions[v]
  BY SessionsKept, IdleIsSession DEF IInv
<1>3. \A v \in Workers : ~Buying(v)' /\ ~Polling(v)'
  BY <1>1, <1>2 DEF Buying, Polling, Idle
<1> QED
  BY <1>1, <1>2, <1>3 DEF Buyer, At

LEMMA Acknowledged ==
  ASSUME TypeOK, NEW n, NEW m, NEW status, Acknowledge(n, m, status)
  PROVE  /\ queued' \in [Queued -> MessageStates]
         /\ retries' \in [1..(MaxAttempts - 1) -> MessageStates]
<1>1. queued' \in [Queued -> MessageStates]
  BY DEF TypeOK, Acknowledge, Done, MessageStates
<1>2. retries' \in [1..(MaxAttempts - 1) -> MessageStates]
  BY DEF TypeOK, Acknowledge, MessageStates
<1> QED
  BY <1>1, <1>2

\* What the answers come to.
LEMMA VerdictFits ==
  ASSUME NEW n \in Attempts, NEW answer \in AnswerSet \ {"missing", "failed"}
  PROVE  /\ Verdict(answer, n) \in {"ACCEPTED", "RUNNING", "FAILED", "CANCELED", "AMBIGUOUS",
                                     "RETRY_SCHEDULED"}
         /\ Verdict(answer, n) \in {"ACCEPTED", "RUNNING", "CANCELED"} => answer \in Observable
         /\ Verdict(answer, n) = "RETRY_SCHEDULED" => answer = "busy"
         /\ Verdict(answer, n) = "AMBIGUOUS" => answer \in {"network", "timeout"}
         /\ Verdict(answer, n) \in {"FAILED", "CANCELED"} /\ answer \in Observable
               => answer = Verdict(answer, n)
         /\ Verdict(answer, n) = "FAILED" /\ answer \notin Observable
               => answer \in {"busy", "rejected", "garbled", "circuit open"}
  BY DEF Verdict, Observable, Terminal, AnswerSet

\* The row with the result of a call.
Completed(old, status, action, known, lease) ==
    [old EXCEPT !.status = status, !.action = action, !.known = known, !.lease = lease,
                !.live = FALSE]

LEMMA CompleteStep ==
  ASSUME NEW w \in Workers, IInv, Complete(w)
  PROVE  IInv'
<1> PICK n : n = sessions[w].number
  OBVIOUS
<1> PICK m : m = sessions[w].msg
  OBVIOUS
<1> PICK answer : answer = sessions[w].answer
  OBVIOUS
<1> PICK status : status = Verdict(answer, n)
  OBVIOUS
<1> PICK old \in Rows : old = exec
  BY DEF IInv, TypeOK
<1> PICK known \in BOOLEAN : known <=> answer \in Observable
  OBVIOUS
<1> PICK lease : lease = IF status = "AMBIGUOUS" THEN n ELSE 0
  OBVIOUS
<1> PICK r : r = Completed(old, status, ActionFor(status), known, lease)
  OBVIOUS
<1>1. /\ sessions' \in [Workers -> Sessions]
      /\ Buyer(w) /\ AnswerFits(sessions[w]) /\ ~exec.known
      /\ \A v \in Workers : ~Buying(v)' /\ ~Polling(v)'
  BY BuyerDone DEF Complete
<1>2. n = exec.attempt /\ n \in Attempts /\ n \in 0..MaxAttempts
  BY <1>1 DEF Buyer
<1>3. answer \in AnswerSet \ {"missing", "failed"}
  BY <1>1 DEF AnswerFits, AnswerSet, Observable, Terminal
<1>4. /\ status \in {"ACCEPTED", "RUNNING", "FAILED", "CANCELED", "AMBIGUOUS", "RETRY_SCHEDULED"}
      /\ status \in {"ACCEPTED", "RUNNING", "CANCELED"} => answer \in Observable
      /\ status = "RETRY_SCHEDULED" => answer = "busy"
      /\ status = "AMBIGUOUS" => answer \in {"network", "timeout"}
      /\ status \in {"FAILED", "CANCELED"} /\ answer \in Observable => answer = status
      /\ status = "FAILED" /\ answer \notin Observable
            => answer \in {"busy", "rejected", "garbled", "circuit open"}
  BY <1>2, <1>3, VerdictFits
<1>5. /\ ActionFor(status) \in {"NONE", "CREATE_RETRY", "RECONCILE", "POLL"}
      /\ ActionFor(status) = "POLL" <=> status \in {"ACCEPTED", "RUNNING"}
  BY <1>4 DEF ActionFor
<1>6. /\ Holds(n, m) /\ Acknowledge(n, m, status)
      /\ polls' = IF ActionFor(status) = "POLL" THEN [polls EXCEPT ![1] = "sent"] ELSE polls
      /\ announced' = announced \cup {status}
      /\ late' \in {late, n}
      /\ UNCHANGED <<received, calls, history>>
  BY DEF Complete, provider
<1>7. exec' = r
  <2>1. exec' = [exec EXCEPT !.status = status, !.action = ActionFor(status),
                             !.known = answer \in Observable, !.lease = lease, !.live = FALSE]
    BY DEF Complete
  <2> QED
    BY <2>1 DEF Completed
<1>8. /\ r \in Rows /\ r.status = status /\ r.action = ActionFor(status) /\ r.known = known
      /\ r.attempt = n /\ r.lease = lease /\ ~r.live /\ SamePolls(r, old)
  <2>1. status \in Statuses
    BY <1>4 DEF Statuses, Observable, Terminal
  <2>2. lease \in 0..MaxAttempts
    <3>1. 0 \in 0..MaxAttempts
      OBVIOUS
    <3> QED
      BY <1>2, <3>1
  <2> PICK action \in {"NONE", "CREATE_RETRY", "RECONCILE", "POLL"} : action = ActionFor(status)
    BY <1>5
  <2>3. /\ r \in Rows /\ r.status = status /\ r.action = action /\ r.known = known
        /\ r.attempt = old.attempt /\ r.lease = lease /\ ~r.live /\ SamePolls(r, old)
    <3>1. r = Completed(old, status, action, known, lease)
      OBVIOUS
    <3>2. r \in Rows
      BY <2>1, <2>2, <3>1 DEF Rows, Completed
    <3>3. /\ r.status = status /\ r.action = action /\ r.known = known
          /\ r.attempt = old.attempt /\ r.lease = lease /\ ~r.live /\ SamePolls(r, old)
      BY <3>1 DEF Rows, SamePolls, Completed
    <3> QED
      BY <3>2, <3>3
  <2> QED
    BY <1>2, <2>3
<1>9. TypeOK'
  <2>1. polls' \in [1..MaxPolls -> MessageStates]
    BY <1>6 DEF IInv, TypeOK, MessageStates
  <2>2. announced' \subseteq Statuses
    BY <1>4, <1>6 DEF IInv, TypeOK, Statuses, Observable, Terminal
  <2>3. exec'.polling => exec'.poller # None
    BY <1>7, <1>8 DEF IInv, TypeOK, SamePolls
  <2>4. /\ queued' \in [Queued -> MessageStates]
        /\ retries' \in [1..(MaxAttempts - 1) -> MessageStates]
    BY <1>6, Acknowledged DEF IInv
  <2> QED
    BY <1>1, <1>2, <1>6, <1>7, <1>8, <2>1, <2>2, <2>3, <2>4 DEF IInv, TypeOK
<1>10. CallsInOrder' /\ Buyers'
  BY <1>1, <1>2, <1>6, <1>7, <1>8 DEF IInv, CallsInOrder, Buyers
<1>11. PollsFollow'
  <2>1. exec.poller = None /\ exec.polls = 0 /\ \A k \in 1..MaxPolls : polls[k] = "unsent"
    BY <1>1, NoPollsYet
  <2>2. r.action = "POLL" => known /\ status \notin Terminal
    BY <1>4, <1>5, <1>8 DEF Terminal
  <2> QED
    BY <1>1, <1>6, <1>7, <1>8, <2>1, <2>2 DEF PollsFollow, SamePolls
<1>12. known => Taken
  BY <1>1, <1>2 DEF AnswerFits, Taken
<1>13. RowFits'
  <2>1. Taken' = Taken
    BY <1>6 DEF Taken
  <2>2. status = "RETRY_SCHEDULED" => calls[n] = "busy"
    BY <1>1, <1>4 DEF AnswerFits
  <2>3. known => status \notin {"NONE", "SUBMITTING", "RETRY_SCHEDULED"}
    BY <1>4 DEF Observable, Terminal
  <2> QED
    BY <1>2, <1>4, <1>6, <1>7, <1>8, <1>12, <2>1, <2>2, <2>3 DEF RowFits
<1>14. HistoryFits' /\ EndAnnouncedOnce'
  <2>1. exec.status = "SUBMITTING"
    BY <1>6 DEF Holds
  <2> QED
    BY <1>6, <1>7, <1>8, <2>1 DEF IInv, HistoryFits, Taken, EndAnnouncedOnce, Terminal
<1>15. PollAwaited'
  <2>1. exec.polls = 0 /\ \A k \in 1..MaxPolls : polls[k] = "unsent"
    BY <1>1, NoPollsYet
  <2>2. DOMAIN polls = 1..MaxPolls /\ DOMAIN polls' = 1..MaxPolls
    BY <1>6 DEF IInv, TypeOK
  <2> QED
    BY <1>6, <1>7, <1>8, <2>1, <2>2 DEF PollAwaited, SamePolls, IInv, TypeOK
<1>16. (Truthful => RecordedIsTrue)'
  <2>1. known /\ status \in Terminal => Taken /\ Remote = status
    BY <1>1, <1>4, <1>12 DEF AnswerFits, Terminal
  <2>2. ~known /\ status \in Terminal /\ Truthful
           => status = "FAILED" /\ calls[n] \notin {"sent", "taken"}
    BY <1>1, <1>4 DEF AnswerFits, Terminal
  <2>3. \A k \in Attempts : k # n => calls[k] \in {"none", "busy"}
    BY <1>2 DEF IInv, CallsInOrder
  <2>4. Taken' = Taken /\ Remote' = Remote /\ calls' = calls /\ Truthful' = Truthful
    BY <1>6 DEF Taken, Remote, Truthful
  <2> QED
    BY <1>7, <1>8, <2>1, <2>2, <2>3, <2>4 DEF RecordedIsTrue
<1> QED
  BY <1>9, <1>10, <1>11, <1>13, <1>14, <1>15, <1>16 DEF IInv

LEMMA CommitAmbiguityStep ==
  ASSUME NEW w \in Workers, IInv, RecordCommitAmbiguity(w)
  PROVE  IInv'
<1> PICK n : n = sessions[w].number
  OBVIOUS
<1> PICK m : m = sessions[w].msg
  OBVIOUS
<1> PICK old \in Rows : old = exec
  BY DEF IInv, TypeOK
<1> PICK lost \in Rows : lost = Ambiguous(old)
  BY AmbiguousRow
<1> PICK r : r = [lost EXCEPT !.known = TRUE]
  OBVIOUS
<1>1. /\ sessions' \in [Workers -> Sessions]
      /\ Buyer(w) /\ AnswerFits(sessions[w]) /\ ~exec.known
      /\ \A v \in Workers : ~Buying(v)' /\ ~Polling(v)'
  BY BuyerDone DEF RecordCommitAmbiguity
<1>2. n = exec.attempt /\ n \in Attempts /\ calls[n] = "taken"
  BY <1>1 DEF Buyer, AnswerFits, RecordCommitAmbiguity
<1>3. /\ exec' = r /\ Holds(n, m) /\ Acknowledge(n, m, "AMBIGUOUS")
      /\ announced' = announced \cup {"AMBIGUOUS"}
      /\ UNCHANGED <<polls, received, late, calls, history>>
  BY DEF RecordCommitAmbiguity, provider
<1>4. /\ lost.status = "AMBIGUOUS" /\ lost.action = "RECONCILE" /\ lost.attempt = n
      /\ lost.lease = 0 /\ ~lost.live /\ SamePolls(lost, old)
  BY <1>2, AmbiguousRow
<1>5. /\ r \in Rows /\ SameCall(r, lost) /\ SamePolls(r, lost)
      /\ r.status = lost.status /\ r.action = lost.action /\ r.known
  BY KnownRow
<1>6. /\ r.status = "AMBIGUOUS" /\ r.action = "RECONCILE" /\ r.attempt = n /\ r.lease = 0
      /\ ~r.live /\ SamePolls(r, old)
  BY <1>4, <1>5 DEF SameCall, SamePolls
<1>7. TypeOK'
  <2>1. exec'.polling => exec'.poller # None
    BY <1>3, <1>6 DEF IInv, TypeOK, SamePolls
  <2>2. /\ queued' \in [Queued -> MessageStates]
        /\ retries' \in [1..(MaxAttempts - 1) -> MessageStates]
    BY <1>3, Acknowledged DEF IInv
  <2> QED
    BY <1>1, <1>3, <1>5, <1>6, <2>1, <2>2 DEF IInv, TypeOK, Statuses
<1>8. CallsInOrder' /\ Buyers'
  BY <1>1, <1>2, <1>3, <1>6 DEF IInv, CallsInOrder, Buyers
<1>9. PollsFollow'
  <2>1. exec.poller = None
    BY <1>1, NoPollsYet
  <2> QED
    BY <1>1, <1>3, <1>5, <1>6, <2>1 DEF PollsFollow, SamePolls
<1>10. RowFits' /\ HistoryFits'
  BY <1>2, <1>3, <1>6 DEF IInv, RowFits, HistoryFits, Taken
<1>11. PollAwaited' /\ EndAnnouncedOnce' /\ RecordedIsTrue'
  <2>1. exec.status = "SUBMITTING"
    BY <1>3 DEF Holds
  <2> QED
    BY <1>3, <1>6, <2>1 DEF IInv, PollAwaited, EndAnnouncedOnce, RecordedIsTrue, Terminal
<1> QED
  BY <1>7, <1>8, <1>9, <1>10, <1>11 DEF IInv

LEMMA LateFacts ==
  ASSUME LateResult
  PROVE  /\ late # 0 /\ late' = 0
         /\ UNCHANGED exec
              \/ (exec.status = "AMBIGUOUS" /\ exec.action = "RECONCILE" /\ exec.lease = late)
         /\ UNCHANGED <<queued, retries, polls, received, announced, sessions, calls, history>>
<1>1. /\ late # 0 /\ late' = 0
      /\ UNCHANGED exec
           \/ (exec.status = "AMBIGUOUS" /\ exec.action = "RECONCILE" /\ exec.lease = late)
  BY Zenon DEF LateResult
<1>2. UNCHANGED <<messages, received, announced, sessions, provider>>
  BY Zenon DEF LateResult
<1> QED
  BY <1>1, <1>2 DEF messages, provider

\* The late result of an attempt that is ambiguous is only learnt.
LEMMA LateResultStep ==
  ASSUME IInv, LateResult
  PROVE  IInv'
<1>1. CASE UNCHANGED exec
  <2>1. TypeOK'
    <3>1. /\ UNCHANGED <<exec, queued, retries, polls, received, announced, sessions, calls, history>>
          /\ late' = 0 /\ 0 \in 0..MaxAttempts
      BY <1>1, LateFacts
    <3> QED
      BY <3>1 DEF IInv, TypeOK
  <2> QED
    BY <1>1, <2>1, Forgetting DEF LateResult, messages, provider
<1>2. CASE ~UNCHANGED exec
  <2> PICK old \in Rows : old = exec
    BY DEF IInv, TypeOK
  <2> PICK answer \in Answers(late) :
         exec' = [exec EXCEPT !.known = exec.known \/ answer \in Observable, !.lease = 0]
    BY <1>2, Zenon DEF LateResult
  <2> PICK known \in BOOLEAN : known <=> old.known \/ answer \in Observable
    OBVIOUS
  <2> PICK r : r = [old EXCEPT !.known = known, !.lease = 0]
    OBVIOUS
  <2>1. /\ late # 0 /\ late' = 0 /\ late \in Attempts
        /\ old.status = "AMBIGUOUS" /\ old.action = "RECONCILE" /\ old.lease = late
        /\ UNCHANGED <<queued, retries, polls, received, announced, sessions, calls, history>>
    <3>1. late \in 0..MaxAttempts
      BY DEF IInv, TypeOK
    <3> QED
      BY <1>2, <3>1, LateFacts
  <2>2. exec' = r
    OBVIOUS
  <2>3. /\ r \in Rows /\ r.status = old.status /\ r.action = old.action /\ r.known = known
        /\ r.attempt = old.attempt /\ r.lease = 0 /\ r.live = old.live /\ SamePolls(r, old)
    <3>1. 0 \in 0..MaxAttempts
      OBVIOUS
    <3> QED
      BY <3>1 DEF Rows, SamePolls
  <2>4. known => Taken
    <3>1. answer \in Observable => calls[late] = "taken"
      BY DEF Answers, Observable, Terminal
    <3> QED
      BY <2>1, <3>1 DEF IInv, RowFits, Taken
  <2>5. \A w \in Workers : ~Buying(w)
    BY <2>1 DEF IInv, Buyers, Buyer
  <2>6. TypeOK'
    BY <2>1, <2>2, <2>3 DEF IInv, TypeOK, SamePolls
  <2>7. CallsInOrder' /\ HistoryFits'
    BY <2>1, <2>2, <2>3 DEF IInv, CallsInOrder, HistoryFits, Taken
  <2>8. Buyers'
    BY <2>1, <2>5 DEF Buyers, Buying
  <2>9. PollsFollow'
    <3>1. \A w \in Workers : Polling(w)' => Poller(w)'
      BY <2>1, <2>2, <2>3 DEF IInv, PollsFollow, Polling, Poller, Remote
    <3> QED
      BY <2>1, <2>2, <2>3, <3>1 DEF IInv, PollsFollow, SamePolls
  <2>10. RowFits'
    BY <2>1, <2>2, <2>3, <2>4 DEF IInv, RowFits, Taken
  <2>11. PollAwaited' /\ EndAnnouncedOnce' /\ RecordedIsTrue'
    BY <2>1, <2>2, <2>3 DEF IInv, PollAwaited, EndAnnouncedOnce, RecordedIsTrue, Terminal
  <2> QED
    BY <2>6, <2>7, <2>8, <2>9, <2>10, <2>11 DEF IInv
<1> QED
  BY <1>1, <1>2

-----------------------------------------------------------------------------
(* Polling.                                                                *)

\* Once the task is known nobody buys it.
LEMMA NoBuyers ==
  ASSUME IInv, exec.known
  PROVE  /\ \A v \in Workers : ~Buying(v)
         /\ Taken /\ exec.attempt \in Attempts /\ ~exec.live
         /\ exec.status \in {"AMBIGUOUS"} \cup Observable
<1>1. \A v \in Workers : ~Buying(v)
  BY DEF IInv, Buyers, Buyer
<1>2. Taken /\ exec.status \notin {"NONE", "SUBMITTING", "RETRY_SCHEDULED"}
  BY DEF IInv, RowFits
<1>3. exec.status \in Statuses
  BY DEF IInv, TypeOK, Rows
<1> QED
  BY <1>1, <1>2, <1>3 DEF IInv, TypeOK, RowFits, Statuses

LEMMA ClaimPollStep ==
  ASSUME NEW w \in Workers, NEW n \in 1..MaxPolls, IInv, ClaimPoll(w, n)
  PROVE  IInv'
<1> PICK old \in Rows : old = exec
  BY DEF IInv, TypeOK
<1> PICK r : r = [old EXCEPT !.poller = w, !.polling = TRUE]
  OBVIOUS
<1> PICK s : s = [Idle EXCEPT !.at = "polling", !.number = n]
  OBVIOUS
<1>1. /\ r \in Rows /\ SameCall(r, old) /\ r.status = old.status /\ r.action = old.action
      /\ r.known = old.known /\ r.polls = old.polls /\ r.poller = w
  BY DEF Rows, SameCall
<1>2. s \in Sessions /\ s.at = "polling" /\ s.number = n
  <2>1. n \in Nat
    OBVIOUS
  <2> QED
    BY <2>1, IdleIsSession DEF Idle, Sessions, Places
<1>3. /\ exec' = r /\ Goes(w, s) /\ exec.action = "POLL"
      /\ UNCHANGED <<queued, retries, polls, received, announced, late, calls, history>>
  BY DEF ClaimPoll, messages, provider
<1>4. exec.known /\ exec.status \notin Terminal
  BY <1>3 DEF IInv, PollsFollow
<1>5. /\ sessions' \in [Workers -> Sessions]
      /\ sessions'[w] = s
      /\ \A v \in Workers \ {w} : sessions'[v] = sessions[v]
  BY <1>2, <1>3, SessionsKept DEF IInv
<1>6. TypeOK'
  BY <1>1, <1>3, <1>5 DEF IInv, TypeOK, SameCall
<1>7. CallsInOrder' /\ HistoryFits'
  BY <1>1, <1>3 DEF IInv, CallsInOrder, HistoryFits, Taken, SameCall
<1>8. Buyers'
  BY <1>2, <1>4, <1>5, NoBuyers DEF Buyers, Buying
<1>9. PollsFollow'
  <2>1. Poller(w)'
    BY <1>1, <1>2, <1>3, <1>4, <1>5 DEF Poller
  <2>2. Remote' = Remote
    BY <1>3 DEF Remote
  <2>3. \A v \in Workers \ {w} : Polling(v)' => Poller(v)'
    BY <1>1, <1>3, <1>5, <2>2 DEF IInv, PollsFollow, Polling, Poller
  <2> QED
    BY <1>1, <1>3, <1>4, <2>1, <2>3 DEF PollsFollow
<1>10. RowFits'
  BY <1>1, <1>3 DEF IInv, RowFits, Taken, SameCall
<1>11. PollAwaited' /\ EndAnnouncedOnce' /\ (Truthful => RecordedIsTrue)'
  BY <1>1, <1>3 DEF IInv, PollAwaited, EndAnnouncedOnce, RecordedIsTrue, Taken, Remote
<1> QED
  BY <1>6, <1>7, <1>8, <1>9, <1>10, <1>11 DEF IInv

LEMMA PollTerminalStep ==
  ASSUME NEW n \in 1..MaxPolls, IInv, PollTerminal(n)
  PROVE  IInv'
<1>1. /\ polls' = Done(polls, n) /\ polls[n] = "sent" /\ exec.status \in Terminal
      /\ UNCHANGED <<exec, queued, retries, received, announced, sessions, late, calls, history>>
  BY DEF PollTerminal, provider
<1>2. exec.known /\ exec.action # "POLL"
  BY <1>1 DEF IInv, PollsFollow
<1>3. TypeOK'
  <2>1. polls' \in [1..MaxPolls -> MessageStates]
    BY <1>1 DEF IInv, TypeOK, Done, MessageStates
  <2> QED
    BY <1>1, <2>1 DEF IInv, TypeOK
<1>4. Buyers'
  BY <1>1, <1>2, NoBuyers DEF Buyers, Buying
<1>5. PollsFollow'
  <2>1. \A v \in Workers : Polling(v)' => Poller(v)'
    BY <1>1 DEF IInv, PollsFollow, Polling, Poller, Remote
  <2> QED
    BY <1>1, <1>2, <2>1 DEF IInv, PollsFollow
<1>6. CallsInOrder' /\ HistoryFits' /\ RowFits' /\ PollAwaited'
  BY <1>1, <1>2 DEF IInv, CallsInOrder, HistoryFits, Taken, RowFits, PollAwaited
<1>7. EndAnnouncedOnce' /\ (Truthful => RecordedIsTrue)'
  BY <1>1 DEF IInv, EndAnnouncedOnce, RecordedIsTrue, Taken, Remote
<1> QED
  BY <1>3, <1>4, <1>5, <1>6, <1>7 DEF IInv

LEMMA QueryTaskStep ==
  ASSUME NEW w \in Workers, IInv, QueryTask(w)
  PROVE  IInv'
<1>1. PICK answer \in {Remote} \cup {"missing", "failed"} :
         Goes(w, [sessions[w] EXCEPT !.at = "polled", !.answer = answer])
  BY FaultsAssumption DEF QueryTask
<1> PICK s : s = [sessions[w] EXCEPT !.at = "polled", !.answer = answer]
  OBVIOUS
<1>2. Remote \in Observable
  BY DEF IInv, TypeOK, Remote, Observable, Terminal
<1>3. s \in Sessions /\ s.at = "polled" /\ s.number = sessions[w].number /\ s.answer = answer
  BY <1>2 DEF IInv, TypeOK, Sessions, Places, AnswerSet
<1>4. At(w, "polling") /\ UNCHANGED <<exec, messages, received, announced, late, provider>>
  BY DEF QueryTask
<1>5. /\ sessions' \in [Workers -> Sessions]
      /\ sessions'[w] = s
      /\ \A v \in Workers \ {w} : sessions'[v] = sessions[v]
  BY <1>1, <1>3, SessionsKept DEF IInv
<1>6. TypeOK'
  BY <1>4, <1>5 DEF IInv, TypeOK, messages, provider
<1>7. Poller(w)
  BY <1>4 DEF IInv, PollsFollow, Polling, At
<1>8. Buyers'
  BY <1>3, <1>5, <1>7, NoBuyers DEF Buyers, Buying, Poller
<1>9. PollsFollow'
  <2>1. Remote' = Remote
    BY <1>4 DEF Remote, provider
  <2>2. Poller(w)'
    BY <1>2, <1>3, <1>4, <1>5, <1>7, <2>1 DEF Poller, Terminal
  <2>3. \A v \in Workers \ {w} : Polling(v)' => Poller(v)'
    BY <1>4, <1>5, <2>1 DEF IInv, PollsFollow, Polling, Poller
  <2> QED
    BY <1>4, <2>2, <2>3 DEF IInv, PollsFollow, messages
<1> QED
  BY <1>4, <1>6, <1>8, <1>9, Frame DEF IInv, messages, provider

\* A worker that holds the claim on poll n writes its result.
LEMMA Resulting ==
  ASSUME NEW w \in Workers, NEW n, NEW r \in Rows,
         IInv, At(w, "polled"), HoldsPoll(w), n = sessions[w].number, Goes(w, Idle),
         exec' = r, SameCall(r, exec), r.known = exec.known,
         r.polls = n, r.poller = None, ~r.polling,
         \/ r.action = "POLL" /\ r.status \notin Terminal /\ NextPoll(n)
         \/ r.action = "NONE" /\ polls' = Done(polls, n),
         r.status = exec.status \/ r.status \in {"AMBIGUOUS"} \cup Observable,
         r.status \in Terminal => Remote = r.status,
         announced' = IF r.status = exec.status THEN announced ELSE announced \cup {r.status},
         UNCHANGED <<queued, retries, received, late, calls, history>>
  PROVE  IInv'
<1>1. exec.poller = w /\ exec.status \notin Terminal /\ exec.polls = n - 1
  BY DEF HoldsPoll
<1>2. exec.known /\ exec.action = "POLL" /\ n \in 1..MaxPolls
  <2>1. Poller(w)
    BY DEF IInv, PollsFollow, Polling, At
  <2> QED
    BY <1>1, <2>1 DEF IInv, PollsFollow, Poller
<1>3. /\ \A v \in Workers : ~Buying(v)
      /\ Taken /\ exec.attempt \in Attempts /\ ~exec.live
      /\ exec.status \in {"AMBIGUOUS"} \cup Observable
  BY <1>2, NoBuyers
<1>4. /\ sessions' \in [Workers -> Sessions]
      /\ sessions'[w] = Idle
      /\ \A v \in Workers \ {w} : sessions'[v] = sessions[v]
  BY SessionsKept, IdleIsSession DEF IInv
<1>5. Taken' = Taken /\ Remote' = Remote
  BY DEF Taken, Remote
<1>6. TypeOK'
  <2>1. polls' \in [1..MaxPolls -> MessageStates]
    BY DEF IInv, TypeOK, NextPoll, Done, MessageStates
  <2>2. announced' \subseteq Statuses
    BY DEF IInv, TypeOK, Statuses
  <2> QED
    BY <1>3, <1>4, <2>1, <2>2 DEF IInv, TypeOK, SameCall
<1>7. CallsInOrder' /\ HistoryFits'
  BY <1>5 DEF IInv, CallsInOrder, HistoryFits, SameCall
<1>8. Buyers'
  BY <1>3, <1>4 DEF Buyers, Buying, Idle
<1>9. PollsFollow'
  <2>1. \A v \in Workers : Polling(v)' => Poller(v)'
    BY <1>4, <1>5 DEF IInv, PollsFollow, Polling, Poller, Idle
  <2> QED
    BY <1>2, <2>1 DEF PollsFollow
<1>10. RowFits'
  BY <1>2, <1>3, <1>5 DEF RowFits, SameCall, Observable, Terminal
<1>11. PollAwaited'
  <2>1. \A k \in 1..MaxPolls : polls[k] = "sent" <=> k = n
    <3>1. DOMAIN polls = 1..MaxPolls
      BY DEF IInv, TypeOK
    <3>2. exec.polls + 1 = n
      BY <1>1, <1>2
    <3> QED
      BY <1>2, <3>1, <3>2 DEF IInv, PollAwaited
  <2>2. r.action = "POLL" => \A k \in 1..MaxPolls : polls'[k] = "sent" <=> k = n + 1
    <3> SUFFICES ASSUME r.action = "POLL", NEW k \in 1..MaxPolls
                 PROVE  polls'[k] = "sent" <=> k = n + 1
      OBVIOUS
    <3>1. polls' = [polls EXCEPT ![n] = "done", ![n + 1] = "sent"]
      BY DEF NextPoll
    <3>2. n \in Int /\ k \in Int /\ polls \in [1..MaxPolls -> MessageStates]
      BY <1>2 DEF IInv, TypeOK
    <3>3. CASE k = n + 1
      BY <3>1, <3>2, <3>3
    <3>4. CASE k = n
      BY <3>1, <3>2, <3>4
    <3>5. CASE k # n /\ k # n + 1
      BY <2>1, <3>1, <3>2, <3>5
    <3> QED
      BY <3>3, <3>4, <3>5
  <2>3. DOMAIN polls' = 1..MaxPolls
    BY <1>6 DEF TypeOK
  <2> QED
    BY <2>2, <2>3 DEF PollAwaited
<1>12. EndAnnouncedOnce' /\ RecordedIsTrue'
  BY <1>1, <1>2, <1>3, <1>5 DEF IInv, EndAnnouncedOnce, RecordedIsTrue
<1> QED
  BY <1>6, <1>7, <1>8, <1>9, <1>10, <1>11, <1>12 DEF IInv

LEMMA DeferPollStep ==
  ASSUME NEW w \in Workers, IInv, DeferPoll(w)
  PROVE  IInv'
<1> PICK n : n = sessions[w].number
  OBVIOUS
<1>1. HoldsPoll(w) /\ At(w, "polled") /\ exec' = Polled(n, "POLL") /\ NextPoll(n) /\ Goes(w, Idle)
  BY DEF DeferPoll
<1>2. UNCHANGED <<queued, retries, received, announced, late, calls, history>>
  BY DEF DeferPoll, provider
<1>3. n \in 0..MaxPolls
  BY <1>1 DEF IInv, PollsFollow, Poller, Polling, At
<1> PICK r \in Rows : r = Polled(n, "POLL")
  BY <1>3, PolledRow DEF IInv, TypeOK
<1>4. /\ SameCall(r, exec) /\ r.status = exec.status /\ r.known = exec.known
      /\ r.action = "POLL" /\ r.polls = n /\ r.poller = None /\ ~r.polling
  BY <1>3, PolledRow DEF IInv, TypeOK
<1>5. exec.status \notin Terminal
  BY <1>1 DEF HoldsPoll
<1> QED
  BY <1>1, <1>2, <1>4, <1>5, Resulting

LEMMA CompletePollStep ==
  ASSUME NEW w \in Workers, IInv, CompletePoll(w)
  PROVE  IInv'
<1> PICK n : n = sessions[w].number
  OBVIOUS
<1> PICK state : state = IF sessions[w].answer = "missing" THEN "AMBIGUOUS" ELSE sessions[w].answer
  OBVIOUS
<1> PICK over \in BOOLEAN : over <=> state \in Terminal \cup {"AMBIGUOUS"}
  OBVIOUS
<1> PICK action : action = IF over THEN "NONE" ELSE "POLL"
  OBVIOUS
<1>1. At(w, "polled") /\ sessions[w].answer # "failed" /\ HoldsPoll(w) /\ Goes(w, Idle)
  BY DEF CompletePoll
<1>2. Poller(w) /\ n \in 0..MaxPolls
  BY <1>1 DEF IInv, PollsFollow, Poller, Polling, At
<1>3. /\ state \in {"AMBIGUOUS"} \cup Observable
      /\ state \in Terminal => Remote = state
  BY <1>1, <1>2 DEF Poller, At, Terminal
<1>4. action \in {"NONE", "POLL"}
  OBVIOUS
<1> PICK row \in Rows : row = Polled(n, action)
  BY <1>2, <1>4, PolledRow DEF IInv, TypeOK
<1>5. /\ SameCall(row, exec) /\ row.status = exec.status /\ row.known = exec.known
      /\ row.action = action /\ row.polls = n /\ row.poller = None /\ ~row.polling
  BY <1>2, <1>4, PolledRow DEF IInv, TypeOK
<1>6. /\ \/ /\ exec' = [row EXCEPT !.status = state]
            /\ announced' = IF exec.status = state THEN announced ELSE announced \cup {state}
         \/ exec' = row /\ UNCHANGED announced
      /\ IF over THEN polls' = Done(polls, n) ELSE NextPoll(n)
      /\ UNCHANGED <<queued, retries, received, late, calls, history>>
  BY DEF CompletePoll, provider
<1>7. exec.status \notin Terminal
  BY <1>1 DEF HoldsPoll
<1>8. \/ action = "POLL" /\ state \notin Terminal /\ NextPoll(n)
      \/ action = "NONE" /\ polls' = Done(polls, n)
  BY <1>6
<1>9. CASE exec' = row /\ UNCHANGED announced
  <2>1. \/ row.action = "POLL" /\ row.status \notin Terminal /\ NextPoll(n)
        \/ row.action = "NONE" /\ polls' = Done(polls, n)
    BY <1>5, <1>7, <1>8
  <2> QED
    BY <1>1, <1>5, <1>6, <1>7, <1>9, <2>1, Resulting
<1>10. CASE /\ exec' = [row EXCEPT !.status = state]
            /\ announced' = IF exec.status = state THEN announced ELSE announced \cup {state}
  <2> PICK r : r = [row EXCEPT !.status = state]
    OBVIOUS
  <2>1. state \in Statuses
    BY <1>3 DEF Statuses
  <2>2. /\ r \in Rows /\ SameCall(r, row) /\ SamePolls(r, row)
        /\ r.status = state /\ r.action = row.action /\ r.known = row.known
    BY <2>1, StatusRow
  <2>3. /\ SameCall(r, exec) /\ r.known = exec.known
        /\ r.polls = n /\ r.poller = None /\ ~r.polling /\ r.action = action
    BY <1>5, <2>2 DEF SameCall, SamePolls
  <2>4. \/ r.action = "POLL" /\ r.status \notin Terminal /\ NextPoll(n)
        \/ r.action = "NONE" /\ polls' = Done(polls, n)
    BY <1>8, <2>2, <2>3
  <2>5. exec' = r /\ announced' = IF r.status = exec.status THEN announced ELSE announced \cup {r.status}
    BY <1>10, <2>2
  <2> QED
    <3>1. /\ r.status \in {"AMBIGUOUS"} \cup Observable
          /\ r.status \in Terminal => Remote = r.status
      BY <1>3, <2>2
    <3> QED
      BY <1>1, <1>6, <2>2, <2>3, <2>4, <2>5, <3>1, Resulting
<1> QED
  BY <1>6, <1>9, <1>10

-----------------------------------------------------------------------------
(* Callbacks.                                                              *)

\* The row with an end that a callback reports.
Ended(r) == [r EXCEPT !.action = "NONE", !.poller = None, !.polling = FALSE]

LEMMA EndedRow ==
  ASSUME NEW r \in Rows
  PROVE  /\ Ended(r) \in Rows /\ SameCall(Ended(r), r) /\ Ended(r).polls = r.polls
         /\ Ended(r).status = r.status /\ Ended(r).known = r.known
         /\ Ended(r).action = "NONE" /\ Ended(r).poller = None /\ ~Ended(r).polling
<1> PICK s : s = Ended(r)
  OBVIOUS
<1>1. s \in Rows
  BY DEF Rows, Ended
<1>2. /\ SameCall(s, r) /\ s.polls = r.polls /\ s.status = r.status /\ s.known = r.known
      /\ s.action = "NONE" /\ s.poller = None /\ ~s.polling
  BY DEF Rows, Ended, SameCall
<1> QED
  BY <1>1, <1>2

\* A callback writes its sequence number, and a state if that is applied.
LEMMA Hearing ==
  ASSUME NEW r \in Rows, IInv, exec.known, exec' = r, SameCall(r, exec), r.known = exec.known,
         r.polls = exec.polls,
         \/ /\ r.action = exec.action /\ SamePolls(r, exec)
            /\ \/ r.status = exec.status /\ announced' = announced
               \/ /\ r.status \in {"ACCEPTED", "RUNNING"} /\ exec.status \notin Terminal
                  /\ announced' = announced \cup {r.status}
         \/ /\ r.action = "NONE" /\ r.poller = None /\ ~r.polling
            /\ r.status \in Terminal /\ Remote = r.status /\ exec.status \notin Terminal
            /\ announced' = announced \cup {r.status},
         received' \subseteq 1..MaxEvents,
         UNCHANGED <<messages, sessions, late, provider>>
  PROVE  IInv'
<1>1. /\ \A v \in Workers : ~Buying(v)
      /\ Taken /\ exec.attempt \in Attempts /\ ~exec.live
      /\ exec.status \in {"AMBIGUOUS"} \cup Observable
  BY NoBuyers
<1>2. /\ UNCHANGED <<queued, retries, polls, sessions, late, calls, history>>
      /\ Taken' = Taken /\ Remote' = Remote
  BY DEF messages, provider, Taken, Remote
<1>3. r.status \in {"AMBIGUOUS"} \cup Observable
  BY <1>1 DEF Observable
<1>4. TypeOK'
  <2>1. announced' \subseteq Statuses
    BY <1>3 DEF IInv, TypeOK, Statuses
  <2>2. exec'.polling => exec'.poller # None
    BY DEF IInv, TypeOK, SamePolls
  <2> QED
    BY <1>1, <1>2, <2>1, <2>2 DEF IInv, TypeOK, SameCall
<1>5. CallsInOrder' /\ HistoryFits'
  BY <1>2 DEF IInv, CallsInOrder, HistoryFits, SameCall
<1>6. Buyers'
  BY <1>1, <1>2 DEF Buyers, Buying
<1>7. PollsFollow'
  <2>1. \A v \in Workers : Polling(v)' => Poller(v)'
    BY <1>2 DEF IInv, PollsFollow, Polling, Poller
  <2> QED
    BY <1>2, <2>1 DEF IInv, PollsFollow, SamePolls, Terminal
<1>8. RowFits'
  BY <1>1, <1>2, <1>3 DEF RowFits, SameCall, Observable, Terminal
<1>9. PollAwaited'
  BY <1>2 DEF IInv, PollAwaited, SamePolls
<1>10. EndAnnouncedOnce' /\ (Truthful => RecordedIsTrue)'
  BY <1>1, <1>2 DEF IInv, EndAnnouncedOnce, RecordedIsTrue, Terminal
<1> QED
  BY <1>4, <1>5, <1>6, <1>7, <1>8, <1>9, <1>10 DEF IInv

LEMMA CallbackStep ==
  ASSUME NEW i \in 1..MaxEvents, IInv, Callback(i)
  PROVE  IInv'
<1> PICK old \in Rows : old = exec
  BY DEF IInv, TypeOK
<1> PICK state : state = history[i]
  OBVIOUS
<1> PICK decision : decision = Decision(exec, state, i)
  OBVIOUS
<1> PICK heard : heard = IF decision = "OUT_OF_ORDER" THEN old ELSE [old EXCEPT !.seq = i]
  OBVIOUS
<1> PICK applied : applied = [heard EXCEPT !.status = state]
  OBVIOUS
<1>1. exec.known /\ i \in DOMAIN history /\ received' = received \cup {i}
  BY DEF Callback
<1>2. /\ exec' = IF decision # "APPLY" THEN heard
                 ELSE IF state \in Terminal
                      THEN [applied EXCEPT !.action = "NONE", !.poller = None, !.polling = FALSE]
                      ELSE applied
      /\ announced' = IF decision = "APPLY" THEN announced \cup {state} ELSE announced
  BY DEF Callback
<1>3. received' \subseteq 1..MaxEvents /\ UNCHANGED <<messages, sessions, late, provider>>
  BY <1>1 DEF Callback, IInv, TypeOK
<1>4. state \in Observable /\ state \in Statuses /\ i \in 1..Len(history)
  BY <1>1 DEF IInv, TypeOK, Statuses
<1>5. /\ heard \in Rows /\ SameCall(heard, old) /\ SamePolls(heard, old)
      /\ heard.status = old.status /\ heard.action = old.action /\ heard.known = old.known
  BY DEF Rows, SameCall, SamePolls
<1>6. /\ applied \in Rows /\ SameCall(applied, old) /\ SamePolls(applied, old)
      /\ applied.status = state /\ applied.action = old.action /\ applied.known = old.known
  <2>1. /\ applied \in Rows /\ SameCall(applied, heard) /\ SamePolls(applied, heard)
        /\ applied.status = state /\ applied.action = heard.action
        /\ applied.known = heard.known
    BY <1>4, <1>5, StatusRow
  <2> QED
    BY <1>5, <2>1 DEF SameCall, SamePolls
<1>7. CASE decision # "APPLY"
  BY <1>1, <1>2, <1>3, <1>5, <1>7, Hearing DEF SamePolls
<1>8. CASE decision = "APPLY"
  <2>1. exec.status \notin Terminal
    BY <1>8 DEF Decision
  <2>2. CASE state \notin Terminal
    <3>1. state \in {"ACCEPTED", "RUNNING"}
      BY <1>4, <2>2 DEF Observable
    <3> QED
      BY <1>1, <1>2, <1>3, <1>6, <1>8, <2>1, <2>2, <3>1, Hearing DEF SamePolls
  <2>3. CASE state \in Terminal
    <3> PICK r : r = Ended(applied)
      OBVIOUS
    <3>1. /\ r \in Rows /\ SameCall(r, applied) /\ r.polls = applied.polls
          /\ r.status = applied.status /\ r.known = applied.known
          /\ r.action = "NONE" /\ r.poller = None /\ ~r.polling
      BY <1>6, EndedRow
    <3>2. SameCall(r, exec) /\ r.polls = exec.polls /\ r.known = exec.known /\ r.status = state
      BY <1>6, <3>1 DEF SameCall, SamePolls
    <3>3. Remote = state
      BY <1>4, <2>3 DEF IInv, HistoryFits, Remote
    <3>4. exec' = r /\ announced' = announced \cup {state}
      BY <1>2, <1>8, <2>3 DEF Ended
    <3> QED
      BY <1>1, <1>3, <2>1, <2>3, <3>1, <3>2, <3>3, <3>4, Hearing
  <2> QED
    BY <2>2, <2>3
<1> QED
  BY <1>7, <1>8

-----------------------------------------------------------------------------
(* Time, and the provider.                                                 *)

LEMMA ExpirySteps ==
  ASSUME IInv, LeaseExpires \/ PollLeaseExpires
  PROVE  IInv'
<1> PICK old \in Rows : old = exec
  BY DEF IInv, TypeOK
<1> PICK r : r = exec'
  OBVIOUS
<1>1. /\ UNCHANGED <<queued, retries, polls, received, announced, sessions, late, calls, history>>
      /\ r = [old EXCEPT !.live = FALSE] \/ r = [old EXCEPT !.polling = FALSE]
  BY DEF LeaseExpires, PollLeaseExpires, messages, provider
<1>2. /\ r \in Rows /\ r.status = old.status /\ r.action = old.action /\ r.known = old.known
      /\ r.attempt = old.attempt /\ r.lease = old.lease
      /\ r.polls = old.polls /\ r.poller = old.poller
      /\ r.live => old.live
      /\ r.polling => old.polling
  <2>1. CASE r = [old EXCEPT !.live = FALSE]
    BY <2>1 DEF Rows
  <2>2. CASE r = [old EXCEPT !.polling = FALSE]
    BY <2>2 DEF Rows
  <2> QED
    BY <1>1, <2>1, <2>2
<1>3. TypeOK'
  BY <1>1, <1>2 DEF IInv, TypeOK
<1>4. CallsInOrder' /\ HistoryFits' /\ RowFits'
  <2>1. exec'.status = exec.status /\ exec'.attempt = exec.attempt /\ exec'.known = exec.known
        /\ exec'.lease = exec.lease /\ exec'.action = exec.action
        /\ (exec'.live => exec.live)
    BY <1>2
  <2>2. CallsInOrder'
    BY <1>1, <2>1 DEF IInv, CallsInOrder
  <2>3. HistoryFits'
    BY <1>1, <2>1 DEF IInv, HistoryFits, Taken
  <2>4. RowFits'
    BY <1>1, <2>1 DEF IInv, RowFits, Taken
  <2> QED
    BY <2>2, <2>3, <2>4
<1>5. Buyers'
  <2>1. ASSUME NEW w \in Workers, Buyer(w)
        PROVE  Buyer(w)'
    <3>1. exec'.attempt = exec.attempt /\ exec'.status = exec.status /\ exec'.lease = exec.lease
          /\ exec'.known = exec.known
      BY <1>2
    <3>2. AnswerFits(sessions[w]) => AnswerFits(sessions[w])'
      BY <1>1 DEF AnswerFits, Remote
    <3> QED
      BY <1>1, <2>1, <3>1, <3>2 DEF Buyer
  <2> QED
    BY <1>1, <2>1 DEF IInv, Buyers, Buying
<1>6. PollsFollow'
  BY <1>1, <1>2 DEF IInv, PollsFollow, Polling, Poller, Remote
<1>7. PollAwaited' /\ EndAnnouncedOnce' /\ (Truthful => RecordedIsTrue)'
  BY <1>1, <1>2 DEF IInv, PollAwaited, EndAnnouncedOnce, RecordedIsTrue, Taken, Remote
<1> QED
  BY <1>3, <1>4, <1>5, <1>6, <1>7 DEF IInv

\* The provider decides on the call of the last attempt.
LEMMA Deciding ==
  ASSUME NEW n \in Attempts, NEW outcome \in {"taken", "busy", "rejected"},
         IInv, calls[n] = "sent", outcome # "taken" => ~Taken,
         calls' = [calls EXCEPT ![n] = outcome],
         UNCHANGED <<exec, messages, received, announced, sessions, late, history>>
  PROVE  IInv'
<1>1. n = exec.attempt
  <2>1. exec.attempt \in 0..MaxAttempts
    BY DEF IInv, TypeOK, Rows
  <2>2. ~(n > exec.attempt) /\ ~(n < exec.attempt)
    BY DEF IInv, CallsInOrder
  <2> QED
    BY <2>1, <2>2
<1>2. /\ calls' \in [Attempts -> {"none", "sent", "taken", "busy", "rejected"}]
      /\ calls'[n] = outcome
      /\ \A k \in Attempts \ {n} : calls'[k] = calls[k]
  BY DEF IInv, TypeOK
<1>3. UNCHANGED <<exec, queued, retries, polls, received, announced, sessions, late, history>>
  BY DEF messages
<1>4. Remote' = Remote /\ (Taken => Taken')
  BY <1>2, <1>3 DEF Remote, Taken
<1>5. TypeOK'
  BY <1>2, <1>3 DEF IInv, TypeOK
<1>6. CallsInOrder'
  BY <1>1, <1>2, <1>3 DEF IInv, CallsInOrder
<1>7. Buyers'
  <2>1. \A w \in Workers : Buying(w) => Buyer(w)'
    <3> TAKE w \in Workers
    <3> HAVE Buying(w)
    <3>1. Buyer(w) /\ sessions[w].number = n
      BY <1>1 DEF IInv, Buyers, Buyer
    <3>2. AnswerFits(sessions[w]) => AnswerFits(sessions[w])'
      BY <1>3, <1>4, <3>1 DEF AnswerFits, Observable, Terminal
    <3> QED
      BY <1>3, <3>1, <3>2 DEF Buyer
  <2> QED
    BY <1>3, <2>1 DEF IInv, Buyers, Buying
<1>8. PollsFollow'
  BY <1>3, <1>4 DEF IInv, PollsFollow, Polling, Poller
<1>9. RowFits' /\ HistoryFits'
  BY <1>1, <1>2, <1>3, <1>4 DEF IInv, RowFits, HistoryFits
<1>10. PollAwaited' /\ EndAnnouncedOnce' /\ (Truthful => RecordedIsTrue)'
  BY <1>3, <1>4 DEF IInv, PollAwaited, EndAnnouncedOnce, RecordedIsTrue
<1> QED
  BY <1>5, <1>6, <1>7, <1>8, <1>9, <1>10 DEF IInv

LEMMA ProgressStep ==
  ASSUME IInv, Progress
  PROVE  IInv'
<1>1. PICK state \in Observable : history' = Append(history, state)
  BY DEF Progress
<1>2. /\ Taken /\ Remote \notin Terminal /\ Len(history) < MaxEvents
      /\ UNCHANGED <<exec, queued, retries, polls, received, announced, sessions, late, calls>>
  BY DEF Progress, messages
<1>3. /\ history \in Seq(Observable) /\ history' \in Seq(Observable)
      /\ Len(history') = Len(history) + 1
      /\ \A i \in 1..Len(history) : history'[i] = history[i]
  BY <1>1 DEF IInv, TypeOK
<1>4. TypeOK'
  BY <1>2, <1>3 DEF IInv, TypeOK
<1>5. CallsInOrder' /\ RowFits' /\ PollAwaited' /\ EndAnnouncedOnce'
  BY <1>2 DEF IInv, CallsInOrder, RowFits, Taken, PollAwaited, EndAnnouncedOnce
<1>6. HistoryFits'
  <2>1. \A i \in 1..Len(history) : history[i] \notin Terminal
    BY <1>2 DEF IInv, HistoryFits, Remote
  <2>2. Len(history') = Len(history) + 1 /\ Len(history) \in Nat
    BY <1>3
  <2> QED
    <3>1. ASSUME NEW i \in 1..Len(history'), history'[i] \in Terminal
          PROVE  i = Len(history')
      <4>1. i # Len(history') => i \in 1..Len(history)
        BY <2>2
      <4> QED
        BY <1>3, <2>1, <3>1, <4>1
    <3> QED
      BY <1>2, <3>1 DEF HistoryFits, Taken
<1>7. Buyers'
  <2>1. ASSUME NEW w \in Workers, Buyer(w)
        PROVE  Buyer(w)'
    <3>1. AnswerFits(sessions[w]) => AnswerFits(sessions[w])'
      BY <1>2 DEF AnswerFits
    <3> QED
      BY <1>2, <2>1, <3>1 DEF Buyer
  <2> QED
    BY <1>2, <2>1 DEF IInv, Buyers, Buying
<1>8. PollsFollow'
  BY <1>2 DEF IInv, PollsFollow, Polling, Poller
<1>9. (Truthful => RecordedIsTrue)'
  BY <1>2 DEF IInv, RecordedIsTrue, Taken
<1> QED
  BY <1>4, <1>5, <1>6, <1>7, <1>8, <1>9 DEF IInv

-----------------------------------------------------------------------------
(* The invariant is inductive.                                             *)

LEMMA WorkerStep ==
  ASSUME NEW w \in Workers, IInv, Claim(w) \/ Submission(w) \/ Poll(w) \/ Drop(w)
  PROVE  IInv'
<1>1. CASE Claim(w)
  <2>1. DOMAIN polls = 1..MaxPolls
    BY DEF IInv, TypeOK
  <2> QED
    BY <1>1, <2>1, BeginStep, ClaimRetryStep, ClaimPollStep DEF Claim
<1>2. CASE Submission(w)
  BY <1>2, CreateTaskStep, AnswerSteps, CompleteStep, CommitAmbiguityStep, ForgettingSteps
     DEF Submission
<1>3. CASE Poll(w)
  BY <1>3, QueryTaskStep, DeferPollStep, CompletePollStep, ForgettingSteps DEF Poll
<1>4. CASE Drop(w)
  BY <1>4, ForgettingSteps
<1> QED
  BY <1>1, <1>2, <1>3, <1>4

LEMMA OtherStep ==
  ASSUME IInv,
         Redelivery \/ LateResult \/ LateLost \/ (\E i \in 1..MaxEvents : Callback(i))
           \/ LeaseExpires \/ PollLeaseExpires \/ Provider
  PROVE  IInv'
<1>1. CASE Redelivery
  <2>1. DOMAIN polls = 1..MaxPolls
    BY DEF IInv, TypeOK
  <2> QED
    BY <1>1, <2>1, ForgettingSteps, RecoverySteps, PollTerminalStep DEF Redelivery
<1>2. CASE Provider
  <2>1. ASSUME NEW n \in Attempts, Take(n) \/ Refuse(n) PROVE IInv'
    BY <2>1, Deciding DEF Take, Refuse
  <2> QED
    BY <1>2, <2>1, ProgressStep DEF Provider
<1>3. CASE LateResult \/ LateLost
  BY <1>3, LateResultStep, ForgettingSteps
<1>4. CASE (\E i \in 1..MaxEvents : Callback(i)) \/ LeaseExpires \/ PollLeaseExpires
  BY <1>4, CallbackStep, ExpirySteps
<1> QED
  BY <1>1, <1>2, <1>3, <1>4

LEMMA NextIInv == IInv /\ [Next]_vars => IInv'
<1> SUFFICES ASSUME IInv, [Next]_vars PROVE IInv'
  OBVIOUS
<1>1. CASE Next
  BY <1>1, WorkerStep, OtherStep DEF Next
<1>2. CASE UNCHANGED vars
  <2>1. TypeOK'
    BY <1>2 DEF IInv, TypeOK, vars, messages, provider
  <2> QED
    BY <1>2, <2>1, Forgetting DEF vars, messages, provider
<1> QED
  BY <1>1, <1>2

LEMMA IInvHolds == Spec => []IInv
  BY InitIInv, NextIInv, PTL DEF Spec

\* Rows, messages and sessions keep their shape, and a lease only ever runs
\* for a claim that exists.
THEOREM TypeCorrect == Spec => []TypeOK
<1>1. IInv => TypeOK
  BY DEF IInv
<1> QED
  BY <1>1, IInvHolds, PTL

\* If the provider answers a create call by what it did with it, then what
\* the row records as final is what became of the provider's task, whatever
\* messages are repeated, workers lost and answers late.
THEOREM RecordedCorrect == ASSUME Truthful PROVE Spec => []RecordedIsTrue
<1>1. IInv => RecordedIsTrue
  BY DEF IInv
<1> QED
  BY <1>1, IInvHolds, PTL

\* Generation never hears of two ends, of an end that is not recorded, or
\* nothing of one that is; and an execution that is to be polled has the
\* message of its next poll, and only that one, in the queue.
THEOREM MessagesCorrect == Spec => []MessagesAgree
<1>1. IInv => MessagesAgree
  BY DEF IInv, MessagesAgree
<1> QED
  BY <1>1, IInvHolds, PTL

-----------------------------------------------------------------------------
(* How the row moves, and what that makes of the purchase.                 *)

Open == {"NONE", "SUBMITTING", "RETRY_SCHEDULED"}

Moves ==
    /\ exec.status \in Terminal => exec'.status = exec.status /\ exec'.known = exec.known
    /\ exec'.status \in Open => exec.status \in Open
    /\ exec'.status \in Terminal /\ exec'.status # exec.status /\ ~exec'.known
          => exec.status \in Open
    /\ Rank(exec'.status) < Rank(exec.status) => exec'.status = "AMBIGUOUS"

LEMMA Ranks ==
  ASSUME NEW s
  PROVE  Rank(s) \in 0..3 /\ (s \in Open \cup {"AMBIGUOUS"} => Rank(s) = 0)
  BY DEF Rank, Open, Terminal

LEMMA OpenMoves == ASSUME exec.status \in Open PROVE Moves
  BY Ranks DEF Moves, Open, Terminal

LEMMA StillMoves ==
  ASSUME exec'.status = exec.status,
         exec'.known = exec.known \/ exec.status = "AMBIGUOUS"
  PROVE  Moves
  BY Ranks DEF Moves, Terminal

LEMMA PollMoves ==
  ASSUME NEW w \in Workers, IInv, CompletePoll(w)
  PROVE  Moves
<1> PICK n : n = sessions[w].number
  OBVIOUS
<1> PICK state : state = IF sessions[w].answer = "missing" THEN "AMBIGUOUS" ELSE sessions[w].answer
  OBVIOUS
<1> PICK action \in {"NONE", "POLL"} :
           action = IF state \in Terminal \cup {"AMBIGUOUS"} THEN "NONE" ELSE "POLL"
  OBVIOUS
<1>1. At(w, "polled") /\ sessions[w].answer # "failed" /\ HoldsPoll(w)
  BY DEF CompletePoll
<1>2. Poller(w) /\ n \in 0..MaxPolls
  BY <1>1 DEF IInv, PollsFollow, Poller, Polling, At
<1>3. state \in {"AMBIGUOUS"} \cup Observable
  BY <1>1, <1>2 DEF Poller, At
<1> PICK row \in Rows : row = Polled(n, action)
  BY <1>2, PolledRow DEF IInv, TypeOK
<1>4. row.status = exec.status /\ row.known = exec.known
  BY <1>2, PolledRow DEF IInv, TypeOK
<1>5. \/ exec' = row
      \/ Applies(exec.status, state) /\ exec' = [row EXCEPT !.status = state]
  BY DEF CompletePoll
<1>6. CASE exec' = row
  BY <1>4, <1>6, StillMoves
<1>7. CASE Applies(exec.status, state) /\ exec' = [row EXCEPT !.status = state]
  <2>1. state \in Statuses
    BY <1>3 DEF Statuses
  <2>2. exec'.status = state /\ exec'.known = exec.known
    BY <1>4, <1>7, <2>1, StatusRow
  <2>3. exec.status \notin Terminal /\ exec.known
    BY <1>1, <1>2 DEF HoldsPoll, Poller
  <2>4. state = "AMBIGUOUS" \/ ~(Rank(state) < Rank(exec.status))
    BY <1>7, Ranks DEF Applies
  <2> QED
    BY <1>3, <2>2, <2>3, <2>4 DEF Moves, Open, Observable, Terminal
<1> QED
  BY <1>5, <1>6, <1>7

LEMMA CallbackMoves ==
  ASSUME NEW i \in 1..MaxEvents, IInv, Callback(i)
  PROVE  Moves
<1> PICK old \in Rows : old = exec
  BY DEF IInv, TypeOK
<1> PICK state : state = history[i]
  OBVIOUS
<1> PICK decision : decision = Decision(exec, state, i)
  OBVIOUS
<1> PICK heard : heard = IF decision = "OUT_OF_ORDER" THEN old ELSE [old EXCEPT !.seq = i]
  OBVIOUS
<1> PICK applied : applied = [heard EXCEPT !.status = state]
  OBVIOUS
<1>1. exec.known /\ state \in Observable
  BY DEF Callback, IInv, TypeOK
<1>2. \/ exec' = heard
      \/ decision = "APPLY" /\ (exec' = applied \/ exec' = Ended(applied))
  BY DEF Callback, Ended
<1>3. heard \in Rows /\ heard.status = old.status /\ heard.known = old.known
  BY DEF Rows
<1>4. applied \in Rows /\ applied.status = state /\ applied.known = old.known
  <2>1. state \in Statuses
    BY <1>1 DEF Statuses
  <2> QED
    BY <1>3, <2>1, StatusRow
<1>5. CASE exec' = heard
  BY <1>3, <1>5, StillMoves
<1>6. CASE decision = "APPLY" /\ (exec' = applied \/ exec' = Ended(applied))
  <2>1. exec'.status = state /\ exec'.known = exec.known
    BY <1>4, <1>6, EndedRow
  <2>2. exec.status \notin Terminal /\ ~(Rank(state) < Rank(exec.status))
    BY <1>6 DEF Decision
  <2> QED
    BY <1>1, <2>1, <2>2 DEF Moves, Open, Observable, Terminal
<1> QED
  BY <1>2, <1>5, <1>6

LEMMA NextMoves == ASSUME IInv, [Next]_vars PROVE Moves
<1> PICK old \in Rows : old = exec
  BY DEF IInv, TypeOK
<1>1. CASE UNCHANGED exec
  BY <1>1, StillMoves
<1>2. CASE exec.status \in Open
  BY <1>2, OpenMoves
<1>3. ASSUME exec' # exec, exec.status \notin Open, Next PROVE Moves
  <2>1. CASE \E w \in Workers : Claim(w) \/ Submission(w) \/ Poll(w) \/ Drop(w)
    <3> PICK w \in Workers : Claim(w) \/ Submission(w) \/ Poll(w) \/ Drop(w)
      BY <2>1
    <3>1. CASE \E n \in DOMAIN polls : ClaimPoll(w, n)
      <4>1. exec' = [old EXCEPT !.poller = w, !.polling = TRUE]
        BY <3>1 DEF ClaimPoll
      <4> QED
        BY <4>1, StillMoves DEF Rows
    <3>2. CASE DeferPoll(w)
      <4>1. exec' = Polled(sessions[w].number, "POLL")
        BY <3>2 DEF DeferPoll
      <4>2. exec'.status = old.status /\ exec'.known = old.known
        BY <4>1 DEF Polled, Rows
      <4> QED
        BY <4>2, StillMoves
    <3>3. CASE CompletePoll(w)
      BY <3>3, PollMoves
    <3>4. \/ \E n \in DOMAIN polls : ClaimPoll(w, n)
          \/ DeferPoll(w) \/ CompletePoll(w)
      <4>1. ~Submission(w) /\ ~Drop(w)
        BY <1>3 DEF Submission, CreateTask, CircuitRejects, GetAnswer, LoseAnswer, Complete,
                    RecordCommitAmbiguity, LoseAttempt, Holds, Drop, Open
      <4>2. ~QueryTask(w) /\ ~LosePoll(w)
        BY <1>3 DEF QueryTask, LosePoll
      <4>3. /\ \A m \in Queued : ~Begin(w, m)
            /\ \A n \in DOMAIN retries : ~ClaimRetry(w, n)
        BY <1>3 DEF Begin, ClaimRetry, Open
      <4> QED
        BY <4>1, <4>2, <4>3 DEF Claim, Poll
    <3> QED
      BY <3>1, <3>2, <3>3, <3>4
  <2>2. CASE Redelivery
    BY <1>3, <2>2 DEF Redelivery, RejectBinding, DuplicateQueued, RecoverQueued, RecoverRetry,
                      PollTerminal, Open
  <2>3. CASE LateResult
    <3>1. exec.status = "AMBIGUOUS"
      BY <1>3, <2>3, LateFacts
    <3>2. PICK known : exec' = [old EXCEPT !.known = known, !.lease = 0]
      BY <1>3, <2>3, Zenon DEF LateResult
    <3>3. exec'.status = old.status
      BY <3>2 DEF Rows
    <3> QED
      BY <3>1, <3>3, StillMoves
  <2>4. CASE \E i \in 1..MaxEvents : Callback(i)
    BY <2>4, CallbackMoves
  <2>5. CASE LeaseExpires \/ PollLeaseExpires
    <3>1. exec' = [old EXCEPT !.live = FALSE] \/ exec' = [old EXCEPT !.polling = FALSE]
      BY <2>5 DEF LeaseExpires, PollLeaseExpires
    <3>2. exec'.status = old.status /\ exec'.known = old.known
      BY <3>1 DEF Rows
    <3> QED
      BY <3>2, StillMoves
  <2>6. CASE LateLost \/ Provider
    BY <1>3, <2>6 DEF LateLost, Provider, Take, Refuse, Progress
  <2> QED
    BY <1>3, <2>1, <2>2, <2>3, <2>4, <2>5, <2>6 DEF Next
<1> QED
  BY <1>1, <1>2, <1>3 DEF vars

\* No report takes an execution back: an end stays, and what was reached is
\* only left for an ambiguity.
THEOREM NoRegressions == Spec => NoRegression
<1>1. IInv /\ [Next]_vars
        => [/\ exec.status \in Terminal => exec'.status = exec.status
            /\ Rank(exec'.status) < Rank(exec.status) => exec'.status = "AMBIGUOUS"]_vars
  BY NextMoves DEF Moves
<1> QED
  BY <1>1, IInvHolds, PTL DEF Spec, NoRegression

-----------------------------------------------------------------------------
(* ProviderExecution implements ProviderPurchase.                          *)

JudgedAs(s, known) ==
    IF s \notin Terminal THEN Verdicts[s] ELSE IF known THEN "over" ELSE "failed"

LEMMA Judgements ==
  ASSUME NEW s \in Statuses, NEW known \in BOOLEAN
  PROVE  /\ s \in Open => JudgedAs(s, known) = "open"
         /\ s = "AMBIGUOUS" => JudgedAs(s, known) = "unknown"
         /\ s \in {"ACCEPTED", "RUNNING"} => JudgedAs(s, known) = "watched"
         /\ s \in Terminal /\ known => JudgedAs(s, known) = "over"
         /\ s \in Terminal /\ ~known => JudgedAs(s, known) = "failed"
         /\ s \in Open \cup {"AMBIGUOUS", "ACCEPTED", "RUNNING"} \cup Terminal
<1>1. s \in Open \cup {"AMBIGUOUS", "ACCEPTED", "RUNNING"} \cup Terminal
  BY DEF Statuses, Observable, Open
<1>2. /\ Verdicts["NONE"] = "open" /\ Verdicts["SUBMITTING"] = "open"
      /\ Verdicts["RETRY_SCHEDULED"] = "open" /\ Verdicts["AMBIGUOUS"] = "unknown"
      /\ Verdicts["ACCEPTED"] = "watched" /\ Verdicts["RUNNING"] = "watched"
  BY DEF Verdicts
<1> QED
  BY <1>1, <1>2 DEF JudgedAs, Open, Terminal

\* A step that leaves the provider's calls alone moves the verdict, or nothing.
LEMMA Judging ==
  ASSUME Truthful, IInv, IInv', Moves, UNCHANGED calls
  PROVE  [Purchase!Next]_(Purchase!vars)
<1> PICK s \in Statuses, k \in BOOLEAN : s = exec.status /\ k = exec.known
  BY DEF IInv, TypeOK, Rows
<1> PICK t \in Statuses, l \in BOOLEAN : t = exec'.status /\ l = exec'.known
  BY DEF IInv, TypeOK, Rows
<1>1. Bought' = Bought /\ Taken' = Taken
  BY DEF Bought, Taken
<1>2. Judged = JudgedAs(s, k) /\ Judged' = JudgedAs(t, l)
  BY DEF Judged, JudgedAs
<1>3. /\ s \in Terminal => t = s /\ l = k
      /\ t \in Open => s \in Open
      /\ t \in Terminal /\ t # s /\ ~l => s \in Open
  BY DEF Moves
<1>4. k => Taken
  BY DEF IInv, RowFits
<1>5. /\ l => Taken
      /\ t \in {"ACCEPTED", "RUNNING"} => l
  BY <1>1 DEF IInv, RowFits
<1>6. Taken => Bought = "held"
  BY DEF Bought
<1>7. t \in Terminal /\ ~l => Bought = "none"
  BY DEF IInv, RecordedIsTrue, Bought, Taken
<1>8. CASE s \in Terminal
  BY <1>1, <1>2, <1>3, <1>8 DEF Purchase!vars
<1>9. CASE s \notin Terminal /\ t \in Open
  BY <1>1, <1>2, <1>3, <1>9, Judgements DEF Purchase!vars
<1>10. CASE s \notin Terminal /\ t = "AMBIGUOUS"
  BY <1>1, <1>2, <1>10, Judgements DEF Purchase!Next, Purchase!Doubt, Purchase!vars
<1>11. CASE s \notin Terminal /\ t \in {"ACCEPTED", "RUNNING"}
  BY <1>1, <1>2, <1>5, <1>6, <1>11, Judgements DEF Purchase!Next, Purchase!Watch, Purchase!vars
<1>12. CASE s \notin Terminal /\ t \in Terminal /\ l
  <2>1. Bought = "held" /\ Bought' = Bought
    BY <1>1, <1>5, <1>6, <1>12
  <2>2. Judged \in {"open", "unknown", "watched"} /\ Judged' = "over"
    BY <1>2, <1>12, Judgements
  <2> QED
    BY <2>1, <2>2 DEF Purchase!Next, Purchase!Finish
<1>13. CASE s \notin Terminal /\ t \in Terminal /\ ~l
  BY <1>1, <1>2, <1>3, <1>7, <1>13, Judgements DEF Purchase!Next, Purchase!GiveUp
<1> QED
  BY <1>8, <1>9, <1>10, <1>11, <1>12, <1>13, Judgements

\* A call is sent when there is none, and decided while it is the only one.
LEMMA Purchasing ==
  ASSUME IInv, Next, calls' # calls
  PROVE  Purchase!Next
<1> PICK s \in Statuses, k \in BOOLEAN : s = exec.status /\ k = exec.known
  BY DEF IInv, TypeOK, Rows
<1>1. Judged = JudgedAs(s, k)
  BY DEF Judged, JudgedAs
<1>2. /\ exec.attempt \in 0..MaxAttempts /\ calls \in [Attempts -> {"none", "sent", "taken", "busy", "rejected"}]
      /\ \A n \in Attempts : n # exec.attempt => calls[n] \in {"none", "busy"}
  BY DEF IInv, TypeOK, CallsInOrder, Rows
<1>3. CASE \E w \in Workers : CreateTask(w)
  <2> PICK w \in Workers : CreateTask(w)
    BY <1>3
  <2> PICK n : n = sessions[w].number
    OBVIOUS
  <2>1. Buyer(w) /\ exec.status \in {"SUBMITTING", "AMBIGUOUS"}
    BY TheBuyer DEF CreateTask, At, Buying
  <2>2. n = exec.attempt /\ n \in Attempts /\ calls[n] = "none"
    BY <2>1 DEF Buyer, CreateTask, At
  <2>3. exec' = exec /\ calls' = [calls EXCEPT ![n] = "sent"]
    BY DEF CreateTask
  <2>4. Bought = "none" /\ Bought' = "asked"
    BY <1>2, <2>2, <2>3 DEF Bought, Taken
  <2>5. Judged' = Judged /\ Judged \in {"open", "unknown"}
    BY <1>1, <2>1, <2>3, Judgements DEF Judged, Open
  <2> QED
    BY <2>4, <2>5 DEF Purchase!Next, Purchase!Ask
<1>4. CASE \E n \in Attempts : Take(n) \/ Refuse(n)
  <2> PICK n \in Attempts : Take(n) \/ Refuse(n)
    BY <1>4
  <2>1. calls[n] = "sent" /\ n = exec.attempt /\ exec' = exec
    BY <1>2 DEF Take, Refuse
  <2>2. Judged' = Judged
    BY <2>1 DEF Judged
  <2>3. Bought = "asked"
    BY <1>2, <2>1 DEF Bought, Taken
  <2>4. CASE Take(n)
    <3>1. Bought' = "held"
      BY <1>2, <2>4 DEF Take, Bought, Taken
    <3> QED
      BY <2>2, <2>3, <3>1 DEF Purchase!Next, Purchase!Buy
  <2>5. CASE Refuse(n)
    <3>1. Bought' = "none"
      BY <1>2, <2>1, <2>5 DEF Refuse, Bought, Taken
    <3> QED
      BY <2>2, <2>3, <3>1 DEF Purchase!Next, Purchase!Refuse
  <2> QED
    BY <2>4, <2>5
<1>5. (\E w \in Workers : CreateTask(w)) \/ (\E n \in Attempts : Take(n) \/ Refuse(n))
  <2>1. ASSUME NEW w \in Workers, Claim(w) \/ Submission(w) \/ Poll(w) \/ Drop(w)
        PROVE  CreateTask(w)
    <3>1. ~Claim(w) /\ ~Poll(w) /\ ~Drop(w)
      BY DEF Claim, Begin, ClaimRetry, ClaimPoll, Poll, QueryTask, DeferPoll, CompletePoll,
             LosePoll, Drop, provider
    <3> QED
      BY <2>1, <3>1 DEF Submission, CircuitRejects, GetAnswer, LoseAnswer, Complete,
                        RecordCommitAmbiguity, LoseAttempt, provider
  <2>2. ~Redelivery
    BY DEF Redelivery, RejectBinding, DuplicateQueued, RecoverQueued, RecoverRetry, PollTerminal,
           provider
  <2>3. ~LateResult
    BY LateFacts
  <2>4. /\ ~LateLost /\ ~LeaseExpires /\ ~PollLeaseExpires /\ ~Progress
        /\ \A i \in 1..MaxEvents : ~Callback(i)
    BY DEF LateLost, LeaseExpires, PollLeaseExpires, Progress, Callback, provider
  <2> QED
    BY <2>1, <2>2, <2>3, <2>4 DEF Next, Provider
<1> QED
  BY <1>3, <1>4, <1>5

\* However messages are repeated, workers lost and answers late, the task is
\* bought at most once, is not asked for again while a purchase may be on its
\* way, and is given up only if the provider has not got it.
THEOREM Implementation == ASSUME Truthful PROVE Spec => KeepsPurchase
<1>1. Init => Purchase!Init
  <2> SUFFICES ASSUME Init PROVE Purchase!Init
    OBVIOUS
  <2>1. Bought = "none"
    BY DEF Init, Bought, Taken
  <2>2. Judged = "open"
    BY DEF Init, Judged, Verdicts, Terminal
  <2> QED
    BY <2>1, <2>2 DEF Purchase!Init
<1>2. IInv /\ IInv' /\ [Next]_vars => [Purchase!Next]_(Purchase!vars)
  <2> SUFFICES ASSUME IInv, IInv', [Next]_vars PROVE [Purchase!Next]_(Purchase!vars)
    OBVIOUS
  <2>1. CASE UNCHANGED calls
    BY <2>1, NextMoves, Judging
  <2>2. CASE calls' # calls
    BY <2>2, Purchasing DEF vars, provider
  <2> QED
    BY <2>1, <2>2
<1> QED
  BY <1>1, <1>2, IInvHolds, PTL DEF Spec, KeepsPurchase, Purchase!Spec
-----------------------------------------------------------------------------
(* The calls of an execution.                                              *)

\* Calls that the provider may have taken, or refused for good.
Counted == {"sent", "taken", "rejected"}

OneCallCounts == \A m, n \in Attempts : calls[m] \in Counted /\ calls[n] \in Counted => m = n

\* Every call but the last was turned away, whichever worker made it and however
\* late its answer is: no second call is made while the first may be on its way,
\* so that the task is bought once also from a provider that does not look at
\* the idempotency key (execution.service.ts,
\* prisma-execution.repository.ts, claimRetry).
THEOREM CallsDoNotOverlap == Spec => []OneCallCounts
<1>1. IInv => OneCallCounts
  <2> SUFFICES ASSUME IInv, NEW m \in Attempts, NEW n \in Attempts,
                      calls[m] \in Counted, calls[n] \in Counted
               PROVE  m = n
    BY DEF OneCallCounts
  <2>1. exec.attempt \in Int
    BY DEF IInv, TypeOK, Rows
  <2>2. ASSUME NEW k \in Attempts, calls[k] \in Counted PROVE k = exec.attempt
    <3>1. ~(k < exec.attempt) /\ ~(k > exec.attempt)
      BY <2>2 DEF IInv, CallsInOrder, Counted
    <3> QED
      BY <2>1, <3>1
  <2> QED
    BY <2>2
<1> QED
  BY <1>1, IInvHolds, PTL
=============================================================================
