------------------------- MODULE ProviderExecution -------------------------
(***************************************************************************)
(* The execution of one task at one provider (services/provider-runtime):  *)
(* queued and retry messages submit it, poll messages and the provider's   *)
(* callbacks follow it, and all of them write one ProviderExecution row.   *)
(* Messages are delivered any number of times, to any worker, in any       *)
(* order; workers die and leases expire at any moment.                     *)
(*                                                                         *)
(* A transaction of the repositories is one step: the rows it fences by    *)
(* version, lease or inbox make it take effect as a whole or not at all.   *)
(* A token of a submission lease names its attempt, as an attempt is       *)
(* claimed once; a token of a poll lease names the worker.  ProviderAttempt*)
(* mirrors the row and is left out.  The circuit breaker may let a call    *)
(* pass or reject it; an error of it, like every error that is not caught, *)
(* is the end of the handler (Drop).  nextPollAt is set exactly while      *)
(* nextAction is POLL, and a message is not delivered before it is due.    *)
(***************************************************************************)
EXTENDS Integers, Sequences, FiniteSets

CONSTANTS
    Workers,        \* concurrent deliveries, on any replica
    Queued,         \* generation.task-queued.v1 messages for this route
    MaxAttempts,    \* maxAttempts
    MaxPolls,       \* bound on the polls of an execution
    MaxEvents,      \* bound on the state changes the provider reports
    Faults,         \* what the provider may answer beside the truth
    None

ASSUME BoundsAssumption == {MaxAttempts, MaxPolls, MaxEvents} \subseteq Nat \ {0}
ASSUME MessagesAssumption == None \notin Queued \cup Workers
ASSUME FaultsAssumption == Faults \subseteq {"garbled", "missing"}

VARIABLES
    exec,       \* the ProviderExecution row
    queued,     \* queued[m]: the queued message m
    retries,    \* retries[n]: provider.execution-retry-scheduled.v1 after attempt n
    polls,      \* polls[n]: provider.execution-poll-due.v1 number n
    received,   \* callbacks with a row in CallbackInbox
    announced,  \* statuses for which an event is in the outbox
    sessions,   \* sessions[w]: what worker w is doing
    late,       \* the attempt whose late result a process waits for, or 0
    calls,      \* calls[n]: the createTask call of attempt n at the provider
    history     \* the states the provider's task has gone through

messages == <<queued, retries, polls>>
provider == <<calls, history>>
vars == <<exec, messages, received, announced, sessions, late, provider>>

Attempts == 1..MaxAttempts

-----------------------------------------------------------------------------
(* States of the provider's task (provider-state.ts).                      *)

Terminal == {"SUCCEEDED", "FAILED", "CANCELED"}

Observable == {"ACCEPTED", "RUNNING"} \cup Terminal

Rank(s) ==
    CASE s = "ACCEPTED" -> 1
      [] s = "RUNNING"  -> 2
      [] s \in Terminal -> 3
      [] OTHER          -> 0

Taken == \E n \in Attempts : calls[n] = "taken"

\* What a query of the provider's task answers (external).
Remote == IF history = <<>> THEN "ACCEPTED" ELSE history[Len(history)]

-----------------------------------------------------------------------------
Idle == [at |-> "idle", number |-> 0, msg |-> None, answer |-> None]

At(w, place) == sessions[w].at = place

Goes(w, s) == sessions' = [sessions EXCEPT ![w] = s]

Done(queue, m) == [queue EXCEPT ![m] = "done"]

\* The message whose handling holds attempt n is processed.
Processed(n, m) == IF n = 1 THEN queued[m] = "done" ELSE retries[n - 1] = "done"

\* The row as a stale submission leaves it.
Ambiguous(row) ==
    [row EXCEPT !.status = "AMBIGUOUS", !.action = "RECONCILE", !.lease = 0, !.live = FALSE]

-----------------------------------------------------------------------------
(* Submission: begin, claimRetry, and the redelivery of their messages.    *)

Submitting(row, n) ==
    [row EXCEPT !.status = "SUBMITTING", !.attempt = n, !.lease = n, !.live = TRUE,
                !.action = "NONE"]

Begin(w, m) ==
    /\ sessions[w] = Idle /\ queued[m] = "sent" /\ exec.status = "NONE"
    /\ exec' = [Submitting(exec, 1) EXCEPT !.first = m]
    /\ Goes(w, [Idle EXCEPT !.at = "begun", !.number = 1, !.msg = m])
    /\ UNCHANGED <<messages, received, announced, late, provider>>

\* The execution exists for another binding.  Which messages beside the first
\* carry its binding is left open: each is handled to its end only once.
RejectBinding(m) ==
    /\ queued[m] = "sent" /\ exec.status # "NONE"
    /\ m # exec.first
    /\ queued' = Done(queued, m)
    /\ UNCHANGED <<exec, retries, polls, received, announced, sessions, late, provider>>

\* A message of an execution that is past its submission.
DuplicateQueued(m) ==
    /\ queued[m] = "sent" /\ exec.status \notin {"NONE", "SUBMITTING"}
    /\ queued' = Done(queued, m)
    /\ UNCHANGED <<exec, retries, polls, received, announced, sessions, late, provider>>

\* Mutant: a submission without an answer is taken for a failure.
RecoverQueued_Fails(m) ==
    /\ queued[m] = "sent" /\ exec.status = "SUBMITTING" /\ ~exec.live
    /\ exec' = [Ambiguous(exec) EXCEPT !.status = "FAILED", !.action = "NONE"]
    /\ queued' = Done(queued, m)
    /\ announced' = announced \cup {"FAILED"}
    /\ UNCHANGED <<retries, polls, received, sessions, late, provider>>

\* A submission whose lease has expired: nobody knows what became of it.
RecoverQueued(m) ==
    /\ queued[m] = "sent" /\ exec.status = "SUBMITTING" /\ ~exec.live
    /\ exec' = Ambiguous(exec)
    /\ queued' = Done(queued, m)
    /\ announced' = announced \cup {"AMBIGUOUS"}
    /\ UNCHANGED <<retries, polls, received, sessions, late, provider>>

\* Retry event of attempt n.  No event follows the last attempt, so that the
\* branch of claimRetry for exhausted attempts is never taken.
ClaimRetry(w, n) ==
    /\ sessions[w] = Idle /\ retries[n] = "sent"
    /\ exec.status = "RETRY_SCHEDULED" /\ exec.attempt = n
    /\ exec' = Submitting(exec, n + 1)
    /\ Goes(w, [Idle EXCEPT !.at = "begun", !.number = n + 1])
    /\ UNCHANGED <<messages, received, announced, late, provider>>

RecoverRetry(n) ==
    /\ retries[n] = "sent"
    /\ exec.status = "SUBMITTING" /\ exec.attempt = n + 1 /\ ~exec.live
    /\ exec' = Ambiguous(exec)
    /\ retries' = Done(retries, n)
    /\ announced' = announced \cup {"AMBIGUOUS"}
    /\ UNCHANGED <<queued, polls, received, sessions, late, provider>>

-----------------------------------------------------------------------------
(* The call of the provider.                                               *)

CreateTask(w) ==
    /\ At(w, "begun")
    /\ calls' = [calls EXCEPT ![sessions[w].number] = "sent"]
    /\ Goes(w, [sessions[w] EXCEPT !.at = "waiting"])
    /\ UNCHANGED <<exec, messages, received, announced, late, history>>

Answered(w, answer) == Goes(w, [sessions[w] EXCEPT !.at = "answered", !.answer = answer])

CircuitRejects(w) ==
    /\ At(w, "begun")
    /\ Answered(w, "circuit open")
    /\ UNCHANGED <<exec, messages, received, announced, late, provider>>

\* What createTask returns or throws once the provider has dealt with it.
Answers(n) ==
    IF calls[n] = "taken" THEN {Remote} \cup (Faults \cap {"garbled"})
    ELSE {calls[n]} \cap {"busy", "rejected"}

GetAnswer(w) ==
    /\ At(w, "waiting")
    /\ \E answer \in Answers(sessions[w].number) : Answered(w, answer)
    /\ UNCHANGED <<exec, messages, received, announced, late, provider>>

\* The connection breaks, or the deadline passes and the answer may be late.
LoseAnswer(w) ==
    /\ At(w, "waiting")
    /\ \E answer \in {"network", "timeout"} : Answered(w, answer)
    /\ UNCHANGED <<exec, messages, received, announced, late, provider>>

-----------------------------------------------------------------------------
(* The result of the call (complete, completeFailure).                     *)

\* Mutant: a lost answer is retried like a refusal.
Verdict_Retried(answer, n) ==
    CASE answer = "SUCCEEDED" -> "ACCEPTED"
      [] answer \in Observable \ {"SUCCEEDED"} -> answer
      [] answer = "timeout" -> "AMBIGUOUS"
      [] answer \in {"busy", "network"} /\ n < MaxAttempts -> "RETRY_SCHEDULED"
      [] OTHER -> "FAILED"

\* A success is queried again for its results.
Verdict(answer, n) ==
    CASE answer = "SUCCEEDED" -> "ACCEPTED"
      [] answer \in Observable \ {"SUCCEEDED"} -> answer
      [] answer \in {"network", "timeout"} -> "AMBIGUOUS"
      [] answer = "busy" /\ n < MaxAttempts -> "RETRY_SCHEDULED"
      [] OTHER -> "FAILED"

ActionFor(status) ==
    CASE status \in {"ACCEPTED", "RUNNING"} -> "POLL"
      [] status = "AMBIGUOUS"               -> "RECONCILE"
      [] status = "RETRY_SCHEDULED"         -> "CREATE_RETRY"
      [] OTHER                              -> "NONE"

\* The attempt is still the one the row is submitting.
Holds(n, m) ==
    ~Processed(n, m) /\ exec.status = "SUBMITTING" /\ exec.attempt = n /\ exec.lease = n

\* The message of attempt n is processed, and the next retry is sent.
Acknowledge(n, m, status) ==
    /\ queued' = IF n = 1 THEN Done(queued, m) ELSE queued
    /\ retries' = [k \in DOMAIN retries |->
           IF k = n - 1 THEN "done"
           ELSE IF k = n /\ status = "RETRY_SCHEDULED" THEN "sent" ELSE retries[k]]

Complete(w) ==
    /\ At(w, "answered")
    /\ LET n == sessions[w].number
           m == sessions[w].msg
           answer == sessions[w].answer
           status == Verdict(answer, n)
       IN  /\ Holds(n, m)
           /\ exec' = [exec EXCEPT
                  !.status = status, !.action = ActionFor(status),
                  !.known = answer \in Observable,
                  !.lease = IF status = "AMBIGUOUS" THEN n ELSE 0,
                  !.live = FALSE]
           /\ Acknowledge(n, m, status)
           /\ polls' = IF ActionFor(status) = "POLL" THEN [polls EXCEPT ![1] = "sent"] ELSE polls
           /\ announced' = announced \cup {status}
           /\ late' = IF answer = "timeout" THEN n ELSE late
    /\ Goes(w, Idle)
    /\ UNCHANGED <<received, provider>>

\* The transaction above failed after the provider had taken the task.  (If
\* it committed and only its answer was lost, nothing else is written.)
RecordCommitAmbiguity(w) ==
    /\ At(w, "answered") /\ sessions[w].answer \in Observable
    /\ Holds(sessions[w].number, sessions[w].msg)
    /\ exec' = [Ambiguous(exec) EXCEPT !.known = TRUE]
    /\ Acknowledge(sessions[w].number, sessions[w].msg, "AMBIGUOUS")
    /\ announced' = announced \cup {"AMBIGUOUS"}
    /\ Goes(w, Idle)
    /\ UNCHANGED <<polls, received, late, provider>>

\* Another delivery has recovered the attempt meanwhile.
LoseAttempt(w) ==
    /\ At(w, "answered") /\ ~Holds(sessions[w].number, sessions[w].msg)
    /\ Goes(w, Idle)
    /\ UNCHANGED <<exec, messages, received, announced, late, provider>>

\* recordLateResult: only the provider's task id is learnt.
LateResult ==
    /\ late # 0 /\ calls[late] # "sent"
    /\ IF exec.status = "AMBIGUOUS" /\ exec.action = "RECONCILE" /\ exec.lease = late
       THEN \E answer \in Answers(late) :
                exec' = [exec EXCEPT !.known = exec.known \/ answer \in Observable,
                                     !.lease = 0]
       ELSE UNCHANGED exec
    /\ late' = 0
    /\ UNCHANGED <<messages, received, announced, sessions, provider>>

\* The process that waits for it is gone.
LateLost ==
    /\ late # 0
    /\ late' = 0
    /\ UNCHANGED <<exec, messages, received, announced, sessions, provider>>

-----------------------------------------------------------------------------
(* Polling (polling.consumer.ts, PrismaPollRepository).                    *)

\* Mutant: a worker that has claimed a poll keeps it.
ClaimPoll_NoTakeover(w, n) ==
    /\ sessions[w] = Idle /\ polls[n] = "sent"
    /\ exec.status \notin Terminal
    /\ exec.polls = n - 1 /\ exec.action = "POLL"
    /\ exec.poller = None
    /\ exec' = [exec EXCEPT !.poller = w, !.polling = TRUE]
    /\ Goes(w, [Idle EXCEPT !.at = "polling", !.number = n])
    /\ UNCHANGED <<messages, received, announced, late, provider>>

\* Poll n found the execution waiting for it and no other worker at it.  Its
\* number is always the next, and the provider's task id known, so that the
\* answers STALE_POLL_EVENT and MANUAL_RECONCILE are not given.
ClaimPoll(w, n) ==
    /\ sessions[w] = Idle /\ polls[n] = "sent"
    /\ exec.status \notin Terminal
    /\ exec.polls = n - 1 /\ exec.action = "POLL"
    /\ exec.poller = None \/ ~exec.polling
    /\ exec' = [exec EXCEPT !.poller = w, !.polling = TRUE]
    /\ Goes(w, [Idle EXCEPT !.at = "polling", !.number = n])
    /\ UNCHANGED <<messages, received, announced, late, provider>>

\* A poll, or the result of one, for an execution that is over.
PollTerminal(n) ==
    /\ polls[n] = "sent" /\ exec.status \in Terminal
    /\ polls' = Done(polls, n)
    /\ UNCHANGED <<exec, queued, retries, received, announced, sessions, late, provider>>

\* queryTask.  The bound on the polls stands for a provider that comes to an
\* end and can be reached then.
QueryTask(w) ==
    /\ At(w, "polling")
    /\ LET truth == {Remote} \cup (IF Remote = "SUCCEEDED" THEN Faults \cap {"missing"} ELSE {})
           answers == IF sessions[w].number < MaxPolls THEN truth \cup {"failed"}
                      ELSE truth \cap (Terminal \cup {"missing"})
       IN  \E answer \in answers :
               Goes(w, [sessions[w] EXCEPT !.at = "polled", !.answer = answer])
    /\ UNCHANGED <<exec, messages, received, announced, late, provider>>

HoldsPoll(w) ==
    /\ polls[sessions[w].number] = "sent" /\ exec.status \notin Terminal
    /\ exec.polls = sessions[w].number - 1
    /\ exec.poller = w /\ exec.polling

\* Mutant: the claim is given back and its lease left running.
Polled_LeaseStays(n, action) ==
    [exec EXCEPT !.polls = n, !.action = action, !.poller = None]

Polled(n, action) ==
    [exec EXCEPT !.polls = n, !.action = action, !.poller = None, !.polling = FALSE]

\* Mutant: no further poll is sent.
NextPoll_Last(n) == polls' = Done(polls, n)

NextPoll(n) == polls' = [polls EXCEPT ![n] = "done", ![n + 1] = "sent"]

\* The circuit is open, or the query failed: the next poll will see.
DeferPoll(w) ==
    /\ At(w, "polled") /\ sessions[w].answer = "failed" /\ HoldsPoll(w)
    /\ exec' = Polled(sessions[w].number, "POLL")
    /\ NextPoll(sessions[w].number)
    /\ Goes(w, Idle)
    /\ UNCHANGED <<queued, retries, received, announced, late, provider>>

\* Mutant: the status follows every answer.
Applies_Always(status, state) == TRUE

\* An answer older than what a callback has reported is not applied.
Applies(status, state) == state = "AMBIGUOUS" \/ Rank(state) >= Rank(status)

\* A success without results is ambiguous, and not polled again.
CompletePoll(w) ==
    /\ At(w, "polled") /\ sessions[w].answer # "failed" /\ HoldsPoll(w)
    /\ LET n == sessions[w].number
           state == IF sessions[w].answer = "missing" THEN "AMBIGUOUS" ELSE sessions[w].answer
           over == state \in Terminal \cup {"AMBIGUOUS"}
           row == Polled(n, IF over THEN "NONE" ELSE "POLL")
       IN  /\ IF Applies(exec.status, state)
              THEN /\ exec' = [row EXCEPT !.status = state]
                   /\ announced' = IF exec.status = state THEN announced
                                   ELSE announced \cup {state}
              ELSE exec' = row /\ UNCHANGED announced
           /\ IF over THEN polls' = Done(polls, n) ELSE NextPoll(n)
    /\ Goes(w, Idle)
    /\ UNCHANGED <<queued, retries, received, late, provider>>

\* STALE_POLL_CLAIM, or the execution is over.
LosePoll(w) ==
    /\ At(w, "polled") /\ ~HoldsPoll(w)
    /\ Goes(w, Idle)
    /\ UNCHANGED <<exec, messages, received, announced, late, provider>>

-----------------------------------------------------------------------------
(* Callbacks (PrismaCallbackRepository).  Callback i reports the provider's*)
(* i-th state under sequence i; one for an unknown task is answered 404.   *)

\* Mutant: a status that is final is overwritten.
Decision_Reopens(row, state, sequence) ==
    IF sequence <= row.seq THEN "OUT_OF_ORDER"
    ELSE IF row.status \notin Terminal /\ Rank(state) < Rank(row.status) THEN "STATE_REGRESSION"
    ELSE "APPLY"

Decision(row, state, sequence) ==
    IF sequence <= row.seq THEN "OUT_OF_ORDER"
    ELSE IF row.status \in Terminal THEN "TERMINAL_IGNORED"
    ELSE IF Rank(state) < Rank(row.status) THEN "STATE_REGRESSION"
    ELSE "APPLY"

Callback(i) ==
    /\ exec.known /\ i \in DOMAIN history \ received
    /\ received' = received \cup {i}
    /\ LET decision == Decision(exec, history[i], i)
           heard == IF decision = "OUT_OF_ORDER" THEN exec ELSE [exec EXCEPT !.seq = i]
           applied == [heard EXCEPT !.status = history[i]]
       IN  /\ exec' = IF decision # "APPLY" THEN heard
                      ELSE IF history[i] \in Terminal
                           THEN [applied EXCEPT !.action = "NONE", !.poller = None,
                                                !.polling = FALSE]
                           ELSE applied
           /\ announced' = IF decision = "APPLY" THEN announced \cup {history[i]} ELSE announced
    /\ UNCHANGED <<messages, sessions, late, provider>>

-----------------------------------------------------------------------------
(* Time, crashes, and the provider (external).                             *)

LeaseExpires ==
    /\ exec.live
    /\ exec' = [exec EXCEPT !.live = FALSE]
    /\ UNCHANGED <<messages, received, announced, sessions, late, provider>>

PollLeaseExpires ==
    /\ exec.polling
    /\ exec' = [exec EXCEPT !.polling = FALSE]
    /\ UNCHANGED <<messages, received, announced, sessions, late, provider>>

Drop(w) ==
    /\ sessions[w] # Idle
    /\ Goes(w, Idle)
    /\ UNCHANGED <<exec, messages, received, announced, late, provider>>

\* Calls bear the task id as idempotency key: the provider has one task.
Take(n) ==
    /\ calls[n] = "sent"
    /\ calls' = [calls EXCEPT ![n] = "taken"]
    /\ UNCHANGED <<exec, messages, received, announced, sessions, late, history>>

\* 429 or 5xx, which are retried, or another refusal.
Refuse(n) ==
    /\ calls[n] = "sent" /\ ~Taken
    /\ \E reason \in {"busy", "rejected"} : calls' = [calls EXCEPT ![n] = reason]
    /\ UNCHANGED <<exec, messages, received, announced, sessions, late, history>>

Progress ==
    /\ Taken /\ Remote \notin Terminal /\ Len(history) < MaxEvents
    /\ \E state \in Observable :
           /\ history = <<>> \/ Rank(state) > Rank(Remote)
           /\ Len(history) = MaxEvents - 1 => state \in Terminal
           /\ history' = Append(history, state)
    /\ UNCHANGED <<exec, messages, received, announced, sessions, late, calls>>

-----------------------------------------------------------------------------
Init ==
    /\ exec = [status |-> "NONE", first |-> None, attempt |-> 0, lease |-> 0,
               live |-> FALSE, action |-> "NONE", known |-> FALSE, polls |-> 0,
               poller |-> None, polling |-> FALSE, seq |-> 0]
    /\ queued = [m \in Queued |-> "sent"]
    /\ retries = [n \in 1..(MaxAttempts - 1) |-> "unsent"]
    /\ polls = [n \in 1..MaxPolls |-> "unsent"]
    /\ received = {} /\ announced = {}
    /\ sessions = [w \in Workers |-> Idle]
    /\ late = 0
    /\ calls = [n \in Attempts |-> "none"]
    /\ history = <<>>

Submission(w) ==
    \/ CreateTask(w) \/ CircuitRejects(w) \/ GetAnswer(w) \/ LoseAnswer(w)
    \/ Complete(w) \/ RecordCommitAmbiguity(w) \/ LoseAttempt(w)

Claim(w) ==
    \/ \E m \in Queued : Begin(w, m)
    \/ \E n \in DOMAIN retries : ClaimRetry(w, n)
    \/ \E n \in DOMAIN polls : ClaimPoll(w, n)

Redelivery ==
    \/ \E m \in Queued : RejectBinding(m) \/ DuplicateQueued(m) \/ RecoverQueued(m)
    \/ \E n \in DOMAIN retries : RecoverRetry(n)
    \/ \E n \in DOMAIN polls : PollTerminal(n)

Poll(w) == QueryTask(w) \/ DeferPoll(w) \/ CompletePoll(w) \/ LosePoll(w)

Provider == (\E n \in Attempts : Take(n) \/ Refuse(n)) \/ Progress

Next ==
    \/ \E w \in Workers : Claim(w) \/ Submission(w) \/ Poll(w) \/ Drop(w)
    \/ Redelivery
    \/ LateResult \/ LateLost
    \/ \E i \in 1..MaxEvents : Callback(i)
    \/ LeaseExpires \/ PollLeaseExpires
    \/ Provider

Spec == Init /\ [][Next]_vars

\* Messages are delivered until they are acknowledged, and the provider gets
\* through its tasks.  A query is given 30 seconds and its lease 60, so that
\* polls do not for ever meet a crash or lose their lease.
LiveSpec ==
    /\ Spec
    /\ \A w \in Workers : WF_vars(Claim(w)) /\ WF_vars(Submission(w))
    /\ \A w \in Workers : /\ WF_vars(Poll(w))
                          /\ SF_vars(exec.poller = w /\ exec.polling /\ QueryTask(w))
                          /\ SF_vars(DeferPoll(w) \/ CompletePoll(w))
    /\ WF_vars(Redelivery) /\ WF_vars(LeaseExpires) /\ WF_vars(PollLeaseExpires)
    /\ WF_vars(Provider)

-----------------------------------------------------------------------------
(* Correctness.                                                            *)

Statuses == {"NONE", "SUBMITTING", "RETRY_SCHEDULED", "AMBIGUOUS"} \cup Observable

MessageStates == {"unsent", "sent", "done"}

AnswerSet == Observable \cup {"busy", "rejected", "garbled", "missing", "network", "timeout",
                              "circuit open", "failed"}

Places == {"idle", "begun", "waiting", "answered", "polling", "polled"}

Rows ==
    [status : Statuses, first : Queued \cup {None}, attempt : 0..MaxAttempts,
     lease : 0..MaxAttempts, live : BOOLEAN,
     action : {"NONE", "CREATE_RETRY", "RECONCILE", "POLL"}, known : BOOLEAN,
     polls : 0..MaxPolls, poller : Workers \cup {None}, polling : BOOLEAN,
     seq : 0..MaxEvents]

Sessions ==
    [at : Places, number : Nat, msg : Queued \cup {None}, answer : AnswerSet \cup {None}]

\* Types; and a lease runs only for a claim that exists.
TypeOK ==
    /\ exec \in Rows
    /\ exec.live => exec.status = "SUBMITTING" /\ exec.lease = exec.attempt
    /\ exec.polling => exec.poller # None
    /\ queued \in [Queued -> MessageStates]
    /\ retries \in [1..(MaxAttempts - 1) -> MessageStates]
    /\ polls \in [1..MaxPolls -> MessageStates]
    /\ received \subseteq 1..MaxEvents
    /\ announced \subseteq Statuses
    /\ sessions \in [Workers -> Sessions]
    /\ late \in 0..MaxAttempts
    /\ calls \in [Attempts -> {"none", "sent", "taken", "busy", "rejected"}]
    /\ history \in Seq(Observable) /\ Len(history) <= MaxEvents

\* What is recorded as final is true: the provider's task came to that end,
\* or the provider was refused or never asked and has nothing on its way.
RecordedIsTrue ==
    exec.status \in Terminal =>
        IF exec.known THEN Taken /\ Remote = exec.status
        ELSE exec.status = "FAILED" /\ ~\E n \in Attempts : calls[n] \in {"sent", "taken"}

\* Generation hears of one end only, the one that is recorded.
EndAnnouncedOnce == announced \cap Terminal = {exec.status} \cap Terminal

\* While the row says that a poll will come, the message of that poll is in
\* the queue, and no other one is.
PollAwaited ==
    exec.action = "POLL" =>
        \A n \in DOMAIN polls : polls[n] = "sent" <=> n = exec.polls + 1

\* What was announced and what is queued are what the row says, whoever wrote
\* it last: a worker, a poll or a callback (prisma-lifecycle.repository.ts).
MessagesAgree == EndAnnouncedOnce /\ PollAwaited

\* No report takes an execution back: an end is final, and what was reached
\* is only left for an ambiguity.
NoRegression ==
    [][ /\ exec.status \in Terminal => exec'.status = exec.status
        /\ Rank(exec'.status) < Rank(exec.status) => exec'.status = "AMBIGUOUS" ]_vars

Verdicts == [NONE |-> "open", SUBMITTING |-> "open", RETRY_SCHEDULED |-> "open",
             AMBIGUOUS |-> "unknown", ACCEPTED |-> "watched", RUNNING |-> "watched"]

Bought ==
    IF Taken THEN "held"
    ELSE IF \E n \in Attempts : calls[n] = "sent" THEN "asked" ELSE "none"

Judged ==
    IF exec.status \notin Terminal THEN Verdicts[exec.status]
    ELSE IF exec.known THEN "over" ELSE "failed"

Purchase == INSTANCE ProviderPurchase WITH purchase <- Bought, verdict <- Judged

\* Attempts, redeliveries and late answers buy the task at most once, and
\* never after it was given up.
KeepsPurchase == Purchase!Spec

\* Every execution comes to an end or is left to an operator.
Concludes ==
    <>[](exec.status \notin {"NONE", "SUBMITTING", "RETRY_SCHEDULED"} /\ exec.action # "POLL")
=============================================================================
