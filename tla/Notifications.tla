---------------------------- MODULE Notifications ----------------------------
(***************************************************************************)
(* One event that asks for an SMS (services/notification-service): the     *)
(* consumer accepts it and creates the notification, and workers send the  *)
(* SMS under a claim with a lease or look its receipt up.  A claim, a call *)
(* of the provider and the write of its outcome are steps of their own; a  *)
(* worker may stall or stop at any of them, and a write may fail.  A       *)
(* request may reach the provider long after the worker has given it up.   *)
(* Backoff only delays a claim and is left out.  NOT_ACCEPTED is an answer *)
(* that no adapter in the repository gives, and confirmNotAccepted is left *)
(* out with it.                                                            *)
(***************************************************************************)
EXTENDS Integers

CONSTANTS
    Workers,        \* loops of NotificationWorkerRunner
    Reliable,       \* those that are never stopped
    MaxAttempts,    \* of sending, and of looking up
    MaxDeliveries,  \* maxDeliveryAttempts of the consumer
    None

VARIABLES
    message,    \* the event at the broker
    sms,        \* the Notification row of channel SMS, or None
    attempt,    \* claimToken of its unfinished DeliveryAttempt, or None
    worker,     \* worker[w]: the call of runOnce by w
    requests,   \* requests to send that have left and are not answered
    provider    \* what the provider holds for this notification

vars == <<message, sms, attempt, worker, requests, provider>>

\* The Notification row.
Statuses == {"PENDING", "RECONCILING", "RETRY_PENDING", "OPERATOR_REVIEW", "DELIVERED"}

Receipts == {"ACCEPTED", "UNKNOWN_ACCEPTANCE", "PENDING", "DELIVERED"}

Rows == [status : Statuses, claim : Workers \cup {None}, lapsed : BOOLEAN,
         receipt : Receipts \cup {None}, attempts : Nat, rechecks : Nat]

Distinct == MaxAttempts \in Nat /\ None \notin Workers \cup Receipts \cup Rows

-----------------------------------------------------------------------------
(* Rocketmq consumer: handle, then ack, nack, or publishDlq and ack.  The  *)
(* outcome of the runOnce inside handle is a failure like any other.       *)

Receive ==
    /\ message.at = "queued"
    /\ message' = [message EXCEPT !.at = "handling", !.deliveries = @ + 1]
    /\ UNCHANGED <<sms, attempt, worker, requests, provider>>

NewSms == [status |-> "PENDING", claim |-> None, lapsed |-> FALSE, receipt |-> None,
           attempts |-> 0, rechecks |-> 0]

\* acceptEvent, in one transaction with the processedEvent.
AcceptEvent ==
    /\ message.at = "handling" /\ sms = None
    /\ sms' = NewSms
    /\ message' = [message EXCEPT !.at = "accepted"]
    /\ UNCHANGED <<attempt, worker, requests, provider>>

Ack ==
    /\ message.at \in {"handling", "accepted"} /\ sms # None
    /\ message' = [message EXCEPT !.at = "acked"]
    /\ UNCHANGED <<sms, attempt, worker, requests, provider>>

\* LEASE_LOST is the only error that says it is retryable.  It is thrown by
\* the worker, after the event was accepted.
Nack ==
    /\ message.at = "accepted"
    /\ message.deliveries < MaxDeliveries
    /\ message' = [message EXCEPT !.at = "queued"]
    /\ UNCHANGED <<sms, attempt, worker, requests, provider>>

\* Any other error: of a template, the key service or the database.
DeadLetter ==
    /\ message.at \in {"handling", "accepted"}
    /\ message' = [message EXCEPT !.at = "dead"]
    /\ UNCHANGED <<sms, attempt, worker, requests, provider>>

\* The consumer stops, or the broker does not hear from it in time.
Redeliver ==
    /\ message.at \in {"handling", "accepted"}
    /\ message.deliveries < MaxDeliveries
    /\ message' = [message EXCEPT !.at = "queued"]
    /\ UNCHANGED <<sms, attempt, worker, requests, provider>>

-----------------------------------------------------------------------------
(* claim_next_notification.                                                *)

Idle == [at |-> "idle", rejected |-> FALSE]

Goes(w, at) == worker' = [worker EXCEPT ![w] = [Idle EXCEPT !.at = at]]

AtMost(n) == IF n < MaxAttempts THEN n ELSE MaxAttempts

\* Mutant: what a worker left half way is not claimed again.
Claimable_Released ==
    \/ sms.status \in {"PENDING", "RETRY_PENDING"}
    \/ sms.status = "RECONCILING" /\ sms.claim = None

Claimable ==
    \/ sms.status \in {"PENDING", "RETRY_PENDING"}
    \/ sms.status = "RECONCILING" /\ (sms.claim = None \/ sms.lapsed)

Claimed(w) ==
    LET claimed == [sms EXCEPT !.status = "RECONCILING", !.claim = w, !.lapsed = FALSE]
    IN  IF sms.status = "RECONCILING"
        THEN [claimed EXCEPT !.rechecks = AtMost(@ + 1)]
        ELSE [claimed EXCEPT !.attempts = AtMost(@ + 1)]

\* Mutant: an attempt that was never finished is taken for one never made.
Mode_Forgets == IF sms.receipt = None THEN "SEND" ELSE "RECONCILE"

Mode == IF attempt = None /\ sms.receipt = None THEN "SEND" ELSE "RECONCILE"

\* The attempt row is created, or taken over with the new claim.
Claim(w) ==
    /\ worker[w].at = "idle" /\ sms # None
    /\ Claimable
    /\ sms' = Claimed(w)
    /\ attempt' = w
    /\ Goes(w, Mode)
    /\ UNCHANGED <<message, requests, provider>>

\* The phone number cannot be decrypted.
ClaimUnreadable(w) ==
    /\ worker[w].at = "idle" /\ sms # None
    /\ Claimable
    /\ sms' = [Claimed(w) EXCEPT !.status = "OPERATOR_REVIEW", !.claim = None]
    /\ attempt' = None
    /\ UNCHANGED <<message, worker, requests, provider>>

-----------------------------------------------------------------------------
(* The provider (external).  A receipt is found by the notification's id.  *)

Waiting == provider = [accepted |-> 0, state |-> None]

Send(w) ==
    /\ worker[w].at = "SEND"
    /\ requests' = requests \cup {w}
    /\ Goes(w, "sending")
    /\ UNCHANGED <<message, sms, attempt, provider>>

\* sendSms arrives.  A worker that still waits for it hears of it, or not.
Accept(w) ==
    /\ w \in requests
    /\ requests' = requests \ {w}
    /\ provider' = [accepted |-> provider.accepted + 1, state |-> "PENDING"]
    /\ IF worker[w].at = "sending"
       THEN Goes(w, "accepted") \/ Goes(w, "unknown")
       ELSE UNCHANGED worker
    /\ UNCHANGED <<message, sms, attempt>>

\* A code that is not OK: the SMS was not accepted, and will not be.
Reject(w) ==
    /\ w \in requests
    /\ requests' = requests \ {w}
    /\ IF worker[w].at = "sending"
       THEN \/ \E permanent \in BOOLEAN :
                   worker' = [worker EXCEPT ![w] = [at |-> "rejected", rejected |-> permanent]]
            \/ Goes(w, "unknown")
       ELSE UNCHANGED worker
    /\ UNCHANGED <<message, sms, attempt, provider>>

\* The deadline of the call, or the connection is lost.
GiveUp(w) ==
    /\ worker[w].at = "sending"
    /\ Goes(w, "unknown")
    /\ requests' = requests \ {w} \/ UNCHANGED requests
    /\ UNCHANGED <<message, sms, attempt, provider>>

\* assertApproved refuses before any call.
RefuseLocally(w) ==
    /\ worker[w].at = "SEND"
    /\ worker' = [worker EXCEPT ![w] = [at |-> "rejected", rejected |-> TRUE]]
    /\ UNCHANGED <<message, sms, attempt, requests, provider>>

Report ==
    /\ provider.state = "PENDING"
    /\ \E state \in {"DELIVERED", "FAILED"} : provider' = [provider EXCEPT !.state = state]
    /\ UNCHANGED <<message, sms, attempt, worker, requests>>

\* reconcile; an SMS that is not found is PENDING as well.  A transient error
\* is handled as PENDING is, a permanent one as FAILED.
Reconcile(w) ==
    /\ worker[w].at = "RECONCILE"
    /\ Goes(w, IF provider.state = None THEN "PENDING" ELSE provider.state)
       \/ Goes(w, "PENDING")
       \/ Goes(w, "FAILED")
    /\ UNCHANGED <<message, sms, attempt, requests, provider>>

-----------------------------------------------------------------------------
(* The outcome is written under the claim, and finishes the attempt; a     *)
(* lost lease writes nothing, and neither does a failing database.         *)

HasAnswer(w) ==
    worker[w].at \in {"accepted", "unknown", "rejected", "PENDING", "FAILED", "DELIVERED"}

Holds(w) == sms.status = "RECONCILING" /\ sms.claim = w

Released(status) == [sms EXCEPT !.status = status, !.claim = None, !.lapsed = FALSE]

Receipt(r) == [Released("RECONCILING") EXCEPT !.receipt = r]

\* The row after the outcome of w: accepted, unknownAcceptance,
\* handleProviderFailure, reconciliationPending, operatorReview or complete.
Outcome(w) ==
    CASE worker[w].at = "accepted" -> Receipt("ACCEPTED")
      [] worker[w].at = "unknown" -> Receipt("UNKNOWN_ACCEPTANCE")
      [] worker[w].at = "rejected" ->
             Released(IF worker[w].rejected \/ sms.attempts >= MaxAttempts
                      THEN "OPERATOR_REVIEW" ELSE "RETRY_PENDING")
      [] worker[w].at = "PENDING" ->
             IF sms.rechecks >= MaxAttempts THEN Released("OPERATOR_REVIEW")
             ELSE Receipt("PENDING")
      [] worker[w].at = "FAILED" -> Released("OPERATOR_REVIEW")
      [] worker[w].at = "DELIVERED" -> [Released("DELIVERED") EXCEPT !.receipt = "DELIVERED"]

Settle(w) ==
    /\ HasAnswer(w) /\ Holds(w)
    /\ sms' = Outcome(w)
    /\ attempt' = None
    /\ Goes(w, "idle")
    /\ UNCHANGED <<message, requests, provider>>

\* LEASE_LOST, or the write fails; the loop goes on with the next tick.
SettleNothing(w) ==
    /\ HasAnswer(w)
    /\ Goes(w, "idle")
    /\ UNCHANGED <<message, sms, attempt, requests, provider>>

\* The process is killed; what it sent is on its way all the same.
Stop(w) ==
    /\ w \notin Reliable
    /\ worker[w].at # "idle"
    /\ Goes(w, "idle")
    /\ UNCHANGED <<message, sms, attempt, requests, provider>>

LeaseEnds ==
    /\ sms # None /\ sms.claim # None /\ ~sms.lapsed
    /\ sms' = [sms EXCEPT !.lapsed = TRUE]
    /\ UNCHANGED <<message, attempt, worker, requests, provider>>

-----------------------------------------------------------------------------
Init ==
    /\ message = [at |-> "queued", deliveries |-> 0]
    /\ sms = None
    /\ attempt = None
    /\ worker = [w \in Workers |-> Idle]
    /\ requests = {}
    /\ Waiting

Consume == Receive \/ AcceptEvent \/ Ack \/ Nack \/ DeadLetter \/ Redeliver

Work(w) ==
    \/ Claim(w)
    \/ ClaimUnreadable(w)
    \/ Send(w)
    \/ RefuseLocally(w)
    \/ GiveUp(w)
    \/ Reconcile(w)
    \/ Settle(w)
    \/ SettleNothing(w)

Next ==
    \/ Consume
    \/ \E w \in Workers : Work(w) \/ Stop(w) \/ Accept(w) \/ Reject(w)
    \/ Report
    \/ LeaseEnds

Spec == Init /\ [][Next]_vars

\* The broker keeps delivering, and one loop keeps ticking; of its claims, its
\* lookups and the writes of their outcomes some come within a lease (a lookup
\* takes 20 seconds, a lease 30).  Nothing is asked of the provider.
Fairness ==
    /\ WF_vars(Consume)
    /\ WF_vars(LeaseEnds)
    /\ \A w \in Reliable :
          /\ WF_vars(Work(w))
          /\ SF_vars(Claim(w))
          /\ SF_vars(Reconcile(w) /\ Holds(w))
          /\ SF_vars(Settle(w))

LiveSpec == Spec /\ Fairness

-----------------------------------------------------------------------------
\* The provider accepts one SMS for an event at most: not after a timeout, a
\* lost answer, a claim that has passed to another worker, or a redelivery.
SmsOnce == provider.accepted <= 1

\* An event that was accepted ends with an SMS that is delivered or that an
\* operator is asked to look at, whoever stops with a claim.
SmsResolves ==
    sms # None ~> sms # None /\ sms.status \in {"DELIVERED", "OPERATOR_REVIEW"}
=============================================================================
