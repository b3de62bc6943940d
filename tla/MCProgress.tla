----------------------------- MODULE MCProgress -----------------------------
(* Small instances of five services whose liveness TLC checks, in one run.  *)
(* They share nothing: a behaviour is one of a single service, `which',     *)
(* while the others rest in their initial states.                           *)
EXTENDS Integers

CONSTANTS c1, c2, w1, w2, o1, o2, t1, i1, i2, None

VARIABLES
    which,
    circuit, window, calls, healthy, overtaken,
    message, sms, attempt, worker, requests, provider,
    orders, created, callbacks, outbox, published, refunds, payers, channel,
    returned, credited, debited, balance,
    history, tabs, sessions, slots,
    transport, rows, queue, replicas, accepted, troubles

Circuit == INSTANCE ProviderCircuit WITH
    Calls <- {c1, c2}, Reliable <- {c1}, MinimumFailures <- 2, MaxSamples <- 3

Sms == INSTANCE Notifications WITH
    Workers <- {w1, w2}, Reliable <- {w1}, MaxAttempts <- 2, MaxDeliveries <- 2

\* A worker that recovers two paid orders.
Payments == INSTANCE RechargeOrders WITH
    Orders <- {o1, o2}, RefundNos <- {}, Workers <- {w1}, Points <- 1,
    BatchSize <- 2, GatewayFails <- FALSE, Mismatches <- FALSE, sessions <- payers

\* A tab that may fail over to polling.
Events == INSTANCE TaskEvents WITH
    Tabs <- {t1}, Sessions <- {i1, i2}, MaxConnections <- 1, MaxVersions <- 6

\* A row that is always rejected can fill the selection.
Outbox == INSTANCE OutboxDispatch WITH
    EventIds <- {o1, o2}, Poison <- {o2}, Replicas <- {w1, w2}, BatchSize <- 1,
    MaxAttempts <- 2, MaxTroubles <- 2

circuitVars == <<circuit, window, calls, healthy, overtaken>>
smsVars == <<message, sms, attempt, worker, requests, provider>>
orderVars == <<orders, created, callbacks, outbox, published, refunds, payers, channel,
               returned, credited, debited, balance>>

eventVars == <<history, tabs, sessions, slots>>
outboxVars == <<transport, rows, queue, replicas, accepted, troubles>>

vars == <<which, circuitVars, smsVars, orderVars, eventVars, outboxVars>>

Init ==
    /\ which \in {"circuit", "sms", "payments", "events", "outbox"}
    /\ Circuit!Init /\ Sms!Init /\ Payments!Init /\ Events!Init /\ Outbox!Init
    /\ which # "outbox" => transport = "leased"

Next ==
    \/ which = "circuit" /\ Circuit!Next
          /\ UNCHANGED <<which, smsVars, orderVars, eventVars, outboxVars>>
    \/ which = "sms" /\ Sms!Next
          /\ UNCHANGED <<which, circuitVars, orderVars, eventVars, outboxVars>>
    \/ which = "payments" /\ Payments!Next
          /\ UNCHANGED <<which, circuitVars, smsVars, eventVars, outboxVars>>
    \/ which = "events" /\ Events!Next
          /\ UNCHANGED <<which, circuitVars, smsVars, orderVars, outboxVars>>
    \/ which = "outbox" /\ Outbox!Next
          /\ UNCHANGED <<which, circuitVars, smsVars, orderVars, eventVars>>

\* What each service's scheduling guarantees.
Fairness ==
    \/ which = "circuit" /\ Circuit!Fairness
    \/ which = "sms" /\ Sms!Fairness
    \/ which = "payments" /\ Payments!Fairness
    \/ which = "events" /\ Events!Fairness
    \/ which = "outbox" /\ Outbox!Fairness

Spec == Init /\ [][Next]_vars /\ Fairness

-----------------------------------------------------------------------------
\* A provider that has recovered is used again (circuit-breaker.ts, acquire).
Recovers == Circuit!Recovers

\* An accepted event is delivered or handed to an operator
\* (notification.consumer.ts, runOnce).
SmsResolves == Sms!SmsResolves

\* Paid orders reach the wallet (payment.service.ts, drainPendingWalletCredits).
PaidIsCredited == Payments!PaidIsCredited

\* A tab that follows a task shows its end (task-status.tsx).
EndIsShown == Events!EndIsShown

\* What a service has committed reaches the broker
\* (operations-outbox.dispatcher.ts, http-outbox-transport.ts).
EventsArrive == Outbox!EventsArrive
=============================================================================
