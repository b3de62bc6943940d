--------------------------- MODULE RechargeOrders ---------------------------
(***************************************************************************)
(* Recharge orders (services/payment-service): the channel's callback and  *)
(* the recovery of stale orders settle an order through one transaction,   *)
(* whose outbox event is turned into a wallet credit at once or by the     *)
(* drain worker; refunds return the money at the channel and then take the *)
(* points back.                                                            *)
(*                                                                         *)
(* A transaction or statement of the repository, a call of the gateway and *)
(* a call of the wallet are one step each.  A worker may die, or lose an   *)
(* answer, between any two.  Certificates, signatures and the daily        *)
(* reconciliation, which only reports, are left out.  Time appears as the  *)
(* order in which orders were created and paid.  One user owns all orders, *)
(* so that a refund competes with whatever else the points were spent on.  *)
(***************************************************************************)
EXTENDS Integers, Sequences, FiniteSets

CONSTANTS
    Orders,
    RefundNos,      \* refund numbers the operators choose
    Workers,        \* concurrent requests and interval workers
    Points,         \* points of every package
    BatchSize,      \* recoveryBatchSize
    GatewayFails,   \* the channel may fail to create an order
    Mismatches,     \* the channel may hold a payment of another amount
    None

ASSUME NumbersAssumption == {Points, BatchSize} \subseteq Nat \ {0}
ASSUME SwitchesAssumption == {GatewayFails, Mismatches} \subseteq BOOLEAN

Statuses == {"PENDING", "PAID", "REFUNDED"}

RefundOrders ==
    [order : Orders, status : {"PENDING", "PROCESSING", "SUCCEEDED", "FAILED"}]

ASSUME NoneAssumption == None \notin RefundNos \cup Statuses \cup RefundOrders

VARIABLES
    orders,     \* orders[o]: PaymentOrder.status, or None
    created,    \* the orders by createdAt
    callbacks,  \* callbacks[o]: the body kept in PaymentCallback, or None
    outbox,     \* orders with a payment.paid.v1 event, by occurredAt
    published,  \* those whose event has publishedAt
    refunds,    \* refunds[n]: the RefundOrder with number n, or None
    sessions,   \* sessions[w]: what worker w is doing
    channel,    \* channel[o]: the order at the channel
    returned,   \* returned[o]: the refund number that returned the money
    credited,   \* orders the wallet has credited
    debited,    \* refund numbers the wallet has debited
    balance     \* available points of the user

books == <<orders, created, callbacks, outbox, published>>
external == <<channel, returned>>
wallet == <<credited, debited, balance>>
vars == <<books, refunds, sessions, external, wallet>>

-----------------------------------------------------------------------------
Idle == [job |-> "none", at |-> "idle", order |-> None, rest |-> {}, refund |-> None]

At(w, place) == sessions[w].at = place

Order(w) == sessions[w].order

Goes(w, s) == sessions' = [sessions EXCEPT ![w] = s]

To(w, place) == Goes(w, [sessions[w] EXCEPT !.at = place])

\* Order p stands before order o in the line of its age.
Before(line, p, o) ==
    \E i, j \in 1..Len(line) : i < j /\ line[i] = p /\ line[j] = o

\* A query ordered by age with `take: limit'.
Oldest(line, S) == {o \in S : Cardinality({p \in S : Before(line, p, o)}) < BatchSize}

\* The drain goes by occurredAt, everything else by createdAt.
Line(job) == IF job = "drain" THEN outbox ELSE created

\* Mutant: the drain asks the channel again.
FirstPlace_Query(job) == IF job = "callback" THEN "credit" ELSE "query"

\* Where the work on an order begins.
FirstPlace(job) == IF job = "recover" THEN "query" ELSE "credit"

\* Worker w turns to the oldest order of todo; the rest have to wait.
Takes(w, job, todo) ==
    \E o \in todo :
        /\ \A p \in todo : ~Before(Line(job), p, o)
        /\ Goes(w, [job |-> job, at |-> FirstPlace(job), order |-> o,
                    rest |-> todo \ {o}, refund |-> None])

Start(w, job, todo) == sessions[w] = Idle /\ Takes(w, job, todo)

\* The next order of the pass, if any.
Continues(w) ==
    IF sessions[w].rest = {} THEN Goes(w, Idle)
    ELSE Takes(w, sessions[w].job, sessions[w].rest)

\* An error ends a request and a recovery; the drain goes on.
Fails(w) ==
    IF sessions[w].job = "drain" THEN Continues(w) ELSE Goes(w, Idle)

-----------------------------------------------------------------------------
(* Orders, and the money at the channel (external).                        *)

CreateOrder(o) ==
    /\ orders[o] = None
    /\ orders' = [orders EXCEPT ![o] = "PENDING"]
    /\ created' = Append(created, o)
    /\ \/ channel' = [channel EXCEPT ![o] = "open"]
       \/ GatewayFails /\ UNCHANGED channel
    /\ UNCHANGED <<callbacks, outbox, published, refunds, sessions, returned, wallet>>

Pay(o) ==
    /\ channel[o] = "open"
    /\ \/ channel' = [channel EXCEPT ![o] = "paid"]
       \/ Mismatches /\ channel' = [channel EXCEPT ![o] = "mismatched"]
    /\ UNCHANGED <<books, refunds, sessions, returned, wallet>>

\* What else the user spends points on.
Spend ==
    /\ balance > 0
    /\ balance' = balance - 1
    /\ UNCHANGED <<books, refunds, sessions, external, credited, debited>>

-----------------------------------------------------------------------------
(* Settlement.                                                             *)

\* Mutant: the amount of the payment is not compared with the order's.
AcceptPayment_AnyAmount(o, body) ==
    /\ callbacks[o] = None /\ channel[o] \in {"paid", "mismatched"} /\ orders[o] = "PENDING"
    /\ orders' = [orders EXCEPT ![o] = "PAID"]
    /\ callbacks' = [callbacks EXCEPT ![o] = body]
    /\ outbox' = Append(outbox, o)
    /\ UNCHANGED <<created, published>>

\* acceptPayment of a payment that was not known yet.
AcceptPayment(o, body) ==
    /\ callbacks[o] = None /\ channel[o] = "paid" /\ orders[o] = "PENDING"
    /\ orders' = [orders EXCEPT ![o] = "PAID"]
    /\ callbacks' = [callbacks EXCEPT ![o] = body]
    /\ outbox' = Append(outbox, o)
    /\ UNCHANGED <<created, published>>

\* acceptPayment throws: another body of a known payment, or a mismatch.
RefusesPayment(o, body) ==
    IF callbacks[o] # None THEN callbacks[o] # body ELSE channel[o] = "mismatched"

\* A callback that is repeated or refused changes nothing.
Callback(w, o) ==
    /\ Start(w, "callback", {o})
    /\ AcceptPayment(o, "CALLBACK")
    /\ UNCHANGED <<refunds, external, wallet>>

\* findPendingBefore; any order may be older than two minutes by now.
RecoverStalePending(w) ==
    /\ Start(w, "recover", Oldest(created, {o \in Orders : orders[o] = "PENDING"}))
    /\ UNCHANGED <<books, refunds, external, wallet>>

\* queryOrder, and settle of what it found; whatever is thrown ends the pass.
QueryOrder(w) ==
    /\ At(w, "query")
    /\ LET o == Order(w)
           found == channel[o] \in {"paid", "mismatched"} /\ returned[o] = None
       IN  \/ /\ found /\ AcceptPayment(o, "ACTIVE_QUERY")
              /\ To(w, "credit")
           \/ /\ IF found THEN callbacks[o] = "ACTIVE_QUERY" ELSE channel[o] # "absent"
              /\ Continues(w)
              /\ UNCHANGED books
           \/ /\ IF found THEN RefusesPayment(o, "ACTIVE_QUERY") ELSE channel[o] = "absent"
              /\ Fails(w)
              /\ UNCHANGED books
    /\ UNCHANGED <<refunds, external, wallet>>

\* There is a payment.paid.v1 event for o.
IsAnnounced(o) == \E i \in 1..Len(outbox) : outbox[i] = o

\* listPendingWalletCredits.
DrainPendingWalletCredits(w) ==
    /\ Start(w, "drain",
             Oldest(outbox, {o \in Orders : IsAnnounced(o) /\ o \notin published}))
    /\ UNCHANGED <<books, refunds, external, wallet>>

\* The wallet credits an order once (external); its answer may be lost.
Credited(o) ==
    /\ credited' = credited \cup {o}
    /\ balance' = IF o \in credited THEN balance ELSE balance + Points
    /\ UNCHANGED debited

\* Mutant: an error of the wallet is swallowed and the event published.
CreditWallet_Swallowed(w) ==
    /\ At(w, "credit")
    /\ \/ Credited(Order(w)) /\ To(w, "publish")
       \/ UNCHANGED wallet /\ To(w, "publish")
    /\ UNCHANGED <<books, refunds, external>>

CreditWallet(w) ==
    /\ At(w, "credit")
    /\ \/ Credited(Order(w)) /\ (To(w, "publish") \/ Fails(w))
       \/ UNCHANGED wallet /\ Fails(w)
    /\ UNCHANGED <<books, refunds, external>>

MarkWalletCreditPublished(w) ==
    /\ At(w, "publish")
    /\ \/ published' = published \cup {Order(w)} /\ (Continues(w) \/ Fails(w))
       \/ UNCHANGED published /\ Fails(w)
    /\ UNCHANGED <<orders, created, callbacks, outbox, refunds, external, wallet>>

-----------------------------------------------------------------------------
(* Refunds.                                                                *)

Refund(w) == sessions[w].refund

SetStatus(n, s) == refunds' = [refunds EXCEPT ![n].status = s]

\* createOrGetRefund, for an order that is PAID or already REFUNDED.
RequestRefund(w, n, o) ==
    /\ sessions[w] = Idle
    /\ orders[o] \in {"PAID", "REFUNDED"}
    /\ \/ /\ refunds[n] = None
          /\ refunds' = [refunds EXCEPT ![n] = [order |-> o, status |-> "PENDING"]]
       \/ /\ refunds[n] # None
          /\ refunds[n].order = o /\ refunds[n].status # "SUCCEEDED"
          /\ UNCHANGED refunds
    /\ Goes(w, [job |-> "refund", at |-> "processing", order |-> o, rest |-> {},
               refund |-> n])
    /\ UNCHANGED <<books, external, wallet>>

MarkRefundProcessing(w) ==
    /\ At(w, "processing")
    /\ \/ SetStatus(Refund(w), "PROCESSING") /\ (To(w, "gateway") \/ To(w, "failing"))
       \/ UNCHANGED refunds /\ To(w, "failing")
    /\ UNCHANGED <<books, external, wallet>>

\* The channel returns the money of an order once, however often it is asked
\* under that number (external); its answer may be lost.
GatewayRefund(w) ==
    /\ At(w, "gateway")
    /\ \/ /\ returned[Order(w)] \in {None, Refund(w)}
          /\ returned' = [returned EXCEPT ![Order(w)] = Refund(w)]
          /\ To(w, "wallet") \/ To(w, "failing")
       \/ UNCHANGED returned /\ To(w, "failing")
    /\ UNCHANGED <<books, refunds, channel, wallet>>

\* The wallet debits a refund once, when the points are there (external).
Debited(n) ==
    /\ n \in debited \/ balance >= Points
    /\ debited' = debited \cup {n}
    /\ balance' = IF n \in debited THEN balance ELSE balance - Points
    /\ UNCHANGED credited

\* Mutant: the refund is completed although the points were not there.
CompensateRefund_Swallowed(w) ==
    /\ At(w, "wallet")
    /\ Debited(Refund(w)) \/ UNCHANGED wallet
    /\ To(w, "complete")
    /\ UNCHANGED <<books, refunds, external>>

CompensateRefund(w) ==
    /\ At(w, "wallet")
    /\ \/ Debited(Refund(w)) /\ (To(w, "complete") \/ To(w, "failing"))
       \/ UNCHANGED wallet /\ To(w, "failing")
    /\ UNCHANGED <<books, refunds, external>>

CompleteRefund(w) ==
    /\ At(w, "complete")
    /\ \/ /\ SetStatus(Refund(w), "SUCCEEDED")
          /\ orders' = IF refunds[Refund(w)].status = "SUCCEEDED" THEN orders
                       ELSE [orders EXCEPT ![Order(w)] = "REFUNDED"]
          /\ Goes(w, Idle) \/ To(w, "failing")
       \/ UNCHANGED <<refunds, orders>> /\ To(w, "failing")
    /\ UNCHANGED <<created, callbacks, outbox, published, external, wallet>>

MarkRefundFailed(w) ==
    /\ At(w, "failing")
    /\ SetStatus(Refund(w), "FAILED")
    /\ Goes(w, Idle)
    /\ UNCHANGED <<books, external, wallet>>

\* The process dies, or an error is thrown after the transaction committed.
Crash(w) ==
    /\ sessions[w] # Idle
    /\ Goes(w, Idle)
    /\ UNCHANGED <<books, refunds, external, wallet>>

-----------------------------------------------------------------------------
Init ==
    /\ orders = [o \in Orders |-> None]
    /\ created = <<>>
    /\ callbacks = [o \in Orders |-> None]
    /\ outbox = <<>>
    /\ published = {}
    /\ refunds = [n \in RefundNos |-> None]
    /\ sessions = [w \in Workers |-> Idle]
    /\ channel = [o \in Orders |-> "absent"]
    /\ returned = [o \in Orders |-> None]
    /\ credited = {}
    /\ debited = {}
    /\ balance = 0

RefundStep(w) ==
    \/ MarkRefundProcessing(w)
    \/ GatewayRefund(w)
    \/ CompensateRefund(w)
    \/ CompleteRefund(w)
    \/ MarkRefundFailed(w)

Next ==
    \/ \E o \in Orders : CreateOrder(o) \/ Pay(o)
    \/ Spend
    \/ \E w \in Workers :
          \/ \E o \in Orders : Callback(w, o)
          \/ RecoverStalePending(w)
          \/ QueryOrder(w)
          \/ DrainPendingWalletCredits(w)
          \/ CreditWallet(w)
          \/ MarkWalletCreditPublished(w)
          \/ \E n \in RefundNos, o \in Orders : RequestRefund(w, n, o)
          \/ RefundStep(w)
          \/ Crash(w)

Spec == Init /\ [][Next]_vars

\* The intervals keep starting passes, and a step that is tried again and
\* again succeeds in the end: the wallet, the channel and the database are
\* not down for ever, nor does the process always die at the same place.  A
\* request goes on until it ends or its process dies.
Fairness ==
    /\ \A w \in Workers :
          /\ SF_vars(RecoverStalePending(w))
          /\ SF_vars(DrainPendingWalletCredits(w))
          /\ WF_vars(RefundStep(w) \/ Crash(w))
    /\ \A w \in Workers, o \in Orders :
          /\ SF_vars(Order(w) = o /\ QueryOrder(w))
          /\ SF_vars(Order(w) = o /\ CreditWallet(w) /\ sessions'[w].at = "publish")
          /\ SF_vars(Order(w) = o /\ MarkWalletCreditPublished(w) /\ o \in published')

LiveSpec == Spec /\ Fairness

-----------------------------------------------------------------------------
Pass == {"credit", "publish"}

Sessions ==
    {Idle}
    \cup [job : {"recover"}, at : {"query"} \cup Pass,
          order : Orders, rest : SUBSET Orders, refund : {None}]
    \cup [job : {"drain"}, at : Pass,
          order : Orders, rest : SUBSET Orders, refund : {None}]
    \cup [job : {"callback"}, at : Pass,
          order : Orders, rest : {{}}, refund : {None}]
    \cup [job : {"refund"}, at : {"processing", "gateway", "wallet", "complete", "failing"},
          order : Orders, rest : {{}}, refund : RefundNos]

TypeOK ==
    /\ orders \in [Orders -> Statuses \cup {None}]
    /\ created \in Seq(Orders)
    /\ callbacks \in [Orders -> {"CALLBACK", "ACTIVE_QUERY", None}]
    /\ outbox \in Seq(Orders)
    /\ published \subseteq Orders
    /\ refunds \in [RefundNos -> RefundOrders \cup {None}]
    /\ sessions \in [Workers -> Sessions]
    /\ channel \in [Orders -> {"absent", "open", "paid", "mismatched"}]
    /\ returned \in [Orders -> RefundNos \cup {None}]
    /\ credited \subseteq Orders
    /\ debited \subseteq RefundNos
    /\ balance \in Nat

\* Every order that was paid has exactly one payment.paid.v1 event (runbook
\* wallet-payment 4), and an event that is published was credited: no death
\* between the transaction and the wallet loses the points.
PaidIsAnnounced ==
    /\ \A o \in Orders :
           orders[o] \in {"PAID", "REFUNDED"} <=> IsAnnounced(o)
    /\ \A i, j \in 1..Len(outbox) : outbox[i] = outbox[j] => i = j
    /\ published \subseteq credited

\* The wallet is debited only for money the channel has returned under the
\* same number, so once per order, and a refund is only marked as succeeded
\* when both were done (runbook wallet-payment 7).
RefundMovesBoth ==
    /\ \A n \in debited : returned[refunds[n].order] = n
    /\ \A n \in RefundNos :
           refunds[n] # None /\ refunds[n].status = "SUCCEEDED" => n \in debited

Sale == INSTANCE PointsSale WITH
    received <- {o \in Orders : channel[o] = "paid"},
    given    <- credited,
    returned <- {o \in Orders : returned[o] # None},
    taken    <- {refunds[n].order : n \in debited},
    closed   <- {o \in Orders : orders[o] = "REFUNDED"}

\* Orders, refunds and wallet together sell points as PointsSale promises.
KeepsSale == Sale!Spec

\* A payment the channel holds is credited, even if its callback is lost and
\* workers die: by the recovery of pending orders and by the drain (plan ws12
\* task 5: pending orders older than two minutes are queried).
PaidIsCredited == \A o \in Orders : channel[o] = "paid" ~> o \in credited
=============================================================================
