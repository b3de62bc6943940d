----------------------- MODULE RechargeOrders_proofs ------------------------
(***************************************************************************)
(* What holds of RechargeOrders for any number of orders, refund numbers   *)
(* and workers, whatever answers are lost and whichever workers die.       *)
(***************************************************************************)
EXTENDS RechargeOrders, SequenceTheorems, TLAPS

\* The money of order o was accepted.
Settled(o) == orders[o] \in {"PAID", "REFUNDED"}

-----------------------------------------------------------------------------
(* The inductive invariant.                                                *)

\* What the order, the outbox, the channel and the wallet know of a payment.
Payments ==
    /\ \A o \in Orders : Settled(o) <=> IsAnnounced(o)
    /\ \A i, j \in 1..Len(outbox) : outbox[i] = outbox[j] => i = j
    /\ \A o \in Orders : Settled(o) => channel[o] = "paid"
    /\ \A o \in Orders : orders[o] = None => channel[o] = "absent"
    /\ \A o \in credited : Settled(o)
    /\ published \subseteq credited

\* A refund's trail: the row, the money at the channel, the points, the order.
Trails ==
    /\ \A o \in Orders : returned[o] # None =>
           /\ refunds[returned[o]] # None /\ refunds[returned[o]].order = o
           /\ Settled(o)
    /\ \A n \in debited : refunds[n] # None /\ returned[refunds[n].order] = n
    /\ \A n \in RefundNos :
           refunds[n] # None /\ refunds[n].status = "SUCCEEDED" => n \in debited
    /\ \A o \in Orders :
           orders[o] = "REFUNDED" => \E n \in debited : refunds[n].order = o

\* What a worker in state s, between two steps, may rely on.
Trusts(s) ==
    /\ s.at \notin {"idle", "query"} => Settled(s.order)
    /\ s.job = "drain" => \A o \in s.rest : Settled(o)
    /\ s.at = "publish" => s.order \in credited
    /\ s.job = "refund" => refunds[s.refund] # None /\ refunds[s.refund].order = s.order
    /\ s.at = "wallet" => returned[s.order] = s.refund
    /\ s.at = "complete" => s.refund \in debited

Inv ==
    /\ TypeOK
    /\ Payments
    /\ Trails
    /\ \A w \in Workers : Trusts(sessions[w])

-----------------------------------------------------------------------------
(* What one worker relies on, the steps of the others do not take away.    *)

\* Nothing a worker relies on is ever taken back.
Grows ==
    /\ \A o \in Orders : Settled(o) => Settled(o)'
    /\ credited \subseteq credited' /\ debited \subseteq debited'
    /\ \A n \in RefundNos : refunds[n] # None =>
           refunds'[n] # None /\ refunds'[n].order = refunds[n].order
    /\ \A o \in Orders : returned[o] # None => returned'[o] = returned[o]

\* The fields of a session, by its job.
LEMMA SessionFields ==
    ASSUME NEW s \in Sessions
    PROVE  /\ s.job \in {"none", "recover", "drain", "callback", "refund"}
           /\ s.job = "none" <=> s = Idle
           /\ s.job = "none" <=> s.at = "idle"
           /\ s.job # "none" => s.order \in Orders /\ s.rest \in SUBSET Orders
           /\ s.job \in {"recover", "drain", "callback"} => s.at \in {"query"} \cup Pass
           /\ s.at = "query" => s.job = "recover"
           /\ s.at \in Pass => s.job \in {"recover", "drain", "callback"}
           /\ s.job = "callback" => s.rest = {}
           /\ s.job = "refund" <=>
                 s.at \in {"processing", "gateway", "wallet", "complete", "failing"}
           /\ s.job = "refund" => s.refund \in RefundNos
BY DEF Sessions, Idle, Pass

LEMMA StaysTrusted ==
    ASSUME Grows, NEW s \in Sessions, Trusts(s)
    PROVE  Trusts(s)'
<1>1. CASE s.job = "none"
  BY <1>1, SessionFields DEF Trusts
<1>2. CASE s.job \in {"recover", "drain", "callback"}
  BY <1>2, SessionFields DEF Trusts, Grows, Pass
<1>3. CASE s.job = "refund"
  <2>1. s.order \in Orders /\ s.refund \in RefundNos /\ s.at # "publish"
    BY <1>3, SessionFields DEF Pass
  <2>2. s.at = "wallet" => returned'[s.order] = s.refund
    BY <2>1, NoneAssumption DEF Trusts, Grows
  <2> QED
    BY <1>3, <2>1, <2>2, SessionFields DEF Trusts, Grows
<1> QED
  BY <1>1, <1>2, <1>3, SessionFields

LEMMA GoesType ==
    ASSUME TypeOK, NEW w \in Workers, NEW s \in Sessions, Goes(w, s)
    PROVE  /\ sessions' \in [Workers -> Sessions]
           /\ sessions'[w] = s
           /\ \A v \in Workers : v # w => sessions'[v] = sessions[v]
BY DEF TypeOK, Goes

\* A step of worker w to a state that may be trusted keeps everybody's trust.
LEMMA TrustKept ==
    ASSUME TypeOK, \A v \in Workers : Trusts(sessions[v]), Grows,
           NEW w \in Workers, NEW s \in Sessions, Goes(w, s), Trusts(s)'
    PROVE  \A v \in Workers : Trusts(sessions[v])'
<1> SUFFICES ASSUME NEW v \in Workers PROVE Trusts(sessions[v])'
  OBVIOUS
<1>1. CASE v = w
  BY <1>1, GoesType DEF Trusts
<1>2. CASE v # w
  <2>1. sessions'[v] = sessions[v] /\ sessions[v] \in Sessions
    BY <1>2, GoesType DEF TypeOK
  <2>2. PICK t \in Sessions : t = sessions[v]
    BY <2>1
  <2>3. Trusts(t)'
    BY <2>2, StaysTrusted
  <2> QED
    BY <2>1, <2>2, <2>3 DEF Trusts
<1> QED
  BY <1>1, <1>2

-----------------------------------------------------------------------------
(* The states a pass goes through.                                         *)

LEMMA TakesSession ==
    ASSUME TypeOK, NEW w \in Workers, NEW job \in {"recover", "drain", "callback"},
           NEW todo \in SUBSET Orders, job = "callback" => \A o, p \in todo : o = p,
           Takes(w, job, todo)
    PROVE  \E s \in Sessions : /\ Goes(w, s) /\ s.job = job /\ s.at = FirstPlace(job)
                              /\ s.order \in todo /\ s.rest \subseteq todo
<1>1. PICK o \in todo : Goes(w, [job |-> job, at |-> FirstPlace(job), order |-> o,
                               rest |-> todo \ {o}, refund |-> None])
  BY DEF Takes
<1> DEFINE s == [job |-> job, at |-> FirstPlace(job), order |-> o,
                 rest |-> todo \ {o}, refund |-> None]
<1>2. s \in Sessions
  BY DEF Sessions, FirstPlace, Pass
<1> QED
  BY <1>1, <1>2

\* A drain, a callback and a recovery start with orders they may rely on.
LEMMA StartTrusted ==
    ASSUME TypeOK, NEW w \in Workers, NEW job \in {"recover", "drain", "callback"},
           NEW todo \in SUBSET Orders, job = "callback" => \A o, p \in todo : o = p,
           Grows, job # "recover" => \A o \in todo : Settled(o)', Start(w, job, todo)
    PROVE  \E s \in Sessions : Goes(w, s) /\ Trusts(s)'
<1>1. PICK s \in Sessions : /\ Goes(w, s) /\ s.job = job /\ s.at = FirstPlace(job)
                           /\ s.order \in todo /\ s.rest \subseteq todo
  BY TakesSession DEF Start
<1>2. Trusts(s)'
  BY <1>1 DEF Trusts, FirstPlace
<1> QED
  BY <1>1, <1>2

LEMMA IdleTrusted == Idle \in Sessions /\ Trusts(Idle)'
BY DEF Sessions, Trusts, Idle

\* So does a worker that goes on with the rest of its pass or gives up.
LEMMA PassTrusted ==
    ASSUME TypeOK, NEW w \in Workers, Trusts(sessions[w]), Grows,
           sessions[w].job \in {"recover", "drain", "callback"},
           Continues(w) \/ Fails(w)
    PROVE  \E s \in Sessions : Goes(w, s) /\ Trusts(s)'
<1>1. sessions[w] \in Sessions
  BY DEF TypeOK
<1>2. CASE Goes(w, Idle)
  BY <1>2, IdleTrusted
<1>3. CASE Continues(w) /\ sessions[w].rest # {}
  <2>1. Takes(w, sessions[w].job, sessions[w].rest)
    BY <1>3 DEF Continues
  <2>2. /\ sessions[w].rest \in SUBSET Orders
        /\ sessions[w].job = "callback" => sessions[w].rest = {}
    BY <1>1, SessionFields
  <2>3. PICK s \in Sessions : /\ Goes(w, s) /\ s.job = sessions[w].job
                             /\ s.at = FirstPlace(sessions[w].job)
                             /\ s.order \in sessions[w].rest
                             /\ s.rest \subseteq sessions[w].rest
    BY <2>1, <2>2, TakesSession
  <2>4. sessions[w].job = "drain" => \A o \in sessions[w].rest : Settled(o)'
    BY <2>2 DEF Trusts, Grows
  <2>5. Trusts(s)'
    BY <1>3, <2>2, <2>3, <2>4 DEF Trusts, FirstPlace
  <2> QED
    BY <2>3, <2>5
<1> QED
  BY <1>2, <1>3 DEF Continues, Fails

LEMMA ToSession ==
    ASSUME TypeOK, NEW w \in Workers, NEW place, To(w, place),
           \/ sessions[w].job \in {"recover", "drain", "callback"} /\ place \in Pass
           \/ /\ sessions[w].job = "refund"
              /\ place \in {"processing", "gateway", "wallet", "complete", "failing"}
    PROVE  \E s \in Sessions : /\ Goes(w, s) /\ s.at = place
                              /\ s.job = sessions[w].job /\ s.order = sessions[w].order
                              /\ s.rest = sessions[w].rest /\ s.refund = sessions[w].refund
<1> DEFINE s == [sessions[w] EXCEPT !.at = place]
<1>1. sessions[w] \in Sessions
  BY DEF TypeOK
<1>2. s \in Sessions
  BY <1>1 DEF Sessions, Idle, Pass
<1>3. /\ s.at = place /\ s.job = sessions[w].job /\ s.order = sessions[w].order
      /\ s.rest = sessions[w].rest /\ s.refund = sessions[w].refund
  BY <1>1 DEF Sessions, Idle
<1> QED
  BY <1>2, <1>3 DEF To

-----------------------------------------------------------------------------
(* Every step keeps the invariant.                                         *)

\* The part of TypeOK that is not about the workers.
RowsTyped ==
    /\ orders \in [Orders -> Statuses \cup {None}]
    /\ created \in Seq(Orders)
    /\ callbacks \in [Orders -> {"CALLBACK", "ACTIVE_QUERY", None}]
    /\ outbox \in Seq(Orders)
    /\ published \subseteq Orders
    /\ refunds \in [RefundNos -> RefundOrders \cup {None}]
    /\ channel \in [Orders -> {"absent", "open", "paid", "mismatched"}]
    /\ returned \in [Orders -> RefundNos \cup {None}]
    /\ credited \subseteq Orders
    /\ debited \subseteq RefundNos
    /\ balance \in Nat

LEMMA TypeParts == TypeOK <=> RowsTyped /\ sessions \in [Workers -> Sessions]
BY DEF TypeOK, RowsTyped

\* A step of one worker.
LEMMA WorkerStep ==
    ASSUME Inv, NEW w \in Workers, NEW s \in Sessions, Goes(w, s), Trusts(s)',
           RowsTyped', Grows, Payments', Trails'
    PROVE  Inv'
BY TypeParts, GoesType, TrustKept DEF Inv, TypeOK, RowsTyped

\* A step of somebody else.
LEMMA OutsideStep ==
    ASSUME Inv, UNCHANGED sessions, RowsTyped', Grows, Payments', Trails'
    PROVE  Inv'
<1>1. \A w \in Workers : sessions[w] \in Sessions
  BY DEF Inv, TypeOK
<1>2. ASSUME NEW w \in Workers PROVE Trusts(sessions[w])'
  <2>1. PICK t \in Sessions : t = sessions[w]
    BY <1>1
  <2>2. Trusts(t)'
    BY <2>1, StaysTrusted DEF Inv
  <2> QED
    BY <2>1, <2>2 DEF Trusts
<1> QED
  BY <1>2, TypeParts DEF Inv, TypeOK, RowsTyped

LEMMA Unmoved == UNCHANGED <<books, refunds, external, wallet>> => Grows
BY DEF Grows, Settled, books, external, wallet

\* A step that moves only one worker.
LEMMA IdleStep ==
    ASSUME Inv, NEW w \in Workers, UNCHANGED <<books, refunds, external, wallet>>,
           \E s \in Sessions : Goes(w, s) /\ Trusts(s)'
    PROVE  Inv'
<1>1. RowsTyped' /\ Payments' /\ Trails'
  BY DEF Inv, TypeOK, RowsTyped, Payments, Trails, IsAnnounced, Settled, books, external, wallet
<1> QED
  BY <1>1, Unmoved, WorkerStep

LEMMA CreateOrderKeeps ==
    ASSUME Inv, NEW o \in Orders, CreateOrder(o)
    PROVE  Inv'
<1> USE DEF Inv
<1>1. RowsTyped'
  BY AppendProperties DEF TypeOK, RowsTyped, CreateOrder, Statuses, wallet
<1>2. /\ ~Settled(o) /\ ~Settled(o)'
      /\ \A p \in Orders : Settled(p)' <=> Settled(p)
      /\ \A p \in Orders : p # o => orders'[p] = orders[p] /\ channel'[p] = channel[p]
      /\ orders'[o] # None
  BY NoneAssumption DEF TypeOK, CreateOrder, Settled, Statuses
<1>3. Grows
  BY <1>2 DEF Grows, CreateOrder, wallet
<1>4. Payments'
  BY <1>2 DEF Payments, CreateOrder, IsAnnounced, wallet, TypeOK
<1>5. Trails'
  BY <1>2 DEF Trails, CreateOrder, wallet, Settled
<1> QED
  BY <1>1, <1>3, <1>4, <1>5, OutsideStep DEF CreateOrder

LEMMA PayKeeps ==
    ASSUME Inv, NEW o \in Orders, Pay(o)
    PROVE  Inv'
<1> USE DEF Inv
<1>1. RowsTyped'
  BY DEF TypeOK, RowsTyped, Pay, books, wallet
<1>2. ~Settled(o) /\ orders[o] # None
  BY DEF Payments, Pay
<1>3. UNCHANGED <<books, refunds, sessions, returned, wallet>>
  BY DEF Pay
<1>4. Grows /\ Trails'
  BY <1>3 DEF Grows, Trails, Settled, books, wallet
<1>5. \A p \in Orders : p # o => channel'[p] = channel[p]
  BY DEF TypeOK, Pay
<1>6. Payments'
  BY <1>2, <1>3, <1>5 DEF Payments, Settled, IsAnnounced, books, wallet
<1> QED
  BY <1>1, <1>3, <1>4, <1>6, OutsideStep

LEMMA SpendKeeps ==
    ASSUME Inv, Spend
    PROVE  Inv'
<1>1. RowsTyped'
  BY DEF Inv, TypeOK, RowsTyped, Spend, books, external
<1>2. Grows /\ Payments' /\ Trails'
  BY DEF Inv, Grows, Payments, Trails, Spend, Settled, IsAnnounced, books, external
<1> QED
  BY <1>1, <1>2, OutsideStep DEF Spend

\* The settlement of order o.
LEMMA Accepted ==
    ASSUME Inv, NEW o \in Orders, NEW body \in {"CALLBACK", "ACTIVE_QUERY"},
           AcceptPayment(o, body), UNCHANGED <<refunds, external, wallet>>
    PROVE  RowsTyped' /\ Grows /\ Payments' /\ Trails' /\ Settled(o)'
<1> USE DEF Inv
<1>1. RowsTyped'
  BY AppendProperties DEF TypeOK, RowsTyped, AcceptPayment, Statuses, external, wallet
<1>2. /\ orders'[o] = "PAID" /\ ~Settled(o)
      /\ \A p \in Orders : p # o => orders'[p] = orders[p]
  BY DEF TypeOK, AcceptPayment, Settled
<1>3. \A p \in Orders : Settled(p)' <=> Settled(p) \/ p = o
  BY <1>2 DEF Settled
<1>4. /\ Len(outbox') = Len(outbox) + 1
      /\ \A i \in 1..Len(outbox) : outbox'[i] = outbox[i]
      /\ outbox'[Len(outbox) + 1] = o
      /\ Len(outbox) \in Nat
  BY AppendProperties, LenProperties DEF TypeOK, AcceptPayment
<1>5. \A p \in Orders : IsAnnounced(p)' <=> IsAnnounced(p) \/ p = o
  <2> SUFFICES ASSUME NEW p \in Orders PROVE IsAnnounced(p)' <=> IsAnnounced(p) \/ p = o
    OBVIOUS
  <2>1. 1..Len(outbox') = 1..Len(outbox) \cup {Len(outbox) + 1}
    BY <1>4
  <2> QED
    BY <1>4, <2>1 DEF IsAnnounced
<1>6. \A i, j \in 1..Len(outbox') : outbox'[i] = outbox'[j] => i = j
  <2>1. \A i \in 1..Len(outbox) : outbox[i] # o
    BY <1>2 DEF Payments, IsAnnounced
  <2>2. 1..Len(outbox') = 1..Len(outbox) \cup {Len(outbox) + 1}
    BY <1>4
  <2> QED
    BY <1>4, <2>1, <2>2 DEF Payments
<1>7. Payments'
  <2>1. \A p \in Orders : orders'[p] = None => channel'[p] = "absent"
    BY <1>2, NoneAssumption DEF Payments, external, Statuses
  <2>2. \A p \in Orders : Settled(p)' => channel'[p] = "paid"
    BY <1>3 DEF Payments, AcceptPayment, external
  <2> QED
    BY <1>3, <1>5, <1>6, <2>1, <2>2 DEF Payments, AcceptPayment, wallet, TypeOK
<1>8. Grows
  BY <1>3 DEF Grows, external, wallet
<1>9. Trails'
  BY <1>2, <1>3 DEF Trails, external, wallet
<1> QED
  BY <1>1, <1>3, <1>7, <1>8, <1>9

LEMMA CallbackKeeps ==
    ASSUME Inv, NEW w \in Workers, NEW o \in Orders, Callback(w, o)
    PROVE  Inv'
<1>1. RowsTyped' /\ Grows /\ Payments' /\ Trails' /\ Settled(o)'
  BY Accepted DEF Callback
<1>2. PICK s \in Sessions : Goes(w, s) /\ Trusts(s)'
  BY <1>1, StartTrusted DEF Callback, Inv
<1> QED
  BY <1>1, <1>2, WorkerStep

LEMMA RecoverKeeps ==
    ASSUME Inv, NEW w \in Workers, RecoverStalePending(w)
    PROVE  Inv'
<1> DEFINE todo == Oldest(created, {o \in Orders : orders[o] = "PENDING"})
<1>1. todo \in SUBSET Orders
  BY DEF Oldest
<1>2. UNCHANGED <<books, refunds, external, wallet>> /\ Start(w, "recover", todo)
  BY DEF RecoverStalePending
<1> HIDE DEF todo
<1> QED
  BY <1>1, <1>2, Unmoved, StartTrusted, IdleStep DEF Inv

LEMMA DrainKeeps ==
    ASSUME Inv, NEW w \in Workers, DrainPendingWalletCredits(w)
    PROVE  Inv'
<1> DEFINE todo == Oldest(outbox, {o \in Orders : IsAnnounced(o) /\ o \notin published})
<1>1. todo \in SUBSET Orders /\ \A o \in todo : Settled(o)
  BY DEF Oldest, Inv, Payments
<1>2. UNCHANGED <<books, refunds, external, wallet>> /\ Start(w, "drain", todo)
  BY DEF DrainPendingWalletCredits
<1>3. Grows
  BY <1>2, Unmoved
<1>4. \A o \in todo : Settled(o)'
  BY <1>1, <1>3 DEF Grows
<1> HIDE DEF todo
<1> QED
  BY <1>1, <1>2, <1>3, <1>4, StartTrusted, IdleStep DEF Inv

LEMMA QueryOrderKeeps ==
    ASSUME Inv, NEW w \in Workers, QueryOrder(w)
    PROVE  Inv'
<1>1. sessions[w] \in Sessions /\ sessions[w].at = "query"
  BY DEF QueryOrder, At, Inv, TypeOK
<1>2. sessions[w].job = "recover" /\ Order(w) \in Orders
  BY <1>1, SessionFields DEF Order
<1>3. CASE AcceptPayment(Order(w), "ACTIVE_QUERY") /\ To(w, "credit")
  <2>1. PICK o \in Orders : o = Order(w)
    BY <1>2
  <2>2. RowsTyped' /\ Grows /\ Payments' /\ Trails' /\ Settled(o)'
    BY <1>3, <2>1, Accepted DEF QueryOrder
  <2>3. PICK s \in Sessions : /\ Goes(w, s) /\ s.at = "credit"
                             /\ s.job = "recover" /\ s.order = o
    BY <1>2, <1>3, <2>1, ToSession DEF Inv, Pass, Order
  <2>4. Trusts(s)'
    BY <2>2, <2>3 DEF Trusts
  <2> QED
    BY <2>2, <2>3, <2>4, WorkerStep
<1>4. CASE UNCHANGED books /\ (Continues(w) \/ Fails(w))
  BY <1>2, <1>4, Unmoved, PassTrusted, IdleStep DEF QueryOrder, Inv
<1> QED
  BY <1>3, <1>4 DEF QueryOrder

\* A worker that credits or publishes works on a settled order.
LEMMA AtPass ==
    ASSUME Inv, NEW w \in Workers, sessions[w].at \in Pass
    PROVE  /\ sessions[w].job \in {"recover", "drain", "callback"}
           /\ Order(w) \in Orders /\ Settled(Order(w))
           /\ At(w, "publish") => Order(w) \in credited
<1>1. sessions[w] \in Sessions
  BY DEF Inv, TypeOK
<1>2. Trusts(sessions[w])
  BY DEF Inv
<1> QED
  BY <1>1, <1>2, SessionFields DEF Trusts, Pass, Order, At

LEMMA CreditWalletKeeps ==
    ASSUME Inv, NEW w \in Workers, CreditWallet(w)
    PROVE  Inv'
<1>1. sessions[w].at \in Pass
  BY DEF CreditWallet, At, Pass
<1> PICK o \in Orders : o = Order(w)
  BY <1>1, AtPass
<1>2. CASE Credited(o) /\ (To(w, "publish") \/ Fails(w))
  <2>1. UNCHANGED <<books, refunds, external>> /\ credited' = credited \cup {o}
    BY <1>2 DEF CreditWallet, Credited
  <2>2. RowsTyped'
    <3>1. balance' \in Nat
      BY <1>2, NumbersAssumption DEF Credited, Inv, TypeOK
    <3> QED
      BY <1>1, <1>2, <2>1, <3>1, AtPass
         DEF Credited, Inv, TypeOK, RowsTyped, books, external
  <2>3. UNCHANGED debited
    BY <1>2 DEF Credited
  <2>4. Grows /\ Trails'
    BY <2>1, <2>3 DEF Grows, Inv, Trails, Settled, books, external
  <2>5. Payments'
    BY <1>1, <2>1, AtPass DEF Inv, Payments, Settled, IsAnnounced, books, external
  <2>6. \E s \in Sessions : Goes(w, s) /\ Trusts(s)'
    <3>1. CASE To(w, "publish")
      <4>1. PICK s \in Sessions : /\ Goes(w, s) /\ s.at = "publish"
                                 /\ s.job = sessions[w].job /\ s.order = o
                                 /\ s.rest = sessions[w].rest
        BY <1>1, <3>1, AtPass, ToSession DEF Inv, Pass, Order
      <4>2. Settled(s.order)'
        BY <1>1, <2>4, <4>1, AtPass DEF Grows
      <4>3. s.job = "drain" => \A p \in s.rest : Settled(p)'
        <5>1. sessions[w].job = "drain" => \A p \in sessions[w].rest : Settled(p)
          BY DEF Inv, Trusts
        <5>2. s.rest \subseteq Orders
          BY <1>1, <4>1, AtPass, SessionFields
        <5> QED
          BY <2>4, <4>1, <5>1, <5>2 DEF Grows
      <4>4. s.job # "refund" /\ o \in credited'
        BY <1>1, <2>1, <4>1, AtPass
      <4> QED
        BY <4>1, <4>2, <4>3, <4>4 DEF Trusts
    <3>2. CASE Fails(w)
      BY <1>1, <2>4, <3>2, AtPass, PassTrusted DEF Inv
    <3> QED
      BY <1>2, <3>1, <3>2
  <2> QED
    BY <2>2, <2>4, <2>5, <2>6, WorkerStep
<1>3. CASE UNCHANGED wallet /\ Fails(w)
  <2>1. UNCHANGED <<books, refunds, external, wallet>>
    BY <1>3 DEF CreditWallet
  <2> QED
    BY <1>1, <1>3, <2>1, Unmoved, AtPass, PassTrusted, IdleStep DEF Inv
<1> QED
  BY <1>2, <1>3 DEF CreditWallet

LEMMA MarkPublishedKeeps ==
    ASSUME Inv, NEW w \in Workers, MarkWalletCreditPublished(w)
    PROVE  Inv'
<1>1. At(w, "publish") /\ sessions[w].at \in Pass
  BY DEF MarkWalletCreditPublished, At, Pass
<1>2. /\ UNCHANGED <<orders, created, callbacks, outbox, refunds, external, wallet>>
      /\ published' \in {published, published \cup {Order(w)}}
      /\ Continues(w) \/ Fails(w)
  BY DEF MarkWalletCreditPublished
<1>3. Grows /\ Trails'
  BY <1>2 DEF Grows, Inv, Trails, Settled, external, wallet
<1>4. RowsTyped' /\ Payments'
  BY <1>1, <1>2, AtPass
     DEF Inv, TypeOK, RowsTyped, Payments, Settled, IsAnnounced, external, wallet
<1> QED
  BY <1>1, <1>2, <1>3, <1>4, AtPass, PassTrusted, WorkerStep DEF Inv

\* What a worker in the middle of a refund knows.
LEMMA AtRefund ==
    ASSUME Inv, NEW w \in Workers,
           sessions[w].at \in {"processing", "gateway", "wallet", "complete", "failing"}
    PROVE  /\ sessions[w].job = "refund"
           /\ Refund(w) \in RefundNos /\ Order(w) \in Orders
           /\ refunds[Refund(w)] # None /\ refunds[Refund(w)].order = Order(w)
           /\ Settled(Order(w))
           /\ At(w, "wallet") => returned[Order(w)] = Refund(w)
           /\ At(w, "complete") => Refund(w) \in debited
<1>1. sessions[w] \in Sessions
  BY DEF Inv, TypeOK
<1>2. Trusts(sessions[w])
  BY DEF Inv
<1> QED
  BY <1>1, <1>2, SessionFields DEF Trusts, Order, Refund, At

\* Where it may go.
LEMMA RefundTrusted ==
    ASSUME Inv, Grows, NEW w \in Workers, sessions[w].job = "refund",
           NEW place \in {"gateway", "wallet", "complete", "failing"}, To(w, place),
           place = "wallet" => returned'[Order(w)] = Refund(w),
           place = "complete" => Refund(w) \in debited'
    PROVE  \E s \in Sessions : Goes(w, s) /\ Trusts(s)'
<1>1. PICK s \in Sessions : /\ Goes(w, s) /\ s.at = place /\ s.job = "refund"
                           /\ s.order = Order(w) /\ s.refund = Refund(w)
  BY ToSession DEF Inv, Order, Refund
<1>2. /\ sessions[w].at \in {"processing", "gateway", "wallet", "complete", "failing"}
  BY SessionFields DEF Inv, TypeOK
<1>3. PICK o \in Orders, n \in RefundNos : o = Order(w) /\ n = Refund(w)
  BY <1>2, AtRefund
<1>4. Settled(o)' /\ refunds'[n] # None /\ refunds'[n].order = o
  BY <1>2, <1>3, AtRefund DEF Grows
<1> QED
  BY <1>1, <1>3, <1>4 DEF Trusts

LEMMA StatusSet ==
    ASSUME Inv, NEW n \in RefundNos, refunds[n] # None,
           NEW st \in {"PENDING", "PROCESSING", "SUCCEEDED", "FAILED"}, SetStatus(n, st)
    PROVE  /\ refunds' \in [RefundNos -> RefundOrders \cup {None}]
           /\ \A m \in RefundNos :
                 /\ refunds'[m] # None <=> refunds[m] # None
                 /\ refunds[m] # None => refunds'[m].order = refunds[m].order
                 /\ m # n => refunds'[m] = refunds[m]
           /\ refunds'[n].status = st
<1>1. refunds[n] \in RefundOrders
  BY DEF Inv, TypeOK
<1>2. /\ [refunds[n] EXCEPT !.status = st] \in RefundOrders
      /\ [refunds[n] EXCEPT !.status = st].order = refunds[n].order
      /\ [refunds[n] EXCEPT !.status = st].status = st
  BY <1>1 DEF RefundOrders
<1>3. refunds' = [refunds EXCEPT ![n] = [refunds[n] EXCEPT !.status = st]]
  BY DEF SetStatus
<1> QED
  BY <1>2, <1>3, NoneAssumption DEF Inv, TypeOK

\* A step that sets the status of a refund and nothing else in the rows.
LEMMA StatusStep ==
    ASSUME Inv, NEW w \in Workers, NEW n \in RefundNos, refunds[n] # None,
           NEW st \in {"PENDING", "PROCESSING", "SUCCEEDED", "FAILED"},
           SetStatus(n, st), st = "SUCCEEDED" => n \in debited,
           UNCHANGED <<books, external, wallet>>
    PROVE  RowsTyped' /\ Grows /\ Payments' /\ Trails'
<1>1. RowsTyped'
  BY StatusSet DEF Inv, TypeOK, RowsTyped, books, external, wallet
<1>2. Grows
  BY StatusSet DEF Grows, Settled, books, external, wallet
<1>3. Payments'
  BY DEF Inv, Payments, Settled, IsAnnounced, books, external, wallet
<1>4. Trails'
  <2>1. /\ returned \in [Orders -> RefundNos \cup {None}]
        /\ debited \subseteq RefundNos
    BY DEF Inv, TypeOK
  <2> QED
    BY <2>1, StatusSet DEF Inv, Trails, Settled, books, external, wallet
<1> QED
  BY <1>1, <1>2, <1>3, <1>4

LEMMA RequestRefundKeeps ==
    ASSUME Inv, NEW w \in Workers, NEW n \in RefundNos, NEW o \in Orders,
           RequestRefund(w, n, o)
    PROVE  Inv'
<1> DEFINE s == [job |-> "refund", at |-> "processing", order |-> o, rest |-> {},
                 refund |-> n]
<1>1. s \in Sessions /\ Goes(w, s)
  BY DEF Sessions, RequestRefund
<1>2. Settled(o) /\ UNCHANGED <<books, external, wallet>>
  BY DEF RequestRefund, Settled
<1>3. /\ refunds' \in [RefundNos -> RefundOrders \cup {None}]
      /\ \A m \in RefundNos : refunds[m] # None => refunds'[m] = refunds[m]
      /\ refunds'[n] # None /\ refunds'[n].order = o
      /\ refunds[n] = None => refunds'[n].status = "PENDING"
      /\ \A m \in RefundNos : m # n => refunds'[m] = refunds[m]
  <2>1. CASE refunds[n] = None
    <3>1. [order |-> o, status |-> "PENDING"] \in RefundOrders
      BY DEF RefundOrders
    <3> QED
      BY <2>1, <3>1, NoneAssumption DEF RequestRefund, Inv, TypeOK
  <2>2. CASE refunds[n] # None
    BY <2>2 DEF RequestRefund, Inv, TypeOK
  <2> QED
    BY <2>1, <2>2
<1>4. RowsTyped'
  BY <1>2, <1>3 DEF Inv, TypeOK, RowsTyped, books, external, wallet
<1>5. Grows
  BY <1>2, <1>3 DEF Grows, Settled, books, external, wallet
<1>6. Payments'
  BY <1>2 DEF Inv, Payments, Settled, IsAnnounced, books, external, wallet
<1>7. Trails'
  <2>1. /\ returned \in [Orders -> RefundNos \cup {None}]
        /\ debited \subseteq RefundNos
    BY DEF Inv, TypeOK
  <2> QED
    BY <1>2, <1>3, <2>1 DEF Inv, Trails, Settled, books, external, wallet
<1>8. Trusts(s)'
  <2>1. Settled(o)'
    BY <1>2, <1>5 DEF Grows
  <2> QED
    BY <1>3, <2>1 DEF Trusts
<1> QED
  BY <1>1, <1>4, <1>5, <1>6, <1>7, <1>8, WorkerStep

LEMMA MarkProcessingKeeps ==
    ASSUME Inv, NEW w \in Workers, MarkRefundProcessing(w)
    PROVE  Inv'
<1>1. sessions[w].at = "processing"
  BY DEF MarkRefundProcessing, At
<1>2. PICK n \in RefundNos : n = Refund(w)
  BY <1>1, AtRefund
<1>3. /\ UNCHANGED <<books, external, wallet>>
      /\ UNCHANGED refunds \/ SetStatus(n, "PROCESSING")
      /\ \E place \in {"gateway", "failing"} : To(w, place)
  BY <1>2 DEF MarkRefundProcessing
<1>4. RowsTyped' /\ Grows /\ Payments' /\ Trails'
  <2>1. CASE SetStatus(n, "PROCESSING")
    BY <1>1, <1>2, <1>3, <2>1, AtRefund, StatusStep
  <2>2. CASE UNCHANGED refunds
    <3>1. UNCHANGED <<books, refunds, external, wallet>>
      BY <1>3, <2>2
    <3>2. RowsTyped' /\ Trails'
      BY <3>1 DEF Inv, TypeOK, RowsTyped, Trails, Settled, books, external, wallet
    <3>3. Payments'
      BY <3>1 DEF Inv, Payments, IsAnnounced, Settled, books, external, wallet
    <3> QED
      BY <3>1, <3>2, <3>3, Unmoved
  <2> QED
    BY <1>3, <2>1, <2>2
<1> QED
  BY <1>1, <1>3, <1>4, AtRefund, RefundTrusted, WorkerStep

LEMMA GatewayRefundKeeps ==
    ASSUME Inv, NEW w \in Workers, GatewayRefund(w)
    PROVE  Inv'
<1>1. sessions[w].at = "gateway"
  BY DEF GatewayRefund, At
<1>2. PICK o \in Orders, n \in RefundNos : o = Order(w) /\ n = Refund(w)
  BY <1>1, AtRefund
<1>3. CASE /\ returned[o] \in {None, n}
           /\ returned' = [returned EXCEPT ![o] = n]
           /\ To(w, "wallet") \/ To(w, "failing")
  <2>1. UNCHANGED <<books, refunds, channel, wallet>>
    BY DEF GatewayRefund
  <2>2. RowsTyped'
    BY <1>3, <2>1 DEF Inv, TypeOK, RowsTyped, books, wallet
  <2>3. returned'[o] = n /\ \A p \in Orders : p # o => returned'[p] = returned[p]
    BY <1>3 DEF Inv, TypeOK
  <2>4. Grows
    BY <1>3, <2>1, <2>3 DEF Grows, Settled, books, wallet
  <2>5. Payments'
    BY <2>1 DEF Inv, Payments, Settled, IsAnnounced, books, wallet
  <2>6. Trails'
    <3>1. \A m \in debited : refunds[m] # None /\ returned'[refunds[m].order] = m
      <4>1. ASSUME NEW m \in debited PROVE returned'[refunds[m].order] = m
        <5>1. m \in RefundNos /\ refunds[m] \in RefundOrders /\ returned[refunds[m].order] = m
          BY DEF Inv, TypeOK, Trails
        <5>2. m # None /\ refunds[m].order \in Orders
          BY <5>1, NoneAssumption DEF RefundOrders
        <5> QED
          BY <1>3, <2>3, <5>1, <5>2
      <4> QED
        BY <4>1 DEF Inv, Trails
    <3>2. \A p \in Orders : returned'[p] # None =>
             refunds[returned'[p]] # None /\ refunds[returned'[p]].order = p /\ Settled(p)
      BY <1>1, <1>2, <2>3, AtRefund DEF Inv, Trails
    <3> QED
      BY <2>1, <3>1, <3>2 DEF Inv, Trails, Settled, books, wallet
  <2> QED
    BY <1>1, <1>2, <1>3, <2>2, <2>3, <2>4, <2>5, <2>6, AtRefund, RefundTrusted, WorkerStep
<1>4. CASE UNCHANGED returned /\ To(w, "failing")
  <2>1. UNCHANGED <<books, refunds, external, wallet>>
    BY <1>4 DEF GatewayRefund, external
  <2> QED
    BY <1>1, <1>4, <2>1, Unmoved, AtRefund, RefundTrusted, IdleStep
<1> QED
  BY <1>2, <1>3, <1>4 DEF GatewayRefund

LEMMA CompensateRefundKeeps ==
    ASSUME Inv, NEW w \in Workers, CompensateRefund(w)
    PROVE  Inv'
<1>1. sessions[w].at = "wallet"
  BY DEF CompensateRefund, At
<1>2. PICK o \in Orders, n \in RefundNos : o = Order(w) /\ n = Refund(w)
  BY <1>1, AtRefund
<1>3. CASE Debited(n) /\ (To(w, "complete") \/ To(w, "failing"))
  <2>1. /\ UNCHANGED <<books, refunds, external, credited>>
        /\ debited' = debited \cup {n}
    BY <1>3 DEF CompensateRefund, Debited
  <2>2. balance' \in Nat
    BY <1>3, NumbersAssumption DEF Debited, Inv, TypeOK
  <2>3. RowsTyped'
    BY <2>1, <2>2 DEF Inv, TypeOK, RowsTyped, books, external
  <2>4. Grows
    BY <2>1 DEF Grows, Settled, books, external
  <2>5. Payments'
    BY <2>1 DEF Inv, Payments, Settled, IsAnnounced, books, external
  <2>6. Trails'
    BY <1>1, <1>2, <2>1, AtRefund DEF Inv, Trails, Settled, books, external, At
  <2> QED
    BY <1>1, <1>2, <1>3, <2>1, <2>3, <2>4, <2>5, <2>6, AtRefund, RefundTrusted, WorkerStep
<1>4. CASE UNCHANGED wallet /\ To(w, "failing")
  <2>1. UNCHANGED <<books, refunds, external, wallet>>
    BY <1>4 DEF CompensateRefund
  <2> QED
    BY <1>1, <1>4, <2>1, Unmoved, AtRefund, RefundTrusted, IdleStep
<1> QED
  BY <1>2, <1>3, <1>4 DEF CompensateRefund

LEMMA CompleteRefundKeeps ==
    ASSUME Inv, NEW w \in Workers, CompleteRefund(w)
    PROVE  Inv'
<1>1. sessions[w].at = "complete"
  BY DEF CompleteRefund, At
<1>2. PICK o \in Orders, n \in RefundNos : o = Order(w) /\ n = Refund(w)
  BY <1>1, AtRefund
<1>3. UNCHANGED <<created, callbacks, outbox, published, external, wallet>>
  BY DEF CompleteRefund
<1>4. CASE /\ SetStatus(n, "SUCCEEDED")
           /\ orders' \in {orders, [orders EXCEPT ![o] = "REFUNDED"]}
           /\ Goes(w, Idle) \/ To(w, "failing")
  <2>1. /\ n \in debited /\ refunds[n] # None /\ refunds[n].order = o /\ Settled(o)
    BY <1>1, <1>2, AtRefund DEF At
  <2>2. /\ orders' \in [Orders -> Statuses \cup {None}]
        /\ \A p \in Orders : orders'[p] = orders[p] \/ (p = o /\ orders'[p] = "REFUNDED")
    BY <1>4 DEF Inv, TypeOK, Statuses
  <2>3. \A p \in Orders : Settled(p)' <=> Settled(p)
    BY <2>1, <2>2 DEF Settled
  <2>4. /\ refunds' \in [RefundNos -> RefundOrders \cup {None}]
        /\ \A m \in RefundNos :
              /\ refunds'[m] # None <=> refunds[m] # None
              /\ refunds[m] # None => refunds'[m].order = refunds[m].order
              /\ m # n => refunds'[m] = refunds[m]
    BY <1>4, <2>1, StatusSet
  <2>5. RowsTyped'
    BY <1>3, <2>2, <2>4 DEF Inv, TypeOK, RowsTyped, external, wallet
  <2>6. Grows
    BY <1>3, <2>3, <2>4 DEF Grows, external, wallet
  <2>7. Payments'
    <3>1. credited \subseteq Orders
      BY DEF Inv, TypeOK
    <3>2. \A p \in Orders : orders'[p] = None => channel'[p] = "absent"
      BY <1>3, <2>2, NoneAssumption DEF Inv, Payments, external, Statuses
    <3> QED
      BY <1>3, <2>3, <3>1, <3>2 DEF Inv, Payments, IsAnnounced, external, wallet
  <2>8. Trails'
    <3>1. /\ returned \in [Orders -> RefundNos \cup {None}]
          /\ debited \subseteq RefundNos
      BY DEF Inv, TypeOK
    <3>2. \A p \in Orders : orders'[p] = "REFUNDED" => \E m \in debited : refunds'[m].order = p
      BY <2>1, <2>2, <2>4, <3>1 DEF Inv, Trails
    <3> QED
      BY <1>3, <2>1, <2>3, <2>4, <3>1, <3>2 DEF Inv, Trails, external, wallet
  <2>9. \E s \in Sessions : Goes(w, s) /\ Trusts(s)'
    BY <1>1, <1>4, <2>6, AtRefund, RefundTrusted, IdleTrusted
  <2> QED
    BY <2>5, <2>6, <2>7, <2>8, <2>9, WorkerStep
<1>5. CASE UNCHANGED <<refunds, orders>> /\ To(w, "failing")
  <2>1. UNCHANGED <<books, refunds, external, wallet>>
    BY <1>3, <1>5 DEF books
  <2> QED
    BY <1>1, <1>5, <2>1, Unmoved, AtRefund, RefundTrusted, IdleStep
<1> QED
  BY <1>2, <1>4, <1>5 DEF CompleteRefund

LEMMA MarkFailedKeeps ==
    ASSUME Inv, NEW w \in Workers, MarkRefundFailed(w)
    PROVE  Inv'
<1>1. sessions[w].at = "failing"
  BY DEF MarkRefundFailed, At
<1>2. PICK n \in RefundNos : n = Refund(w)
  BY <1>1, AtRefund
<1>3. UNCHANGED <<books, external, wallet>> /\ SetStatus(n, "FAILED") /\ Goes(w, Idle)
  BY <1>2 DEF MarkRefundFailed
<1>4. RowsTyped' /\ Grows /\ Payments' /\ Trails'
  BY <1>1, <1>2, <1>3, AtRefund, StatusStep
<1> QED
  BY <1>3, <1>4, IdleTrusted, WorkerStep

LEMMA CrashKeeps ==
    ASSUME Inv, NEW w \in Workers, Crash(w)
    PROVE  Inv'
BY IdleTrusted, IdleStep DEF Crash

LEMMA InvInitially == Init => Inv
<1> SUFFICES ASSUME Init PROVE Inv
  OBVIOUS
<1>1. RowsTyped
  BY DEF Init, RowsTyped
<1>2. \A w \in Workers : sessions[w] = Idle /\ Trusts(sessions[w])
  BY DEF Init, Trusts, Idle
<1>3. sessions \in [Workers -> Sessions]
  BY IdleTrusted DEF Init
<1>4. Payments
  <2>1. \A o \in Orders : ~Settled(o) /\ ~IsAnnounced(o)
    BY NoneAssumption DEF Init, Settled, IsAnnounced, Statuses
  <2> QED
    BY <2>1 DEF Init, Payments
<1>5. Trails
  BY NoneAssumption DEF Init, Trails, Statuses
<1> QED
  BY <1>1, <1>2, <1>3, <1>4, <1>5, TypeParts DEF Inv

LEMMA InvPreserved == Inv /\ [Next]_vars => Inv'
<1> SUFFICES ASSUME Inv, [Next]_vars PROVE Inv'
  OBVIOUS
<1>1. ASSUME NEW o \in Orders, CreateOrder(o) \/ Pay(o) PROVE Inv'
  BY <1>1, CreateOrderKeeps, PayKeeps
<1>2. CASE Spend
  BY <1>2, SpendKeeps
<1>3. ASSUME NEW w \in Workers, NEW o \in Orders, Callback(w, o) PROVE Inv'
  BY <1>3, CallbackKeeps
<1>4. ASSUME NEW w \in Workers,
             \/ RecoverStalePending(w) \/ QueryOrder(w) \/ DrainPendingWalletCredits(w)
             \/ CreditWallet(w) \/ MarkWalletCreditPublished(w)
      PROVE  Inv'
  BY <1>4, RecoverKeeps, QueryOrderKeeps, DrainKeeps, CreditWalletKeeps, MarkPublishedKeeps
<1>5. ASSUME NEW w \in Workers, NEW n \in RefundNos, NEW o \in Orders, RequestRefund(w, n, o)
      PROVE  Inv'
  BY <1>5, RequestRefundKeeps
<1>6. ASSUME NEW w \in Workers, RefundStep(w) PROVE Inv'
  BY <1>6, MarkProcessingKeeps, GatewayRefundKeeps, CompensateRefundKeeps,
     CompleteRefundKeeps, MarkFailedKeeps DEF RefundStep
<1>7. ASSUME NEW w \in Workers, Crash(w) PROVE Inv'
  BY <1>7, CrashKeeps
<1>8. CASE UNCHANGED vars
  BY <1>8, Unmoved, OutsideStep DEF vars, Inv, TypeOK, RowsTyped, Payments, Trails,
     IsAnnounced, Settled, books, external, wallet
<1> QED
  BY <1>1, <1>2, <1>3, <1>4, <1>5, <1>6, <1>7, <1>8 DEF Next

LEMMA Invariance == Spec => []Inv
BY InvInitially, InvPreserved, PTL DEF Spec

-----------------------------------------------------------------------------
(* What follows.                                                           *)

\* Orders, refunds and workers stay in the states the code knows.
THEOREM TypeCorrect == Spec => []TypeOK
<1>1. Inv => TypeOK
  BY DEF Inv
<1> QED
  BY <1>1, Invariance, PTL

\* A payment that was accepted is announced once, and only what the wallet
\* has credited is marked as published: no death of a worker loses points.
THEOREM PaymentsAreAnnounced == Spec => []PaidIsAnnounced
<1>1. Inv => PaidIsAnnounced
  BY DEF Inv, Payments, PaidIsAnnounced, Settled
<1> QED
  BY <1>1, Invariance, PTL

\* Points are taken back only for money returned under the same number, and a
\* refund has succeeded only when both were done, whatever answers were lost.
THEOREM RefundsMoveBoth == Spec => []RefundMovesBoth
<1>1. Inv => RefundMovesBoth
  BY DEF Inv, Trails, RefundMovesBoth
<1> QED
  BY <1>1, Invariance, PTL

-----------------------------------------------------------------------------
(* The refinement.                                                         *)

LEMMA SaleInitially == Init => Sale!Init
BY NoneAssumption DEF Init, Sale!Init, Statuses

\* A step that the sale does not see: no money, no points, no order closed.
LEMMA SaleUnmoved ==
    ASSUME Inv, UNCHANGED <<external, credited, debited>>,
           \A n \in debited : refunds'[n].order = refunds[n].order,
           \A o \in Orders : orders[o] = "REFUNDED" <=> orders'[o] = "REFUNDED"
    PROVE  UNCHANGED Sale!vars
<1>1. {refunds[n].order : n \in debited}' = {refunds[n].order : n \in debited}
  OBVIOUS
<1>2. {o \in Orders : orders[o] = "REFUNDED"}' = {o \in Orders : orders[o] = "REFUNDED"}
  OBVIOUS
<1> QED
  BY <1>1, <1>2 DEF Sale!vars, external

LEMMA PaySells ==
    ASSUME Inv, NEW o \in Orders, Pay(o)
    PROVE  [Sale!Next]_(Sale!vars)
<1>1. UNCHANGED <<returned, credited, debited, refunds, orders>>
  BY DEF Pay, books, wallet
<1>2. channel \in [Orders -> {"absent", "open", "paid", "mismatched"}] /\ channel[o] = "open"
  BY DEF Inv, TypeOK, Pay
<1>3. CASE channel' = [channel EXCEPT ![o] = "paid"]
  <2>1. {p \in Orders : channel[p] = "paid"}' = {p \in Orders : channel[p] = "paid"} \cup {o}
    BY <1>2, <1>3
  <2>2. Sale!Receive(o)
    BY <1>1, <1>2, <2>1 DEF Sale!Receive
  <2> QED
    BY <2>2 DEF Sale!Next
<1>4. CASE channel' = [channel EXCEPT ![o] = "mismatched"]
  <2>1. {p \in Orders : channel[p] = "paid"}' = {p \in Orders : channel[p] = "paid"}
    BY <1>2, <1>4
  <2> QED
    BY <1>1, <2>1 DEF Sale!vars
<1> QED
  BY <1>3, <1>4 DEF Pay

LEMMA CreditSells ==
    ASSUME Inv, NEW w \in Workers, CreditWallet(w)
    PROVE  [Sale!Next]_(Sale!vars)
<1>1. PICK o \in Orders : o = Order(w) /\ Settled(o)
  BY AtPass DEF CreditWallet, At, Pass
<1>2. UNCHANGED <<channel, returned, debited, refunds, orders>>
  BY DEF CreditWallet, books, external, Credited, wallet
<1>3. CASE credited' = credited \cup {o} /\ o \notin credited
  <2>1. channel[o] = "paid"
    BY <1>1 DEF Inv, Payments
  <2>2. Sale!Give(o)
    BY <1>2, <1>3, <2>1 DEF Sale!Give
  <2> QED
    BY <2>2 DEF Sale!Next
<1>4. CASE UNCHANGED credited
  BY <1>2, <1>4 DEF Sale!vars
<1>5. credited' = credited \cup {o} \/ UNCHANGED credited
  BY <1>1 DEF CreditWallet, Credited, wallet
<1>6. o \in credited => credited \cup {o} = credited
  OBVIOUS
<1> QED
  BY <1>3, <1>4, <1>5, <1>6

LEMMA GatewaySells ==
    ASSUME Inv, NEW w \in Workers, GatewayRefund(w)
    PROVE  [Sale!Next]_(Sale!vars)
<1>1. PICK o \in Orders, n \in RefundNos : o = Order(w) /\ n = Refund(w) /\ Settled(o)
  BY AtRefund DEF GatewayRefund, At
<1>2. UNCHANGED <<channel, credited, debited, refunds, orders>>
  BY DEF GatewayRefund, books, wallet
<1>3. \/ UNCHANGED returned
      \/ returned[o] \in {None, n} /\ returned' = [returned EXCEPT ![o] = n]
  BY <1>1 DEF GatewayRefund
<1>4. returned \in [Orders -> RefundNos \cup {None}] /\ n # None
  BY NoneAssumption DEF Inv, TypeOK
<1>5. CASE returned[o] = None /\ returned' = [returned EXCEPT ![o] = n]
  <2>1. {p \in Orders : returned[p] # None}' = {p \in Orders : returned[p] # None} \cup {o}
    BY <1>4, <1>5
  <2>2. channel[o] = "paid"
    BY <1>1 DEF Inv, Payments
  <2>3. Sale!Return(o)
    BY <1>2, <1>5, <2>1, <2>2 DEF Sale!Return
  <2> QED
    BY <2>3 DEF Sale!Next
<1>6. CASE returned[o] = n /\ returned' = [returned EXCEPT ![o] = n]
  <2>1. {p \in Orders : returned[p] # None}' = {p \in Orders : returned[p] # None}
    BY <1>4, <1>6
  <2> QED
    BY <1>2, <2>1 DEF Sale!vars
<1>7. CASE UNCHANGED returned
  BY <1>2, <1>7 DEF Sale!vars
<1> QED
  BY <1>3, <1>5, <1>6, <1>7

LEMMA CompensateSells ==
    ASSUME Inv, NEW w \in Workers, CompensateRefund(w)
    PROVE  [Sale!Next]_(Sale!vars)
<1>1. PICK o \in Orders, n \in RefundNos :
          /\ o = Order(w) /\ n = Refund(w)
          /\ refunds[n].order = o /\ returned[o] = n
  BY AtRefund DEF CompensateRefund, At
<1>2. UNCHANGED <<channel, returned, credited, refunds, orders>>
  BY DEF CompensateRefund, books, external, Debited, wallet
<1>3. UNCHANGED debited \/ debited' = debited \cup {n}
  BY <1>1 DEF CompensateRefund, Debited, wallet
<1>4. CASE debited' = debited \cup {n} /\ n \notin debited
  <2>1. {refunds[m].order : m \in debited}' = {refunds[m].order : m \in debited} \cup {o}
    BY <1>1, <1>2, <1>4
  <2>2. o \notin {refunds[m].order : m \in debited}
    BY <1>1, <1>4 DEF Inv, Trails
  <2>3. n # None
    BY NoneAssumption
  <2>4. Sale!Take(o)
    BY <1>1, <1>2, <2>1, <2>2, <2>3 DEF Sale!Take
  <2> QED
    BY <2>4 DEF Sale!Next
<1>5. CASE UNCHANGED debited
  BY <1>2, <1>5 DEF Sale!vars
<1>6. n \in debited => debited \cup {n} = debited
  OBVIOUS
<1> QED
  BY <1>3, <1>4, <1>5, <1>6

LEMMA CompleteSells ==
    ASSUME Inv, NEW w \in Workers, CompleteRefund(w)
    PROVE  [Sale!Next]_(Sale!vars)
<1>1. PICK o \in Orders, n \in RefundNos :
          /\ o = Order(w) /\ n = Refund(w) /\ n \in debited
          /\ refunds[n] # None /\ refunds[n].order = o
  BY AtRefund DEF CompleteRefund, At
<1>2. UNCHANGED <<external, credited, debited>>
  BY DEF CompleteRefund, wallet
<1>3. \A m \in debited : refunds'[m].order = refunds[m].order
  <2>1. SetStatus(n, "SUCCEEDED") \/ UNCHANGED refunds
    BY <1>1 DEF CompleteRefund
  <2>2. CASE SetStatus(n, "SUCCEEDED")
    <3>1. \A m \in debited : m \in RefundNos /\ refunds[m] # None
      BY DEF Inv, TypeOK, Trails
    <3>2. \A m \in RefundNos : refunds[m] # None => refunds'[m].order = refunds[m].order
      BY <1>1, <2>2, StatusSet
    <3> QED
      BY <3>1, <3>2
  <2> QED
    BY <2>1, <2>2
<1>4. UNCHANGED orders \/ orders' = [orders EXCEPT ![o] = "REFUNDED"]
  BY <1>1 DEF CompleteRefund
<1>5. orders \in [Orders -> Statuses \cup {None}]
  BY DEF Inv, TypeOK
<1>6. CASE orders' = [orders EXCEPT ![o] = "REFUNDED"] /\ orders[o] # "REFUNDED"
  <2>1. {p \in Orders : orders[p] = "REFUNDED"}'
          = {p \in Orders : orders[p] = "REFUNDED"} \cup {o}
    BY <1>5, <1>6
  <2>2. {refunds[m].order : m \in debited}' = {refunds[m].order : m \in debited}
    BY <1>2, <1>3
  <2>3. o \in {refunds[m].order : m \in debited}
    BY <1>1
  <2>4. Sale!Close(o)
    BY <1>2, <1>6, <2>1, <2>2, <2>3 DEF Sale!Close, external
  <2> QED
    BY <2>4 DEF Sale!Next
<1>7. CASE \A p \in Orders : orders'[p] = orders[p]
  BY <1>2, <1>3, <1>7, SaleUnmoved
<1> QED
  BY <1>4, <1>5, <1>6, <1>7

LEMMA StepSells == Inv /\ [Next]_vars => [Sale!Next]_(Sale!vars)
<1> SUFFICES ASSUME Inv, [Next]_vars PROVE [Sale!Next]_(Sale!vars)
  OBVIOUS
<1>1. ASSUME NEW o \in Orders, CreateOrder(o) PROVE [Sale!Next]_(Sale!vars)
  <2>1. /\ UNCHANGED <<returned, credited, debited, refunds>>
        /\ channel' \in {channel, [channel EXCEPT ![o] = "open"]}
        /\ orders' = [orders EXCEPT ![o] = "PENDING"] /\ orders[o] = None
    BY <1>1 DEF CreateOrder, wallet
  <2>2. {p \in Orders : orders[p] = "REFUNDED"}' = {p \in Orders : orders[p] = "REFUNDED"}
    BY <2>1, NoneAssumption DEF Inv, TypeOK, Statuses
  <2>3. {p \in Orders : channel[p] = "paid"}' = {p \in Orders : channel[p] = "paid"}
    BY <2>1 DEF Inv, TypeOK, Payments
  <2> QED
    BY <2>1, <2>2, <2>3 DEF Sale!vars
<1>2. ASSUME NEW o \in Orders, Pay(o) PROVE [Sale!Next]_(Sale!vars)
  BY <1>2, PaySells
<1>3. CASE Spend
  BY <1>3, SaleUnmoved DEF Spend, books
<1>4. ASSUME NEW o \in Orders, NEW body, AcceptPayment(o, body),
             UNCHANGED <<refunds, external, wallet>>
      PROVE  [Sale!Next]_(Sale!vars)
  <2>1. \A p \in Orders : orders[p] = "REFUNDED" <=> orders'[p] = "REFUNDED"
    BY <1>4 DEF AcceptPayment, Inv, TypeOK
  <2> QED
    BY <1>4, <2>1, SaleUnmoved DEF wallet
<1>5. ASSUME NEW w \in Workers, NEW o \in Orders, Callback(w, o)
      PROVE  [Sale!Next]_(Sale!vars)
  BY <1>4, <1>5 DEF Callback
<1>6. ASSUME NEW w \in Workers, QueryOrder(w) PROVE [Sale!Next]_(Sale!vars)
  <2>1. PICK o \in Orders : o = Order(w)
    BY <1>6, SessionFields DEF QueryOrder, At, Order, Inv, TypeOK
  <2>2. CASE AcceptPayment(o, "ACTIVE_QUERY")
    BY <1>4, <1>6, <2>2 DEF QueryOrder
  <2>3. CASE UNCHANGED books
    BY <1>6, <2>3, SaleUnmoved DEF QueryOrder, books, wallet
  <2> QED
    BY <1>6, <2>1, <2>2, <2>3 DEF QueryOrder
<1>7. ASSUME NEW w \in Workers, RecoverStalePending(w) \/ DrainPendingWalletCredits(w) \/ Crash(w)
      PROVE  [Sale!Next]_(Sale!vars)
  BY <1>7, SaleUnmoved DEF RecoverStalePending, DrainPendingWalletCredits, Crash, books, wallet
<1>8. ASSUME NEW w \in Workers, CreditWallet(w) PROVE [Sale!Next]_(Sale!vars)
  BY <1>8, CreditSells
<1>9. ASSUME NEW w \in Workers, MarkWalletCreditPublished(w) PROVE [Sale!Next]_(Sale!vars)
  BY <1>9, SaleUnmoved DEF MarkWalletCreditPublished, wallet
<1>10. ASSUME NEW w \in Workers, NEW n \in RefundNos, NEW o \in Orders, RequestRefund(w, n, o)
       PROVE  [Sale!Next]_(Sale!vars)
  <2>1. \A m \in debited : refunds'[m].order = refunds[m].order
    BY <1>10 DEF RequestRefund, Inv, TypeOK, Trails
  <2> QED
    BY <1>10, <2>1, SaleUnmoved DEF RequestRefund, books, wallet
<1>11. ASSUME NEW w \in Workers, NEW n \in RefundNos, refunds[n] # None,
              NEW st \in {"PENDING", "PROCESSING", "SUCCEEDED", "FAILED"}, SetStatus(n, st),
              UNCHANGED <<books, external, wallet>>
       PROVE  [Sale!Next]_(Sale!vars)
  <2>1. \A m \in debited : refunds'[m].order = refunds[m].order
    BY <1>11, StatusSet DEF Inv, TypeOK, Trails
  <2> QED
    BY <1>11, <2>1, SaleUnmoved DEF books, wallet
<1>12. ASSUME NEW w \in Workers, MarkRefundProcessing(w) \/ MarkRefundFailed(w)
       PROVE  [Sale!Next]_(Sale!vars)
  <2>1. PICK n \in RefundNos : n = Refund(w) /\ refunds[n] # None
    BY <1>12, AtRefund DEF MarkRefundProcessing, MarkRefundFailed, At
  <2>2. CASE UNCHANGED refunds
    BY <1>12, <2>2, SaleUnmoved DEF MarkRefundProcessing, MarkRefundFailed, books, wallet
  <2>3. CASE SetStatus(n, "PROCESSING") \/ SetStatus(n, "FAILED")
    BY <1>11, <1>12, <2>1, <2>3 DEF MarkRefundProcessing, MarkRefundFailed
  <2> QED
    BY <1>12, <2>1, <2>2, <2>3 DEF MarkRefundProcessing, MarkRefundFailed
<1>13. ASSUME NEW w \in Workers, RefundStep(w) PROVE [Sale!Next]_(Sale!vars)
  BY <1>12, <1>13, GatewaySells, CompensateSells, CompleteSells DEF RefundStep
<1>14. CASE UNCHANGED vars
  BY <1>14, SaleUnmoved DEF vars, books, wallet
<1> QED
  BY <1>1, <1>2, <1>3, <1>5, <1>6, <1>7, <1>8, <1>9, <1>10, <1>13, <1>14 DEF Next

\* The payment service keeps the promise of a sale: points once and for money,
\* points back once and after the money, an order closed after both.
THEOREM OrdersKeepSale == Spec => KeepsSale
BY SaleInitially, StepSells, Invariance, PTL DEF Spec, KeepsSale, Sale!Spec
\* An order recorded as refunded was paid, its money was returned by the channel
\* and its points were taken back under the number of that refund: no repetition,
\* death of a worker or concurrent refund records less (refund.service.ts).
THEOREM RefundedWasPaidBack ==
    Spec => [](\A o \in Orders : orders[o] = "REFUNDED" =>
                   channel[o] = "paid" /\ returned[o] \in debited)
<1>1. Inv => \A o \in Orders : orders[o] = "REFUNDED" =>
                 channel[o] = "paid" /\ returned[o] \in debited
  <2> SUFFICES ASSUME Inv, NEW o \in Orders, orders[o] = "REFUNDED"
               PROVE  channel[o] = "paid" /\ returned[o] \in debited
    OBVIOUS
  <2>1. PICK n \in debited : refunds[n].order = o
    BY DEF Inv, Trails
  <2>2. returned[o] = n
    BY <2>1 DEF Inv, Trails
  <2>3. channel[o] = "paid"
    BY DEF Inv, Payments, Settled
  <2> QED
    BY <2>2, <2>3
<1> QED
  BY <1>1, Invariance, PTL
=============================================================================
