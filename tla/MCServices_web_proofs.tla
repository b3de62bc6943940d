------------------------ MODULE MCServices_web_proofs ------------------------
(***************************************************************************)
(* What holds of the web applications of MCServices, and of the uploads    *)
(* that operations-service keeps for them, for all values of its constants. *)
(***************************************************************************)
EXTENDS MCServices, FiniteSetTheorems, SequenceTheorems, TLAPS

LEMMA OneAppSteps ==
    ASSUME [ServicesNext]_serviceVars
    PROVE  /\ [Events!Next]_eventVars
           /\ [Support!Next]_supportVars
           /\ [Console!Next]_consoleVars
           /\ [Browser!Next]_browserVars
<1> QED
  BY DEF ServicesNext, serviceVars


-----------------------------------------------------------------------------
(* The tabs that follow a task (TaskEvents).                               *)

TaskStatuses == {"QUEUED", "SUBMITTING", "RUNNING", "ended", "paid"}

TabRows == [at : {"connecting", "streaming", "polling", "closed"}, shown : Nat, failures : Nat,
            session : Streams \cup {None}]

StreamRows ==
    [at : {"free", "asking", "opening", "open", "over"}, high : Nat, events : Seq(Nat),
     lost : BOOLEAN, why : {None, "refused", "idle", "ended", "failed", "left"}]

EventsType ==
    /\ history \in Seq(TaskStatuses) /\ history # <<>>
    /\ tabs \in [Tabs -> TabRows]
    /\ streams \in [Streams -> StreamRows]
    /\ slots \in Int

\* The versions after s up to h.
After(s, h) == [k \in 1..(h - s) |-> s + k]

\* While a tab streams it has a stream that it has not left, which has for it
\* what it does not show yet.
TabInv(t) ==
    LET i == tabs[t].session
    IN  /\ tabs[t].shown \in 1..Events!Latest
        /\ Events!Streaming(t) =>
               /\ i \in Streams /\ streams[i].at # "free" /\ ~streams[i].lost
               /\ tabs[t].shown <= streams[i].high
               /\ streams[i].why # "failed" => streams[i].events = After(tabs[t].shown, streams[i].high)

\* No stream is ahead of the task, and one that has failed, or that nobody
\* reads, is empty.
StreamOk(r) ==
    /\ r.high <= Events!Latest
    /\ r.lost \/ r.why = "failed" => r.events = <<>>
    /\ r.why # None => r.at = "over"

TabsApart ==
    \A t, u \in Tabs :
        Events!Streaming(t) /\ Events!Streaming(u) /\ tabs[t].session = tabs[u].session => t = u

EventsInv ==
    /\ EventsType
    /\ \A t \in Tabs : TabInv(t)
    /\ \A i \in Streams : StreamOk(streams[i])
    /\ TabsApart
    /\ Events!SlotsReturned

\* What Cardinality is in the instance it is here.
LEMMA SameCardinality == \A S : Events!Cardinality(S) = Cardinality(S)
  BY DEF Events!Cardinality, Cardinality

Serving == {i \in Streams : streams[i].at \in {"opening", "open"}}

LEMMA SlotsCount ==
    Events!SlotsReturned <=> slots = Cardinality(Serving) /\ slots <= MaxConnections
<1>1. Events!Cardinality(Serving) = Cardinality(Serving)
  BY SameCardinality
<1> QED
  BY <1>1 DEF Events!SlotsReturned, Serving

LEMMA SlotsCountNext ==
    (Events!SlotsReturned <=> slots = Cardinality(Serving) /\ slots <= MaxConnections)'
  BY SlotsCount, PTL

LEMMA ServingFinite == IsFiniteSet(Serving)
<1>1. Serving \subseteq Streams
  BY DEF Serving
<1> QED
  BY <1>1, EventsAssumption, FS_Subset

\* A slot is taken, kept or given back with the stream that it is for.
LEMMA SlotTaken ==
    ASSUME Events!SlotsReturned, NEW i \in Streams, i \notin Serving, Serving' = Serving \cup {i},
           slots < MaxConnections, slots' = slots + 1
    PROVE  Events!SlotsReturned'
<1>1. slots = Cardinality(Serving)
  BY SlotsCount
<1>2. Cardinality(Serving \cup {i}) = Cardinality(Serving) + 1 /\ Cardinality(Serving) \in Nat
  BY ServingFinite, FS_AddElement, FS_CardinalityType
<1>3. Cardinality(Serving') = slots'
  BY <1>1, <1>2
<1>4. slots' <= MaxConnections
  BY <1>1, <1>2, EventsAssumption
<1> QED
  BY <1>3, <1>4, SlotsCountNext

LEMMA SlotReturned ==
    ASSUME Events!SlotsReturned, NEW i \in Serving, Serving' = Serving \ {i}, slots' = slots - 1
    PROVE  Events!SlotsReturned'
<1>1. slots = Cardinality(Serving) /\ slots <= MaxConnections
  BY SlotsCount
<1>2. Cardinality(Serving \ {i}) = Cardinality(Serving) - 1 /\ Cardinality(Serving) \in Nat
  BY ServingFinite, FS_RemoveElement, FS_CardinalityType
<1>3. Cardinality(Serving') = slots'
  BY <1>1, <1>2
<1>4. slots' <= MaxConnections
  BY <1>1, <1>2, EventsAssumption
<1> QED
  BY <1>3, <1>4, SlotsCountNext

LEMMA SlotKept ==
    ASSUME Events!SlotsReturned, Serving' = Serving, slots' = slots
    PROVE  Events!SlotsReturned'
  BY SlotsCount, SlotsCountNext

-----------------------------------------------------------------------------
(* Runs of versions.                                                       *)

LEMMA JoinType ==
    ASSUME NEW a \in Seq(Nat), NEW b \in Seq(Nat)
    PROVE  /\ a \o b \in Seq(Nat) /\ Len(a \o b) = Len(a) + Len(b)
           /\ \A k \in 1..Len(a) + Len(b) :
                  (a \o b)[k] = IF k <= Len(a) THEN a[k] ELSE b[k - Len(a)]
  BY ConcatProperties

LEMMA TailType ==
    ASSUME NEW a \in Seq(Nat), a # <<>>
    PROVE  /\ Tail(a) \in Seq(Nat) /\ Len(Tail(a)) = Len(a) - 1
           /\ \A k \in 1..Len(Tail(a)) : Tail(a)[k] = a[k + 1]
  BY HeadTailProperties

LEMMA AfterType ==
    ASSUME NEW s \in Nat, NEW h \in Nat
    PROVE  After(s, h) \in Seq(Nat) /\ (s <= h => Len(After(s, h)) = h - s)
                /\ (s >= h => After(s, h) = <<>>)
<1>1. CASE s <= h
  <2>1. h - s \in Nat /\ \A k \in 1..(h - s) : s + k \in Nat
    BY <1>1
  <2>2. After(s, h) \in [1..(h - s) -> Nat]
    BY <2>1 DEF After
  <2>3. After(s, h) \in Seq(Nat) /\ Len(After(s, h)) = h - s
    BY <2>1, <2>2
  <2> QED
    BY <1>1, <2>3
<1>2. CASE s > h
  <2>1. 1..(h - s) = {}
    BY <1>2
  <2>2. After(s, h) = <<>>
    BY <2>1 DEF After
  <2> QED
    BY <1>2, <2>2
<1> QED
  BY <1>1, <1>2

LEMMA AfterTail ==
    ASSUME NEW s \in Nat, NEW h \in Nat, s <= h, After(s, h) # <<>>
    PROVE  s < h /\ Head(After(s, h)) = s + 1 /\ Tail(After(s, h)) = After(s + 1, h)
<1>1. s < h
  BY AfterType
<1>2. PICK a \in Seq(Nat) : a = After(s, h) /\ Len(a) = h - s
  BY AfterType
<1>3. PICK b \in Seq(Nat) : b = After(s + 1, h) /\ Len(b) = h - (s + 1)
  <2>1. s + 1 \in Nat /\ s + 1 <= h
    BY <1>1
  <2> QED
    BY <2>1, AfterType
<1>4. Head(a) = s + 1
  BY <1>1, <1>2 DEF After
<1>5. /\ Tail(a) \in Seq(Nat) /\ Len(Tail(a)) = h - (s + 1)
      /\ \A k \in 1..Len(Tail(a)) : Tail(a)[k] = a[k + 1]
  BY <1>1, <1>2, TailType
<1>6. ASSUME NEW k \in 1..(h - (s + 1))
      PROVE  Tail(a)[k] = b[k]
  <2>1. Tail(a)[k] = a[k + 1]
    BY <1>5, k \in 1..Len(Tail(a))
  <2>2. a[k + 1] = s + (k + 1) /\ b[k] = (s + 1) + k
    BY <1>1, <1>2, <1>3 DEF After
  <2>3. s + (k + 1) = (s + 1) + k
    OBVIOUS
  <2> QED
    BY <2>1, <2>2, <2>3, Zenon
<1>7. Tail(a) = b
  BY <1>3, <1>5, <1>6, SeqEqual
<1> QED
  BY <1>1, <1>2, <1>3, <1>4, <1>7

LEMMA AfterJoin ==
    ASSUME NEW s \in Nat, NEW h \in Nat, NEW l \in Nat, s <= h, h <= l
    PROVE  After(s, h) \o After(h, l) = After(s, l)
<1>1. PICK a \in Seq(Nat) : a = After(s, h) /\ Len(a) = h - s
  BY AfterType
<1>2. PICK b \in Seq(Nat) : b = After(h, l) /\ Len(b) = l - h
  BY AfterType
<1>3. PICK c \in Seq(Nat) : c = After(s, l) /\ Len(c) = l - s
  <2>1. s <= l
    OBVIOUS
  <2> QED
    BY <2>1, AfterType
<1>4. /\ a \o b \in Seq(Nat) /\ Len(a \o b) = l - s
      /\ \A k \in 1..(l - s) : (a \o b)[k] = IF k <= h - s THEN a[k] ELSE b[k - (h - s)]
  <2>1. /\ a \o b \in Seq(Nat) /\ Len(a \o b) = Len(a) + Len(b)
        /\ \A k \in 1..Len(a) + Len(b) :
               (a \o b)[k] = IF k <= Len(a) THEN a[k] ELSE b[k - Len(a)]
    BY JoinType
  <2>2. Len(a) + Len(b) = l - s /\ Len(a) = h - s
    BY <1>1, <1>2
  <2> QED
    BY <2>1, <2>2
<1>5. ASSUME NEW k \in 1..(l - s)
      PROVE  (a \o b)[k] = c[k]
  <2>1. c[k] = s + k
    BY <1>3 DEF After
  <2>2. CASE k <= h - s
    <3>1. a[k] = s + k
      BY <1>1, <2>2 DEF After
    <3> QED
      BY <1>4, <2>1, <2>2, <3>1
  <2>3. CASE k > h - s
    <3>1. k - (h - s) \in 1..(l - h)
      BY <2>3
    <3>2. b[k - (h - s)] = h + (k - (h - s))
      BY <1>2, <3>1 DEF After
    <3>3. h + (k - (h - s)) = s + k /\ ~(k <= h - s)
      BY <2>3
    <3> QED
      BY <1>4, <2>1, <3>2, <3>3, Zenon
  <2>4. k <= h - s \/ k > h - s
    OBVIOUS
  <2> QED
    BY <2>2, <2>3, <2>4, Zenon
<1>6. a \o b = c
  BY <1>3, <1>4, <1>5, SeqEqual
<1> QED
  BY <1>1, <1>2, <1>3, <1>6

-----------------------------------------------------------------------------
(* Steps of the tabs and of the gateway.                                   *)

LEMMA EventsInit == Events!Init => EventsInv
<1> SUFFICES ASSUME Events!Init PROVE EventsInv
  OBVIOUS
<1>1. history = <<"QUEUED">> /\ history \in Seq(TaskStatuses) /\ history # <<>> /\ Events!Latest = 1
  BY DEF Events!Init, Events!Latest, TaskStatuses
<1>2. EventsType
  <2>1. <<>> \in Seq(Nat)
    OBVIOUS
  <2> QED
    BY <1>1, <2>1 DEF EventsType, Events!Init, Events!Free, TabRows, StreamRows
<1>3. \A t \in Tabs : TabInv(t)
  BY <1>1 DEF TabInv, Events!Init, Events!Streaming
<1>4. \A i \in Streams : StreamOk(streams[i])
  BY <1>1 DEF StreamOk, Events!Init, Events!Free
<1>5. TabsApart
  BY DEF TabsApart, Events!Init, Events!Streaming
<1>6. Events!SlotsReturned
  <2>1. Serving = {}
    BY DEF Serving, Events!Init, Events!Free
  <2>2. Cardinality(Serving) = 0
    BY <2>1, FS_EmptySet
  <2> QED
    BY <2>2, SlotsCount, EventsAssumption DEF Events!Init
<1> QED
  BY <1>2, <1>3, <1>4, <1>5, <1>6 DEF EventsInv

\* What a tab relies on is its own row and its stream's.
LEMMA TabFrame ==
    ASSUME NEW t \in Tabs, TabInv(t), tabs'[t] = tabs[t], UNCHANGED history,
           Events!Streaming(t) => streams'[tabs[t].session] = streams[tabs[t].session]
    PROVE  TabInv(t)'
  BY DEF TabInv, Events!Streaming, Events!Latest

\* A tab that lets go of its stream.
LEMMA TabLetsGo ==
    ASSUME EventsInv, NEW t \in Tabs, Events!Streaming(t), NEW row \in TabRows,
           tabs' = [tabs EXCEPT ![t] = row], row.at # "streaming", row.shown \in 1..Events!Latest,
           streams' = Events!Abandoned(tabs[t].session), UNCHANGED <<history, slots>>
    PROVE  EventsInv'
<1> DEFINE i == tabs[t].session
<1>1. i \in Streams /\ streams[i].at # "free" /\ ~streams[i].lost
  BY DEF EventsInv, TabInv
<1>2. PICK r : r = (IF streams[i].at = "over" THEN Events!Free
                    ELSE [streams[i] EXCEPT !.lost = TRUE, !.events = <<>>])
  OBVIOUS
<1>3. r \in StreamRows /\ StreamOk(r) /\ (r.at \in {"opening", "open"} <=> streams[i].at \in {"opening", "open"})
  <2>1. streams[i] \in StreamRows /\ StreamOk(streams[i]) /\ <<>> \in Seq(Nat)
    BY <1>1 DEF EventsInv, EventsType
  <2>2. Events!Latest \in Nat
    BY DEF EventsInv, EventsType, Events!Latest
  <2>3. CASE streams[i].at = "over"
    <3>1. r = Events!Free
      BY <1>2, <2>3
    <3> QED
      BY <2>1, <2>2, <2>3, <3>1 DEF StreamRows, StreamOk, Events!Free
  <2>4. CASE streams[i].at # "over"
    <3>1. r = [streams[i] EXCEPT !.lost = TRUE, !.events = <<>>]
      BY <1>2, <2>4
    <3>2. /\ r \in StreamRows /\ r.at = streams[i].at /\ r.high = streams[i].high
          /\ r.events = <<>> /\ r.why = streams[i].why
      BY <2>1, <3>1 DEF StreamRows
    <3> QED
      BY <2>1, <3>2 DEF StreamOk
  <2> QED
    BY <2>3, <2>4
<1>4. streams' = [streams EXCEPT ![i] = r]
  BY <1>2 DEF Events!Abandoned
<1>5. EventsType'
  BY <1>1, <1>3, <1>4 DEF EventsInv, EventsType
<1>6. \A u \in Tabs : TabInv(u)'
  <2> SUFFICES ASSUME NEW u \in Tabs PROVE TabInv(u)'
    OBVIOUS
  <2>1. CASE u = t
    BY <2>1 DEF TabInv, Events!Streaming, Events!Latest, EventsInv, EventsType
  <2>2. CASE u # t
    <3>1. tabs'[u] = tabs[u] /\ TabInv(u)
      BY <2>2 DEF EventsInv, EventsType
    <3>2. Events!Streaming(u) => tabs[u].session # i
      BY <2>2 DEF EventsInv, TabsApart
    <3>3. Events!Streaming(u) => streams'[tabs[u].session] = streams[tabs[u].session]
      BY <1>4, <3>1, <3>2 DEF EventsInv, EventsType, TabInv
    <3> QED
      BY <3>1, <3>3, TabFrame
  <2> QED
    BY <2>1, <2>2
<1>7. \A j \in Streams : StreamOk(streams'[j])
  BY <1>1, <1>3, <1>4 DEF EventsInv, EventsType
<1>8. TabsApart'
  BY DEF EventsInv, EventsType, TabsApart, Events!Streaming
<1>9. Events!SlotsReturned'
  <2>1. Serving' = Serving
    BY <1>1, <1>3, <1>4 DEF Serving, EventsInv, EventsType
  <2> QED
    BY <2>1, SlotKept DEF EventsInv
<1>10. \A j \in Streams : StreamOk(streams[j])'
  BY <1>7 DEF StreamOk, Events!Latest
<1> QED
  BY <1>5, <1>6, <1>8, <1>9, <1>10 DEF EventsInv

\* A request of the gateway changes, and a tab that waits for it is told.
LEMMA StreamMoves ==
    ASSUME EventsInv, NEW i \in Streams, NEW r \in StreamRows, StreamOk(r),
           streams' = [streams EXCEPT ![i] = r], UNCHANGED <<history, tabs>>,
           slots' \in Int, Events!SlotsReturned',
           \A t \in Tabs : Events!Streaming(t) /\ tabs[t].session = i /\ TabInv(t) =>
               /\ r.at # "free" /\ ~r.lost
               /\ tabs[t].shown <= r.high
               /\ r.why # "failed" => r.events = After(tabs[t].shown, r.high)
    PROVE  EventsInv'
<1>1. EventsType'
  BY DEF EventsInv, EventsType
<1>2. \A t \in Tabs : TabInv(t)'
  <2> SUFFICES ASSUME NEW t \in Tabs PROVE TabInv(t)'
    OBVIOUS
  <2>1. TabInv(t) /\ tabs'[t] = tabs[t]
    BY DEF EventsInv
  <2>2. CASE Events!Streaming(t) /\ tabs[t].session = i
    BY <2>1, <2>2 DEF EventsInv, EventsType, TabInv, Events!Streaming, Events!Latest
  <2>3. CASE ~(Events!Streaming(t) /\ tabs[t].session = i)
    <3>1. Events!Streaming(t) => streams'[tabs[t].session] = streams[tabs[t].session]
      BY <2>1, <2>3 DEF EventsInv, EventsType, TabInv
    <3> QED
      BY <2>1, <3>1, TabFrame
  <2> QED
    BY <2>2, <2>3
<1>3. \A j \in Streams : StreamOk(streams[j])'
  BY DEF EventsInv, EventsType, StreamOk, Events!Latest
<1>4. TabsApart'
  BY DEF EventsInv, TabsApart, Events!Streaming
<1> QED
  BY <1>1, <1>2, <1>3, <1>4 DEF EventsInv

\* The service of a request ends, or it is refused.
LEMMA OverType ==
    ASSUME EventsInv, NEW i \in Streams,
           NEW why \in {"refused", "idle", "ended", "failed", "left"}
    PROVE  /\ Events!Over(i, why) \in StreamRows
           /\ Events!Over(i, why).at \in {"free", "over"}
           /\ ~streams[i].lost =>
                  Events!Over(i, why) = [streams[i] EXCEPT !.at = "over", !.why = why]
           /\ streams[i].lost => Events!Over(i, why) = Events!Free
           /\ why # "failed" => StreamOk(Events!Over(i, why))
<1>1. streams[i] \in StreamRows /\ StreamOk(streams[i])
  BY DEF EventsInv, EventsType
<1>2. Events!Free \in StreamRows /\ StreamOk(Events!Free) /\ Events!Free.at = "free"
  <2>1. <<>> \in Seq(Nat) /\ Events!Latest \in Nat
    BY DEF EventsInv, EventsType, Events!Latest
  <2> QED
    BY <2>1 DEF Events!Free, StreamRows, StreamOk
<1>3. CASE streams[i].lost
  BY <1>2, <1>3 DEF Events!Over
<1>4. CASE ~streams[i].lost
  <2>1. PICK r : r = [streams[i] EXCEPT !.at = "over", !.why = why]
    OBVIOUS
  <2>2. /\ r \in StreamRows /\ r.at = "over" /\ r.why = why
        /\ r.high = streams[i].high /\ r.lost = streams[i].lost /\ r.events = streams[i].events
    BY <1>1, <2>1 DEF StreamRows
  <2>3. Events!Over(i, why) = r
    BY <1>4, <2>1 DEF Events!Over
  <2> QED
    BY <1>1, <1>4, <2>1, <2>2, <2>3 DEF StreamOk
<1> QED
  BY <1>3, <1>4

LEMMA FinishKeeps ==
    ASSUME EventsInv, NEW i \in Streams, NEW why \in {"refused", "idle", "ended", "left"},
           Events!Finish(i, why), streams[i].at \in {"asking", "opening", "open"},
           slots' = IF i \in Serving THEN slots - 1 ELSE slots, UNCHANGED <<history, tabs>>
    PROVE  EventsInv'
<1>1. PICK r : r = Events!Over(i, why)
  OBVIOUS
<1>2. /\ r \in StreamRows /\ StreamOk(r) /\ r.at \in {"free", "over"}
      /\ ~streams[i].lost => r = [streams[i] EXCEPT !.at = "over", !.why = why]
  <2>1. why \in {"refused", "idle", "ended", "failed", "left"} /\ why # "failed"
    OBVIOUS
  <2>2. /\ Events!Over(i, why) \in StreamRows /\ StreamOk(Events!Over(i, why))
        /\ Events!Over(i, why).at \in {"free", "over"}
        /\ ~streams[i].lost =>
               Events!Over(i, why) = [streams[i] EXCEPT !.at = "over", !.why = why]
    BY <2>1, OverType
  <2> QED
    BY <1>1, <2>2
<1>3. streams' = [streams EXCEPT ![i] = r]
  BY <1>1 DEF Events!Finish
<1>4. slots' \in Int
  BY DEF EventsInv, EventsType
<1>5. Events!SlotsReturned'
  <2>1. Serving' = Serving \ {i}
    BY <1>2, <1>3 DEF Serving, EventsInv, EventsType
  <2> QED
    BY <2>1, SlotReturned, SlotKept DEF EventsInv
<1>6. ASSUME NEW t \in Tabs, Events!Streaming(t), tabs[t].session = i, TabInv(t)
      PROVE  /\ r.at # "free" /\ ~r.lost
             /\ tabs[t].shown <= r.high
             /\ r.why # "failed" => r.events = After(tabs[t].shown, r.high)
  <2>1. streams[i] \in StreamRows /\ ~streams[i].lost
    BY <1>6 DEF TabInv, EventsInv, EventsType
  <2>2. streams[i].why # "failed"
    BY EventsAssumption DEF EventsInv, StreamOk
  <2>3. /\ r.at = "over" /\ r.lost = streams[i].lost
        /\ r.high = streams[i].high /\ r.events = streams[i].events
    BY <1>2, <2>1 DEF StreamRows
  <2> QED
    BY <1>6, <2>1, <2>2, <2>3 DEF TabInv
<1> QED
  BY <1>2, <1>3, <1>4, <1>5, <1>6, StreamMoves

LEMMA AdmitKeeps ==
    ASSUME EventsInv, NEW i \in Streams, Events!Admit(i)
    PROVE  EventsInv'
<1>1. i \notin Serving
  BY DEF Events!Admit, Serving
<1>2. CASE Events!Finish(i, "refused") /\ UNCHANGED slots
  BY <1>1, <1>2, FinishKeeps DEF Events!Admit
<1>3. CASE /\ ~streams[i].lost /\ slots < MaxConnections /\ slots' = slots + 1
           /\ streams' = [streams EXCEPT ![i].at = "opening"]
  <2>1. PICK r : r = [streams[i] EXCEPT !.at = "opening"]
    OBVIOUS
  <2>2. streams[i] \in StreamRows /\ StreamOk(streams[i])
    BY DEF EventsInv, EventsType
  <2>3. /\ r \in StreamRows /\ r.at = "opening" /\ r.high = streams[i].high
        /\ r.events = streams[i].events /\ r.lost = streams[i].lost /\ r.why = streams[i].why
    BY <2>1, <2>2 DEF StreamRows
  <2>4. streams[i].why = None /\ StreamOk(r)
    BY <2>2, <2>3 DEF StreamOk, Events!Admit
  <2>5. streams' = [streams EXCEPT ![i] = r]
    BY <1>3, <2>1
  <2>6. slots' \in Int
    BY <1>3 DEF EventsInv, EventsType
  <2>7. Events!SlotsReturned'
    <3>1. Serving' = Serving \cup {i}
      BY <2>3, <2>5 DEF Serving, EventsInv, EventsType
    <3> QED
      BY <1>1, <1>3, <3>1, SlotTaken DEF EventsInv
  <2>8. ASSUME NEW t \in Tabs, Events!Streaming(t), tabs[t].session = i, TabInv(t)
        PROVE  /\ r.at # "free" /\ ~r.lost
               /\ tabs[t].shown <= r.high
               /\ r.why # "failed" => r.events = After(tabs[t].shown, r.high)
    BY <2>3, <2>4, <2>8, EventsAssumption DEF TabInv
  <2> QED
    BY <2>3, <2>4, <2>5, <2>6, <2>7, <2>8, StreamMoves DEF Events!Admit
<1> QED
  BY <1>2, <1>3 DEF Events!Admit

LEMMA OpenKeeps ==
    ASSUME EventsInv, NEW i \in Streams, Events!Open(i)
    PROVE  EventsInv'
<1>1. i \in Serving
  BY DEF Events!Open, Serving
<1>2. CASE Events!Finish(i, "refused") /\ slots' = slots - 1
  BY <1>1, <1>2, FinishKeeps DEF Events!Open
<1>3. CASE ~streams[i].lost /\ streams' = [streams EXCEPT ![i].at = "open"] /\ UNCHANGED slots
  <2>1. PICK r : r = [streams[i] EXCEPT !.at = "open"]
    OBVIOUS
  <2>2. streams[i] \in StreamRows /\ StreamOk(streams[i])
    BY DEF EventsInv, EventsType
  <2>3. /\ r \in StreamRows /\ r.at = "open" /\ r.high = streams[i].high
        /\ r.events = streams[i].events /\ r.lost = streams[i].lost /\ r.why = streams[i].why
    BY <2>1, <2>2 DEF StreamRows
  <2>4. streams[i].why = None /\ StreamOk(r)
    BY <2>2, <2>3 DEF StreamOk, Events!Open
  <2>5. streams' = [streams EXCEPT ![i] = r]
    BY <1>3, <2>1
  <2>6. slots' \in Int
    BY <1>3 DEF EventsInv, EventsType
  <2>7. Events!SlotsReturned'
    <3>1. Serving' = Serving
      BY <1>1, <2>3, <2>5 DEF Serving, EventsInv, EventsType
    <3> QED
      BY <1>3, <3>1, SlotKept DEF EventsInv
  <2>8. ASSUME NEW t \in Tabs, Events!Streaming(t), tabs[t].session = i, TabInv(t)
        PROVE  /\ r.at # "free" /\ ~r.lost
               /\ tabs[t].shown <= r.high
               /\ r.why # "failed" => r.events = After(tabs[t].shown, r.high)
    BY <2>3, <2>4, <2>8, EventsAssumption DEF TabInv
  <2> QED
    BY <2>3, <2>4, <2>5, <2>6, <2>7, <2>8, StreamMoves DEF Events!Open
<1> QED
  BY <1>2, <1>3 DEF Events!Open

LEMMA CatchUpKeeps ==
    ASSUME EventsInv, NEW i \in Streams, Events!CatchUp(i)
    PROVE  EventsInv'
<1>1. PICK r : r = [streams[i] EXCEPT
               !.high = Events!Latest,
               !.events = IF streams[i].lost THEN <<>>
                          ELSE streams[i].events \o After(streams[i].high, Events!Latest)]
  OBVIOUS
<1>2. streams[i] \in StreamRows /\ StreamOk(streams[i]) /\ Events!Latest \in Nat
  BY DEF EventsInv, EventsType, Events!Latest
<1>3. PICK e : e = IF streams[i].lost THEN <<>>
                   ELSE streams[i].events \o After(streams[i].high, Events!Latest)
  OBVIOUS
<1>4. e \in Seq(Nat)
  <2>1. streams[i].high \in Nat /\ streams[i].events \in Seq(Nat)
    BY <1>2 DEF StreamRows
  <2>2. After(streams[i].high, Events!Latest) \in Seq(Nat)
    BY <1>2, <2>1, AfterType
  <2>3. streams[i].events \o After(streams[i].high, Events!Latest) \in Seq(Nat)
    BY <2>1, <2>2, JoinType
  <2> QED
    BY <1>3, <2>3
<1>5. /\ r \in StreamRows /\ r.at = "open" /\ r.high = Events!Latest
      /\ r.events = e /\ r.lost = streams[i].lost /\ r.why = streams[i].why
  BY <1>1, <1>2, <1>3, <1>4 DEF StreamRows, Events!CatchUp
<1>6. streams[i].why = None /\ StreamOk(r)
  BY <1>2, <1>3, <1>5, EventsAssumption DEF StreamOk, Events!CatchUp
<1>7. streams' = [streams EXCEPT ![i] = r]
  BY <1>1 DEF Events!CatchUp, After
<1>8. slots' \in Int
  BY DEF EventsInv, EventsType, Events!CatchUp
<1>9. Events!SlotsReturned'
  <2>1. Serving' = Serving
    BY <1>5, <1>7 DEF Serving, EventsInv, EventsType, Events!CatchUp
  <2> QED
    BY <2>1, SlotKept DEF EventsInv, Events!CatchUp
<1>10. ASSUME NEW t \in Tabs, Events!Streaming(t), tabs[t].session = i, TabInv(t)
       PROVE  /\ r.at # "free" /\ ~r.lost
              /\ tabs[t].shown <= r.high
              /\ r.why # "failed" => r.events = After(tabs[t].shown, r.high)
  <2>1. tabs[t].shown \in Nat /\ streams[i].high \in Nat
    BY <1>2 DEF EventsInv, EventsType, TabRows, StreamRows
  <2>2. /\ ~streams[i].lost /\ tabs[t].shown <= streams[i].high
        /\ streams[i].events = After(tabs[t].shown, streams[i].high)
    BY <1>6, <1>10, EventsAssumption DEF TabInv
  <2>3. streams[i].high <= Events!Latest
    BY DEF Events!CatchUp, EventsInv, StreamOk
  <2>4. After(tabs[t].shown, streams[i].high) \o After(streams[i].high, Events!Latest)
            = After(tabs[t].shown, Events!Latest)
    BY <1>2, <2>1, <2>2, <2>3, AfterJoin
  <2>5. tabs[t].shown <= Events!Latest
    BY <1>2, <2>1, <2>2, <2>3
  <2> QED
    BY <1>3, <1>5, <2>2, <2>4, <2>5
<1> QED
  BY <1>5, <1>6, <1>7, <1>8, <1>9, <1>10, StreamMoves DEF Events!CatchUp

LEMMA AbortKeeps ==
    ASSUME EventsInv, NEW i \in Streams, Events!Abort(i)
    PROVE  EventsInv'
<1>1. PICK r : r = [Events!Over(i, "failed") EXCEPT !.events = <<>>]
  OBVIOUS
<1>2. streams[i] \in StreamRows /\ StreamOk(streams[i]) /\ Events!Latest \in Nat /\ <<>> \in Seq(Nat)
  BY DEF EventsInv, EventsType, Events!Latest
<1>3. CASE streams[i].lost
  <2>1. r \in StreamRows /\ r.at = "free" /\ StreamOk(r)
    <3>1. Events!Over(i, "failed") = Events!Free
      BY <1>3, OverType
    <3>2. /\ r \in StreamRows /\ r.at = "free" /\ r.high = 0 /\ r.events = <<>>
          /\ ~r.lost /\ r.why = None
      <4>1. PICK f : f = Events!Free
        OBVIOUS
      <4>2. f \in StreamRows /\ f.at = "free" /\ f.high = 0 /\ ~f.lost /\ f.why = None
        BY <1>2, <4>1 DEF Events!Free, StreamRows
      <4>3. r = [f EXCEPT !.events = <<>>]
        BY <1>1, <3>1, <4>1
      <4> QED
        BY <1>2, <4>2, <4>3 DEF StreamRows
    <3> QED
      BY <1>2, <3>2 DEF Events!Free, StreamRows, StreamOk
  <2>2. ASSUME NEW t \in Tabs, Events!Streaming(t), tabs[t].session = i, TabInv(t)
        PROVE  FALSE
    BY <1>3, <2>2 DEF TabInv
  <2>3. i \in Serving /\ Serving' = Serving \ {i}
    BY <1>1, <2>1 DEF Events!Abort, Serving, EventsInv, EventsType
  <2>4. Events!SlotsReturned' /\ slots' \in Int
    BY <2>3, SlotReturned DEF EventsInv, EventsType, Events!Abort
  <2> QED
    BY <1>1, <2>1, <2>2, <2>4, StreamMoves DEF Events!Abort
<1>4. CASE ~streams[i].lost
  <2>1. PICK o : o = [streams[i] EXCEPT !.at = "over", !.why = "failed"]
    OBVIOUS
  <2>2. /\ o \in StreamRows /\ o.at = "over" /\ o.why = "failed"
        /\ o.high = streams[i].high /\ o.lost = streams[i].lost
    BY <1>2, <2>1 DEF StreamRows
  <2>3. r = [o EXCEPT !.events = <<>>]
    BY <1>1, <1>4, <2>1, OverType
  <2>4. /\ r \in StreamRows /\ r.at = "over" /\ r.why = "failed"
        /\ r.high = streams[i].high /\ ~r.lost /\ r.events = <<>>
    BY <1>2, <1>4, <2>2, <2>3 DEF StreamRows
  <2>5. StreamOk(r)
    BY <1>2, <2>4 DEF StreamOk
  <2>6. i \in Serving /\ Serving' = Serving \ {i}
    BY <1>1, <2>4 DEF Events!Abort, Serving, EventsInv, EventsType
  <2>7. Events!SlotsReturned' /\ slots' \in Int
    BY <2>6, SlotReturned DEF EventsInv, EventsType, Events!Abort
  <2>8. \A t \in Tabs : Events!Streaming(t) /\ tabs[t].session = i /\ TabInv(t) =>
            tabs[t].shown <= r.high
    BY <2>4 DEF TabInv
  <2> QED
    BY <1>1, <2>4, <2>5, <2>7, <2>8, StreamMoves DEF Events!Abort
<1> QED
  BY <1>3, <1>4

LEMMA ServeKeeps ==
    ASSUME EventsInv, NEW i \in Streams,
           Events!Serve(i) \/ Events!Idle(i) \/ Events!End(i) \/ Events!Abort(i)
    PROVE  EventsInv'
<1>1. CASE Events!Disconnect(i)
  BY <1>1, FinishKeeps DEF Events!Disconnect, Serving
<1>2. CASE Events!Idle(i)
  BY <1>2, FinishKeeps DEF Events!Idle, Serving
<1>3. CASE Events!End(i)
  BY <1>3, FinishKeeps DEF Events!End, Serving
<1> QED
  BY <1>1, <1>2, <1>3, AdmitKeeps, OpenKeeps, CatchUpKeeps, AbortKeeps DEF Events!Serve

LEMMA ConnectKeeps ==
    ASSUME EventsInv, NEW t \in Tabs, Events!Connect(t)
    PROVE  EventsInv'
<1>1. PICK i \in Streams :
          /\ streams[i] = Events!Free
          /\ streams' = [streams EXCEPT ![i] = [Events!Free EXCEPT !.at = "asking",
                                                                  !.high = Events!Cursor(t)]]
          /\ tabs' = [tabs EXCEPT ![t].at = "streaming", ![t].session = i]
  BY DEF Events!Connect
<1>2. PICK r : r = [Events!Free EXCEPT !.at = "asking", !.high = Events!Cursor(t)]
  OBVIOUS
<1>3. tabs[t] \in TabRows /\ TabInv(t) /\ Events!Latest \in Nat /\ <<>> \in Seq(Nat)
  BY DEF EventsInv, EventsType, Events!Latest
<1>4. /\ r \in StreamRows /\ r.at = "asking" /\ r.high = tabs[t].shown /\ ~r.lost
      /\ r.events = <<>> /\ r.why = None
  BY <1>2, <1>3 DEF Events!Free, Events!Cursor, StreamRows, TabRows
<1>5. PICK row : row = [tabs[t] EXCEPT !.at = "streaming", !.session = i]
  OBVIOUS
<1>6. row \in TabRows /\ row.at = "streaming" /\ row.session = i /\ row.shown = tabs[t].shown
  BY <1>3, <1>5 DEF TabRows
<1>7. tabs' = [tabs EXCEPT ![t] = row] /\ streams' = [streams EXCEPT ![i] = r]
      /\ history' = history /\ slots' = slots
  BY <1>1, <1>2, <1>5 DEF Events!Connect
<1>8. \A u \in Tabs : Events!Streaming(u) => tabs[u].session # i
  BY <1>1 DEF EventsInv, TabInv, Events!Free
<1>9. EventsType'
  BY <1>4, <1>6, <1>7 DEF EventsInv, EventsType
<1>10. \A u \in Tabs : TabInv(u)'
  <2> SUFFICES ASSUME NEW u \in Tabs PROVE TabInv(u)'
    OBVIOUS
  <2>1. CASE u = t
    <3>1. After(tabs[t].shown, tabs[t].shown) = <<>>
      BY <1>3, AfterType DEF TabRows
    <3>2. tabs'[t] = row /\ streams'[i] = r /\ Events!Latest' = Events!Latest
      BY <1>7 DEF EventsInv, EventsType, Events!Latest
    <3>3. tabs[t].shown \in 1..Events!Latest
      BY <1>3 DEF TabInv
    <3> QED
      BY <1>4, <1>6, <2>1, <3>1, <3>2, <3>3 DEF TabInv
  <2>2. CASE u # t
    <3>1. tabs'[u] = tabs[u] /\ TabInv(u)
      BY <1>7, <2>2 DEF EventsInv, EventsType
    <3>2. Events!Streaming(u) => streams'[tabs[u].session] = streams[tabs[u].session]
      BY <1>7, <1>8, <3>1 DEF EventsInv, EventsType, TabInv
    <3> QED
      BY <1>7, <3>1, <3>2, TabFrame
  <2> QED
    BY <2>1, <2>2
<1>11. \A j \in Streams : StreamOk(streams[j])'
  <2>1. StreamOk(r)
    BY <1>3, <1>4 DEF StreamOk, TabInv
  <2> QED
    BY <1>7, <2>1 DEF EventsInv, EventsType, StreamOk, Events!Latest
<1>12. TabsApart'
  BY <1>6, <1>7, <1>8 DEF EventsInv, EventsType, TabsApart, Events!Streaming
<1>13. Events!SlotsReturned'
  <2>1. Serving' = Serving
    BY <1>1, <1>4, <1>7 DEF Serving, EventsInv, EventsType, Events!Free
  <2> QED
    BY <1>7, <2>1, SlotKept DEF EventsInv
<1> QED
  BY <1>9, <1>10, <1>11, <1>12, <1>13 DEF EventsInv

\* The row of a tab whose connection failed.
LEMMA FailedType ==
    ASSUME NEW row \in TabRows
    PROVE  /\ Events!Failed(row) \in TabRows /\ Events!Failed(row).at # "streaming"
           /\ Events!Failed(row).shown = row.shown
<1>1. row.failures + 1 \in Nat
  BY DEF TabRows
<1> QED
  BY <1>1 DEF Events!Failed, TabRows

LEMMA ConsumeKeeps ==
    ASSUME EventsInv, NEW t \in Tabs, Events!Consume(t)
    PROVE  EventsInv'
<1> DEFINE i == tabs[t].session
<1>0. PICK version : version = Head(streams[i].events)
  OBVIOUS
<1>1. /\ Events!Streaming(t) /\ TabInv(t) /\ tabs[t] \in TabRows /\ streams[i] \in StreamRows
      /\ i \in Streams /\ Events!Latest \in Nat
  BY DEF Events!Consume, EventsInv, EventsType, TabInv, Events!Latest
<1>2. /\ tabs[t].shown \in Nat /\ streams[i].high \in Nat /\ tabs[t].shown <= streams[i].high
      /\ streams[i].high <= Events!Latest /\ tabs[t].shown \in 1..Events!Latest
  BY <1>1 DEF TabInv, TabRows, StreamRows, EventsInv, StreamOk
<1>3. streams[i].events # <<>> /\ streams[i].events = After(tabs[t].shown, streams[i].high)
  BY <1>1 DEF Events!Consume, TabInv, EventsInv, StreamOk
<1>4. /\ tabs[t].shown < streams[i].high /\ version = tabs[t].shown + 1
      /\ Tail(streams[i].events) = After(tabs[t].shown + 1, streams[i].high)
  BY <1>0, <1>2, <1>3, AfterTail
<1>5. version \in 1..Events!Latest /\ version > tabs[t].shown /\ version \in Nat
  BY <1>1, <1>2, <1>4
<1>6. CASE tabs' = [tabs EXCEPT ![t] = Events!Failed(@)] /\ streams' = Events!Abandoned(i)
  BY <1>1, <1>2, <1>6, FailedType, TabLetsGo DEF Events!Consume
<1>7. CASE /\ tabs' = [tabs EXCEPT ![t].shown = version, ![t].at = "closed", ![t].session = None]
           /\ streams' = Events!Abandoned(i)
  <2>1. PICK row : row = [tabs[t] EXCEPT !.shown = version, !.at = "closed", !.session = None]
    OBVIOUS
  <2>2. row \in TabRows /\ row.at # "streaming" /\ row.shown = version
    BY <1>1, <1>5, <2>1 DEF TabRows
  <2>3. tabs' = [tabs EXCEPT ![t] = row]
    BY <1>7, <2>1
  <2> QED
    BY <1>1, <1>5, <1>7, <2>2, <2>3, TabLetsGo DEF Events!Consume
<1>8. CASE /\ tabs' = [tabs EXCEPT ![t].shown = version, ![t].failures = 0]
           /\ streams' = [streams EXCEPT ![i].events = Tail(@)]
  <2>1. PICK row : row = [tabs[t] EXCEPT !.shown = version, !.failures = 0]
    OBVIOUS
  <2>2. row \in TabRows /\ row.at = "streaming" /\ row.session = i /\ row.shown = version
    BY <1>1, <1>5, <2>1 DEF TabRows, Events!Streaming
  <2>3. PICK r : r = [streams[i] EXCEPT !.events = Tail(streams[i].events)]
    OBVIOUS
  <2>4. /\ r \in StreamRows /\ r.at = streams[i].at /\ r.high = streams[i].high
        /\ r.lost = streams[i].lost /\ r.why = streams[i].why
        /\ r.events = After(version, streams[i].high)
    <3>1. After(version, streams[i].high) \in Seq(Nat)
      BY <1>2, <1>5, AfterType
    <3> QED
      BY <1>1, <1>4, <2>3, <3>1 DEF StreamRows
  <2>5. tabs' = [tabs EXCEPT ![t] = row] /\ streams' = [streams EXCEPT ![i] = r]
        /\ history' = history /\ slots' = slots
    BY <1>8, <2>1, <2>3 DEF Events!Consume
  <2>6. EventsType'
    BY <1>1, <2>2, <2>4, <2>5 DEF EventsInv, EventsType
  <2>7. \A u \in Tabs : TabInv(u)'
    <3> SUFFICES ASSUME NEW u \in Tabs PROVE TabInv(u)'
      OBVIOUS
    <3>1. CASE u = t
      <4>1. tabs'[t] = row /\ streams'[i] = r /\ Events!Latest' = Events!Latest
        BY <1>1, <2>5 DEF EventsInv, EventsType, Events!Latest
      <4>2. streams[i].at # "free" /\ ~streams[i].lost
        BY <1>1 DEF TabInv
      <4>3. version <= streams[i].high
        BY <1>2, <1>4
      <4> QED
        BY <1>1, <1>5, <2>2, <2>4, <3>1, <4>1, <4>2, <4>3 DEF TabInv
    <3>2. CASE u # t
      <4>1. tabs'[u] = tabs[u] /\ TabInv(u)
        BY <2>5, <3>2 DEF EventsInv, EventsType
      <4>2. Events!Streaming(u) => tabs[u].session # i
        BY <1>1, <3>2 DEF EventsInv, TabsApart
      <4>3. Events!Streaming(u) => streams'[tabs[u].session] = streams[tabs[u].session]
        BY <2>5, <4>1, <4>2 DEF EventsInv, EventsType, TabInv
      <4> QED
        BY <2>5, <4>1, <4>3, TabFrame
    <3> QED
      BY <3>1, <3>2
  <2>8. \A j \in Streams : StreamOk(streams[j])'
    <3>1. StreamOk(r)
      BY <1>1, <1>3, <2>4 DEF StreamOk, EventsInv, TabInv
    <3> QED
      BY <2>5, <3>1 DEF EventsInv, EventsType, StreamOk, Events!Latest
  <2>9. TabsApart'
    BY <1>1, <2>2, <2>5 DEF EventsInv, EventsType, TabsApart, Events!Streaming
  <2>10. Events!SlotsReturned'
    <3>1. Serving' = Serving
      BY <1>1, <2>4, <2>5 DEF Serving, EventsInv, EventsType
    <3> QED
      BY <2>5, <3>1, SlotKept DEF EventsInv
  <2> QED
    BY <2>6, <2>7, <2>8, <2>9, <2>10 DEF EventsInv
<1> QED
  BY <1>0, <1>5, <1>6, <1>7, <1>8 DEF Events!Consume

LEMMA NoticeKeeps ==
    ASSUME EventsInv, NEW t \in Tabs, Events!Notice(t)
    PROVE  EventsInv'
<1> DEFINE i == tabs[t].session
<1>1. /\ Events!Streaming(t) /\ tabs[t] \in TabRows /\ tabs[t].shown \in 1..Events!Latest
      /\ streams[i].at = "over"
  BY DEF Events!Notice, EventsInv, EventsType, TabInv
<1>2. streams' = Events!Abandoned(i) /\ UNCHANGED <<history, slots>>
  BY <1>1 DEF Events!Notice, Events!Abandoned
<1>3. PICK row : row = IF streams[i].why = "idle"
                       THEN [tabs[t] EXCEPT !.session = None, !.failures = 0, !.at = "connecting"]
                       ELSE Events!Failed(tabs[t])
  OBVIOUS
<1>4. row \in TabRows /\ row.at # "streaming" /\ row.shown = tabs[t].shown
  <2>1. CASE streams[i].why = "idle"
    BY <1>1, <1>3, <2>1 DEF TabRows
  <2>2. CASE streams[i].why # "idle"
    BY <1>1, <1>3, <2>2, FailedType
  <2> QED
    BY <2>1, <2>2
<1>5. tabs' = [tabs EXCEPT ![t] = row]
  BY <1>3 DEF Events!Notice
<1> QED
  BY <1>1, <1>2, <1>4, <1>5, TabLetsGo

LEMMA BreakKeeps ==
    ASSUME EventsInv, NEW t \in Tabs, Events!Break(t)
    PROVE  EventsInv'
<1>1. tabs[t] \in TabRows /\ tabs[t].shown \in 1..Events!Latest
  BY DEF EventsInv, EventsType, TabInv
<1> QED
  BY <1>1, FailedType, TabLetsGo DEF Events!Break

\* A tab that does not stream, and will not.
LEMMA TabIdles ==
    ASSUME EventsInv, NEW t \in Tabs, ~Events!Streaming(t), NEW row \in TabRows,
           tabs' = [tabs EXCEPT ![t] = row], row.at # "streaming", row.shown \in 1..Events!Latest,
           UNCHANGED <<history, streams, slots>>
    PROVE  EventsInv'
<1>1. EventsType'
  BY DEF EventsInv, EventsType
<1>2. \A u \in Tabs : TabInv(u)'
  BY DEF EventsInv, EventsType, TabInv, Events!Streaming, Events!Latest
<1>3. \A j \in Streams : StreamOk(streams[j])'
  BY DEF EventsInv, StreamOk, Events!Latest
<1>4. TabsApart'
  BY DEF EventsInv, EventsType, TabsApart, Events!Streaming
<1>5. Events!SlotsReturned'
  BY SlotKept DEF EventsInv, Serving
<1> QED
  BY <1>1, <1>2, <1>3, <1>4, <1>5 DEF EventsInv

LEMMA PollKeeps ==
    ASSUME EventsInv, NEW t \in Tabs, Events!Poll(t)
    PROVE  EventsInv'
<1>1. PICK row : row = [tabs[t] EXCEPT !.shown = Events!Latest,
                            !.at = IF Events!Last(history) = "paid" THEN "closed" ELSE @]
  OBVIOUS
<1>2. tabs[t] \in TabRows /\ tabs[t].shown \in 1..Events!Latest /\ Events!Latest \in Nat
      /\ tabs[t].at = "polling"
  BY DEF EventsInv, EventsType, TabInv, Events!Latest, Events!Poll
<1>3. row \in TabRows /\ row.at # "streaming" /\ row.shown = Events!Latest
  BY <1>1, <1>2 DEF TabRows
<1>4. tabs' = [tabs EXCEPT ![t] = row]
  BY <1>1 DEF Events!Poll
<1>5. row.shown \in 1..Events!Latest
  BY <1>2, <1>3
<1> QED
  BY <1>2, <1>5, <1>3, <1>4, TabIdles DEF Events!Poll, Events!Streaming

LEMMA LeaveKeeps ==
    ASSUME EventsInv, NEW t \in Tabs, Events!Leave(t)
    PROVE  EventsInv'
<1>1. PICK row : row = [tabs[t] EXCEPT !.at = "closed", !.session = None]
  OBVIOUS
<1>2. tabs[t] \in TabRows /\ tabs[t].shown \in 1..Events!Latest
  BY DEF EventsInv, EventsType, TabInv
<1>3. row \in TabRows /\ row.at # "streaming" /\ row.shown = tabs[t].shown
  BY <1>1, <1>2 DEF TabRows
<1>4. tabs' = [tabs EXCEPT ![t] = row]
  BY <1>1 DEF Events!Leave
<1> QED
  BY <1>2, <1>3, <1>4, TabIdles, TabLetsGo DEF Events!Leave

LEMMA WalkKeeps ==
    ASSUME EventsInv, Events!Walk
    PROVE  EventsInv'
<1>1. history \in Seq(TaskStatuses) /\ Events!Latest \in Nat \ {0}
  BY DEF EventsInv, EventsType, Events!Latest
<1>2. Events!Last(history) \in TaskStatuses
  BY <1>1 DEF Events!Last, Events!Latest
<1>3. PICK status \in TaskStatuses : history' = Append(history, status)
  BY <1>2 DEF Events!Walk, Events!Moves, TaskStatuses
<1>4. history' \in Seq(TaskStatuses) /\ history' # <<>> /\ Events!Latest' = Events!Latest + 1
  BY <1>1, <1>3, AppendProperties DEF Events!Latest
<1>5. tabs' = tabs /\ streams' = streams /\ slots' = slots
  BY DEF Events!Walk
<1>6. EventsType'
  BY <1>4, <1>5 DEF EventsInv, EventsType
<1>7. \A t \in Tabs : TabInv(t)'
  BY <1>1, <1>4, <1>5 DEF EventsInv, TabInv, Events!Streaming
<1>8. \A i \in Streams : StreamOk(streams[i])'
  <2> SUFFICES ASSUME NEW i \in Streams PROVE StreamOk(streams[i])'
    OBVIOUS
  <2>1. streams[i].high \in Nat
    BY DEF EventsInv, EventsType, StreamRows
  <2> QED
    BY <1>1, <1>4, <1>5, <2>1 DEF EventsInv, StreamOk
<1>9. TabsApart'
  BY <1>5 DEF EventsInv, TabsApart, Events!Streaming
<1>10. Events!SlotsReturned'
  BY <1>5, SlotKept DEF EventsInv, Serving
<1> QED
  BY <1>6, <1>7, <1>8, <1>9, <1>10 DEF EventsInv

LEMMA EventsStep ==
    ASSUME EventsInv, [Events!Next]_eventVars
    PROVE  EventsInv'
<1>1. CASE UNCHANGED eventVars
  <2>1. history' = history /\ tabs' = tabs /\ streams' = streams /\ slots' = slots
    BY <1>1 DEF eventVars
  <2> QED
    BY <2>1, SlotKept
    DEF EventsInv, EventsType, TabInv, TabsApart, StreamOk, Serving, Events!Streaming, Events!Latest
<1>2. CASE Events!Next
  BY <1>2, WalkKeeps, ConnectKeeps, ConsumeKeeps, NoticeKeeps, BreakKeeps, PollKeeps, LeaveKeeps,
     ServeKeeps
  DEF Events!Next, Events!Follow
<1> QED
  BY <1>1, <1>2

LEMMA EventsInvHolds == ServicesSpec => []EventsInv
<1>1. ServicesInit => EventsInv
  BY EventsInit DEF ServicesInit
<1>2. EventsInv /\ [ServicesNext]_serviceVars => EventsInv'
  BY OneAppSteps, EventsStep
<1> QED
  BY <1>1, <1>2, PTL DEF ServicesSpec

\* For any number of tabs, of connections and of transitions of the task: a slot
\* is held by each request that is being served and by nothing else, and a tab
\* is told every transition once, wherever clients leave and streams fail
\* (task-events.route.ts, release; prisma-task-event-stream.ts, catchUp).
THEOREM TabsAreServed == ServicesSpec => []TabsServed
<1>1. EventsInv => TabsServed
  <2> SUFFICES ASSUME EventsInv PROVE Events!NothingSkipped
    BY DEF EventsInv, TabsServed, Events!TabsServed
  <2> QED
    BY DEF EventsInv, TabInv, After, Events!NothingSkipped
<1> QED
  BY <1>1, EventsInvHolds, PTL

-----------------------------------------------------------------------------
(* The attachment of a message (SupportUploads).                           *)

SenderPlaces ==
    {"idle", "intent", "check", "reserve", "record", "attach", "look", "finalize", "finalized",
     "note", "release", "forget", "unreserve", "released", "compensate", "done"}

SenderRows == [at : SenderPlaces, gen : Support!Generations \cup {None}, held : BOOLEAN]

Jobs == [at : {"idle", "reserve", "own", "call", "settle", "fail", "cancel"},
         gen : Support!Generations \cup {None}, status : Support!Statuses \cup {None}]

SupportType ==
    /\ binding \in Support!Rows \cup {None}
    /\ message \in Support!Generations \cup {None}
    /\ remote \in [Support!Generations -> {None, "RESERVED", "FINALIZED", "RELEASED"}]
    /\ compensation \in [Support!Generations -> {None, "RELEASE_PENDING", "RELEASED"}]
    /\ usable \in BOOLEAN
    /\ late \subseteq Support!Generations
    /\ senders \in [Senders -> SenderRows]
    /\ workers \in [Retriers -> Jobs]
    /\ forgotten \subseteq Support!Generations
    /\ exposed \in BOOLEAN

\* Nobody has heard of a generation that is still to come.
Ahead(g) == binding = None \/ g > binding.gen

AheadInv ==
    \A g \in Support!Generations : Ahead(g) =>
        /\ remote[g] = None /\ compensation[g] = None /\ g \notin late /\ message # g
        /\ \A r \in Senders : senders[r].gen # g
        /\ \A w \in Retriers : workers[w].gen # g

\* The claim of the row is still its request's own.
Fenced(g) == binding # None /\ binding.gen = g /\ binding.claim = Support!Fence

\* The message has the upload of the generation, with the row to guard it.
Attached(g) == message # None /\ message = g /\ ~exposed

\* A generation has one request.
SendersApart ==
    \A r, q \in Senders : senders[r].gen = senders[q].gen /\ senders[r].gen # None => r = q

\* What a request relies on; it takes nothing away as long as the claim is its
\* own, or from a message.
SenderOk(r) ==
    LET g == senders[r].gen
    IN  /\ senders[r].at \notin {"idle", "intent", "done"} => g # None
        /\ senders[r].held => g # None /\ remote[g] # None
        /\ senders[r].at = "record" => senders[r].held
        /\ senders[r].at = "released" => remote[g] = "RELEASED"
        /\ senders[r].at \in {"finalize", "finalized"} => message # None
        /\ Fenced(g) => senders[r].at \notin {"forget", "unreserve", "released", "compensate"}
        /\ Attached(g) => senders[r].at \in {"finalize", "finalized", "note", "done"}

\* What a worker knows of the generation it has claimed.
WorkerOk(w) ==
    LET g == workers[w].gen
    IN  /\ workers[w].at # "idle" => g # None
        /\ workers[w].at \in {"call", "settle"} /\ binding # None /\ binding.gen = g => binding.token
        /\ workers[w].at = "settle" /\ workers[w].status # "FINALIZE_PENDING" =>
               remote[g] = "RELEASED"
        /\ workers[w].at = "cancel" => remote[g] = None /\ ~usable
        /\ workers[w].at \in {"reserve", "own", "cancel"} => workers[w].status = "RESERVING"
        /\ workers[w].at = "own" => remote[g] # None
        /\ ~Fenced(g)
        /\ Attached(g) => /\ workers[w].status = "FINALIZE_PENDING"
                          /\ workers[w].at \in {"call", "settle", "fail"}

\* The row vouches for its reservation, unless nothing is known of one.
BindingInv ==
    binding # None =>
        /\ binding.status \in {"RESERVED", "FINALIZE_PENDING", "FINALIZED"} => binding.token
        /\ binding.status = "RELEASE_PENDING" => binding.token \/ binding.gen \in forgotten
        /\ binding.claim = Support!Fence => binding.status \in {"RESERVING", "RESERVED"}
        /\ Support!Over(binding) /\ binding.token => binding.claim = None

\* No reservation can come of a generation that is closed.
Closed(g) == binding.gen > g \/ Support!Over(binding)

ClosedInv ==
    \A g \in Support!Generations \ forgotten :
        ~Ahead(g) /\ Closed(g) /\ remote[g] = None => ~usable

FenceInv ==
    \A g \in Support!Generations : Fenced(g) =>
        /\ compensation[g] = None
        /\ binding.status = "RESERVED" => remote[g] # None
        /\ message = None => remote[g] \in {None, "RESERVED"}

MessageInv ==
    \A g \in Support!Generations : Attached(g) =>
        /\ binding # None /\ binding.gen = g
        /\ binding.status \in {"FINALIZE_PENDING", "FINALIZED"}
        /\ compensation[g] = None
        /\ remote[g] \in {"RESERVED", "FINALIZED"}

SupportInv ==
    /\ SupportType
    /\ AheadInv
    /\ SendersApart
    /\ \A r \in Senders : SenderOk(r)
    /\ \A w \in Retriers : WorkerOk(w)
    /\ BindingInv
    /\ ClosedInv
    /\ FenceInv
    /\ MessageInv
    /\ Support!ReservationKnown

LEMMA GenerationsAreNumbers ==
    Support!Generations \subseteq Nat /\ None \notin Support!Generations
<1>1. MaxRearmings \in Nat
  BY SupportAssumption DEF Support!Distinct
<1> QED
  BY <1>1, SupportAssumption DEF Support!Distinct, Support!Generations

LEMMA NoneIsNoStatus ==
    /\ None \notin Support!Statuses
    /\ None # "RESERVED" /\ None # "FINALIZED" /\ None # "RELEASED" /\ None # "RELEASE_PENDING"
<1>1. None \notin Support!Statuses
  BY SupportAssumption DEF Support!Distinct
<1> QED
  BY <1>1 DEF Support!Statuses

LEMMA SupportInit == Support!Init => SupportInv
<1> SUFFICES ASSUME Support!Init PROVE SupportInv
  OBVIOUS
<1>1. SupportType
  BY DEF SupportType, Support!Init, Support!Idle, Support!Resting, SenderRows, SenderPlaces, Jobs
<1>2. AheadInv
  BY GenerationsAreNumbers DEF AheadInv, Support!Init, Support!Idle, Support!Resting
<1>3. SendersApart /\ \A r \in Senders : SenderOk(r)
  BY DEF SendersApart, SenderOk, Fenced, Attached, Support!Init, Support!Idle
<1>4. \A w \in Retriers : WorkerOk(w)
  BY DEF WorkerOk, Fenced, Attached, Support!Init, Support!Resting
<1>5. BindingInv /\ ClosedInv /\ FenceInv /\ MessageInv
  BY DEF BindingInv, ClosedInv, FenceInv, MessageInv, Ahead, Fenced, Attached, Support!Init
<1>6. Support!ReservationKnown
  BY NoneIsNoStatus DEF Support!ReservationKnown, Support!Init
<1> QED
  BY <1>1, <1>2, <1>3, <1>4, <1>5, <1>6 DEF SupportInv

-----------------------------------------------------------------------------
(* What the steps have in common.                                          *)

\* The row stays with its generation, and neither loses its token nor gets its
\* claim back.
RowMoves ==
    \/ binding' = binding
    \/ /\ binding # None /\ binding' \in Support!Rows
       /\ binding'.gen = binding.gen
       /\ binding.token => binding'.token
       /\ binding'.claim = Support!Fence => binding.claim = Support!Fence
       /\ Support!Over(binding) => Support!Over(binding')

\* It is closed when nothing is reserved, and nothing will be.
ClosesWell ==
    binding # None /\ Support!Over(binding') /\ ~Support!Over(binding) =>
        \/ binding.gen \in forgotten'
        \/ /\ remote[binding.gen] # "RESERVED" /\ remote'[binding.gen] # "RESERVED"
           /\ remote[binding.gen] = None => ~usable

\* How reservations move at the asset service.
RemoteMoves ==
    \A g \in Support!Generations :
        \/ remote'[g] = remote[g]
        \/ remote[g] = None /\ remote'[g] = "RESERVED" /\ usable /\ ~Ahead(g)
        \/ remote[g] # None /\ remote'[g] = "RELEASED"
        \/ remote[g] \in {"RESERVED", "FINALIZED"} /\ remote'[g] = "FINALIZED"

\* A compensation is there until its reservation is released.
CompensationMoves ==
    \A g \in Support!Generations :
        \/ compensation'[g] = compensation[g]
        \/ compensation[g] = None /\ compensation'[g] = "RELEASE_PENDING" /\ ~Ahead(g)
        \/ compensation[g] # None /\ compensation'[g] # None /\ remote'[g] # "RESERVED"

Moves ==
    /\ RowMoves /\ ClosesWell /\ RemoteMoves /\ CompensationMoves
    /\ message' = message
    /\ forgotten \subseteq forgotten'
    /\ exposed => exposed'
    /\ usable' => usable
    /\ \A g \in late' : g \in late \/ ~Ahead(g)

\* Requests keep their generation, workers take that of the row.
SendersMove ==
    \A r \in Senders :
        \/ senders'[r] = senders[r]
        \/ senders'[r].gen = senders[r].gen /\ SenderOk(r)'

WorkersMove ==
    \A w \in Retriers :
        \/ workers'[w] = workers[w]
        \/ /\ WorkerOk(w)'
           /\ \/ workers'[w].gen \in {None, workers[w].gen}
              \/ binding # None /\ workers'[w].gen = binding.gen

LEMMA FlagsMove ==
    ASSUME SupportInv, Moves
    PROVE  /\ binding' = None <=> binding = None
           /\ \A g : Ahead(g)' <=> Ahead(g)
           /\ \A g : Fenced(g)' => Fenced(g)
           /\ \A g : Attached(g)' => Attached(g)
<1>1. binding' = None <=> binding = None
  BY SupportAssumption DEF Moves, RowMoves, Support!Distinct
<1> QED
  BY <1>1 DEF Moves, RowMoves, Ahead, Fenced, Attached

LEMMA SendersStay ==
    ASSUME SupportInv, Moves, SendersMove, NEW r \in Senders
    PROVE  SenderOk(r)'
<1>1. CASE senders'[r].gen = senders[r].gen /\ SenderOk(r)'
  BY <1>1
<1>2. CASE senders'[r] = senders[r]
  <2>1. senders[r].gen \in Support!Generations \cup {None} /\ SenderOk(r)
    BY DEF SupportInv, SupportType, SenderRows
  <2>2. senders[r].gen # None =>
            /\ remote[senders[r].gen] # None => remote'[senders[r].gen] # None
            /\ remote[senders[r].gen] = "RELEASED" => remote'[senders[r].gen] = "RELEASED"
    BY <2>1, NoneIsNoStatus DEF Moves, RemoteMoves, SupportInv, SupportType
  <2>3. message' = message /\ (Fenced(senders[r].gen)' => Fenced(senders[r].gen))
        /\ (Attached(senders[r].gen)' => Attached(senders[r].gen))
    BY <1>2, FlagsMove DEF Moves, Fenced, Attached
  <2> QED
    BY <1>2, <2>1, <2>2, <2>3 DEF SenderOk
<1> QED
  BY <1>1, <1>2 DEF SendersMove

LEMMA WorkersStay ==
    ASSUME SupportInv, Moves, WorkersMove, NEW w \in Retriers
    PROVE  WorkerOk(w)'
<1>1. CASE WorkerOk(w)'
  BY <1>1
<1>2. CASE workers'[w] = workers[w]
  <2>1. workers[w].gen \in Support!Generations \cup {None} /\ WorkerOk(w)
    BY DEF SupportInv, SupportType, Jobs
  <2>2. workers[w].gen # None =>
            /\ remote[workers[w].gen] # None => remote'[workers[w].gen] # None
            /\ remote[workers[w].gen] = "RELEASED" => remote'[workers[w].gen] = "RELEASED"
            /\ remote[workers[w].gen] = None /\ ~usable => remote'[workers[w].gen] = None /\ ~usable'
    BY <2>1, NoneIsNoStatus DEF Moves, RemoteMoves, SupportInv, SupportType
  <2>3. /\ Fenced(workers[w].gen)' => Fenced(workers[w].gen)
        /\ Attached(workers[w].gen)' => Attached(workers[w].gen)
    BY <1>2, FlagsMove DEF Fenced, Attached
  <2>4. binding' # None /\ binding'.gen = workers[w].gen =>
            binding # None /\ binding.gen = workers[w].gen /\ (binding.token => binding'.token)
    BY FlagsMove DEF Moves, RowMoves
  <2> QED
    BY <1>2, <2>1, <2>2, <2>3, <2>4 DEF WorkerOk
<1> QED
  BY <1>1, <1>2 DEF WorkersMove

LEMMA AheadStays ==
    ASSUME SupportInv, Moves, SendersMove, WorkersMove
    PROVE  AheadInv' /\ SendersApart'
<1>1. SendersApart'
  BY DEF SupportInv, SendersApart, SendersMove
<1>2. ASSUME NEW g \in Support!Generations, Ahead(g)'
      PROVE  /\ remote'[g] = None /\ compensation'[g] = None /\ g \notin late' /\ message' # g
             /\ \A r \in Senders : senders'[r].gen # g
             /\ \A w \in Retriers : workers'[w].gen # g
  <2>1. Ahead(g)
    BY <1>2, FlagsMove
  <2>2. remote'[g] = None
    BY <2>1, NoneIsNoStatus DEF SupportInv, AheadInv, Moves, RemoteMoves
  <2>3. compensation'[g] = None
    BY <2>1 DEF SupportInv, AheadInv, Moves, CompensationMoves
  <2>4. g \notin late' /\ message' # g
    BY <2>1 DEF SupportInv, AheadInv, Moves
  <2>5. \A r \in Senders : senders'[r].gen # g
    BY <2>1 DEF SupportInv, AheadInv, SendersMove
  <2>6. ASSUME NEW w \in Retriers PROVE workers'[w].gen # g
    <3>1. binding # None => binding.gen # g
      <4>1. binding # None => binding.gen \in Nat /\ g \in Nat
        BY GenerationsAreNumbers DEF SupportInv, SupportType, Support!Rows
      <4> QED
        BY <2>1, <4>1 DEF Ahead
    <3>2. workers[w].gen # g
      BY <2>1 DEF SupportInv, AheadInv
    <3> QED
      BY <3>1, <3>2, GenerationsAreNumbers DEF WorkersMove
  <2> QED
    BY <2>2, <2>3, <2>4, <2>5, <2>6
<1> QED
  BY <1>1, <1>2 DEF AheadInv

LEMMA ClosedStays ==
    ASSUME SupportInv, SupportType', Moves, BindingInv'
    PROVE  ClosedInv' /\ Support!ReservationKnown'
<1>1. ASSUME NEW g \in Support!Generations \ forgotten', ~Ahead(g), Closed(g)', remote'[g] = None
      PROVE  ~usable'
  <2>1. remote[g] = None
    BY <1>1, NoneIsNoStatus DEF Moves, RemoteMoves, SupportInv, SupportType
  <2>2. g \notin forgotten /\ binding # None
    BY <1>1 DEF Moves, Ahead
  <2>3. CASE Closed(g)
    BY <1>1, <2>1, <2>2, <2>3 DEF SupportInv, ClosedInv, Moves
  <2>4. CASE ~Closed(g)
    <3>1. binding'.gen = binding.gen
      BY <2>2 DEF Moves, RowMoves
    <3>2. Support!Over(binding') /\ ~Support!Over(binding) /\ binding.gen = g
      <4>1. binding.gen \in Nat /\ g \in Nat
        BY <2>2, GenerationsAreNumbers DEF SupportInv, SupportType, Support!Rows
      <4> QED
        BY <1>1, <2>2, <2>4, <3>1, <4>1 DEF Closed, Ahead
    <3> QED
      BY <1>1, <2>1, <2>2, <3>2 DEF Moves, ClosesWell
  <2> QED
    BY <2>3, <2>4
<1>2. ASSUME NEW g \in Support!Generations \ forgotten', remote'[g] = "RESERVED"
      PROVE  \/ /\ binding'.gen = g
                /\ binding'.status = "RESERVING" \/ (binding'.token /\ ~Support!Over(binding'))
             \/ compensation'[g] = "RELEASE_PENDING"
  <2>1. g \notin forgotten
    BY <1>2 DEF Moves
  <2>2. ASSUME binding # None, binding.gen = g, ~Support!Over(binding)
        PROVE  /\ binding'.gen = g
               /\ binding'.status = "RESERVING" \/ (binding'.token /\ ~Support!Over(binding'))
    <3>1. binding' # None /\ binding'.gen = g
      BY <2>2, FlagsMove DEF Moves, RowMoves
    <3>2. ~Support!Over(binding')
      <4>1. CASE remote[g] = "RESERVED"
        BY <1>2, <2>2, <4>1 DEF Moves, ClosesWell
      <4>2. CASE remote[g] # "RESERVED"
        <5>1. remote[g] = None /\ usable
          BY <1>2, <4>2 DEF Moves, RemoteMoves
        <5> QED
          BY <1>2, <2>2, <5>1 DEF Moves, ClosesWell
      <4> QED
        BY <4>1, <4>2
    <3>3. binding'.status \in Support!Statuses
      BY <3>1 DEF SupportType, Support!Rows
    <3> QED
      BY <1>2, <3>1, <3>2, <3>3 DEF BindingInv, Support!Over, Support!Statuses
  <2>3. CASE remote[g] = "RESERVED"
    <3>1. CASE compensation[g] = "RELEASE_PENDING"
      BY <1>2, <3>1, NoneIsNoStatus DEF Moves, CompensationMoves
    <3>2. CASE binding.gen = g /\ (binding.status = "RESERVING" \/ (binding.token /\ ~Support!Over(binding)))
      <4>1. binding # None
        BY <2>3, NoneIsNoStatus DEF SupportInv, AheadInv, Ahead
      <4> QED
        BY <2>2, <3>2, <4>1 DEF Support!Over
    <3> QED
      BY <2>1, <2>3, <3>1, <3>2 DEF SupportInv, Support!ReservationKnown
  <2>4. CASE remote[g] # "RESERVED"
    <3>1. remote[g] = None /\ usable /\ ~Ahead(g)
      BY <1>2, <2>4 DEF Moves, RemoteMoves
    <3>2. ~Closed(g)
      BY <2>1, <3>1 DEF SupportInv, ClosedInv
    <3>3. binding # None /\ binding.gen = g /\ ~Support!Over(binding)
      <4>1. binding # None => binding.gen \in Nat /\ g \in Nat
        BY GenerationsAreNumbers DEF SupportInv, SupportType, Support!Rows
      <4> QED
        BY <3>1, <3>2, <4>1 DEF Ahead, Closed
    <3> QED
      BY <2>2, <3>3
  <2> QED
    BY <2>3, <2>4
<1>3. \A g : Ahead(g)' <=> Ahead(g)
  BY FlagsMove
<1> QED
  BY <1>1, <1>2, <1>3 DEF ClosedInv, Support!ReservationKnown

LEMMA SupportMoves ==
    ASSUME SupportInv, SupportType', Moves, SendersMove, WorkersMove,
           BindingInv', FenceInv', MessageInv'
    PROVE  SupportInv'
  BY SendersStay, WorkersStay, AheadStays, ClosedStays DEF SupportInv

-----------------------------------------------------------------------------
(* Steps that leave the asset service and the message as they are.         *)

Quiet ==
    /\ message' = message /\ remote' = remote /\ compensation' = compensation
    /\ usable' = usable /\ late' = late /\ exposed' = exposed

RowStep ==
    /\ Quiet /\ RowMoves /\ ClosesWell /\ BindingInv'
    /\ forgotten \subseteq forgotten' /\ forgotten' \subseteq Support!Generations
    /\ \/ binding' = binding
       \/ /\ binding'.claim = Support!Fence =>
                 binding'.status = binding.status \/ remote[binding.gen] # None
          /\ Attached(binding.gen) => binding'.status \in {"FINALIZE_PENDING", "FINALIZED"}

LEMMA RowStays ==
    ASSUME SupportInv, Quiet, binding' = binding, forgotten' = forgotten
    PROVE  RowStep
<1>1. BindingInv'
  BY DEF SupportInv, BindingInv
<1> QED
  BY <1>1 DEF RowStep, RowMoves, ClosesWell, SupportInv, SupportType

LEMMA RowSteps ==
    ASSUME SupportInv, RowStep, SendersMove, WorkersMove,
           senders' \in [Senders -> SenderRows], workers' \in [Retriers -> Jobs]
    PROVE  SupportInv'
<1>1. Moves
  <2>1. RemoteMoves /\ CompensationMoves
    BY DEF RowStep, Quiet, RemoteMoves, CompensationMoves
  <2> QED
    BY <2>1 DEF RowStep, Quiet, Moves
<1>2. SupportType'
  <2>1. binding' \in Support!Rows \cup {None}
    BY DEF RowStep, RowMoves, SupportInv, SupportType
  <2> QED
    BY <2>1 DEF RowStep, Quiet, SupportInv, SupportType
<1>3. BindingInv'
  BY DEF RowStep
<1>4. FenceInv'
  <2> SUFFICES ASSUME NEW g \in Support!Generations, Fenced(g)'
               PROVE  /\ compensation'[g] = None
                      /\ binding'.status = "RESERVED" => remote'[g] # None
                      /\ message' = None => remote'[g] \in {None, "RESERVED"}
    BY DEF FenceInv
  <2>1. Fenced(g)
    BY <1>1, FlagsMove
  <2>2. FenceInv
    BY DEF SupportInv
  <2>3. binding' = binding \/ binding'.status = binding.status \/ remote[g] # None
    BY <2>1 DEF RowStep, Fenced
  <2> QED
    BY <2>1, <2>2, <2>3 DEF FenceInv, RowStep, Quiet
<1>5. MessageInv'
  <2> SUFFICES ASSUME NEW g \in Support!Generations, Attached(g)'
               PROVE  /\ binding' # None /\ binding'.gen = g
                      /\ binding'.status \in {"FINALIZE_PENDING", "FINALIZED"}
                      /\ compensation'[g] = None
                      /\ remote'[g] \in {"RESERVED", "FINALIZED"}
    BY DEF MessageInv
  <2>1. Attached(g)
    BY <1>1, FlagsMove
  <2>2. MessageInv
    BY DEF SupportInv
  <2>3. binding' # None /\ binding'.gen = binding.gen
    BY <1>1, <2>1, <2>2, FlagsMove DEF RowStep, RowMoves, MessageInv
  <2> QED
    BY <2>1, <2>2, <2>3 DEF MessageInv, RowStep, Quiet
<1> QED
  BY <1>1, <1>2, <1>3, <1>4, <1>5, SupportMoves

\* What a request has to see to when it goes to the place.
SenderMay(r, place) ==
    LET g == senders[r].gen
    IN  /\ place \notin {"idle", "intent", "done"} => g # None
        /\ place = "record" => senders[r].held
        /\ place = "released" => remote[g] = "RELEASED"
        /\ place \in {"finalize", "finalized"} => message # None
        /\ Fenced(g)' => place \notin {"forget", "unreserve", "released", "compensate"}
        /\ Attached(g) => place \in {"finalize", "finalized", "note", "done"}

LEMMA SendersGo ==
    ASSUME SupportInv, NEW r \in Senders, NEW place \in SenderPlaces, Support!Goes(r, place)
    PROVE  /\ senders' \in [Senders -> SenderRows]
           /\ senders'[r].at = place
           /\ senders'[r].gen = senders[r].gen
           /\ senders'[r].held = senders[r].held
           /\ \A q \in Senders : q # r => senders'[q] = senders[q]
  BY DEF Support!Goes, SupportInv, SupportType, SenderRows

LEMMA SenderStep ==
    ASSUME SupportInv, RowStep, NEW r \in Senders, NEW place \in SenderPlaces,
           Support!Goes(r, place), SenderMay(r, place), workers' = workers
    PROVE  SupportInv'
<1>1. /\ senders' \in [Senders -> SenderRows]
      /\ senders'[r].at = place
      /\ senders'[r].gen = senders[r].gen
      /\ senders'[r].held = senders[r].held
      /\ \A q \in Senders : q # r => senders'[q] = senders[q]
  BY SendersGo
<1>2. SenderOk(r)'
  <2>1. senders[r].held => senders[r].gen # None /\ remote[senders[r].gen] # None
    BY DEF SupportInv, SenderOk
  <2> QED
    BY <1>1, <2>1 DEF SenderOk, SenderMay, RowStep, Quiet, Fenced, Attached
<1>3. SendersMove
  BY <1>1, <1>2 DEF SendersMove
<1>4. WorkersMove /\ workers' \in [Retriers -> Jobs]
  BY DEF WorkersMove, SupportInv, SupportType
<1> QED
  BY <1>1, <1>3, <1>4, RowSteps

LEMMA WorkerStep ==
    ASSUME SupportInv, RowStep, NEW w \in Retriers, NEW job \in Jobs,
           workers' = [workers EXCEPT ![w] = job], WorkerOk(w)',
           job.gen \in {None, workers[w].gen} \/ (binding # None /\ job.gen = binding.gen),
           senders' = senders
    PROVE  SupportInv'
<1>1. /\ workers' \in [Retriers -> Jobs]
      /\ workers'[w] = job
      /\ \A v \in Retriers : v # w => workers'[v] = workers[v]
  BY DEF SupportInv, SupportType
<1>2. WorkersMove
  BY <1>1 DEF WorkersMove
<1>3. SendersMove /\ senders' \in [Senders -> SenderRows]
  BY DEF SendersMove, SupportInv, SupportType
<1> QED
  BY <1>1, <1>2, <1>3, RowSteps

-----------------------------------------------------------------------------
(* The requests.                                                           *)

\* What an action finds.
LEMMA SupportFacts ==
    ASSUME SupportInv
    PROVE  /\ Support!Fence # None /\ \A w \in Retriers : w # Support!Fence
           /\ binding # None => /\ binding \in Support!Rows
                                /\ binding.gen \in Support!Generations
                                /\ binding.status \in Support!Statuses
                                /\ binding.token \in BOOLEAN
                                /\ binding.claim \in Retriers \cup {Support!Fence, None}
                                /\ binding.due \in BOOLEAN
           /\ BindingInv
           /\ \A r \in Senders : /\ SenderOk(r)
                                 /\ senders[r].at \in SenderPlaces
                                 /\ senders[r].gen \in Support!Generations \cup {None}
                                 /\ senders[r].held \in BOOLEAN
           /\ \A w \in Retriers : /\ WorkerOk(w)
                                  /\ workers[w].gen \in Support!Generations \cup {None}
                                  /\ workers[w].status \in Support!Statuses \cup {None}
           /\ forgotten \subseteq Support!Generations
<1>1. Support!Fence # None /\ \A w \in Retriers : w # Support!Fence
  BY SupportAssumption DEF Support!Distinct
<1>2. ASSUME binding # None
      PROVE  /\ binding \in Support!Rows
             /\ binding.gen \in Support!Generations
             /\ binding.status \in Support!Statuses
             /\ binding.token \in BOOLEAN
             /\ binding.claim \in Retriers \cup {Support!Fence, None}
             /\ binding.due \in BOOLEAN
  <2>1. binding \in Support!Rows
    BY <1>2 DEF SupportInv, SupportType
  <2> QED
    BY <2>1 DEF Support!Rows
<1>3. \A r \in Senders : /\ SenderOk(r)
                         /\ senders[r].at \in SenderPlaces
                         /\ senders[r].gen \in Support!Generations \cup {None}
                         /\ senders[r].held \in BOOLEAN
  BY DEF SupportInv, SupportType, SenderRows
<1>4. \A w \in Retriers : /\ WorkerOk(w)
                          /\ workers[w].gen \in Support!Generations \cup {None}
                          /\ workers[w].status \in Support!Statuses \cup {None}
  BY DEF SupportInv, SupportType, Jobs
<1> QED
  BY <1>1, <1>2, <1>3, <1>4 DEF SupportInv, SupportType

LEMMA SendStep == ASSUME SupportInv, NEW r \in Senders, Support!Send(r) PROVE SupportInv'
<1>1. RowStep
  BY RowStays DEF Support!Send, Support!outside, Support!history, Quiet
<1>2. PICK place \in {"intent", "done"} : Support!Goes(r, place)
  BY DEF Support!Send
<1>3. SenderMay(r, place)
  <2>1. SenderOk(r) /\ senders[r].at = "idle"
    BY SupportFacts DEF Support!Send, Support!At
  <2> QED
    BY <1>2, <2>1 DEF SenderMay, SenderOk
<1> QED
  BY <1>1, <1>2, <1>3, SenderStep DEF Support!Send, SenderPlaces

LEMMA CheckStep ==
    ASSUME SupportInv, NEW r \in Senders, Support!CheckGeneration(r) PROVE SupportInv'
<1>1. Quiet /\ forgotten' = forgotten /\ workers' = workers /\ senders[r].at = "check"
  BY DEF Support!CheckGeneration, Support!At, Support!outside, Support!history, Quiet
<1>2. RowStep
  <2>1. CASE binding' = binding
    BY <1>1, <2>1, RowStays
  <2>2. CASE Support!IsMine(r, "RESERVING") /\ binding' = [binding EXCEPT !.due = FALSE]
    <3>1. binding # None
      BY <2>2 DEF Support!IsMine, Support!Current
    <3>2. /\ binding' \in Support!Rows /\ binding'.gen = binding.gen
          /\ binding'.status = binding.status /\ binding'.token = binding.token
          /\ binding'.claim = binding.claim
      BY <2>2, <3>1, SupportFacts DEF Support!Rows
    <3>3. BindingInv'
      BY <1>1, <3>1, <3>2, SupportFacts DEF BindingInv, Support!Over
    <3>4. Attached(binding.gen) => binding.status \in {"FINALIZE_PENDING", "FINALIZED"}
      BY <3>1, SupportFacts DEF SupportInv, MessageInv
    <3>5. RowMoves /\ ClosesWell
      BY <2>2, <3>1, <3>2, SupportAssumption
      DEF RowMoves, ClosesWell, Support!Over, Support!Distinct
    <3> QED
      BY <1>1, <3>2, <3>3, <3>4, <3>5, SupportFacts DEF RowStep
  <2> QED
    BY <2>1, <2>2 DEF Support!CheckGeneration
<1>3. PICK place \in {"reserve", "release"} : Support!Goes(r, place)
  BY DEF Support!CheckGeneration
<1>4. SenderMay(r, place)
  <2>1. SenderOk(r)
    BY SupportFacts
  <2> QED
    BY <1>1, <1>3, <2>1 DEF SenderMay, SenderOk
<1> QED
  BY <1>1, <1>2, <1>3, <1>4, SenderStep DEF SenderPlaces

LEMMA RecordStep ==
    ASSUME SupportInv, NEW r \in Senders, Support!RecordReserved(r) PROVE SupportInv'
<1>1. Quiet /\ forgotten' = forgotten /\ workers' = workers /\ senders[r].at = "record"
  BY DEF Support!RecordReserved, Support!At, Support!outside, Support!history, Quiet
<1>2. SenderOk(r)
  BY SupportFacts
<1>3. RowStep
  <2>1. CASE binding' = binding
    BY <1>1, <2>1, RowStays
  <2>2. CASE /\ Support!IsMine(r, "RESERVING")
             /\ binding' = [binding EXCEPT !.status = "RESERVED", !.token = TRUE, !.due = FALSE]
    <3>1. /\ binding # None /\ binding.gen = senders[r].gen /\ binding.claim = Support!Fence
          /\ binding.status = "RESERVING"
      BY <2>2 DEF Support!IsMine, Support!Current
    <3>2. /\ binding' \in Support!Rows /\ binding'.gen = binding.gen
          /\ binding'.status = "RESERVED" /\ binding'.token /\ binding'.claim = Support!Fence
      BY <2>2, <3>1, SupportFacts DEF Support!Rows, Support!Statuses
    <3>3. BindingInv'
      BY <1>1, <3>1, <3>2, SupportFacts DEF BindingInv, Support!Over
    <3>4. remote[binding.gen] # None /\ ~Attached(binding.gen)
      BY <1>1, <1>2, <3>1 DEF SenderOk
    <3>5. RowMoves /\ ClosesWell
      BY <2>2, <3>1, <3>2, SupportAssumption
      DEF RowMoves, ClosesWell, Support!Over, Support!Distinct
    <3> QED
      BY <1>1, <3>2, <3>3, <3>4, <3>5, SupportFacts DEF RowStep
  <2> QED
    BY <2>1, <2>2 DEF Support!RecordReserved
<1>4. PICK place \in {"attach", "release"} : Support!Goes(r, place)
  BY DEF Support!RecordReserved
<1>5. SenderMay(r, place)
  BY <1>1, <1>2, <1>4 DEF SenderMay, SenderOk
<1> QED
  BY <1>1, <1>3, <1>4, <1>5, SenderStep DEF SenderPlaces

LEMMA LookStep == ASSUME SupportInv, NEW r \in Senders, Support!Look(r) PROVE SupportInv'
<1>1. Quiet /\ forgotten' = forgotten /\ workers' = workers /\ senders[r].at = "look" /\ RowStep
  BY RowStays DEF Support!Look, Support!At, Support!outside, Support!history, Quiet
<1>2. PICK place \in {"release", "finalize"} :
          Support!Goes(r, place) /\ (place = "finalize" => message # None)
  BY DEF Support!Look
<1>3. SenderMay(r, place)
  <2>1. SenderOk(r)
    BY SupportFacts
  <2> QED
    BY <1>1, <1>2, <2>1 DEF SenderMay, SenderOk
<1> QED
  BY <1>1, <1>2, <1>3, SenderStep DEF SenderPlaces

LEMMA DieStep == ASSUME SupportInv, NEW r \in Senders, Support!Die(r) PROVE SupportInv'
<1>1. Quiet /\ forgotten' = forgotten /\ workers' = workers /\ RowStep
  BY RowStays DEF Support!Die, Support!outside, Support!history, Quiet
<1>2. SenderMay(r, "done")
  BY DEF SenderMay
<1> QED
  BY <1>1, <1>2, SenderStep DEF SenderPlaces, Support!Die

LEMMA SettleFinalizedStep ==
    ASSUME SupportInv, NEW r \in Senders, Support!SettleFinalized(r) PROVE SupportInv'
<1>1. Quiet /\ forgotten' = forgotten /\ workers' = workers /\ senders[r].at = "finalized"
  BY DEF Support!SettleFinalized, Support!At, Support!outside, Support!history, Quiet
<1>2. RowStep
  <2>1. CASE binding' = binding
    BY <1>1, <2>1, RowStays
  <2>2. CASE /\ Support!Current(r) /\ binding.status = "FINALIZE_PENDING" /\ binding.token
             /\ Support!Unclaims("FINALIZED", FALSE)
    <3>1. binding # None
      BY <2>2 DEF Support!Current
    <3>2. /\ binding' \in Support!Rows /\ binding'.gen = binding.gen
          /\ binding'.status = "FINALIZED" /\ binding'.token /\ binding'.claim = None
      BY <2>2, <3>1, SupportFacts DEF Support!Unclaims, Support!Rows, Support!Statuses
    <3>3. BindingInv'
      BY <1>1, <3>1, <3>2, SupportFacts DEF BindingInv, Support!Over
    <3>4. RowMoves /\ ClosesWell
      BY <2>2, <3>1, <3>2, SupportFacts DEF RowMoves, ClosesWell, Support!Over
    <3> QED
      BY <1>1, <3>2, <3>3, <3>4, SupportFacts DEF RowStep
  <2> QED
    BY <2>1, <2>2 DEF Support!SettleFinalized
<1>3. PICK place \in {"done", "note"} : Support!Goes(r, place)
  BY DEF Support!SettleFinalized
<1>4. SenderMay(r, place)
  <2>1. SenderOk(r)
    BY SupportFacts
  <2> QED
    BY <1>1, <1>3, <2>1 DEF SenderMay, SenderOk
<1> QED
  BY <1>1, <1>2, <1>3, <1>4, SenderStep DEF SenderPlaces

LEMMA NoteStep == ASSUME SupportInv, NEW r \in Senders, Support!Note(r) PROVE SupportInv'
<1>1. Quiet /\ forgotten' = forgotten /\ workers' = workers /\ Support!Goes(r, "done")
  BY DEF Support!Note, Support!outside, Support!history, Quiet
<1>2. RowStep
  <2>1. CASE binding' = binding
    BY <1>1, <2>1, RowStays
  <2>2. CASE Support!Current(r) /\ Support!Unclaims(binding.status, FALSE)
    <3>1. binding # None
      BY <2>2 DEF Support!Current
    <3>2. /\ binding' \in Support!Rows /\ binding'.gen = binding.gen
          /\ binding'.status = binding.status /\ binding'.token = binding.token
          /\ binding'.claim = None
      BY <2>2, <3>1, SupportFacts DEF Support!Unclaims, Support!Rows
    <3>3. BindingInv'
      BY <1>1, <3>1, <3>2, SupportFacts DEF BindingInv, Support!Over
    <3>4. RowMoves /\ ClosesWell
      BY <3>1, <3>2, SupportAssumption, SupportFacts
      DEF RowMoves, ClosesWell, Support!Over, Support!Distinct
    <3>5. Attached(binding.gen) => binding.status \in {"FINALIZE_PENDING", "FINALIZED"}
      BY <3>1, SupportFacts DEF SupportInv, MessageInv
    <3> QED
      BY <1>1, <3>2, <3>3, <3>4, <3>5, SupportFacts DEF RowStep
  <2> QED
    BY <2>1, <2>2 DEF Support!Note
<1>3. SenderMay(r, "done")
  BY DEF SenderMay
<1> QED
  BY <1>1, <1>2, <1>3, SenderStep DEF SenderPlaces

LEMMA ReleaseStep == ASSUME SupportInv, NEW r \in Senders, Support!Release(r) PROVE SupportInv'
<1>1. Quiet /\ workers' = workers /\ senders[r].at = "release"
  BY DEF Support!Release, Support!At, Support!outside, Support!history, Quiet
<1>2. SenderOk(r)
  BY SupportFacts
<1>3. CASE Support!Releasable(r)
  <2>1. binding # None /\ binding.gen = senders[r].gen /\ ~Support!Over(binding)
    BY <1>3 DEF Support!Releasable, Support!Current
  <2>2. /\ binding' = [binding EXCEPT !.status = "RELEASE_PENDING", !.claim = None, !.due = TRUE,
                                      !.token = @ \/ senders[r].held]
        /\ Support!Goes(r, IF senders[r].held THEN "unreserve" ELSE "forget")
        /\ forgotten' = IF binding'.token THEN forgotten ELSE forgotten \cup {binding.gen}
    BY <1>3 DEF Support!Release
  <2>3. /\ binding' \in Support!Rows /\ binding'.gen = binding.gen
        /\ binding'.status = "RELEASE_PENDING" /\ (binding.token => binding'.token)
        /\ binding'.claim = None
    BY <2>1, <2>2, SupportFacts DEF Support!Rows, Support!Statuses
  <2>4. BindingInv'
    BY <2>1, <2>2, <2>3, SupportFacts DEF BindingInv, Support!Over
  <2>5. RowMoves /\ ClosesWell
    BY <2>1, <2>3, SupportFacts DEF RowMoves, ClosesWell, Support!Over
  <2>6. ~Attached(binding.gen)
    BY <1>1, <1>2, <2>1 DEF SenderOk
  <2>7. RowStep
    BY <1>1, <2>1, <2>2, <2>3, <2>4, <2>5, <2>6, SupportFacts DEF RowStep
  <2>8. PICK place \in {"unreserve", "forget"} : Support!Goes(r, place)
    BY <2>2
  <2>9. SenderMay(r, place)
    <3>1. ~Fenced(senders[r].gen)'
      BY <2>3, SupportFacts DEF Fenced
    <3> QED
      BY <1>1, <1>2, <2>8, <3>1 DEF SenderMay, SenderOk
  <2> QED
    BY <1>1, <2>7, <2>8, <2>9, SenderStep DEF SenderPlaces
<1>4. CASE ~Support!Releasable(r)
  <2>1. binding' = binding /\ forgotten' = forgotten
    BY <1>4 DEF Support!Release
  <2>2. RowStep
    BY <1>1, <2>1, RowStays
  <2>3. PICK place \in {"compensate", "done"} : Support!Goes(r, place)
    BY <1>4 DEF Support!Release
  <2>4. SenderMay(r, place)
    <3>1. ~Fenced(senders[r].gen)'
      <4> SUFFICES ASSUME Fenced(senders[r].gen) PROVE FALSE
        <5>1. senders'[r].gen = senders[r].gen
          BY <2>3, SendersGo DEF SenderPlaces
        <5> QED
          BY <2>1, <5>1 DEF Fenced
      <4>1. Support!Current(r) /\ binding # None /\ binding.claim = Support!Fence
        BY DEF Fenced, Support!Current
      <4>2. binding.status \in {"RESERVING", "RESERVED"}
        BY <4>1, SupportFacts DEF BindingInv
      <4> QED
        BY <1>4, <4>1, <4>2 DEF Support!Releasable, Support!Over
    <3> QED
      BY <1>1, <1>2, <2>3, <3>1 DEF SenderMay, SenderOk
  <2> QED
    BY <1>1, <2>2, <2>3, <2>4, SenderStep DEF SenderPlaces
<1> QED
  BY <1>3, <1>4

LEMMA ForgetStep == ASSUME SupportInv, NEW r \in Senders, Support!Forget(r) PROVE SupportInv'
<1>1. Quiet /\ forgotten' = forgotten /\ workers' = workers /\ Support!Goes(r, "done")
      /\ senders[r].at = "forget"
  BY DEF Support!Forget, Support!At, Support!outside, Support!history, Quiet
<1>2. RowStep
  <2>1. CASE binding' = binding
    BY <1>1, <2>1, RowStays
  <2>2. CASE /\ Support!Current(r) /\ binding.status = "RELEASE_PENDING" /\ ~binding.token
             /\ Support!Moves("RELEASED")
    <3>1. binding # None /\ binding.gen = senders[r].gen
      BY <2>2 DEF Support!Current
    <3>2. /\ binding' \in Support!Rows /\ binding'.gen = binding.gen
          /\ binding'.status = "RELEASED" /\ ~binding'.token
          /\ binding'.claim = binding.claim
      BY <2>2, <3>1, SupportFacts DEF Support!Moves, Support!Rows, Support!Statuses
    <3>3. binding.claim # Support!Fence
      BY <2>2, <3>1, SupportFacts DEF BindingInv
    <3>4. BindingInv'
      BY <1>1, <3>2, <3>3, SupportFacts DEF BindingInv, Support!Over
    <3>5. RowMoves /\ ClosesWell
      <4>1. binding.gen \in forgotten
        BY <2>2, <3>1, SupportFacts DEF BindingInv
      <4> QED
        BY <1>1, <2>2, <3>1, <3>2, <4>1 DEF RowMoves, ClosesWell, Support!Over
    <3>6. ~Attached(binding.gen)
      BY <1>1, <3>1, SupportFacts DEF SenderOk
    <3> QED
      BY <1>1, <3>2, <3>3, <3>4, <3>5, <3>6, SupportFacts DEF RowStep
  <2> QED
    BY <2>1, <2>2 DEF Support!Forget
<1>3. SenderMay(r, "done")
  BY DEF SenderMay
<1> QED
  BY <1>1, <1>2, <1>3, SenderStep DEF SenderPlaces

LEMMA SettleReleasedStep ==
    ASSUME SupportInv, NEW r \in Senders, Support!SettleReleased(r) PROVE SupportInv'
<1>1. Quiet /\ forgotten' = forgotten /\ workers' = workers /\ Support!Goes(r, "done")
      /\ senders[r].at = "released"
  BY DEF Support!SettleReleased, Support!At, Support!outside, Support!history, Quiet
<1>2. RowStep
  <2>1. CASE binding' = binding
    BY <1>1, <2>1, RowStays
  <2>2. CASE /\ Support!Current(r) /\ binding.status = "RELEASE_PENDING" /\ binding.token
             /\ Support!Unclaims("RELEASED", FALSE)
    <3>1. binding # None /\ binding.gen = senders[r].gen
      BY <2>2 DEF Support!Current
    <3>2. /\ binding' \in Support!Rows /\ binding'.gen = binding.gen
          /\ binding'.status = "RELEASED" /\ binding'.token /\ binding'.claim = None
      BY <2>2, <3>1, SupportFacts DEF Support!Unclaims, Support!Rows, Support!Statuses
    <3>3. BindingInv'
      BY <3>2, SupportFacts DEF BindingInv, Support!Over
    <3>4. remote[binding.gen] = "RELEASED" /\ ~Attached(binding.gen)
      BY <1>1, <3>1, SupportFacts DEF SenderOk
    <3>5. RowMoves /\ ClosesWell
      BY <1>1, <2>2, <3>1, <3>2, <3>4, NoneIsNoStatus, SupportFacts
      DEF RowMoves, ClosesWell, Support!Over, Quiet
    <3> QED
      BY <1>1, <3>2, <3>3, <3>4, <3>5, SupportFacts DEF RowStep
  <2> QED
    BY <2>1, <2>2 DEF Support!SettleReleased
<1>3. SenderMay(r, "done")
  BY DEF SenderMay
<1> QED
  BY <1>1, <1>2, <1>3, SenderStep DEF SenderPlaces

-----------------------------------------------------------------------------
(* The workers.                                                            *)

LEMMA JobHasRow ==
    ASSUME SupportInv, NEW w \in Retriers, workers[w].at # "idle"
    PROVE  binding # None /\ workers[w].gen # None
<1>1. workers[w].gen # None /\ workers[w].gen \in Support!Generations
  BY SupportFacts DEF WorkerOk
<1> QED
  BY <1>1 DEF SupportInv, AheadInv, Ahead

LEMMA ClaimStep == ASSUME SupportInv, NEW w \in Retriers, Support!Claim(w) PROVE SupportInv'
<1>1. /\ Quiet /\ forgotten' = forgotten /\ senders' = senders
      /\ binding # None /\ ~Support!Over(binding) /\ binding.status # "FINALIZED"
      /\ binding' = [binding EXCEPT !.claim = w, !.due = FALSE]
  BY DEF Support!Claim, Support!outside, Support!history, Quiet
<1>2. PICK job : /\ job = [at |-> Support!FirstStep, gen |-> binding.gen, status |-> binding.status]
                 /\ workers' = [workers EXCEPT ![w] = job]
  BY DEF Support!Claim
<1>3. /\ job \in Jobs /\ job.gen = binding.gen /\ job.status = binding.status
      /\ job.at \in {"reserve", "call", "fail"}
      /\ job.at = "reserve" => binding.status = "RESERVING"
      /\ job.at = "call" => binding.token
      /\ job.at = "fail" => ~binding.token
  BY <1>1, <1>2, SupportFacts DEF Jobs, Support!FirstStep
<1>4. /\ binding' \in Support!Rows /\ binding'.gen = binding.gen
      /\ binding'.status = binding.status /\ binding'.token = binding.token
      /\ binding'.claim = w
  BY <1>1, SupportFacts DEF Support!Rows
<1>5. Attached(binding.gen) => binding.status \in {"FINALIZE_PENDING", "FINALIZED"}
  BY <1>1, SupportFacts DEF SupportInv, MessageInv
<1>6. RowStep
  <2>1. BindingInv'
    BY <1>1, <1>4, SupportFacts DEF BindingInv, Support!Over
  <2>2. RowMoves /\ ClosesWell
    BY <1>1, <1>4, SupportFacts DEF RowMoves, ClosesWell, Support!Over
  <2> QED
    BY <1>1, <1>4, <1>5, <2>1, <2>2, SupportFacts DEF RowStep
<1>7. WorkerOk(w)'
  <2>1. workers'[w] = job
    BY <1>2 DEF SupportInv, SupportType
  <2>2. binding.gen # None /\ w # Support!Fence
    BY <1>1, SupportFacts, GenerationsAreNumbers
  <2> QED
    BY <1>1, <1>3, <1>4, <1>5, <2>1, <2>2, SupportFacts DEF WorkerOk, Fenced, Attached, Quiet, BindingInv
<1> QED
  BY <1>1, <1>2, <1>3, <1>6, <1>7, WorkerStep

LEMMA RestStep ==
    ASSUME SupportInv, RowStep, NEW w \in Retriers, senders' = senders,
           workers' = [workers EXCEPT ![w] = Support!Resting]
    PROVE  SupportInv'
<1>1. Support!Resting \in Jobs /\ Support!Resting.gen = None /\ Support!Resting.at = "idle"
  BY DEF Support!Resting, Jobs
<1>2. WorkerOk(w)'
  <2>1. workers'[w].gen = None /\ workers'[w].at = "idle"
    BY <1>1 DEF SupportInv, SupportType
  <2>2. binding' # None => binding'.gen # None
    <3>1. binding' # None => binding'.gen \in Support!Generations
      BY SupportFacts DEF RowStep, RowMoves, Support!Rows
    <3> QED
      BY <3>1, GenerationsAreNumbers
  <2> QED
    BY <2>1, <2>2 DEF WorkerOk, Fenced, Attached
<1> QED
  BY <1>1, <1>2, WorkerStep

LEMMA OwnStep == ASSUME SupportInv, NEW w \in Retriers, Support!Own(w) PROVE SupportInv'
<1>1. Quiet /\ forgotten' = forgotten /\ senders' = senders /\ workers[w].at = "own"
  BY DEF Support!Own, Support!outside, Support!history, Quiet
<1>2. WorkerOk(w) /\ binding # None /\ workers[w].gen # None
  BY <1>1, SupportFacts, JobHasRow
<1>3. ~Attached(workers[w].gen)
  BY <1>1, <1>2 DEF WorkerOk
<1>4. ASSUME NEW place \in {"call", "fail"}, Support!Job(w, place)
      PROVE  /\ [workers[w] EXCEPT !.at = place] \in Jobs
             /\ workers' = [workers EXCEPT ![w] = [workers[w] EXCEPT !.at = place]]
             /\ workers'[w].at = place /\ workers'[w].gen = workers[w].gen
             /\ workers'[w].status = workers[w].status
             /\ [workers[w] EXCEPT !.at = place].gen = workers[w].gen
  BY <1>4 DEF Support!Job, SupportInv, SupportType, Jobs
<1>5. CASE Support!Holds(w) /\ binding.status = "RESERVING"
  <2>1. binding' = [binding EXCEPT !.status = "RELEASE_PENDING", !.token = TRUE] /\ Support!Job(w, "call")
    BY <1>5 DEF Support!Own
  <2>2. /\ binding' \in Support!Rows /\ binding'.gen = binding.gen
        /\ binding'.status = "RELEASE_PENDING" /\ binding'.token /\ binding'.claim = w
        /\ binding.gen = workers[w].gen
    BY <1>2, <1>5, <2>1, SupportFacts DEF Support!Rows, Support!Statuses, Support!Holds
  <2>3. RowStep
    <3>1. BindingInv'
      BY <2>2, SupportFacts DEF BindingInv, Support!Over
    <3>2. RowMoves /\ ClosesWell
      BY <1>2, <1>5, <2>2, SupportFacts DEF RowMoves, ClosesWell, Support!Over
    <3> QED
      BY <1>1, <1>3, <2>2, <3>1, <3>2, SupportFacts DEF RowStep
  <2>4. WorkerOk(w)'
    BY <1>1, <1>2, <1>3, <1>4, <2>1, <2>2, SupportFacts DEF WorkerOk, Fenced, Attached, Quiet
  <2> QED
    BY <1>1, <1>4, <2>1, <2>3, <2>4, WorkerStep
<1>6. CASE ~(Support!Holds(w) /\ binding.status = "RESERVING")
  <2>1. binding' = binding /\ Support!Job(w, "fail")
    BY <1>6 DEF Support!Own
  <2>2. RowStep
    BY <1>1, <2>1, RowStays
  <2>3. WorkerOk(w)'
    BY <1>1, <1>2, <1>3, <1>4, <2>1 DEF WorkerOk, Fenced, Attached, Quiet
  <2> QED
    BY <1>1, <1>4, <2>1, <2>2, <2>3, WorkerStep
<1> QED
  BY <1>5, <1>6

LEMMA SettleStep == ASSUME SupportInv, NEW w \in Retriers, Support!Settle(w) PROVE SupportInv'
<1>1. /\ Quiet /\ forgotten' = forgotten /\ senders' = senders /\ workers[w].at = "settle"
      /\ workers' = [workers EXCEPT ![w] = Support!Resting]
  BY DEF Support!Settle, Support!outside, Support!history, Quiet
<1>2. WorkerOk(w) /\ binding # None /\ workers[w].gen # None
  BY <1>1, SupportFacts, JobHasRow
<1>3. CASE binding' = binding
  BY <1>1, <1>3, RowStays, RestStep
<1>4. CASE Support!Holds(w)
  <2> PICK status : status = IF workers[w].status = "FINALIZE_PENDING" THEN "FINALIZED" ELSE "RELEASED"
    OBVIOUS
  <2>1. Support!Unclaims(status, FALSE) /\ binding.gen = workers[w].gen /\ binding.claim = w
    BY <1>4 DEF Support!Settle, Support!Holds
  <2>2. binding.token /\ ~Support!Over(binding)
    <3>1. w # None
      BY SupportAssumption DEF Support!Distinct
    <3> QED
      BY <1>1, <1>2, <2>1, <3>1, SupportFacts DEF WorkerOk, BindingInv
  <2>3. /\ binding' \in Support!Rows /\ binding'.gen = binding.gen
        /\ binding'.status = status /\ binding'.token /\ binding'.claim = None
    BY <1>2, <2>1, <2>2, SupportFacts DEF Support!Unclaims, Support!Rows, Support!Statuses
  <2>4. /\ Attached(binding.gen) => status = "FINALIZED"
        /\ status = "RELEASED" => remote[binding.gen] = "RELEASED"
    BY <1>1, <1>2, <2>1 DEF WorkerOk
  <2>5. BindingInv'
    BY <2>3, SupportFacts DEF BindingInv, Support!Over
  <2>6. RowMoves /\ ClosesWell
    BY <1>1, <1>2, <2>2, <2>3, <2>4, NoneIsNoStatus, SupportFacts
    DEF RowMoves, ClosesWell, Support!Over, Quiet
  <2>7. RowStep
    BY <1>1, <2>3, <2>4, <2>5, <2>6, SupportFacts DEF RowStep
  <2> QED
    BY <1>1, <2>7, RestStep
<1> QED
  BY <1>3, <1>4 DEF Support!Settle

LEMMA GiveUpStep == ASSUME SupportInv, NEW w \in Retriers, Support!GiveUp(w) PROVE SupportInv'
<1>1. /\ Quiet /\ forgotten' = forgotten /\ senders' = senders
      /\ workers[w].at \in {"fail", "cancel"}
      /\ workers' = [workers EXCEPT ![w] = Support!Resting]
  BY DEF Support!GiveUp, Support!outside, Support!history, Quiet
<1>2. WorkerOk(w) /\ binding # None /\ workers[w].gen # None
  BY <1>1, SupportFacts, JobHasRow
<1>3. CASE binding' = binding
  BY <1>1, <1>3, RowStays, RestStep
<1>4. CASE Support!Holds(w)
  <2> PICK status : status = IF workers[w].at = "cancel" THEN "CANCELLED" ELSE binding.status
    OBVIOUS
  <2>1. Support!Unclaims(status, FALSE) /\ binding.gen = workers[w].gen
    BY <1>4 DEF Support!GiveUp, Support!Holds
  <2>2. /\ binding' \in Support!Rows /\ binding'.gen = binding.gen
        /\ binding'.status = status /\ binding'.token = binding.token /\ binding'.claim = None
    BY <1>2, <2>1, SupportFacts DEF Support!Unclaims, Support!Rows, Support!Statuses
  <2>3. status # binding.status =>
            status = "CANCELLED" /\ remote[binding.gen] = None /\ ~usable /\ ~Attached(binding.gen)
    BY <1>1, <1>2, <2>1 DEF WorkerOk
  <2>4. BindingInv'
    BY <1>1, <1>2, <2>2, <2>3, SupportFacts DEF BindingInv, Support!Over
  <2>5. RowMoves /\ ClosesWell
    BY <1>1, <1>2, <2>2, <2>3, NoneIsNoStatus, SupportAssumption, SupportFacts
    DEF RowMoves, ClosesWell, Support!Over, Quiet, Support!Distinct
  <2>6. Attached(binding.gen) => status \in {"FINALIZE_PENDING", "FINALIZED"}
    BY <1>2, <2>3, SupportFacts DEF SupportInv, MessageInv
  <2>7. RowStep
    BY <1>1, <2>2, <2>4, <2>5, <2>6, SupportFacts DEF RowStep
  <2> QED
    BY <1>1, <2>7, RestStep
<1> QED
  BY <1>3, <1>4 DEF Support!GiveUp

LEMMA StopStep == ASSUME SupportInv, NEW w \in Retriers, Support!Stop(w) PROVE SupportInv'
<1>1. /\ Quiet /\ forgotten' = forgotten /\ senders' = senders /\ binding' = binding
      /\ workers' = [workers EXCEPT ![w] = Support!Resting]
  BY DEF Support!Stop, Support!outside, Support!history, Quiet
<1> QED
  BY <1>1, RowStays, RestStep

LEMMA DueStep == ASSUME SupportInv, Support!FallsDue PROVE SupportInv'
<1>1. /\ Quiet /\ forgotten' = forgotten /\ senders' = senders /\ workers' = workers
      /\ binding # None /\ binding' = [binding EXCEPT !.due = TRUE]
  BY DEF Support!FallsDue, Support!outside, Support!history, Quiet
<1>2. /\ binding' \in Support!Rows /\ binding'.gen = binding.gen
      /\ binding'.status = binding.status /\ binding'.token = binding.token
      /\ binding'.claim = binding.claim
  BY <1>1, SupportFacts DEF Support!Rows
<1>3. BindingInv'
  BY <1>1, <1>2, SupportFacts DEF BindingInv, Support!Over
<1>4. RowMoves /\ ClosesWell
  BY <1>1, <1>2, SupportAssumption DEF RowMoves, ClosesWell, Support!Over, Support!Distinct
<1>5. Attached(binding.gen) => binding.status \in {"FINALIZE_PENDING", "FINALIZED"}
  BY <1>1, SupportFacts DEF SupportInv, MessageInv
<1>6. RowStep
  BY <1>1, <1>2, <1>3, <1>4, <1>5, SupportFacts DEF RowStep
<1>7. SendersMove /\ WorkersMove /\ senders' \in [Senders -> SenderRows] /\ workers' \in [Retriers -> Jobs]
  BY <1>1 DEF SendersMove, WorkersMove, SupportInv, SupportType
<1> QED
  BY <1>6, <1>7, RowSteps

-----------------------------------------------------------------------------
(* Calls of the asset service.                                             *)

AssetStep ==
    /\ binding' = binding /\ message' = message
    /\ forgotten' = forgotten /\ exposed' = exposed
    /\ usable' => usable
    /\ usable' \in BOOLEAN
    /\ late' \subseteq Support!Generations
    /\ \A g \in late' : g \in late \/ ~Ahead(g)
    /\ remote' \in [Support!Generations -> {None, "RESERVED", "FINALIZED", "RELEASED"}]
    /\ compensation' \in [Support!Generations -> {None, "RELEASE_PENDING", "RELEASED"}]
    /\ RemoteMoves
    /\ CompensationMoves
    /\ \A g \in Support!Generations : Fenced(g) =>
           /\ compensation'[g] = None
           /\ message = None => remote'[g] \in {None, "RESERVED"}
    /\ \A g \in Support!Generations : Attached(g) =>
           /\ compensation'[g] = None
           /\ remote'[g] \in {"RESERVED", "FINALIZED"}

LEMMA AssetSteps ==
    ASSUME SupportInv, AssetStep, SendersMove, WorkersMove,
           senders' \in [Senders -> SenderRows], workers' \in [Retriers -> Jobs]
    PROVE  SupportInv'
<1>1. Moves
  BY DEF AssetStep, Moves, RowMoves, ClosesWell
<1>2. SupportType'
  BY DEF AssetStep, SupportInv, SupportType
<1>3. BindingInv'
  BY DEF AssetStep, SupportInv, BindingInv
<1>4. FenceInv'
  <2> SUFFICES ASSUME NEW g \in Support!Generations, Fenced(g)'
               PROVE  /\ compensation'[g] = None
                      /\ binding'.status = "RESERVED" => remote'[g] # None
                      /\ message' = None => remote'[g] \in {None, "RESERVED"}
    BY DEF FenceInv
  <2>1. Fenced(g)
    BY <1>1, FlagsMove
  <2>2. binding.status = "RESERVED" => remote[g] # None
    BY <2>1 DEF SupportInv, FenceInv
  <2>3. remote[g] # None => remote'[g] # None
    BY NoneIsNoStatus DEF AssetStep, RemoteMoves
  <2> QED
    BY <2>1, <2>2, <2>3 DEF AssetStep
<1>5. MessageInv'
  <2> SUFFICES ASSUME NEW g \in Support!Generations, Attached(g)'
               PROVE  /\ binding' # None /\ binding'.gen = g
                      /\ binding'.status \in {"FINALIZE_PENDING", "FINALIZED"}
                      /\ compensation'[g] = None
                      /\ remote'[g] \in {"RESERVED", "FINALIZED"}
    BY DEF MessageInv
  <2>1. Attached(g)
    BY <1>1, FlagsMove
  <2> QED
    BY <2>1 DEF AssetStep, SupportInv, MessageInv
<1> QED
  BY <1>1, <1>2, <1>3, <1>4, <1>5, SupportMoves

\* The service executes, finalizes or releases the reservation of a generation.
LEMMA RemoteChanges ==
    ASSUME SupportInv, NEW g \in Support!Generations, ~Ahead(g),
           NEW to \in {"RESERVED", "FINALIZED", "RELEASED"},
           binding' = binding, message' = message, forgotten' = forgotten, exposed' = exposed,
           compensation' = compensation, usable' = usable,
           late' \subseteq late \cup {g},
           remote' = [remote EXCEPT ![g] = to],
           \/ to = "RESERVED" /\ ~Support!Refused(g) /\ remote[g] = None
           \/ to = "FINALIZED" /\ remote[g] \in {"RESERVED", "FINALIZED"} /\ (Fenced(g) => message # None)
           \/ to = "RELEASED" /\ remote[g] # None /\ ~Fenced(g) /\ ~Attached(g)
    PROVE  AssetStep
<1>1. /\ remote' \in [Support!Generations -> {None, "RESERVED", "FINALIZED", "RELEASED"}]
      /\ remote'[g] = to
      /\ \A h \in Support!Generations : h # g => remote'[h] = remote[h]
  BY DEF SupportInv, SupportType
<1>2. RemoteMoves
  BY <1>1 DEF RemoteMoves, Support!Refused
<1>3. CompensationMoves
  BY DEF CompensationMoves
<1>4. ASSUME NEW h \in Support!Generations, Fenced(h)
      PROVE  compensation'[h] = None /\ (message = None => remote'[h] \in {None, "RESERVED"})
  BY <1>1, <1>4 DEF SupportInv, FenceInv
<1>5. ASSUME NEW h \in Support!Generations, Attached(h)
      PROVE  compensation'[h] = None /\ remote'[h] \in {"RESERVED", "FINALIZED"}
  BY <1>1, <1>5, NoneIsNoStatus DEF SupportInv, MessageInv
<1>6. late' \subseteq Support!Generations /\ \A h \in late' : h \in late \/ ~Ahead(h)
  BY DEF SupportInv, SupportType
<1> QED
  BY <1>1, <1>2, <1>3, <1>4, <1>5, <1>6 DEF AssetStep, SupportInv, SupportType

\* Nothing but what may still be executed changes.
LEMMA RemoteStays ==
    ASSUME SupportInv, NEW g \in Support!Generations, ~Ahead(g),
           binding' = binding, message' = message, forgotten' = forgotten, exposed' = exposed,
           compensation' = compensation, usable' = usable,
           late' \subseteq late \cup {g}, remote' = remote
    PROVE  AssetStep
<1>1. RemoteMoves /\ CompensationMoves
  BY DEF RemoteMoves, CompensationMoves
<1>2. late' \subseteq Support!Generations /\ \A h \in late' : h \in late \/ ~Ahead(h)
  BY DEF SupportInv, SupportType
<1> QED
  BY <1>1, <1>2 DEF AssetStep, SupportInv, SupportType, FenceInv, MessageInv

LEMMA Executing ==
    ASSUME SupportInv, NEW g \in Support!Generations, ~Ahead(g),
           binding' = binding, message' = message, forgotten' = forgotten, exposed' = exposed,
           compensation' = compensation, usable' = usable, late' \subseteq late \cup {g},
           ~Support!Refused(g), Support!Executes(g)
    PROVE  AssetStep /\ remote'[g] # None
<1>1. CASE remote[g] = None
  <2>1. remote' = [remote EXCEPT ![g] = "RESERVED"] /\ remote'[g] = "RESERVED"
    BY <1>1 DEF Support!Executes, SupportInv, SupportType
  <2> QED
    BY <1>1, <2>1, RemoteChanges, NoneIsNoStatus
<1>2. CASE remote[g] # None
  <2>1. remote' = remote
    BY <1>2 DEF Support!Executes, SupportInv, SupportType
  <2> QED
    BY <1>2, <2>1, RemoteStays
<1> QED
  BY <1>1, <1>2

LEMMA LateStep ==
    ASSUME SupportInv, NEW g \in Support!Generations, Support!ExecuteLate(g) PROVE SupportInv'
<1>1. ~Ahead(g)
  BY DEF Support!ExecuteLate, SupportInv, AheadInv
<1>2. AssetStep
  BY <1>1, Executing DEF Support!ExecuteLate, Support!history
<1>3. SendersMove /\ WorkersMove /\ senders' \in [Senders -> SenderRows] /\ workers' \in [Retriers -> Jobs]
  BY DEF Support!ExecuteLate, SendersMove, WorkersMove, SupportInv, SupportType
<1> QED
  BY <1>2, <1>3, AssetSteps

LEMMA CompensateStep ==
    ASSUME SupportInv, NEW g \in Support!Generations, Support!Compensate(g) PROVE SupportInv'
<1>1. /\ compensation[g] = "RELEASE_PENDING" /\ remote[g] # None
      /\ remote' = [remote EXCEPT ![g] = "RELEASED"]
      /\ compensation' = [compensation EXCEPT ![g] = "RELEASED"] \/ compensation' = compensation
      /\ binding' = binding /\ message' = message /\ usable' = usable /\ late' = late
      /\ senders' = senders /\ workers' = workers /\ forgotten' = forgotten /\ exposed' = exposed
  BY DEF Support!Compensate, Support!Releases, Support!history
<1>2. ~Fenced(g) /\ ~Attached(g)
  BY <1>1, NoneIsNoStatus DEF SupportInv, FenceInv, MessageInv
<1>3. /\ remote' \in [Support!Generations -> {None, "RESERVED", "FINALIZED", "RELEASED"}]
      /\ remote'[g] = "RELEASED"
      /\ \A h \in Support!Generations : h # g => remote'[h] = remote[h]
      /\ compensation' \in [Support!Generations -> {None, "RELEASE_PENDING", "RELEASED"}]
      /\ compensation'[g] \in {"RELEASE_PENDING", "RELEASED"}
      /\ \A h \in Support!Generations : h # g => compensation'[h] = compensation[h]
  BY <1>1 DEF SupportInv, SupportType
<1>4. RemoteMoves
  BY <1>1, <1>3 DEF RemoteMoves
<1>5. CompensationMoves
  BY <1>1, <1>3, NoneIsNoStatus DEF CompensationMoves
<1>6. ASSUME NEW h \in Support!Generations, Fenced(h)
      PROVE  compensation'[h] = None /\ (message = None => remote'[h] \in {None, "RESERVED"})
  <2>1. h # g
    BY <1>2, <1>6
  <2> QED
    BY <1>3, <1>6, <2>1 DEF SupportInv, FenceInv
<1>7. ASSUME NEW h \in Support!Generations, Attached(h)
      PROVE  compensation'[h] = None /\ remote'[h] \in {"RESERVED", "FINALIZED"}
  <2>1. h # g
    BY <1>2, <1>7
  <2> QED
    BY <1>3, <1>7, <2>1 DEF SupportInv, MessageInv
<1>8. AssetStep
  BY <1>1, <1>3, <1>4, <1>5, <1>6, <1>7 DEF AssetStep, SupportInv, SupportType
<1>9. SendersMove /\ WorkersMove /\ senders' \in [Senders -> SenderRows] /\ workers' \in [Retriers -> Jobs]
  BY <1>1 DEF SendersMove, WorkersMove, SupportInv, SupportType
<1> QED
  BY <1>8, <1>9, AssetSteps

LEMMA UnusableStep == ASSUME SupportInv, Support!BecomesUnusable PROVE SupportInv'
<1>1. /\ usable /\ usable' = FALSE /\ binding' = binding /\ message' = message /\ remote' = remote
      /\ compensation' = compensation /\ late' = late /\ senders' = senders
      /\ workers' = workers /\ forgotten' = forgotten /\ exposed' = exposed
  BY DEF Support!BecomesUnusable, Support!history
<1>2. RemoteMoves /\ CompensationMoves
  BY <1>1 DEF RemoteMoves, CompensationMoves
<1>3. AssetStep
  BY <1>1, <1>2 DEF AssetStep, SupportInv, SupportType, FenceInv, MessageInv
<1>4. SendersMove /\ WorkersMove /\ senders' \in [Senders -> SenderRows] /\ workers' \in [Retriers -> Jobs]
  BY <1>1 DEF SendersMove, WorkersMove, SupportInv, SupportType
<1> QED
  BY <1>3, <1>4, AssetSteps

LEMMA SenderHasRow ==
    ASSUME SupportInv, NEW r \in Senders, senders[r].gen # None
    PROVE  senders[r].gen \in Support!Generations /\ ~Ahead(senders[r].gen)
<1>1. senders[r].gen \in Support!Generations
  BY SupportFacts
<1> QED
  BY <1>1 DEF SupportInv, AheadInv

LEMMA WorkerHasRow ==
    ASSUME SupportInv, NEW w \in Retriers, workers[w].gen # None
    PROVE  workers[w].gen \in Support!Generations /\ ~Ahead(workers[w].gen)
<1>1. workers[w].gen \in Support!Generations
  BY SupportFacts
<1> QED
  BY <1>1 DEF SupportInv, AheadInv

LEMMA SenderAsks ==
    ASSUME SupportInv, AssetStep, NEW r \in Senders, workers' = workers,
           senders' \in [Senders -> SenderRows], senders'[r].gen = senders[r].gen, SenderOk(r)',
           \A q \in Senders : q # r => senders'[q] = senders[q]
    PROVE  SupportInv'
<1>1. SendersMove
  BY DEF SendersMove
<1>2. WorkersMove /\ workers' \in [Retriers -> Jobs]
  BY DEF WorkersMove, SupportInv, SupportType
<1> QED
  BY <1>1, <1>2, AssetSteps

LEMMA WorkerAsks ==
    ASSUME SupportInv, AssetStep, NEW w \in Retriers, senders' = senders,
           NEW place \in {"own", "cancel", "settle", "fail"}, Support!Job(w, place), WorkerOk(w)'
    PROVE  SupportInv'
<1>1. /\ workers' \in [Retriers -> Jobs] /\ workers'[w].gen = workers[w].gen
      /\ \A v \in Retriers : v # w => workers'[v] = workers[v]
  BY DEF Support!Job, SupportInv, SupportType, Jobs
<1>2. WorkersMove
  BY <1>1 DEF WorkersMove
<1>3. SendersMove /\ senders' \in [Senders -> SenderRows]
  BY DEF SendersMove, SupportInv, SupportType
<1> QED
  BY <1>1, <1>2, <1>3, AssetSteps

LEMMA ReserveStep == ASSUME SupportInv, NEW r \in Senders, Support!Reserve(r) PROVE SupportInv'
<1> PICK g : g = senders[r].gen
  OBVIOUS
<1>1. /\ senders[r].at = "reserve" /\ binding' = binding /\ message' = message
      /\ compensation' = compensation /\ usable' = usable /\ workers' = workers
      /\ forgotten' = forgotten /\ exposed' = exposed
  BY DEF Support!Reserve, Support!At, Support!history
<1>2. SenderOk(r) /\ g # None
  BY <1>1, SupportFacts DEF SenderOk
<1>3. g \in Support!Generations /\ ~Ahead(g) /\ ~Attached(g)
  BY <1>1, <1>2, SenderHasRow DEF SenderOk
<1>4. CASE /\ ~Support!Refused(g) /\ Support!Executes(g) /\ late' = late
           /\ senders' = [senders EXCEPT ![r].at = "record", ![r].held = TRUE]
  <2>1. AssetStep /\ remote'[g] # None
    BY <1>1, <1>3, <1>4, Executing
  <2>2. /\ senders' \in [Senders -> SenderRows]
        /\ senders'[r].at = "record" /\ senders'[r].held /\ senders'[r].gen = g
        /\ \A q \in Senders : q # r => senders'[q] = senders[q]
    BY <1>4 DEF SupportInv, SupportType, SenderRows, SenderPlaces
  <2>3. SenderOk(r)'
    BY <1>1, <1>2, <1>3, <2>1, <2>2 DEF SenderOk, Fenced, Attached
  <2> QED
    BY <1>1, <2>1, <2>2, <2>3, SenderAsks
<1>5. CASE remote' = remote /\ late' \subseteq late \cup {g} /\ Support!Goes(r, "release")
  <2>1. AssetStep
    BY <1>1, <1>3, <1>5, RemoteStays
  <2>2. /\ senders' \in [Senders -> SenderRows]
        /\ senders'[r].at = "release" /\ senders'[r].gen = g /\ senders'[r].held = senders[r].held
        /\ \A q \in Senders : q # r => senders'[q] = senders[q]
    BY <1>5, SendersGo DEF SenderPlaces
  <2>3. SenderOk(r)'
    BY <1>1, <1>2, <1>3, <1>5, <2>2 DEF SenderOk, Fenced, Attached
  <2> QED
    BY <1>1, <2>1, <2>2, <2>3, SenderAsks
<1> QED
  BY <1>4, <1>5 DEF Support!Reserve

LEMMA FinalizeStep == ASSUME SupportInv, NEW r \in Senders, Support!Finalize(r) PROVE SupportInv'
<1> PICK g : g = senders[r].gen
  OBVIOUS
<1>1. /\ senders[r].at = "finalize" /\ binding' = binding /\ message' = message
      /\ compensation' = compensation /\ usable' = usable /\ workers' = workers
      /\ forgotten' = forgotten /\ exposed' = exposed /\ late' = late
  BY DEF Support!Finalize, Support!At, Support!history
<1>2. SenderOk(r) /\ g # None /\ message # None
  BY <1>1, SupportFacts DEF SenderOk
<1>3. g \in Support!Generations /\ ~Ahead(g)
  BY <1>2, SenderHasRow
<1>4. /\ AssetStep
      /\ remote[g] # None => remote'[g] # None
  <2>1. CASE Support!Finalizes(g)
    <3>1. remote' = [remote EXCEPT ![g] = "FINALIZED"] /\ remote'[g] = "FINALIZED"
          /\ remote[g] \in {"RESERVED", "FINALIZED"}
      BY <1>3, <2>1 DEF Support!Finalizes, SupportInv, SupportType
    <3> QED
      BY <1>1, <1>2, <1>3, <3>1, RemoteChanges, NoneIsNoStatus
  <2>2. CASE remote' = remote
    BY <1>1, <1>3, <2>2, RemoteStays
  <2> QED
    BY <2>1, <2>2 DEF Support!Finalize
<1>5. PICK place \in {"finalized", "note"} : Support!Goes(r, place)
  BY DEF Support!Finalize
<1>6. /\ senders' \in [Senders -> SenderRows]
      /\ senders'[r].at = place /\ senders'[r].gen = g /\ senders'[r].held = senders[r].held
      /\ \A q \in Senders : q # r => senders'[q] = senders[q]
  BY <1>5, SendersGo DEF SenderPlaces
<1>7. SenderOk(r)'
  BY <1>1, <1>2, <1>4, <1>5, <1>6 DEF SenderOk, Fenced, Attached
<1> QED
  BY <1>1, <1>4, <1>6, <1>7, SenderAsks

LEMMA UnreserveStep == ASSUME SupportInv, NEW r \in Senders, Support!Unreserve(r) PROVE SupportInv'
<1> PICK g : g = senders[r].gen
  OBVIOUS
<1>1. /\ senders[r].at = "unreserve" /\ binding' = binding /\ message' = message
      /\ compensation' = compensation /\ usable' = usable /\ workers' = workers
      /\ forgotten' = forgotten /\ exposed' = exposed /\ late' = late
  BY DEF Support!Unreserve, Support!At, Support!history
<1>2. SenderOk(r) /\ g # None /\ ~Fenced(g) /\ ~Attached(g)
  BY <1>1, SupportFacts DEF SenderOk
<1>3. g \in Support!Generations /\ ~Ahead(g)
  BY <1>2, SenderHasRow
<1>4. PICK place \in {"released", "note"} :
          /\ Support!Goes(r, place)
          /\ Support!Releases(g) \/ (remote' = remote /\ place = "note")
  BY DEF Support!Unreserve
<1>5. /\ AssetStep
      /\ remote[g] # None => remote'[g] # None
      /\ place = "released" => remote'[g] = "RELEASED"
  <2>1. CASE Support!Releases(g)
    <3>1. remote' = [remote EXCEPT ![g] = "RELEASED"] /\ remote'[g] = "RELEASED" /\ remote[g] # None
      BY <1>3, <2>1 DEF Support!Releases, SupportInv, SupportType
    <3> QED
      BY <1>1, <1>2, <1>3, <3>1, RemoteChanges, NoneIsNoStatus
  <2>2. CASE remote' = remote /\ place = "note"
    BY <1>1, <1>3, <2>2, RemoteStays
  <2> QED
    BY <1>4, <2>1, <2>2
<1>6. /\ senders' \in [Senders -> SenderRows]
      /\ senders'[r].at = place /\ senders'[r].gen = g /\ senders'[r].held = senders[r].held
      /\ \A q \in Senders : q # r => senders'[q] = senders[q]
  BY <1>4, SendersGo DEF SenderPlaces
<1>7. SenderOk(r)'
  BY <1>1, <1>2, <1>4, <1>5, <1>6 DEF SenderOk, Fenced, Attached
<1> QED
  BY <1>1, <1>5, <1>6, <1>7, SenderAsks

LEMMA EnqueueStep ==
    ASSUME SupportInv, NEW r \in Senders, Support!EnqueueCompensation(r) PROVE SupportInv'
<1> PICK g : g = senders[r].gen
  OBVIOUS
<1>1. /\ senders[r].at = "compensate" /\ binding' = binding /\ message' = message
      /\ remote' = remote /\ usable' = usable /\ workers' = workers
      /\ forgotten' = forgotten /\ exposed' = exposed /\ late' = late
      /\ compensation' = [compensation EXCEPT ![g] = IF @ = None THEN "RELEASE_PENDING" ELSE @]
      /\ Support!Goes(r, "done")
  BY DEF Support!EnqueueCompensation, Support!At, Support!history
<1>2. SenderOk(r) /\ g # None /\ ~Fenced(g) /\ ~Attached(g)
  BY <1>1, SupportFacts DEF SenderOk
<1>3. g \in Support!Generations /\ ~Ahead(g)
  BY <1>2, SenderHasRow
<1>4. /\ compensation' \in [Support!Generations -> {None, "RELEASE_PENDING", "RELEASED"}]
      /\ compensation'[g] = IF compensation[g] = None THEN "RELEASE_PENDING" ELSE compensation[g]
      /\ \A h \in Support!Generations : h # g => compensation'[h] = compensation[h]
  BY <1>1, <1>3 DEF SupportInv, SupportType
<1>5. CompensationMoves
  BY <1>3, <1>4 DEF CompensationMoves
<1>6. AssetStep
  <2>1. RemoteMoves
    BY <1>1 DEF RemoteMoves
  <2>2. ASSUME NEW h \in Support!Generations, Fenced(h)
        PROVE  compensation'[h] = None /\ (message = None => remote'[h] \in {None, "RESERVED"})
    BY <1>1, <1>2, <1>4, <2>2 DEF SupportInv, FenceInv
  <2>3. ASSUME NEW h \in Support!Generations, Attached(h)
        PROVE  compensation'[h] = None /\ remote'[h] \in {"RESERVED", "FINALIZED"}
    BY <1>1, <1>2, <1>4, <2>3 DEF SupportInv, MessageInv
  <2> QED
    BY <1>1, <1>4, <1>5, <2>1, <2>2, <2>3 DEF AssetStep, SupportInv, SupportType
<1>7. /\ senders' \in [Senders -> SenderRows]
      /\ senders'[r].at = "done" /\ senders'[r].gen = g /\ senders'[r].held = senders[r].held
      /\ \A q \in Senders : q # r => senders'[q] = senders[q]
  BY <1>1, SendersGo DEF SenderPlaces
<1>8. SenderOk(r)'
  BY <1>1, <1>2, <1>7 DEF SenderOk, Fenced, Attached
<1> QED
  BY <1>1, <1>6, <1>7, <1>8, SenderAsks

LEMMA ReplayStep ==
    ASSUME SupportInv, NEW w \in Retriers, Support!ReplayReserve(w) PROVE SupportInv'
<1> PICK g : g = workers[w].gen
  OBVIOUS
<1>1. /\ workers[w].at = "reserve" /\ binding' = binding /\ message' = message
      /\ compensation' = compensation /\ usable' = usable /\ senders' = senders
      /\ forgotten' = forgotten /\ exposed' = exposed
  BY DEF Support!ReplayReserve, Support!history
<1>2. WorkerOk(w) /\ g # None /\ ~Attached(g) /\ ~Fenced(g)
  BY <1>1, SupportFacts DEF WorkerOk
<1>3. g \in Support!Generations /\ ~Ahead(g)
  BY <1>2, WorkerHasRow
<1>4. PICK place \in {"own", "cancel", "fail"} :
          /\ Support!Job(w, place)
          /\ \/ place = "own" /\ ~Support!Refused(g) /\ Support!Executes(g) /\ late' = late
             \/ place = "fail" /\ late' = late \cup {g} /\ remote' = remote
             \/ place = "cancel" /\ Support!Refused(g) /\ remote' = remote /\ late' = late
  BY DEF Support!ReplayReserve
<1>5. /\ AssetStep
      /\ place = "own" => remote'[g] # None
      /\ place = "cancel" => remote'[g] = None /\ ~usable
  <2>1. CASE place = "own"
    BY <1>1, <1>3, <1>4, <2>1, Executing
  <2>2. CASE place # "own"
    BY <1>1, <1>3, <1>4, <2>2, RemoteStays DEF Support!Refused
  <2> QED
    BY <2>1, <2>2
<1>6. /\ workers'[w].at = place /\ workers'[w].gen = g /\ workers'[w].status = workers[w].status
  BY <1>4 DEF Support!Job, SupportInv, SupportType, Jobs
<1>7. WorkerOk(w)'
  BY <1>1, <1>2, <1>4, <1>5, <1>6 DEF WorkerOk, Fenced, Attached
<1> QED
  BY <1>1, <1>4, <1>5, <1>7, WorkerAsks

LEMMA CallStep == ASSUME SupportInv, NEW w \in Retriers, Support!Call(w) PROVE SupportInv'
<1> PICK g : g = workers[w].gen
  OBVIOUS
<1>1. /\ workers[w].at = "call" /\ binding' = binding /\ message' = message
      /\ compensation' = compensation /\ usable' = usable /\ senders' = senders
      /\ forgotten' = forgotten /\ exposed' = exposed /\ late' = late
  BY DEF Support!Call, Support!history
<1>2. WorkerOk(w) /\ g # None /\ ~Fenced(g) /\ (Attached(g) => workers[w].status = "FINALIZE_PENDING")
      /\ (binding # None /\ binding.gen = g => binding.token)
  BY <1>1, SupportFacts DEF WorkerOk
<1>3. g \in Support!Generations /\ ~Ahead(g)
  BY <1>2, WorkerHasRow
<1>4. PICK place \in {"settle", "fail"} :
          /\ Support!Job(w, place)
          /\ \/ workers[w].status = "FINALIZE_PENDING" /\ Support!Finalizes(g)
             \/ workers[w].status # "FINALIZE_PENDING" /\ Support!Releases(g)
             \/ remote' = remote /\ place = "fail"
  BY DEF Support!Call
<1>5. /\ AssetStep
      /\ place = "settle" /\ workers[w].status # "FINALIZE_PENDING" => remote'[g] = "RELEASED"
  <2>1. CASE workers[w].status = "FINALIZE_PENDING" /\ Support!Finalizes(g)
    BY <1>1, <1>2, <1>3, <2>1, RemoteChanges DEF Support!Finalizes
  <2>2. CASE workers[w].status # "FINALIZE_PENDING" /\ Support!Releases(g)
    <3>1. remote' = [remote EXCEPT ![g] = "RELEASED"] /\ remote'[g] = "RELEASED" /\ remote[g] # None
      BY <1>3, <2>2 DEF Support!Releases, SupportInv, SupportType
    <3> QED
      BY <1>1, <1>2, <1>3, <2>2, <3>1, RemoteChanges
  <2>3. CASE remote' = remote /\ place = "fail"
    BY <1>1, <1>3, <2>3, RemoteStays
  <2> QED
    BY <1>4, <2>1, <2>2, <2>3
<1>6. /\ workers'[w].at = place /\ workers'[w].gen = g /\ workers'[w].status = workers[w].status
  BY <1>4 DEF Support!Job, SupportInv, SupportType, Jobs
<1>7. WorkerOk(w)'
  BY <1>1, <1>2, <1>4, <1>5, <1>6 DEF WorkerOk, Fenced, Attached
<1> QED
  BY <1>1, <1>4, <1>5, <1>7, WorkerAsks

-----------------------------------------------------------------------------
(* The message, and a new intent.                                          *)

LEMMA AttachMessage ==
    ASSUME SupportInv, NEW r \in Senders, senders[r].at = "attach",
           message = None, Support!Attachable(r), message' = binding.gen,
           Support!Unclaims("FINALIZE_PENDING", TRUE),
           \/ Support!Goes(r, "finalize") /\ exposed' = (exposed \/ binding.claim # Support!Fence)
           \/ Support!Goes(r, "release") /\ exposed' = TRUE,
           remote' = remote, compensation' = compensation, usable' = usable, late' = late,
           workers' = workers, forgotten' = forgotten
    PROVE  SupportInv'
<1> PICK g : g = binding.gen
  OBVIOUS
<1>1. /\ binding # None /\ g = senders[r].gen /\ binding.status = "RESERVED" /\ binding.token
      /\ message' = g /\ g \in Support!Generations /\ g # None
  BY SupportFacts, GenerationsAreNumbers DEF Support!Attachable, Support!Current
<1>2. /\ binding' \in Support!Rows /\ binding' # None /\ binding'.gen = g
      /\ binding'.status = "FINALIZE_PENDING" /\ binding'.token /\ binding'.claim = None
  <2>1. binding' = [binding EXCEPT !.status = "FINALIZE_PENDING", !.claim = None, !.due = TRUE]
    BY DEF Support!Unclaims
  <2>2. binding \in Support!Rows /\ binding.gen = g /\ binding.token
    BY <1>1, SupportFacts
  <2>3. None \notin Support!Rows
    BY SupportAssumption DEF Support!Distinct
  <2>4. "FINALIZE_PENDING" \in Support!Statuses
    BY DEF Support!Statuses
  <2>5. /\ binding' \in Support!Rows /\ binding'.gen = binding.gen
        /\ binding'.token = binding.token
        /\ binding'.status = "FINALIZE_PENDING" /\ binding'.claim = None
    BY <2>1, <2>2, <2>4 DEF Support!Rows
  <2> QED
    BY <2>2, <2>3, <2>5
<1>3. PICK place \in {"finalize", "release"} :
          /\ Support!Goes(r, place)
          /\ exposed' \in BOOLEAN
          /\ ~exposed' => ~exposed /\ binding.claim = Support!Fence /\ place = "finalize"
  BY DEF SupportInv, SupportType
<1>4. /\ senders' \in [Senders -> SenderRows]
      /\ senders'[r].at = place /\ senders'[r].gen = g /\ senders'[r].held = senders[r].held
      /\ \A q \in Senders : q # r => senders'[q] = senders[q]
  BY <1>1, <1>3, SendersGo DEF SenderPlaces
<1>5. \A h : (Ahead(h)' <=> Ahead(h)) /\ ~Fenced(h)' /\ (Attached(h)' => h = g /\ Fenced(g))
  BY <1>1, <1>2, <1>3, SupportFacts DEF Ahead, Fenced, Attached
<1>6. SupportType'
  BY <1>1, <1>2, <1>3, <1>4 DEF SupportInv, SupportType
<1>7. AheadInv'
  <2> SUFFICES ASSUME NEW h \in Support!Generations, Ahead(h)'
               PROVE  /\ remote'[h] = None /\ compensation'[h] = None /\ h \notin late' /\ message' # h
                      /\ \A q \in Senders : senders'[q].gen # h
                      /\ \A w \in Retriers : workers'[w].gen # h
    BY DEF AheadInv
  <2>1. Ahead(h)
    BY <1>5
  <2>2. h # g
    BY <1>1, <2>1, GenerationsAreNumbers DEF Ahead
  <2> QED
    BY <1>1, <1>4, <2>1, <2>2 DEF SupportInv, AheadInv
<1>8. SendersApart'
  BY <1>1, <1>4 DEF SupportInv, SendersApart
<1>9. ASSUME NEW q \in Senders PROVE SenderOk(q)'
  <2>1. SenderOk(q)
    BY SupportFacts
  <2>2. CASE q = r
    <3>1. /\ senders'[q].at = place /\ senders'[q].gen = g /\ senders'[q].held = senders[q].held
          /\ g = senders[q].gen /\ (place = "release" => exposed')
      BY <1>1, <1>3, <1>4, <2>2
    <3> QED
      BY <1>1, <1>2, <2>1, <3>1, SupportFacts DEF SenderOk, Fenced, Attached
  <2>3. CASE q # r
    <3>1. senders'[q] = senders[q] /\ senders[q].gen # g
      BY <1>1, <1>4, <2>3 DEF SupportInv, SendersApart
    <3> QED
      BY <1>1, <1>2, <2>1, <3>1, SupportFacts DEF SenderOk, Fenced, Attached
  <2> QED
    BY <2>2, <2>3
<1>10. ASSUME NEW w \in Retriers PROVE WorkerOk(w)'
  <2>1. WorkerOk(w)
    BY SupportFacts
  <2>2. Fenced(g) => workers[w].gen # g
    BY <2>1 DEF WorkerOk
  <2>3. ~(Attached(workers[w].gen))'
    BY <1>5, <2>2
  <2>4. ~(Fenced(workers[w].gen))'
    BY <1>5
  <2> QED
    BY <1>1, <1>2, <2>1, <2>3, <2>4 DEF WorkerOk
<1>11. BindingInv'
  BY <1>2, SupportFacts DEF BindingInv, Support!Over
<1>12. ClosedInv'
  BY <1>1, <1>2, <1>5 DEF SupportInv, ClosedInv, Closed, Support!Over
<1>13. FenceInv'
  BY <1>5 DEF FenceInv
<1>14. MessageInv'
  <2> SUFFICES ASSUME NEW h \in Support!Generations, Attached(h)'
               PROVE  /\ binding' # None /\ binding'.gen = h
                      /\ binding'.status \in {"FINALIZE_PENDING", "FINALIZED"}
                      /\ compensation'[h] = None
                      /\ remote'[h] \in {"RESERVED", "FINALIZED"}
    BY DEF MessageInv
  <2>1. h = g /\ Fenced(g)
    BY <1>5
  <2>2. compensation[g] = None /\ remote[g] = "RESERVED"
    BY <1>1, <2>1 DEF SupportInv, FenceInv
  <2> QED
    BY <1>2, <2>1, <2>2
<1>15. Support!ReservationKnown'
  BY <1>1, <1>2 DEF SupportInv, Support!ReservationKnown, Support!Over
<1> QED
  BY <1>6, <1>7, <1>8, <1>9, <1>10, <1>11, <1>12, <1>13, <1>14, <1>15 DEF SupportInv

LEMMA AttachStep == ASSUME SupportInv, NEW r \in Senders, Support!Attach(r) PROVE SupportInv'
<1>1. /\ senders[r].at = "attach" /\ remote' = remote /\ compensation' = compensation
      /\ usable' = usable /\ late' = late /\ workers' = workers /\ forgotten' = forgotten
  BY DEF Support!Attach, Support!At, Support!outside
<1>2. CASE /\ message = None /\ Support!Attachable(r)
           /\ message' = binding.gen
           /\ Support!Unclaims("FINALIZE_PENDING", TRUE)
           /\ \/ Support!Goes(r, "finalize") /\ exposed' = (exposed \/ binding.claim # Support!Fence)
              \/ Support!Goes(r, "release") /\ exposed' = TRUE
  BY <1>1, <1>2, AttachMessage
<1>3. CASE /\ binding' = binding /\ message' = message /\ exposed' = exposed
           /\ \E place \in {"finalize", "look", "release"} :
                  Support!Goes(r, place) /\ (place = "finalize" => message # None)
  <2>1. RowStep
    BY <1>1, <1>3, RowStays DEF Quiet
  <2>2. PICK place \in {"finalize", "look", "release"} :
            Support!Goes(r, place) /\ (place = "finalize" => message # None)
    BY <1>3
  <2>3. SenderMay(r, place)
    <3>1. SenderOk(r)
      BY SupportFacts
    <3> QED
      BY <1>1, <2>2, <3>1 DEF SenderMay, SenderOk
  <2> QED
    BY <1>1, <2>1, <2>2, <2>3, SenderStep DEF SenderPlaces
<1> QED
  BY <1>2, <1>3 DEF Support!Attach

LEMMA NewIntent ==
    ASSUME SupportInv, NEW r \in Senders, binding = None \/ Support!Over(binding),
           NEW g \in Support!Generations,
           g = IF binding = None THEN 0 ELSE binding.gen + 1,
           binding' = Support!Intent(g), NEW place \in {"check", "done"},
           senders' = [senders EXCEPT ![r] = [at |-> place, gen |-> g, held |-> FALSE]],
           message' = message, remote' = remote, compensation' = compensation, usable' = usable,
           late' = late, workers' = workers, forgotten' = forgotten, exposed' = exposed
    PROVE  SupportInv'
<1>1. /\ binding' \in Support!Rows /\ binding' # None /\ binding'.gen = g
      /\ binding'.status = "RESERVING" /\ ~binding'.token /\ binding'.claim = Support!Fence
      /\ ~Support!Over(binding')
  <2>1. Support!Intent(g) \in Support!Rows
    BY DEF Support!Intent, Support!Rows, Support!Statuses
  <2>2. binding' # None
    BY <2>1, SupportAssumption DEF Support!Distinct
  <2> QED
    BY <2>1, <2>2 DEF Support!Intent, Support!Over
<1>2. g # None /\ g \in Nat /\ (binding # None => binding.gen \in Nat /\ g = binding.gen + 1)
      /\ (binding = None => g = 0)
  BY SupportFacts, GenerationsAreNumbers
<1>3. Ahead(g)
  BY <1>2 DEF Ahead
<1>4. /\ remote[g] = None /\ compensation[g] = None /\ message # g
      /\ \A q \in Senders : senders[q].gen # g
      /\ \A w \in Retriers : workers[w].gen # g
  BY <1>3 DEF SupportInv, AheadInv
<1>5. /\ senders' \in [Senders -> SenderRows]
      /\ senders'[r].at = place /\ senders'[r].gen = g /\ ~senders'[r].held
      /\ \A q \in Senders : q # r => senders'[q] = senders[q]
  BY DEF SupportInv, SupportType, SenderRows, SenderPlaces
<1>6. \A h \in Support!Generations : Ahead(h)' => Ahead(h) /\ h # g
  BY <1>1, <1>2, GenerationsAreNumbers DEF Ahead
<1>7. \A h : (Fenced(h)' <=> h = g) /\ (Attached(h)' <=> Attached(h))
  BY <1>1 DEF Fenced, Attached
<1>8. SupportType'
  BY <1>1, <1>5 DEF SupportInv, SupportType
<1>9. AheadInv'
  <2> SUFFICES ASSUME NEW h \in Support!Generations, Ahead(h)'
               PROVE  /\ remote'[h] = None /\ compensation'[h] = None /\ h \notin late' /\ message' # h
                      /\ \A q \in Senders : senders'[q].gen # h
                      /\ \A w \in Retriers : workers'[w].gen # h
    BY DEF AheadInv
  <2>1. Ahead(h) /\ h # g
    BY <1>6
  <2> QED
    BY <1>5, <2>1 DEF SupportInv, AheadInv
<1>10. SendersApart'
  BY <1>4, <1>5 DEF SupportInv, SendersApart
<1>11. ASSUME NEW q \in Senders PROVE SenderOk(q)'
  <2>1. SenderOk(q)
    BY SupportFacts
  <2>2. CASE q = r
    BY <1>2, <1>4, <1>5, <2>2 DEF SenderOk, Attached
  <2>3. CASE q # r
    <3>1. senders'[q] = senders[q] /\ senders[q].gen # g
      BY <1>4, <1>5, <2>3
    <3> QED
      BY <1>1, <2>1, <3>1 DEF SenderOk, Fenced, Attached
  <2> QED
    BY <2>2, <2>3
<1>12. ASSUME NEW w \in Retriers PROVE WorkerOk(w)'
  <2>1. WorkerOk(w) /\ workers[w].gen # g
    BY <1>4, SupportFacts
  <2> QED
    BY <1>1, <2>1 DEF WorkerOk, Fenced, Attached
<1>13. BindingInv'
  BY <1>1 DEF BindingInv
<1>14. ClosedInv'
  <2> SUFFICES ASSUME NEW h \in Support!Generations \ forgotten, ~Ahead(h)', Closed(h)', remote[h] = None
               PROVE  ~usable
    BY DEF ClosedInv
  <2>1. h \in Nat /\ g > h
    BY <1>1, GenerationsAreNumbers DEF Closed
  <2>2. binding # None /\ ~(h > binding.gen) /\ Support!Over(binding)
    BY <1>2, <2>1
  <2> QED
    BY <2>2 DEF SupportInv, ClosedInv, Ahead, Closed
<1>15. FenceInv'
  BY <1>1, <1>4, <1>7 DEF FenceInv
<1>16. MessageInv'
  <2>1. \A h \in Support!Generations : ~Attached(h)
    BY DEF SupportInv, MessageInv, Support!Over
  <2> QED
    BY <1>7, <2>1 DEF MessageInv
<1>17. Support!ReservationKnown'
  <2> SUFFICES ASSUME NEW h \in Support!Generations \ forgotten, remote[h] = "RESERVED"
               PROVE  compensation[h] = "RELEASE_PENDING"
    BY DEF Support!ReservationKnown
  <2>1. binding # None
    BY NoneIsNoStatus DEF SupportInv, AheadInv, Ahead
  <2> QED
    BY <2>1 DEF SupportInv, Support!ReservationKnown, Support!Over
<1> QED
  BY <1>8, <1>9, <1>10, <1>11, <1>12, <1>13, <1>14, <1>15, <1>16, <1>17 DEF SupportInv

LEMMA BeginStep == ASSUME SupportInv, NEW r \in Senders, Support!BeginIntent(r) PROVE SupportInv'
<1>1. /\ senders[r].at = "intent" /\ message' = message /\ remote' = remote
      /\ compensation' = compensation /\ usable' = usable /\ late' = late /\ workers' = workers
      /\ forgotten' = forgotten /\ exposed' = exposed
  BY DEF Support!BeginIntent, Support!At, Support!outside, Support!history
<1>2. CASE binding' = binding /\ Support!Goes(r, "done")
  <2>1. RowStep
    BY <1>1, <1>2, RowStays DEF Quiet
  <2>2. SenderMay(r, "done")
    BY DEF SenderMay
  <2> QED
    BY <1>1, <1>2, <2>1, <2>2, SenderStep DEF SenderPlaces
<1>3. CASE /\ binding = None \/ Support!Over(binding)
           /\ LET g == IF binding = None THEN 0 ELSE binding.gen + 1
              IN  /\ g \in Support!Generations
                  /\ binding' = Support!Intent(g)
                  /\ \E place \in {"check", "done"} :
                        senders' = [senders EXCEPT ![r] = [at |-> place, gen |-> g, held |-> FALSE]]
  <2> PICK g : g = IF binding = None THEN 0 ELSE binding.gen + 1
    OBVIOUS
  <2>1. g \in Support!Generations /\ binding' = Support!Intent(g)
    BY <1>3
  <2>2. PICK place \in {"check", "done"} :
            senders' = [senders EXCEPT ![r] = [at |-> place, gen |-> g, held |-> FALSE]]
    BY <1>3
  <2> QED
    BY <1>1, <1>3, <2>1, <2>2, NewIntent
<1> QED
  BY <1>2, <1>3 DEF Support!BeginIntent

LEMMA SupportStays ==
    ASSUME SupportInv, UNCHANGED supportVars
    PROVE  SupportInv'
<1>1. Quiet /\ binding' = binding /\ forgotten' = forgotten /\ senders' = senders /\ workers' = workers
  BY DEF supportVars, Quiet
<1>2. SendersMove /\ WorkersMove /\ senders' \in [Senders -> SenderRows] /\ workers' \in [Retriers -> Jobs]
  BY <1>1 DEF SendersMove, WorkersMove, SupportInv, SupportType
<1> QED
  BY <1>1, <1>2, RowStays, RowSteps

LEMMA SupportStep ==
    ASSUME SupportInv, [Support!Next]_supportVars
    PROVE  SupportInv'
<1>1. CASE UNCHANGED supportVars
  BY <1>1, SupportStays
<1>2. ASSUME NEW r \in Senders, Support!Serve(r) PROVE SupportInv'
  BY <1>2, SendStep, BeginStep, CheckStep, ReserveStep, RecordStep, AttachStep, LookStep,
     FinalizeStep, SettleFinalizedStep, NoteStep, ReleaseStep, ForgetStep, UnreserveStep,
     SettleReleasedStep, EnqueueStep, DieStep
  DEF Support!Serve
<1>3. ASSUME NEW w \in Retriers, Support!Retry(w) PROVE SupportInv'
  BY <1>3, ClaimStep, ReplayStep, OwnStep, CallStep, SettleStep, GiveUpStep, StopStep
  DEF Support!Retry
<1>4. CASE Support!Next
  BY <1>2, <1>3, <1>4, LateStep, CompensateStep, UnusableStep, DueStep DEF Support!Next
<1> QED
  BY <1>1, <1>4

LEMMA SupportInvHolds == ServicesSpec => []SupportInv
<1>1. ServicesInit => SupportInv
  BY SupportInit DEF ServicesInit
<1>2. SupportInv /\ [ServicesNext]_serviceVars => SupportInv'
  BY OneAppSteps, SupportStep
<1> QED
  BY <1>1, <1>2, PTL DEF ServicesSpec

\* For any number of requests, of workers and of rearmings: the upload of a
\* message stays reserved for it or finalized, and what the asset service has
\* reserved is known to the binding or to a compensation, wherever a request
\* dies, a worker is replaced or an answer is lost (support-upload-saga.ts,
\* ticket.service.ts), but for the exceptions the two parts
\* of the property name.
THEOREM UploadsAreAccounted == ServicesSpec => []UploadsAccounted
<1>1. SupportInv => UploadsAccounted
  <2> SUFFICES ASSUME SupportInv PROVE Support!AttachedIsKept /\ Support!ReservationKnown
    BY DEF UploadsAccounted, Support!UploadsAccounted
  <2>1. Support!AttachedIsKept
    BY DEF SupportInv, SupportType, MessageInv, Attached, Support!AttachedIsKept
  <2> QED
    BY <2>1 DEF SupportInv
<1> QED
  BY <1>1, SupportInvHolds, PTL

-----------------------------------------------------------------------------
(* The decisions of an administrator (AdminConsole).                       *)

Choices == {"open", "asks", "waits", "accepted"}

Asked == [content : Entries, decision : Nat]

Forms == [at : Choices, shown : Nat, content : Entries, preview : Entries \cup {None},
          asked : Asked \cup {None}, intent : Nat, decision : Nat]

Attempts == [decision : Nat, intent : Nat, content : Entries, shown : Entries, basis : Nat,
             step : {"checks", "executes"}, awaited : BOOLEAN]

Receipts == [intent : Nat, decision : Nat, basis : Nat, content : Entries, shown : Entries]

ConsoleType ==
    /\ operation \in Console!Operations
    /\ revision \in Nat
    /\ effects \subseteq Receipts
    /\ form \in Forms
    /\ attempts \subseteq Attempts
    /\ drawn \in Nat

\* x and y tell the same of a decision that they have in common, and of an
\* intent.
Agree(x, y) ==
    /\ x.decision = y.decision =>
           /\ x.basis = y.basis /\ x.shown = y.shown
           /\ operation.renews \subseteq {"edit"} => x.intent = y.intent
    /\ x.intent = y.intent =>
           /\ x.basis = y.basis
           /\ operation.renews = {"edit"} => x.decision = y.decision

\* An intent that is drawn with the preview is for what was previewed.
Bound(x, y) == operation.preview = "removed" /\ x.intent = y.intent => x.decision = y.decision

\* What was submitted, and what the form would submit.
Submissions == effects \cup attempts

Offer == [decision |-> form.decision, intent |-> form.intent, basis |-> form.shown,
          shown |-> form.content]

SubmissionsAgree == \A x, y \in Submissions : Agree(x, y) /\ Bound(x, y)

OfferAgrees ==
    \A x \in Submissions : Agree(x, Offer) /\ (form.preview # None => Bound(x, Offer))

\* Ids are drawn once.
Numbered ==
    /\ form.decision <= drawn /\ form.intent <= drawn
    /\ \A x \in Submissions : x.decision <= drawn /\ x.intent <= drawn

AsSubmitted ==
    operation.preview # "removed" => \A x \in Submissions : x.content = x.shown

\* What is shown is past once it has had an effect.
EffectsPast == operation.versioned => \A e \in effects : e.basis < revision

\* The form waits for one call, for what it still shows.
AwaitedOk ==
    \A c \in attempts : c.awaited =>
        /\ form.at = "waits"
        /\ ~operation.live => c.decision = form.decision
        /\ \A b \in attempts : b.awaited => b = c

PreviewOk ==
    /\ form.at = "asks" =>
           /\ form.asked \in Asked
           /\ form.asked.decision <= drawn
           /\ operation.preview # "removed" /\ form.asked.decision = form.decision =>
                  form.asked.content = form.content
           /\ operation.preview = "locked" => form.asked.decision = form.decision
           /\ operation.preview # "none"
    /\ operation.preview # "removed" => form.preview \in {None, form.content}

ConsoleInv ==
    /\ ConsoleType
    /\ SubmissionsAgree
    /\ OfferAgrees
    /\ Numbered
    /\ AsSubmitted
    /\ EffectsPast
    /\ AwaitedOk
    /\ PreviewOk
    /\ Console!DecisionsHold

\* What keeps an operation's decisions apart.
Guarded(k) ==
    /\ k.versioned \/ k.renews \subseteq {"edit"}
    /\ k.rendered \/ k.live \/ k.renews = {"edit"} \/ k.preview = "removed"
           \/ (k.matches /\ k.preview = "none")
    /\ k.preview = "removed" => "preview" \in k.renews /\ "submit" \notin k.renews
    /\ k.preview \in {"none", "removed", "locked", "guarded"}
    /\ k.renews \subseteq {"edit", "submit", "preview", "success"}
    /\ k.versioned \in BOOLEAN /\ k.rereads \in BOOLEAN /\ k.rendered \in BOOLEAN
    /\ k.live \in BOOLEAN /\ k.matches \in BOOLEAN /\ k.blocks \in BOOLEAN

LEMMA OperationsGuarded == \A k \in Console!Operations : Guarded(k)
<1> USE DEF Guarded, Console!Rendered, Console!Edited
<1>1. /\ Guarded(Console!ContentDraft) /\ Guarded(Console!ContentValidation)
      /\ Guarded(Console!ContentPublication) /\ Guarded(Console!TicketMessage)
      /\ Guarded(Console!TicketTransition) /\ Guarded(Console!RoleUpdate)
      /\ Guarded(Console!AdminUpdate) /\ Guarded(Console!SystemMutation)
  BY DEF Console!ContentDraft, Console!ContentValidation, Console!ContentPublication,
         Console!TicketMessage, Console!TicketTransition, Console!RoleUpdate,
         Console!AdminUpdate, Console!SystemMutation
<1>2. /\ Guarded(Console!OrderOperation) /\ Guarded(Console!CompensationRequest)
      /\ Guarded(Console!CompensationApproval) /\ Guarded(Console!InvoiceTransition)
      /\ Guarded(Console!PricingRollback) /\ Guarded(Console!RoutingPublish)
      /\ Guarded(Console!RoutingRollback)
  BY DEF Console!OrderOperation, Console!CompensationRequest, Console!CompensationApproval,
         Console!InvoiceTransition, Console!PricingRollback, Console!RoutingPublish,
         Console!RoutingRollback
<1>3. /\ Guarded(Console!QueueLimits) /\ Guarded(Console!AuditExport)
      /\ Guarded(Console!RoutingSave) /\ Guarded(Console!TaskOperation)
  BY DEF Console!QueueLimits, Console!AuditExport, Console!RoutingSave, Console!TaskOperation
<1>4. /\ Guarded(Console!PricingSave) /\ Guarded(Console!PricingPublish)
      /\ Guarded(Console!AdjustmentApproval) /\ Guarded(Console!AdjustmentRequest)
  BY DEF Console!PricingSave, Console!PricingPublish, Console!AdjustmentApproval,
         Console!AdjustmentRequest
<1>5. /\ Guarded(Console!StatusChange) /\ Guarded(Console!CsvExport)
      /\ Guarded(Console!ProviderCommand) /\ Guarded(Console!ProviderEdit)
      /\ Guarded(Console!ProviderCreate)
  BY DEF Console!StatusChange, Console!CsvExport, Console!ProviderCommand,
         Console!ProviderEdit, Console!ProviderCreate
<1>6. /\ Guarded(Console!CapabilitySave) /\ Guarded(Console!CapabilityRollback)
      /\ Guarded(Console!CapabilityPublish)
  BY DEF Console!CapabilitySave, Console!CapabilityRollback, Console!CapabilityPublish
<1> HIDE DEF Guarded, Console!Rendered, Console!Edited
<1> QED
  BY <1>1, <1>2, <1>3, <1>4, <1>5, <1>6 DEF Console!Operations

LEMMA ConsoleInit == Console!Init => ConsoleInv
<1> SUFFICES ASSUME Console!Init PROVE ConsoleInv
  OBVIOUS
<1>1. PICK content \in Entries : form = Console!Form(0, 1, content)
  BY DEF Console!Init
<1>2. /\ effects = {} /\ attempts = {} /\ drawn = 0 /\ revision = 1
      /\ operation \in Console!Operations
      /\ form \in Forms /\ form.at = "open" /\ form.preview = None
      /\ form.decision = 0 /\ form.intent = 0
  BY <1>1 DEF Console!Init, Console!Form, Forms, Choices
<1>3. ConsoleType
  BY <1>2 DEF ConsoleType
<1>4. SubmissionsAgree /\ OfferAgrees /\ Numbered /\ AsSubmitted
  BY <1>2 DEF SubmissionsAgree, OfferAgrees, Numbered, AsSubmitted, Submissions
<1>5. EffectsPast /\ AwaitedOk /\ PreviewOk
  BY <1>2 DEF EffectsPast, AwaitedOk, PreviewOk
<1>6. Console!DecisionsHold
  BY <1>2 DEF Console!DecisionsHold, Console!OnceEach, Console!AsShown, Console!AcceptedIsDone
<1> QED
  BY <1>3, <1>4, <1>5, <1>6 DEF ConsoleInv

-----------------------------------------------------------------------------
(* What the steps have in common.                                          *)

Same(x, y) ==
    /\ x.decision = y.decision /\ x.intent = y.intent /\ x.basis = y.basis
    /\ x.shown = y.shown /\ x.content = y.content

\* What is under way or has had an effect was submitted before the step.
Comes == \A x \in Submissions' : \E y \in Submissions : Same(x, y)

\* The form keeps its decision, and its intent, or has them drawn anew.
FormMoves ==
    /\ operation' = operation
    /\ form' \in Forms
    /\ drawn' \in {drawn, drawn + 1}
    /\ \/ /\ form'.decision = form.decision
          /\ form'.shown = form.shown /\ form'.content = form.content
       \/ form'.decision = drawn + 1 /\ drawn' = drawn + 1
    /\ \/ form'.intent = form.intent /\ form'.shown = form.shown
       \/ form'.intent = drawn + 1 /\ drawn' = drawn + 1
    /\ operation.renews \subseteq {"edit"} /\ form'.decision = form.decision =>
           form'.intent = form.intent
    /\ operation.renews = {"edit"} /\ form'.intent = form.intent =>
           form'.decision = form.decision
    /\ operation.preview = "removed" /\ form'.preview # None /\ form'.intent = form.intent =>
           form'.decision = form.decision /\ form.preview # None

LEMMA SubmissionFields ==
    ASSUME ConsoleInv, NEW x \in Submissions
    PROVE  /\ x.decision \in Nat /\ x.intent \in Nat /\ x.basis \in Nat
           /\ x.shown \in Entries /\ x.content \in Entries
           /\ x.decision <= drawn /\ x.intent <= drawn
<1>1. x \in Receipts \/ x \in Attempts
  BY DEF ConsoleInv, ConsoleType, Submissions
<1>2. x.decision <= drawn /\ x.intent <= drawn
  BY DEF ConsoleInv, Numbered
<1> QED
  BY <1>1, <1>2 DEF Receipts, Attempts

LEMMA SubmissionsKeep ==
    ASSUME ConsoleInv, Comes, operation' = operation
    PROVE  SubmissionsAgree' /\ AsSubmitted'
<1>1. ASSUME NEW x \in Submissions', NEW y \in Submissions'
      PROVE  Agree(x, y)' /\ Bound(x, y)'
  <2>1. PICK u \in Submissions : Same(x, u)
    BY DEF Comes
  <2>2. PICK v \in Submissions : Same(y, v)
    BY DEF Comes
  <2>3. Agree(u, v) /\ Bound(u, v)
    BY DEF ConsoleInv, SubmissionsAgree
  <2> QED
    BY <2>1, <2>2, <2>3 DEF Same, Agree, Bound
<1>2. AsSubmitted'
  <2> SUFFICES ASSUME operation.preview # "removed", NEW x \in Submissions'
               PROVE  x.content = x.shown
    BY DEF AsSubmitted
  <2>1. PICK u \in Submissions : Same(x, u)
    BY DEF Comes
  <2> QED
    BY <2>1 DEF Same, ConsoleInv, AsSubmitted
<1> QED
  BY <1>1, <1>2 DEF SubmissionsAgree

LEMMA OfferKeeps ==
    ASSUME ConsoleInv, Comes, FormMoves
    PROVE  OfferAgrees' /\ Numbered'
<1>1. drawn \in Nat /\ form.decision <= drawn /\ form.intent <= drawn
      /\ form.decision \in Nat /\ form.intent \in Nat
  BY DEF ConsoleInv, ConsoleType, Numbered, Forms
<1>2. ASSUME NEW x \in Submissions'
      PROVE  /\ Agree(x, Offer)' /\ (form'.preview # None => Bound(x, Offer)')
             /\ x.decision <= drawn' /\ x.intent <= drawn'
  <2>1. PICK u \in Submissions : Same(x, u)
    BY DEF Comes
  <2>2. /\ u.decision \in Nat /\ u.intent \in Nat
        /\ u.decision <= drawn /\ u.intent <= drawn
    BY SubmissionFields
  <2>3. Agree(u, Offer) /\ (form.preview # None => Bound(u, Offer))
    BY DEF ConsoleInv, OfferAgrees
  <2>4. /\ form'.decision = form.decision \/ form'.decision # u.decision
        /\ form'.intent = form.intent \/ form'.intent # u.intent
    BY <1>1, <2>2 DEF FormMoves
  <2>5. x.decision <= drawn' /\ x.intent <= drawn'
    BY <1>1, <2>1, <2>2 DEF Same, FormMoves
  <2>6. x.decision = u.decision /\ x.intent = u.intent /\ x.basis = u.basis /\ x.shown = u.shown
    BY <2>1 DEF Same
  <2>7. Agree(x, Offer)'
    <3>1. ASSUME u.decision = form'.decision
          PROVE  /\ u.basis = form'.shown /\ u.shown = form'.content
                 /\ operation.renews \subseteq {"edit"} => u.intent = form'.intent
      BY <1>1, <2>2, <2>3, <3>1 DEF FormMoves, Agree, Offer
    <3>2. ASSUME u.intent = form'.intent
          PROVE  u.basis = form'.shown /\ (operation.renews = {"edit"} => u.decision = form'.decision)
      BY <1>1, <2>2, <2>3, <3>2 DEF FormMoves, Agree, Offer
    <3> QED
      BY <2>6, <3>1, <3>2 DEF FormMoves, Agree, Offer
  <2>8. form'.preview # None => Bound(x, Offer)'
    BY <2>3, <2>4, <2>6 DEF FormMoves, Bound, Offer
  <2> QED
    BY <2>5, <2>7, <2>8
<1>3. form'.decision <= drawn' /\ form'.intent <= drawn'
  BY <1>1 DEF FormMoves
<1> QED
  BY <1>2, <1>3 DEF OfferAgrees, Numbered

LEMMA ConsoleSteps ==
    ASSUME ConsoleInv, Comes, FormMoves, ConsoleType', EffectsPast', AwaitedOk', PreviewOk',
           Console!OnceEach', Console!AcceptedIsDone'
    PROVE  ConsoleInv'
<1>1. SubmissionsAgree' /\ AsSubmitted' /\ OfferAgrees' /\ Numbered'
  BY SubmissionsKeep, OfferKeeps DEF FormMoves
<1>2. Console!AsShown'
  BY <1>1 DEF AsSubmitted, Submissions, Console!AsShown
<1> QED
  BY <1>1, <1>2 DEF ConsoleInv, Console!DecisionsHold

\* Nothing takes effect, and nothing is accepted.
LEMMA QuietSteps ==
    ASSUME ConsoleInv, FormMoves, effects' = effects, attempts' \subseteq Attempts,
           \A x \in attempts' : \E y \in Submissions : Same(x, y),
           revision' \in Nat, revision' >= revision, AwaitedOk', PreviewOk',
           form'.at = "accepted" =>
               form.at = "accepted" /\ form'.shown = form.shown /\ form'.content = form.content
    PROVE  ConsoleInv'
<1>1. Comes
  BY DEF Comes, Submissions, Same
<1>2. ConsoleType'
  BY DEF ConsoleInv, ConsoleType, FormMoves
<1>3. EffectsPast'
  <2> SUFFICES ASSUME operation.versioned, NEW e \in effects PROVE e.basis < revision'
    BY DEF FormMoves, EffectsPast
  <2>1. e.basis < revision /\ e.basis \in Nat /\ revision \in Nat
    BY DEF ConsoleInv, ConsoleType, EffectsPast, Receipts
  <2> QED
    BY <2>1
<1>4. Console!OnceEach'
  BY DEF ConsoleInv, Console!DecisionsHold, Console!OnceEach
<1>5. Console!AcceptedIsDone'
  BY DEF ConsoleInv, Console!DecisionsHold, Console!AcceptedIsDone, FormMoves
<1> QED
  BY <1>1, <1>2, <1>3, <1>4, <1>5, ConsoleSteps

LEMMA ConsoleFacts ==
    ASSUME ConsoleInv
    PROVE  /\ Guarded(operation)
           /\ revision \in Nat /\ drawn \in Nat
           /\ form \in Forms /\ form.at \in Choices /\ form.shown \in Nat
           /\ form.content \in Entries /\ form.preview \in Entries \cup {None}
           /\ form.asked \in Asked \cup {None}
           /\ form.intent \in Nat /\ form.decision \in Nat
           /\ form.decision <= drawn /\ form.intent <= drawn
           /\ \A x \in attempts : Same(x, x) /\ x \in Submissions
  BY OperationsGuarded DEF ConsoleInv, ConsoleType, Numbered, Forms, Same, Submissions

LEMMA EditStep == ASSUME ConsoleInv, Console!Edit PROVE ConsoleInv'
<1>1. /\ operation' = operation /\ revision' = revision /\ effects' = effects
      /\ attempts' = attempts /\ drawn' = drawn + 1
      /\ \/ form.at = "open" \/ form.at = "accepted"
         \/ form.at = "asks" /\ operation.preview # "locked"
         \/ form.at = "waits" /\ operation.live
  BY DEF Console!Edit, Console!Draw, Console!Drawn, Console!Open
<1>2. PICK content \in Entries :
          form' = [form EXCEPT !.at = IF @ = "accepted" THEN "open" ELSE @,
                               !.content = content, !.preview = None,
                               !.decision = drawn + 1, !.intent = Console!IntentAt("edit")]
  BY DEF Console!Edit, Console!Drawn
<1>3. PICK intent : intent = Console!IntentAt("edit")
  OBVIOUS
<1>4. /\ intent = IF "edit" \in operation.renews THEN drawn + 1 ELSE form.intent
      /\ intent \in Nat
  BY <1>3, ConsoleFacts DEF Console!IntentAt, Console!Drawn
<1>5. /\ form' \in Forms
      /\ form'.at = IF form.at = "accepted" THEN "open" ELSE form.at
      /\ form'.shown = form.shown /\ form'.content = content /\ form'.preview = None
      /\ form'.asked = form.asked /\ form'.intent = intent /\ form'.decision = drawn + 1
  <2> PICK at : at = IF form.at = "accepted" THEN "open" ELSE form.at
    OBVIOUS
  <2>1. at \in Choices /\ drawn + 1 \in Nat
    BY ConsoleFacts DEF Choices
  <2>2. form' = [form EXCEPT !.at = at, !.content = content, !.preview = None,
                             !.decision = drawn + 1, !.intent = intent]
    BY <1>2, <1>3, ConsoleFacts DEF Forms
  <2> QED
    BY <1>4, <2>1, <2>2, ConsoleFacts DEF Forms
<1>6. FormMoves
  BY <1>1, <1>4, <1>5, ConsoleFacts DEF FormMoves
<1>7. AwaitedOk'
  BY <1>1, <1>5 DEF ConsoleInv, AwaitedOk
<1>8. PreviewOk'
  <2>1. form'.at = "asks" =>
            /\ form.asked \in Asked /\ form.asked.decision <= drawn
            /\ operation.preview # "none" /\ operation.preview # "locked"
            /\ form.asked.decision \in Nat
    BY <1>1, <1>5 DEF ConsoleInv, PreviewOk, Asked
  <2>2. form'.at = "asks" => form.asked.decision <= drawn + 1 /\ form.asked.decision # drawn + 1
    BY <2>1, ConsoleFacts
  <2> QED
    BY <1>1, <1>5, <2>1, <2>2 DEF PreviewOk
<1>9. attempts \subseteq Attempts
  BY DEF ConsoleInv, ConsoleType
<1> QED
  BY <1>1, <1>5, <1>6, <1>7, <1>8, <1>9, ConsoleFacts, QuietSteps

LEMMA AskStep == ASSUME ConsoleInv, Console!AskPreview PROVE ConsoleInv'
<1>1. /\ operation' = operation /\ revision' = revision /\ effects' = effects
      /\ attempts' = attempts /\ drawn' = drawn
      /\ operation.preview # "none" /\ form.at \in {"open", "accepted"}
      /\ form' = [form EXCEPT !.at = "asks",
                              !.asked = [content |-> form.content, decision |-> form.decision]]
  BY DEF Console!AskPreview, Console!Open
<1>2. PICK asked : asked = [content |-> form.content, decision |-> form.decision]
  OBVIOUS
<1>3. asked \in Asked /\ asked.content = form.content /\ asked.decision = form.decision
  BY <1>2, ConsoleFacts DEF Asked
<1>4. /\ form' \in Forms /\ form'.at = "asks" /\ form'.shown = form.shown
      /\ form'.content = form.content /\ form'.preview = form.preview /\ form'.asked = asked
      /\ form'.intent = form.intent /\ form'.decision = form.decision
  BY <1>1, <1>2, <1>3, ConsoleFacts DEF Forms, Choices
<1>5. FormMoves
  BY <1>1, <1>4 DEF FormMoves
<1>6. AwaitedOk'
  BY <1>1 DEF ConsoleInv, AwaitedOk
<1>7. PreviewOk'
  BY <1>1, <1>3, <1>4, ConsoleFacts DEF ConsoleInv, PreviewOk
<1>8. attempts \subseteq Attempts
  BY DEF ConsoleInv, ConsoleType
<1> QED
  BY <1>1, <1>4, <1>5, <1>6, <1>7, <1>8, ConsoleFacts, QuietSteps

LEMMA AnswerStep == ASSUME ConsoleInv, Console!PreviewAnswered PROVE ConsoleInv'
<1>1. /\ operation' = operation /\ revision' = revision /\ effects' = effects
      /\ attempts' = attempts /\ form.at = "asks"
  BY DEF Console!PreviewAnswered
<1>2. AwaitedOk'
  BY <1>1 DEF ConsoleInv, AwaitedOk
<1>3. /\ form.asked \in Asked /\ form.asked.content \in Entries
      /\ operation.preview # "removed" /\ form.asked.decision = form.decision =>
             form.asked.content = form.content
      /\ operation.preview = "locked" => form.asked.decision = form.decision
      /\ operation.preview # "none"
      /\ operation.preview # "removed" => form.preview \in {None, form.content}
  BY <1>1 DEF ConsoleInv, PreviewOk, Asked
<1>4. attempts \subseteq Attempts
  BY DEF ConsoleInv, ConsoleType
<1>5. CASE /\ Console!Expected /\ Console!Draws("preview")
           /\ form' = [form EXCEPT !.at = "open", !.preview = form.asked.content, !.asked = None,
                                   !.intent = Console!IntentAt("preview")]
  <2>1. PICK intent : intent = Console!IntentAt("preview")
    OBVIOUS
  <2>2. /\ intent = IF "preview" \in operation.renews THEN drawn + 1 ELSE form.intent
        /\ drawn' = IF "preview" \in operation.renews THEN drawn + 1 ELSE drawn
        /\ intent \in Nat
    BY <1>5, <2>1, ConsoleFacts DEF Console!IntentAt, Console!Drawn, Console!Draws, Console!Draw
  <2>3. /\ form' \in Forms /\ form'.at = "open" /\ form'.shown = form.shown
        /\ form'.content = form.content /\ form'.preview = form.asked.content
        /\ form'.intent = intent /\ form'.decision = form.decision
    BY <1>3, <1>5, <2>1, <2>2, ConsoleFacts DEF Forms, Choices
  <2>4. FormMoves
    BY <1>1, <2>2, <2>3, ConsoleFacts DEF FormMoves, Guarded
  <2>5. PreviewOk'
    BY <1>1, <1>3, <1>5, <2>3, ConsoleFacts DEF PreviewOk, Console!Expected, Guarded
  <2> QED
    BY <1>1, <1>2, <1>4, <2>3, <2>4, <2>5, ConsoleFacts, QuietSteps
<1>6. CASE form' = [form EXCEPT !.at = "open", !.asked = None] /\ drawn' = drawn
  <2>1. /\ form' \in Forms /\ form'.at = "open" /\ form'.shown = form.shown
        /\ form'.content = form.content /\ form'.preview = form.preview
        /\ form'.intent = form.intent /\ form'.decision = form.decision
    BY <1>6, ConsoleFacts DEF Forms, Choices
  <2>2. FormMoves
    BY <1>1, <1>6, <2>1 DEF FormMoves
  <2>3. PreviewOk'
    BY <1>1, <1>3, <2>1 DEF PreviewOk
  <2> QED
    BY <1>1, <1>2, <1>4, <2>1, <2>2, <2>3, ConsoleFacts, QuietSteps
<1> QED
  BY <1>5, <1>6 DEF Console!PreviewAnswered

LEMMA ElsewhereStep == ASSUME ConsoleInv, Console!ChangeElsewhere PROVE ConsoleInv'
<1>1. /\ operation' = operation /\ effects' = effects /\ form' = form
      /\ attempts' = attempts /\ drawn' = drawn /\ revision' = revision + 1
  BY DEF Console!ChangeElsewhere
<1>2. FormMoves
  BY <1>1, ConsoleFacts DEF FormMoves
<1>3. AwaitedOk' /\ PreviewOk'
  BY <1>1 DEF ConsoleInv, AwaitedOk, PreviewOk
<1>4. attempts \subseteq Attempts
  BY DEF ConsoleInv, ConsoleType
<1> QED
  BY <1>1, <1>2, <1>3, <1>4, ConsoleFacts, QuietSteps

LEMMA ReloadStep == ASSUME ConsoleInv, Console!Reload PROVE ConsoleInv'
<1>1. /\ operation' = operation /\ effects' = effects /\ revision' = revision
      /\ drawn' = drawn + 1
      /\ form' = Console!Form(drawn + 1, revision, form.content)
      /\ attempts' = {[c EXCEPT !.awaited = FALSE] : c \in attempts}
  BY DEF Console!Reload, Console!Draw, Console!Drawn
<1>2. /\ form' \in Forms /\ form'.at = "open" /\ form'.preview = None
      /\ form'.intent = drawn + 1 /\ form'.decision = drawn + 1
  BY <1>1, ConsoleFacts DEF Console!Form, Forms, Choices
<1>3. FormMoves
  BY <1>1, <1>2, ConsoleFacts DEF FormMoves
<1>4. ASSUME NEW x \in attempts'
      PROVE  x \in Attempts /\ ~x.awaited /\ \E y \in Submissions : Same(x, y)
  <2>1. PICK c \in attempts : x = [c EXCEPT !.awaited = FALSE]
    BY <1>1
  <2>2. c \in Attempts
    BY DEF ConsoleInv, ConsoleType
  <2>3. x \in Attempts /\ ~x.awaited /\ Same(x, c)
    BY <2>1, <2>2 DEF Attempts, Same
  <2> QED
    BY <2>3 DEF Submissions
<1>5. AwaitedOk' /\ PreviewOk'
  BY <1>2, <1>4 DEF AwaitedOk, PreviewOk
<1> QED
  BY <1>1, <1>2, <1>3, <1>4, <1>5, ConsoleFacts, QuietSteps

\* An answer leaves the form where it is, or opens it again.
LEMMA OpensForm ==
    ASSUME ConsoleInv, NEW c \in attempts, Console!Opens(c), operation' = operation, drawn' = drawn
    PROVE  /\ FormMoves
           /\ form'.at \in {"open", form.at} /\ (~c.awaited => form'.at = form.at)
           /\ (c.awaited => form'.at = "open")
           /\ form'.shown = form.shown /\ form'.content = form.content
           /\ form'.preview = form.preview /\ form'.decision = form.decision
           /\ form'.asked = form.asked
<1> PICK at : at = IF c.awaited THEN "open" ELSE form.at
  OBVIOUS
<1>1. at \in Choices
  BY ConsoleFacts DEF Choices
<1>2. form' = [form EXCEPT !.at = at]
  BY ConsoleFacts DEF Console!Opens, Forms
<1>3. /\ form' \in Forms /\ form'.at = at /\ form'.shown = form.shown
      /\ form'.content = form.content /\ form'.preview = form.preview
      /\ form'.asked = form.asked
      /\ form'.intent = form.intent /\ form'.decision = form.decision
  BY <1>1, <1>2, ConsoleFacts DEF Forms
<1>4. FormMoves
  BY <1>3 DEF FormMoves
<1> QED
  BY <1>3, <1>4

LEMMA OpensKeeps ==
    ASSUME ConsoleInv, NEW c \in attempts, Console!Opens(c), operation' = operation, drawn' = drawn,
           \A x \in attempts' : x.awaited => x \in attempts \ {c}
    PROVE  AwaitedOk' /\ PreviewOk'
<1>1. AwaitedOk'
  BY OpensForm DEF ConsoleInv, AwaitedOk
<1>2. PreviewOk'
  BY OpensForm DEF ConsoleInv, PreviewOk
<1> QED
  BY <1>1, <1>2

LEMMA RefuseStep ==
    ASSUME ConsoleInv, NEW c \in attempts, Console!Refuse(c) PROVE ConsoleInv'
<1>1. /\ operation' = operation /\ effects' = effects /\ revision' = revision
      /\ drawn' = drawn /\ Console!Opens(c) /\ attempts' = attempts \ {c}
  BY DEF Console!Refuse
<1>2. AwaitedOk' /\ PreviewOk'
  BY <1>1, OpensKeeps
<1>3. attempts' \subseteq Attempts /\ \A x \in attempts' : \E y \in Submissions : Same(x, y)
  BY <1>1, ConsoleFacts DEF ConsoleInv, ConsoleType
<1> QED
  BY <1>1, <1>2, <1>3, OpensForm, ConsoleFacts, QuietSteps

LEMMA CheckCallStep ==
    ASSUME ConsoleInv, NEW c \in attempts, Console!Check(c) PROVE ConsoleInv'
<1>1. /\ operation' = operation /\ effects' = effects /\ revision' = revision
      /\ drawn' = drawn /\ form' = form
      /\ attempts' = (attempts \ {c}) \cup {[c EXCEPT !.step = "executes"]}
  BY DEF Console!Check
<1> PICK d : d = [c EXCEPT !.step = "executes"]
  OBVIOUS
<1>2. c \in Attempts /\ d \in Attempts /\ Same(d, c) /\ d.awaited = c.awaited
  BY DEF ConsoleInv, ConsoleType, Attempts, Same
<1>3. attempts' = (attempts \ {c}) \cup {d}
  BY <1>1
<1>4. FormMoves
  BY <1>1, ConsoleFacts DEF FormMoves
<1>5. attempts' \subseteq Attempts /\ \A x \in attempts' : \E y \in Submissions : Same(x, y)
  BY <1>2, <1>3, ConsoleFacts DEF ConsoleInv, ConsoleType
<1>6. AwaitedOk'
  <2> SUFFICES ASSUME NEW x \in attempts', x.awaited
               PROVE  /\ form'.at = "waits"
                      /\ ~operation'.live => x.decision = form'.decision
                      /\ \A b \in attempts' : b.awaited => b = x
    BY DEF AwaitedOk
  <2>1. CASE x = d
    BY <1>1, <1>2, <1>3, <2>1 DEF ConsoleInv, AwaitedOk, Same
  <2>2. CASE x # d
    BY <1>1, <1>2, <1>3, <2>2 DEF ConsoleInv, AwaitedOk
  <2> QED
    BY <2>1, <2>2
<1>7. PreviewOk'
  BY <1>1 DEF ConsoleInv, PreviewOk
<1> QED
  BY <1>1, <1>4, <1>5, <1>6, <1>7, ConsoleFacts, QuietSteps

LEMMA GiveUpCallStep ==
    ASSUME ConsoleInv, NEW c \in attempts, Console!GiveUp(c) PROVE ConsoleInv'
<1>1. /\ operation' = operation /\ effects' = effects /\ revision' = revision
      /\ drawn' = drawn /\ Console!Opens(c)
      /\ attempts' = (attempts \ {c}) \cup {[c EXCEPT !.awaited = FALSE]}
  BY DEF Console!GiveUp
<1> PICK d : d = [c EXCEPT !.awaited = FALSE]
  OBVIOUS
<1>2. c \in Attempts /\ d \in Attempts /\ Same(d, c) /\ ~d.awaited
  BY DEF ConsoleInv, ConsoleType, Attempts, Same
<1>3. attempts' = (attempts \ {c}) \cup {d}
  BY <1>1
<1>4. AwaitedOk' /\ PreviewOk'
  BY <1>1, <1>2, <1>3, OpensKeeps
<1>5. attempts' \subseteq Attempts /\ \A x \in attempts' : \E y \in Submissions : Same(x, y)
  BY <1>2, <1>3, ConsoleFacts DEF ConsoleInv, ConsoleType
<1> QED
  BY <1>1, <1>4, <1>5, OpensForm, ConsoleFacts, QuietSteps

-----------------------------------------------------------------------------
(* A submission, and its effect.                                           *)

LEMMA SubmitStep == ASSUME ConsoleInv, Console!Submit PROVE ConsoleInv'
<1>1. /\ operation' = operation /\ effects' = effects /\ revision' = revision
      /\ form.at \in {"open", "accepted"} /\ Console!Submitted # None
      /\ Console!Draws("submit")
  BY DEF Console!Submit, Console!Open
<1> PICK intent : intent = Console!IntentAt("submit")
  OBVIOUS
<1>2. /\ intent = IF "submit" \in operation.renews THEN drawn + 1 ELSE form.intent
      /\ drawn' = IF "submit" \in operation.renews THEN drawn + 1 ELSE drawn
      /\ intent \in Nat
  BY <1>1, ConsoleFacts DEF Console!IntentAt, Console!Drawn, Console!Draws, Console!Draw
<1> PICK content : content = Console!Submitted
  OBVIOUS
<1>3. /\ content \in Entries
      /\ operation.preview # "removed" => content = form.content
      /\ operation.preview = "removed" => form.preview # None
  BY <1>1, ConsoleFacts DEF Console!Submitted, ConsoleInv, PreviewOk
<1> PICK place \in {"checks", "executes"} : place = IF operation.rereads THEN "checks" ELSE "executes"
  OBVIOUS
<1> PICK c : c = [decision |-> form.decision, intent |-> intent, content |-> content,
                  shown |-> form.content, basis |-> form.shown, step |-> place, awaited |-> TRUE]
  OBVIOUS
<1>4. /\ c \in Attempts /\ c.decision = form.decision /\ c.intent = intent
      /\ c.content = content /\ c.shown = form.content /\ c.basis = form.shown /\ c.awaited
  BY <1>2, <1>3, ConsoleFacts DEF Attempts
<1>5. attempts' = attempts \cup {c} /\ Submissions' = Submissions \cup {c}
  BY <1>1 DEF Console!Submit, Submissions
<1>6. form' = [form EXCEPT !.at = "waits", !.intent = intent]
  BY DEF Console!Submit
<1>7. /\ form' \in Forms /\ form'.at = "waits" /\ form'.shown = form.shown
      /\ form'.content = form.content /\ form'.preview = form.preview
      /\ form'.intent = intent /\ form'.decision = form.decision
  BY <1>2, <1>6, ConsoleFacts DEF Forms, Choices
<1>8. ConsoleType'
  BY <1>1, <1>2, <1>4, <1>5, <1>7, ConsoleFacts DEF ConsoleInv, ConsoleType
\* The submission agrees with those before it, as the form did.
<1>9. ASSUME NEW x \in Submissions
      PROVE  /\ x.decision <= drawn' /\ x.intent <= drawn'
             /\ x.decision = c.decision =>
                    /\ x.basis = c.basis /\ x.shown = c.shown
                    /\ operation.renews \subseteq {"edit"} => x.intent = c.intent
             /\ x.intent = c.intent =>
                    /\ x.basis = c.basis
                    /\ operation.renews = {"edit"} => x.decision = c.decision
             /\ operation.preview = "removed" /\ x.intent = c.intent => x.decision = c.decision
  <2>1. /\ x.decision \in Nat /\ x.intent \in Nat /\ x.decision <= drawn /\ x.intent <= drawn
    BY SubmissionFields
  <2>2. Agree(x, Offer) /\ (form.preview # None => Bound(x, Offer))
    BY DEF ConsoleInv, OfferAgrees
  <2>3. x.decision <= drawn' /\ x.intent <= drawn'
    BY <1>2, <2>1, ConsoleFacts
  <2>4. CASE "submit" \notin operation.renews
    BY <1>2, <1>3, <1>4, <2>2, <2>3, <2>4 DEF Agree, Bound, Offer
  <2>5. CASE "submit" \in operation.renews
    <3>1. c.intent = drawn + 1 /\ x.intent # c.intent
      BY <1>2, <1>4, <2>1, <2>5, ConsoleFacts
    <3>2. ~(operation.renews \subseteq {"edit"}) /\ operation.preview # "removed"
      BY <2>5, ConsoleFacts DEF Guarded
    <3> QED
      BY <1>4, <2>2, <2>3, <3>1, <3>2 DEF Agree, Offer
  <2> QED
    BY <2>4, <2>5
<1>10. c.decision <= drawn' /\ c.intent <= drawn'
  BY <1>2, <1>4, ConsoleFacts
<1>11. SubmissionsAgree'
  <2> SUFFICES ASSUME NEW x \in Submissions \cup {c}, NEW y \in Submissions \cup {c}
               PROVE  Agree(x, y)' /\ Bound(x, y)'
    BY <1>5 DEF SubmissionsAgree
  <2>1. CASE x \in Submissions /\ y \in Submissions
    BY <1>1, <2>1 DEF ConsoleInv, SubmissionsAgree, Agree, Bound
  <2>2. CASE x \in Submissions /\ y = c
    BY <1>1, <1>9, <2>2 DEF Agree, Bound
  <2>3. CASE x = c /\ y \in Submissions
    BY <1>1, <1>9, <2>3 DEF Agree, Bound
  <2>4. CASE x = c /\ y = c
    BY <2>4 DEF Agree, Bound
  <2> QED
    BY <2>1, <2>2, <2>3, <2>4
<1>12. OfferAgrees'
  <2> SUFFICES ASSUME NEW x \in Submissions \cup {c}
               PROVE  Agree(x, Offer)' /\ Bound(x, Offer)'
    BY <1>5 DEF OfferAgrees
  <2>1. CASE x \in Submissions
    BY <1>1, <1>4, <1>7, <1>9, <2>1 DEF Agree, Bound, Offer
  <2>2. CASE x = c
    BY <1>1, <1>4, <1>7, <2>2 DEF Agree, Bound, Offer
  <2> QED
    BY <2>1, <2>2
<1>13. Numbered'
  BY <1>4, <1>5, <1>7, <1>9, <1>10 DEF Numbered
<1>14. AsSubmitted'
  BY <1>1, <1>3, <1>4, <1>5 DEF ConsoleInv, AsSubmitted
<1>15. EffectsPast'
  BY <1>1 DEF ConsoleInv, EffectsPast
<1>16. AwaitedOk'
  <2>1. \A x \in attempts : ~x.awaited
    BY <1>1 DEF ConsoleInv, AwaitedOk
  <2> QED
    BY <1>1, <1>4, <1>5, <1>7, <2>1 DEF AwaitedOk
<1>17. PreviewOk'
  BY <1>1, <1>7 DEF ConsoleInv, PreviewOk
<1>18. Console!DecisionsHold'
  BY <1>1, <1>7
  DEF ConsoleInv, Console!DecisionsHold, Console!OnceEach, Console!AsShown, Console!AcceptedIsDone
<1> QED
  BY <1>8, <1>11, <1>12, <1>13, <1>14, <1>15, <1>16, <1>17, <1>18 DEF ConsoleInv

\* The form accepts the receipt r of its call c.
LEMMA AcceptsForm ==
    ASSUME ConsoleInv, NEW c \in attempts, NEW r, Console!Accepts(c, r), operation' = operation,
           \A x \in attempts' : x \in attempts \ {c}
    PROVE  /\ FormMoves /\ AwaitedOk' /\ PreviewOk'
           /\ c.awaited /\ (operation.matches => r.content = c.content)
           /\ form'.shown = form.shown /\ form'.content = form.content
<1>1. /\ c.awaited /\ (operation.matches => r.content = c.content)
      /\ Console!Draws("success")
      /\ form' = [form EXCEPT !.at = "accepted", !.preview = None,
                              !.intent = Console!IntentAt("success")]
  BY DEF Console!Accepts
<1> PICK intent : intent = Console!IntentAt("success")
  OBVIOUS
<1>2. /\ intent = IF "success" \in operation.renews THEN drawn + 1 ELSE form.intent
      /\ drawn' = IF "success" \in operation.renews THEN drawn + 1 ELSE drawn
      /\ intent \in Nat
  BY <1>1, ConsoleFacts DEF Console!IntentAt, Console!Drawn, Console!Draws, Console!Draw
<1>3. /\ form' \in Forms /\ form'.at = "accepted" /\ form'.shown = form.shown
      /\ form'.content = form.content /\ form'.preview = None
      /\ form'.intent = intent /\ form'.decision = form.decision
  BY <1>1, <1>2, ConsoleFacts DEF Forms, Choices
<1>4. FormMoves
  BY <1>2, <1>3, ConsoleFacts DEF FormMoves
<1>5. AwaitedOk'
  BY <1>1 DEF ConsoleInv, AwaitedOk
<1>6. PreviewOk'
  BY <1>3 DEF PreviewOk
<1> QED
  BY <1>1, <1>3, <1>4, <1>5, <1>6

\* What the form waits for is the decision that it shows.
LEMMA AwaitedShows ==
    ASSUME ConsoleInv, NEW c \in attempts, c.awaited, ~operation.live
    PROVE  c.decision = form.decision /\ c.basis = form.shown /\ c.shown = form.content
<1>1. c.decision = form.decision
  BY DEF ConsoleInv, AwaitedOk
<1>2. Agree(c, Offer)
  BY DEF ConsoleInv, OfferAgrees, Submissions
<1> QED
  BY <1>1, <1>2 DEF Agree, Offer

LEMMA ExecuteStep ==
    ASSUME ConsoleInv, NEW c \in attempts, Console!Execute(c) PROVE ConsoleInv'
<1>1. /\ operation' = operation /\ revision' = revision + 1
      /\ Console!Known(c) = {}
      /\ operation.versioned => revision = c.basis
      /\ effects' = effects \cup {Console!Effect(c)} /\ attempts' = attempts \ {c}
      /\ Console!Accepts(c, Console!Effect(c)) \/ Console!Misses(c)
  BY DEF Console!Execute, Console!Current
<1> PICK e : e = Console!Effect(c)
  OBVIOUS
<1>2. c \in Attempts /\ e \in Receipts /\ Same(e, c)
  BY DEF Console!Effect, Receipts, Attempts, Same, ConsoleInv, ConsoleType
<1>3. effects' = effects \cup {e}
  BY <1>1
<1>4. Comes
  <2> SUFFICES ASSUME NEW x \in Submissions' PROVE \E y \in Submissions : Same(x, y)
    BY DEF Comes
  <2>1. CASE x = e
    BY <1>2, <2>1 DEF Submissions
  <2>2. CASE x # e
    BY <1>1, <1>3, <2>2 DEF Submissions, Same
  <2> QED
    BY <2>1, <2>2
<1>5. /\ FormMoves /\ AwaitedOk' /\ PreviewOk'
      /\ form'.shown = form.shown /\ form'.content = form.content
      /\ form'.at = "accepted" => form.at = "accepted" \/ c.awaited
  <2>1. CASE Console!Accepts(c, e)
    BY <1>1, <2>1, AcceptsForm
  <2>2. CASE Console!Misses(c)
    <3>1. Console!Opens(c) /\ drawn' = drawn
      BY <2>2 DEF Console!Misses
    <3> QED
      BY <1>1, <3>1, OpensForm, OpensKeeps
  <2> QED
    BY <1>1, <2>1, <2>2
<1>6. ConsoleType'
  BY <1>1, <1>2, <1>3, <1>5, ConsoleFacts DEF ConsoleInv, ConsoleType, FormMoves
<1>7. EffectsPast'
  <2> SUFFICES ASSUME operation.versioned, NEW d \in effects \cup {e} PROVE d.basis < revision + 1
    BY <1>1, <1>3 DEF EffectsPast
  <2>1. CASE d \in effects
    <3>1. d.basis < revision /\ d.basis \in Nat
      BY <2>1 DEF ConsoleInv, ConsoleType, EffectsPast, Receipts
    <3> QED
      BY <3>1, ConsoleFacts
  <2>2. CASE d = e
    BY <1>1, <1>2, <2>2, ConsoleFacts DEF Same
  <2> QED
    BY <2>1, <2>2
<1>8. Console!OnceEach'
  <2>1. ASSUME NEW d \in effects, d.decision = e.decision PROVE FALSE
    <3>1. Agree(d, c) /\ d.decision = c.decision
      BY <1>2, <2>1 DEF ConsoleInv, SubmissionsAgree, Submissions, Same
    <3>2. CASE operation.versioned
      <4>1. d.basis = revision
        BY <1>1, <3>1, <3>2 DEF Agree
      <4>2. d.basis < revision
        BY <3>2 DEF ConsoleInv, EffectsPast
      <4> QED
        BY <4>1, <4>2, ConsoleFacts
    <3>3. CASE operation.renews \subseteq {"edit"}
      BY <1>1, <3>1, <3>3 DEF Agree, Console!Known
    <3> QED
      BY <3>2, <3>3, ConsoleFacts DEF Guarded
  <2>2. Console!OnceEach
    BY DEF ConsoleInv, Console!DecisionsHold
  <2> QED
    BY <1>3, <2>1, <2>2 DEF Console!OnceEach
<1>9. Console!AcceptedIsDone'
  <2> SUFFICES ASSUME ~operation.rendered, ~operation.live, form'.at = "accepted"
               PROVE  \E d \in effects' : d.basis = form'.shown /\ d.shown = form'.content
    BY <1>1 DEF Console!AcceptedIsDone
  <2>1. CASE form.at = "accepted"
    BY <1>3, <1>5, <2>1 DEF ConsoleInv, Console!DecisionsHold, Console!AcceptedIsDone
  <2>2. CASE c.awaited
    BY <1>2, <1>3, <1>5, <2>2, AwaitedShows DEF Same
  <2> QED
    BY <1>5, <2>1, <2>2
<1> QED
  BY <1>4, <1>5, <1>6, <1>7, <1>8, <1>9, ConsoleSteps

LEMMA RepeatStep ==
    ASSUME ConsoleInv, NEW c \in attempts, Console!Repeat(c) PROVE ConsoleInv'
<1>1. /\ operation' = operation /\ revision' = revision /\ effects' = effects
      /\ attempts' = attempts \ {c}
  BY DEF Console!Repeat
<1>2. PICK r \in Console!Known(c) : Console!Accepts(c, r) \/ Console!Misses(c)
  BY DEF Console!Repeat
<1>3. r \in effects /\ r.intent = c.intent
  BY DEF Console!Known
<1>4. Comes
  BY <1>1 DEF Comes, Submissions, Same
<1>5. /\ FormMoves /\ AwaitedOk' /\ PreviewOk'
      /\ form'.shown = form.shown /\ form'.content = form.content
      /\ form'.at = "accepted" =>
             form.at = "accepted" \/ (c.awaited /\ (operation.matches => r.content = c.content))
  <2>1. CASE Console!Accepts(c, r)
    BY <1>1, <2>1, AcceptsForm
  <2>2. CASE Console!Misses(c)
    <3>1. Console!Opens(c) /\ drawn' = drawn
      BY <2>2 DEF Console!Misses
    <3> QED
      BY <1>1, <3>1, OpensForm, OpensKeeps
  <2> QED
    BY <1>2, <2>1, <2>2
<1>6. ConsoleType'
  BY <1>1, <1>5, ConsoleFacts DEF ConsoleInv, ConsoleType, FormMoves
<1>7. EffectsPast' /\ Console!OnceEach'
  BY <1>1 DEF ConsoleInv, EffectsPast, Console!DecisionsHold, Console!OnceEach
<1>8. Console!AcceptedIsDone'
  <2> SUFFICES ASSUME ~operation.rendered, ~operation.live, form'.at = "accepted"
               PROVE  \E d \in effects : d.basis = form.shown /\ d.shown = form.content
    BY <1>1, <1>5 DEF Console!AcceptedIsDone
  <2>1. CASE form.at = "accepted"
    BY <2>1 DEF ConsoleInv, Console!DecisionsHold, Console!AcceptedIsDone
  <2>2. CASE c.awaited /\ (operation.matches => r.content = c.content)
    <3>1. c.decision = form.decision /\ c.basis = form.shown /\ c.shown = form.content
      BY <2>2, AwaitedShows
    <3>2. r \in Submissions /\ c \in Submissions
      BY <1>3 DEF Submissions
    <3>3. Agree(r, c) /\ Bound(r, c)
      BY <3>2 DEF ConsoleInv, SubmissionsAgree
    <3>4. CASE operation.renews = {"edit"} \/ operation.preview = "removed"
      BY <1>3, <3>1, <3>3, <3>4 DEF Agree, Bound
    <3>5. CASE operation.matches /\ operation.preview = "none"
      <4>1. r.content = r.shown /\ c.content = c.shown
        BY <3>2, <3>5 DEF ConsoleInv, AsSubmitted
      <4> QED
        BY <1>3, <2>2, <3>1, <3>3, <3>5, <4>1 DEF Agree
    <3> QED
      BY <3>4, <3>5, ConsoleFacts DEF Guarded
  <2> QED
    BY <1>5, <2>1, <2>2
<1> QED
  BY <1>4, <1>5, <1>6, <1>7, <1>8, ConsoleSteps

LEMMA ConsoleStep ==
    ASSUME ConsoleInv, [Console!Next]_consoleVars
    PROVE  ConsoleInv'
<1>1. CASE UNCHANGED consoleVars
  <2>1. /\ operation' = operation /\ revision' = revision /\ effects' = effects
        /\ form' = form /\ attempts' = attempts /\ drawn' = drawn
    BY <1>1 DEF consoleVars
  <2>2. FormMoves
    BY <2>1, ConsoleFacts DEF FormMoves
  <2>3. AwaitedOk' /\ PreviewOk' /\ attempts \subseteq Attempts
    BY <2>1 DEF ConsoleInv, ConsoleType, AwaitedOk, PreviewOk
  <2> QED
    BY <2>1, <2>2, <2>3, ConsoleFacts, QuietSteps
<1>2. CASE Console!Next
  BY <1>2, EditStep, AskStep, AnswerStep, SubmitStep, ReloadStep, RefuseStep, CheckCallStep,
     GiveUpCallStep, ExecuteStep, RepeatStep, ElsewhereStep
  DEF Console!Next
<1> QED
  BY <1>1, <1>2

LEMMA ConsoleInvHolds == ServicesSpec => []ConsoleInv
<1>1. ServicesInit => ConsoleInv
  BY ConsoleInit DEF ServicesInit
<1>2. ConsoleInv /\ [ServicesNext]_serviceVars => ConsoleInv'
  BY OneAppSteps, ConsoleStep
<1> QED
  BY <1>1, <1>2, PTL DEF ServicesSpec

\* For every operation of the console, and any number of edits, calls and
\* changes elsewhere: a decision takes effect once, as the form showed it, and
\* what a form says was executed was, wherever an answer is lost or late
\* (adjustment-dialog.tsx, submit; governance-operations.ts).
THEOREM DecisionsTakeEffect == ServicesSpec => []DecisionsHold
<1>1. ConsoleInv => DecisionsHold
  BY DEF ConsoleInv, DecisionsHold
<1> QED
  BY <1>1, ConsoleInvHolds, PTL

-----------------------------------------------------------------------------
(* The session of a browser (SessionRefresh).                              *)

WindowPlaces == {"idle", "asks", "calls", "queues", "checks", "posts", "retries", "calls again",
                 "refused"}

WindowRows == [at : WindowPlaces, flow : {"action", "fetch", None},
               carries : Browser!Ids \cup {None}]

PostRows == [at : {"none", "reads", "rotates", "confirms", "answers"},
             carries : Browser!Ids \cup {None}, gets : Browser!Ids \cup {None}]

BrowserType ==
    /\ families \in [Browser!Ids -> Browser!Rows \cup {None}]
    /\ aged \subseteq Browser!Ids
    /\ jar \in Browser!Ids \cup {None}
    /\ refreshLock \in Tabs \cup {None}
    /\ windows \in [Tabs -> WindowRows]
    /\ posts \in [Tabs -> PostRows]
    /\ troubles \in Nat
    /\ lost \subseteq Browser!Ids
    /\ reused \subseteq Browser!Ids

\* Cookies are of sessions that identity-service has issued.
Issued(s) == s = None \/ families[s] # None

CookiesIssued ==
    /\ Issued(jar)
    /\ \A s \in aged : families[s] # None
    /\ \A t \in Tabs :
          Issued(windows[t].carries) /\ Issued(posts[t].carries) /\ Issued(posts[t].gets)

\* The tab waits for the answer to its POST.
Waits(t) == windows[t].at = "posts"

InFlight(t) == posts[t].at # "none"

LockHeld == \A t \in Tabs : windows[t].at \in {"checks", "posts"} => refreshLock = t

\* Nobody waits for the POST of a tab that has given up.
Unwaited == \A t \in Tabs : InFlight(t) /\ ~Waits(t) => Browser!FamilyOf(posts[t].carries) \subseteq lost

\* The token of the session has not been used, or its family has lost an answer.
Unused(s) == families[s].family \in lost \/ ~families[s].consumed

PostOk(t) ==
    /\ posts[t].at \in {"rotates", "confirms"} => posts[t].carries # None
    /\ posts[t].at = "confirms" => posts[t].gets # None
    /\ posts[t].at \in {"reads", "rotates"} /\ posts[t].carries # None => Unused(posts[t].carries)
    /\ posts[t].gets # None =>
           /\ posts[t].at \in {"confirms", "answers"}
           /\ posts[t].carries # None
           /\ families[posts[t].gets].family = families[posts[t].carries].family
           /\ Unused(posts[t].gets)

\* The token in the cookies has not been used, or a tab waits for its successor.
JarOk ==
    jar # None =>
        \/ Unused(jar)
        \/ \E t \in Tabs : /\ Waits(t) /\ posts[t].gets # None
                           /\ families[posts[t].carries].family = families[jar].family

\* As long as nothing goes wrong.
CalmTab(t) ==
    /\ windows[t].at # "refused"
    /\ windows[t].at \in {"asks", "calls", "checks", "retries", "calls again"} =>
           windows[t].carries # None
    /\ windows[t].at = "checks" => windows[t].carries = jar
    /\ windows[t].at \in {"retries", "calls again"} => windows[t].carries \notin aged

CalmPost(t) ==
    InFlight(t) =>
        /\ posts[t].carries # None /\ posts[t].carries \in aged
        /\ posts[t].gets \notin aged
        /\ posts[t].at = "answers" => posts[t].gets # None

Calm ==
    /\ lost = {}
    /\ jar # None
    /\ \A s \in Browser!Ids : families[s] # None =>
           ~families[s].revoked /\ (families[s].consumed => s \in aged)
    /\ \A t \in Tabs : CalmTab(t) /\ CalmPost(t)

BrowserInv ==
    /\ BrowserType
    /\ CookiesIssued
    /\ LockHeld
    /\ Unwaited
    /\ \A t \in Tabs : PostOk(t)
    /\ JarOk
    /\ troubles = 0 => Calm
    /\ reused \subseteq lost

LEMMA NoSession ==
    /\ None \notin Browser!Ids /\ None \notin Browser!Rows /\ None \notin Tabs
    /\ Browser!Ids \subseteq Nat /\ 1 \in Browser!Ids
<1>1. MaxRotations \in Nat \ {0} /\ None \notin Tabs \cup Browser!Ids \cup Browser!Rows
  BY BrowserAssumption DEF Browser!Distinct
<1> QED
  BY <1>1 DEF Browser!Ids

LEMMA BrowserFacts ==
    ASSUME BrowserInv
    PROVE  /\ \A s \in Browser!Ids : families[s] # None =>
                  /\ families[s] \in Browser!Rows /\ families[s].family \in Browser!Ids
                  /\ families[s].consumed \in BOOLEAN /\ families[s].revoked \in BOOLEAN
           /\ jar \in Browser!Ids \cup {None} /\ troubles \in Nat
           /\ lost \subseteq Browser!Ids /\ aged \subseteq Browser!Ids
           /\ \A t \in Tabs : /\ windows[t] \in WindowRows /\ posts[t] \in PostRows
                              /\ windows[t].at \in WindowPlaces
                              /\ windows[t].carries \in Browser!Ids \cup {None}
                              /\ posts[t].carries \in Browser!Ids \cup {None}
                              /\ posts[t].gets \in Browser!Ids \cup {None}
                              /\ Issued(windows[t].carries) /\ Issued(posts[t].carries)
                              /\ Issued(posts[t].gets)
                              /\ PostOk(t)
<1>1. ASSUME NEW s \in Browser!Ids, families[s] # None
      PROVE  /\ families[s] \in Browser!Rows /\ families[s].family \in Browser!Ids
             /\ families[s].consumed \in BOOLEAN /\ families[s].revoked \in BOOLEAN
  <2>1. families[s] \in Browser!Rows
    BY <1>1 DEF BrowserInv, BrowserType
  <2> QED
    BY <2>1 DEF Browser!Rows
<1>2. ASSUME NEW t \in Tabs
      PROVE  /\ windows[t] \in WindowRows /\ posts[t] \in PostRows
             /\ windows[t].at \in WindowPlaces
             /\ windows[t].carries \in Browser!Ids \cup {None}
             /\ posts[t].carries \in Browser!Ids \cup {None}
             /\ posts[t].gets \in Browser!Ids \cup {None}
  BY DEF BrowserInv, BrowserType, WindowRows, PostRows
<1> QED
  BY <1>1, <1>2 DEF BrowserInv, BrowserType, CookiesIssued

LEMMA BrowserInit == Browser!Init => BrowserInv
<1> SUFFICES ASSUME Browser!Init PROVE BrowserInv
  OBVIOUS
<1>1. /\ aged = {} /\ jar = 1 /\ refreshLock = None /\ troubles = 0 /\ lost = {} /\ reused = {}
      /\ \A t \in Tabs : /\ windows[t].at = "idle" /\ windows[t].carries = None
                         /\ posts[t].at = "none" /\ posts[t].carries = None /\ posts[t].gets = None
  BY DEF Browser!Init, Browser!Idle, Browser!NoPost
<1>2. /\ families \in [Browser!Ids -> Browser!Rows \cup {None}]
      /\ families[1] = [family |-> 1, consumed |-> FALSE, revoked |-> FALSE]
      /\ families[1] \in Browser!Rows
      /\ \A s \in Browser!Ids : s # 1 => families[s] = None
  BY NoSession DEF Browser!Init, Browser!Session, Browser!Rows
<1>3. BrowserType
  BY <1>1, <1>2, NoSession DEF BrowserType, Browser!Init, Browser!Idle, Browser!NoPost,
     WindowRows, WindowPlaces, PostRows
<1>4. CookiesIssued
  BY <1>1, <1>2, NoSession DEF CookiesIssued, Issued
<1>5. LockHeld /\ Unwaited /\ \A t \in Tabs : PostOk(t)
  BY <1>1 DEF LockHeld, Unwaited, InFlight, PostOk
<1>6. JarOk
  BY <1>1, <1>2 DEF JarOk, Unused
<1>7. Calm
  <2>1. ASSUME NEW s \in Browser!Ids, families[s] # None
        PROVE  ~families[s].revoked /\ ~families[s].consumed
    BY <1>2, <2>1
  <2>2. \A t \in Tabs : CalmTab(t) /\ CalmPost(t)
    BY <1>1 DEF CalmTab, CalmPost, InFlight
  <2> QED
    BY <1>1, <2>1, <2>2, NoSession DEF Calm
<1> QED
  BY <1>1, <1>3, <1>4, <1>5, <1>6, <1>7 DEF BrowserInv

-----------------------------------------------------------------------------
(* What the steps have in common.                                          *)

\* Tokens are used and families revoked; neither is taken back.
RowsSame ==
    \A s \in Browser!Ids :
        /\ families'[s] = None <=> families[s] = None
        /\ families[s] # None => /\ families'[s].family = families[s].family
                                 /\ families'[s].consumed <=> families[s].consumed

Troubled == troubles' \in {troubles, troubles + 1}

\* The lock stays, or the tab takes or releases it.
LockMoves(t) ==
    \/ refreshLock' = refreshLock
    \/ refreshLock = None /\ refreshLock' = t
    \/ refreshLock = t /\ refreshLock' = None

\* The tab may be in this state while nothing goes wrong.
CalmRow(row) ==
    /\ row.at # "refused"
    /\ row.at \in {"asks", "calls", "checks", "retries", "calls again"} => row.carries # None
    /\ row.at = "checks" => row.carries = jar
    /\ row.at \in {"retries", "calls again"} => row.carries \notin aged

\* A tab goes on, and no answer to a POST is concerned.
LEMMA WindowStep ==
    ASSUME BrowserInv, NEW t \in Tabs, NEW row \in WindowRows,
           windows' = [windows EXCEPT ![t] = row],
           families' = families, aged' = aged, jar' = jar, posts' = posts,
           lost' = lost, reused' = reused,
           row.at # "posts", windows[t].at # "posts", Issued(row.carries),
           LockMoves(t), row.at = "checks" => refreshLock' = t,
           Troubled, troubles' = 0 /\ Calm => CalmRow(row)
    PROVE  BrowserInv'
<1>1. /\ windows' \in [Tabs -> WindowRows] /\ windows'[t] = row
      /\ \A u \in Tabs : u # t => windows'[u] = windows[u]
  BY DEF BrowserInv, BrowserType
<1>2. BrowserType'
  BY <1>1 DEF BrowserInv, BrowserType, Troubled, LockMoves
<1>3. CookiesIssued'
  BY <1>1 DEF BrowserInv, CookiesIssued, Issued
<1>4. LockHeld'
  BY <1>1, NoSession DEF BrowserInv, LockHeld, LockMoves
<1>5. \A u \in Tabs : Waits(u)' <=> Waits(u)
  BY <1>1 DEF Waits
<1>6. Unwaited' /\ \A u \in Tabs : PostOk(u)'
  BY <1>5 DEF BrowserInv, Unwaited, InFlight, Browser!FamilyOf, PostOk, Unused
<1>7. JarOk'
  BY <1>5 DEF BrowserInv, JarOk, Unused
<1>8. troubles' = 0 => Calm'
  <2> SUFFICES ASSUME troubles' = 0 PROVE Calm'
    OBVIOUS
  <2>1. Calm
    <3>1. troubles = 0
      BY BrowserFacts DEF Troubled
    <3> QED
      BY <3>1 DEF BrowserInv
  <2>2. ASSUME NEW u \in Tabs PROVE CalmTab(u)' /\ CalmPost(u)'
    <3>1. CalmPost(u)'
      BY <2>1 DEF Calm, CalmPost, InFlight
    <3>2. CASE u = t
      BY <1>1, <2>1, <3>1, <3>2 DEF CalmTab, CalmRow
    <3>3. CASE u # t
      BY <1>1, <2>1, <3>1, <3>3 DEF Calm, CalmTab
    <3> QED
      BY <3>2, <3>3
  <2> QED
    BY <2>1, <2>2 DEF Calm
<1> QED
  BY <1>2, <1>3, <1>4, <1>6, <1>7, <1>8 DEF BrowserInv

\* The POST of a tab goes on at the web server.
LEMMA PostStep ==
    ASSUME BrowserInv, NEW t \in Tabs, NEW row \in PostRows,
           posts' = [posts EXCEPT ![t] = row], InFlight(t),
           windows' = windows, refreshLock' = refreshLock, jar' = jar, aged' = aged,
           families' \in [Browser!Ids -> Browser!Rows \cup {None}], RowsSame,
           lost \subseteq lost', lost' \subseteq Browser!Ids,
           reused' \subseteq lost',
           Troubled,
           row.at # "none" => row.carries = posts[t].carries,
           Issued(row.carries), Issued(row.gets),
           PostOk(t)',
           Waits(t) /\ posts[t].gets # None =>
               \/ row.carries = posts[t].carries /\ row.gets # None
               \/ families[posts[t].carries].family \in lost',
           troubles' = 0 /\ Calm =>
               /\ families' = families /\ lost' = {}
               /\ row.at # "none" => /\ row.gets \notin aged
                                     /\ row.at = "answers" => row.gets # None
    PROVE  BrowserInv'
<1>1. /\ posts' \in [Tabs -> PostRows] /\ posts'[t] = row
      /\ \A u \in Tabs : u # t => posts'[u] = posts[u]
  BY DEF BrowserInv, BrowserType
<1>2. BrowserType'
  BY <1>1 DEF BrowserInv, BrowserType, Troubled
<1>3. \A s \in Browser!Ids \cup {None} : Issued(s) => Issued(s)'
  BY DEF Issued, RowsSame
<1>4. CookiesIssued'
  <2>1. Issued(jar)' /\ \A s \in aged : families'[s] # None
    BY <1>3, BrowserFacts DEF BrowserInv, CookiesIssued, Issued, RowsSame
  <2>2. ASSUME NEW u \in Tabs
        PROVE  /\ Issued(windows[u].carries)' /\ Issued(posts[u].carries)'
               /\ Issued(posts[u].gets)'
    <3>1. row.carries \in Browser!Ids \cup {None} /\ row.gets \in Browser!Ids \cup {None}
      BY DEF PostRows
    <3> QED
      BY <1>1, <3>1, BrowserFacts DEF Issued, RowsSame
  <2> QED
    BY <2>1, <2>2 DEF CookiesIssued
<1>5. LockHeld'
  BY DEF BrowserInv, LockHeld
<1>6. ASSUME NEW s \in Browser!Ids, Issued(s)
      PROVE  families'[s].family = families[s].family /\ (Unused(s) => Unused(s)')
  BY <1>6, NoSession DEF Issued, RowsSame, Unused
<1>7. Unwaited'
  <2> SUFFICES ASSUME NEW u \in Tabs, InFlight(u)', ~Waits(u)'
               PROVE  Browser!FamilyOf(posts[u].carries)' \subseteq lost'
    BY DEF Unwaited
  <2>1. posts'[u].carries = posts[u].carries /\ InFlight(u) /\ ~Waits(u)
    BY <1>1 DEF InFlight, Waits
  <2>2. Browser!FamilyOf(posts[u].carries) \subseteq lost
    BY <2>1 DEF BrowserInv, Unwaited
  <2> QED
    BY <1>6, <2>1, <2>2, BrowserFacts DEF Browser!FamilyOf
<1>8. ASSUME NEW u \in Tabs PROVE PostOk(u)'
  <2>1. CASE u = t
    BY <2>1
  <2>2. CASE u # t
    <3>1. posts'[u] = posts[u] /\ PostOk(u)
      BY <1>1, <2>2, BrowserFacts
    <3> QED
      BY <1>6, <3>1, BrowserFacts DEF PostOk, Unused
  <2> QED
    BY <2>1, <2>2
<1>9. JarOk'
  <2> SUFFICES ASSUME jar # None, ~Unused(jar)'
               PROVE  \E u \in Tabs : /\ Waits(u)' /\ posts'[u].gets # None
                                      /\ families'[posts'[u].carries].family = families'[jar].family
    BY DEF JarOk, Unused
  <2>1. jar \in Browser!Ids /\ Issued(jar)
    BY BrowserFacts DEF BrowserInv, CookiesIssued
  <2>2. ~Unused(jar) /\ families'[jar].family = families[jar].family
        /\ families[jar].family \notin lost'
    BY <1>6, <2>1 DEF Unused
  <2>3. PICK u \in Tabs : /\ Waits(u) /\ posts[u].gets # None
                          /\ families[posts[u].carries].family = families[jar].family
    BY <2>2 DEF BrowserInv, JarOk
  <2>4. posts[u].carries # None /\ posts[u].carries \in Browser!Ids /\ Issued(posts[u].carries)
    BY <2>3, BrowserFacts DEF PostOk
  <2>5. posts'[u].carries = posts[u].carries /\ posts'[u].gets # None
    BY <1>1, <2>2, <2>3
  <2> QED
    BY <1>6, <2>2, <2>3, <2>4, <2>5 DEF Waits
<1>10. troubles' = 0 => Calm'
  <2> SUFFICES ASSUME troubles' = 0 PROVE Calm'
    OBVIOUS
  <2>1. Calm
    <3>1. troubles = 0
      BY BrowserFacts DEF Troubled
    <3> QED
      BY <3>1 DEF BrowserInv
  <2>2. families' = families /\ lost' = {}
    BY <2>1
  <2>3. ASSUME NEW u \in Tabs PROVE CalmTab(u)' /\ CalmPost(u)'
    <3>1. CalmTab(u)'
      BY <2>1 DEF Calm, CalmTab
    <3>2. CASE u = t
      BY <1>1, <2>1, <3>1, <3>2 DEF Calm, CalmPost, InFlight
    <3>3. CASE u # t
      BY <1>1, <2>1, <3>1, <3>3 DEF Calm, CalmPost, InFlight
    <3> QED
      BY <3>2, <3>3
  <2> QED
    BY <2>1, <2>2, <2>3 DEF Calm
<1> QED
  BY <1>2, <1>4, <1>5, <1>7, <1>8, <1>9, <1>10 DEF BrowserInv

-----------------------------------------------------------------------------
(* The operation of a tab.                                                 *)

LEMMA GoesTo ==
    ASSUME BrowserInv, NEW t \in Tabs, NEW place \in WindowPlaces, Browser!Goes(t, place)
    PROVE  \E row \in WindowRows :
               /\ windows' = [windows EXCEPT ![t] = row]
               /\ row.at = place
               /\ place \in {"calls", "calls again"} => row.carries = windows[t].carries
               /\ place \notin {"calls", "calls again"} => row.carries = None
<1>1. windows[t] \in WindowRows
  BY BrowserFacts
<1>2. CASE place \in {"idle", "refused"}
  <2>1. windows' = [windows EXCEPT ![t] = [Browser!Idle EXCEPT !.at = place]]
    BY <1>2 DEF Browser!Goes
  <2> PICK new : new = [Browser!Idle EXCEPT !.at = place]
    OBVIOUS
  <2>2. new \in WindowRows /\ new.at = place /\ new.carries = None
    BY DEF Browser!Idle, WindowRows
  <2>3. windows' = [windows EXCEPT ![t] = new] /\ place \notin {"calls", "calls again"}
    BY <1>2, <2>1
  <2> QED
    BY <2>2, <2>3
<1>3. CASE place \in {"calls", "calls again"}
  <2>1. windows' = [windows EXCEPT ![t] = [windows[t] EXCEPT !.at = place]]
    BY <1>3 DEF Browser!Goes
  <2> PICK new : new = [windows[t] EXCEPT !.at = place]
    OBVIOUS
  <2>2. new \in WindowRows /\ new.at = place /\ new.carries = windows[t].carries
    BY <1>1 DEF WindowRows
  <2>3. windows' = [windows EXCEPT ![t] = new]
    BY <2>1
  <2> QED
    BY <1>3, <2>2, <2>3
<1>4. CASE place \notin {"idle", "refused", "calls", "calls again"}
  <2>1. windows' = [windows EXCEPT ![t] = [windows[t] EXCEPT !.at = place, !.carries = None]]
    BY <1>4 DEF Browser!Goes
  <2> PICK new : new = [windows[t] EXCEPT !.at = place, !.carries = None]
    OBVIOUS
  <2>2. new \in WindowRows /\ new.at = place /\ new.carries = None
    BY <1>1 DEF WindowRows
  <2>3. windows' = [windows EXCEPT ![t] = new] /\ place \notin {"calls", "calls again"}
    BY <1>4, <2>1
  <2> QED
    BY <2>2, <2>3
<1> QED
  BY <1>2, <1>3, <1>4

LEMMA SendsTo ==
    ASSUME BrowserInv, NEW t \in Tabs, NEW place \in WindowPlaces, Browser!Sends(t, place)
    PROVE  \E row \in WindowRows :
               windows' = [windows EXCEPT ![t] = row] /\ row.at = place /\ row.carries = jar
<1>1. windows[t] \in WindowRows /\ jar \in Browser!Ids \cup {None}
  BY BrowserFacts
<1> PICK row : row = [windows[t] EXCEPT !.at = place, !.carries = jar]
  OBVIOUS
<1>2. row \in WindowRows /\ row.at = place /\ row.carries = jar
  BY <1>1 DEF WindowRows
<1>3. windows' = [windows EXCEPT ![t] = row]
  BY <1>1 DEF Browser!Sends, BrowserInv, BrowserType, WindowRows
<1> QED
  BY <1>2, <1>3

\* What nothing but trouble makes of a session.
LEMMA CalmState ==
    ASSUME BrowserInv, Calm, NEW s \in Browser!Ids, families[s] # None, NEW answers \in BOOLEAN, answers
    PROVE  /\ s \notin aged => Browser!Live(s)
           /\ Browser!SessionState(s, answers) = IF s \in aged THEN "needs-refresh" ELSE "active"
           /\ Browser!Outcome(s, answers) = IF s \in aged THEN "needs-refresh" ELSE "proceeds"
<1>1. s # None
  BY NoSession
<1>2. s \notin aged => Browser!Live(s)
  BY <1>1 DEF Calm, Browser!Live
<1>3. Browser!SessionState(s, answers) = IF s \in aged THEN "needs-refresh" ELSE "active"
  BY <1>1, <1>2 DEF Browser!SessionState
<1> QED
  BY <1>2, <1>3 DEF Browser!Outcome

LEMMA CalmAnswers ==
    ASSUME BrowserInv, NEW answers \in BOOLEAN, Browser!Gateway(answers)
    PROVE  Troubled /\ (troubles' = 0 => answers)
  BY BrowserFacts DEF Browser!Gateway, Browser!Trouble, Troubled

\* The tab goes on without sending anything.
Onward == {"idle", "calls", "queues", "calls again", "refused"}

LEMMA GoStep ==
    ASSUME BrowserInv, NEW t \in Tabs, NEW place \in Onward, Browser!Goes(t, place),
           families' = families, aged' = aged, jar' = jar, posts' = posts,
           lost' = lost, reused' = reused,
           windows[t].at # "posts", LockMoves(t), Troubled,
           troubles' = 0 /\ Calm =>
               /\ place # "refused"
               /\ place \in {"calls", "calls again"} => windows[t].carries # None
               /\ place = "calls again" => windows[t].carries \notin aged
    PROVE  BrowserInv'
<1>1. place \in WindowPlaces /\ place \notin {"posts", "checks", "asks", "retries"}
  BY DEF WindowPlaces, Onward
<1>2. PICK row \in WindowRows :
          /\ windows' = [windows EXCEPT ![t] = row]
          /\ row.at = place
          /\ place \in {"calls", "calls again"} => row.carries = windows[t].carries
          /\ place \notin {"calls", "calls again"} => row.carries = None
  BY <1>1, GoesTo
<1>3. Issued(row.carries)
  BY <1>2, BrowserFacts DEF Issued
<1>4. troubles' = 0 /\ Calm => CalmRow(row)
  BY <1>1, <1>2 DEF CalmRow
<1> QED
  BY <1>1, <1>2, <1>3, <1>4, WindowStep

LEMMA StartStep == ASSUME BrowserInv, NEW t \in Tabs, Browser!Start(t) PROVE BrowserInv'
<1>1. PICK flow \in {"action", "fetch"} :
          windows' = [windows EXCEPT ![t] = [at |-> "asks", flow |-> flow, carries |-> jar]]
  BY DEF Browser!Start
<1> PICK row : row = [at |-> "asks", flow |-> flow, carries |-> jar]
  OBVIOUS
<1>2. row \in WindowRows /\ row.at = "asks" /\ row.carries = jar
  BY BrowserFacts DEF WindowRows, WindowPlaces
<1>3. windows[t].at = "idle" /\ Issued(jar)
  BY DEF Browser!Start, Browser!At, BrowserInv, CookiesIssued
<1>4. Calm => CalmRow(row)
  BY <1>2 DEF Calm, CalmRow
<1>5. LockMoves(t) /\ Troubled
  BY DEF Browser!Start, LockMoves, Troubled
<1> QED
  BY <1>1, <1>2, <1>3, <1>4, <1>5, WindowStep DEF Browser!Start

LEMMA AskSessionStep == ASSUME BrowserInv, NEW t \in Tabs, Browser!Ask(t) PROVE BrowserInv'
<1> PICK s : s = windows[t].carries
  OBVIOUS
<1>1. PICK answers \in BOOLEAN :
          /\ Browser!Gateway(answers)
          /\ Browser!Goes(t, CASE Browser!Outcome(s, answers) = "proceeds" -> "calls"
                               [] Browser!Outcome(s, answers) = "needs-refresh" -> "queues"
                               [] OTHER -> "refused")
  BY DEF Browser!Ask
<1>2. PICK place \in {"calls", "queues", "refused"} :
          /\ Browser!Goes(t, place)
          /\ place = "refused" =>
                 Browser!Outcome(s, answers) # "proceeds" /\ Browser!Outcome(s, answers) # "needs-refresh"
  BY <1>1
<1>3. windows[t].at = "asks"
  BY DEF Browser!Ask, Browser!At
<1>4. Troubled /\ (troubles' = 0 => answers)
  BY <1>1, CalmAnswers
<1>5. ASSUME troubles' = 0, Calm PROVE s # None /\ place # "refused"
  <2>1. s # None
    BY <1>3, <1>5 DEF Calm, CalmTab
  <2>2. s \in Browser!Ids /\ families[s] # None
    BY <2>1, BrowserFacts DEF Issued
  <2> QED
    BY <1>2, <1>4, <1>5, <2>1, <2>2, CalmState
<1>6. LockMoves(t) /\ place \in Onward
  BY DEF Browser!Ask, LockMoves, Onward
<1> QED
  BY <1>2, <1>3, <1>4, <1>5, <1>6, GoStep DEF Browser!Ask

LEMMA GatewayCallStep == ASSUME BrowserInv, NEW t \in Tabs, Browser!Call(t) PROVE BrowserInv'
<1>1. PICK place \in {"idle", "queues"} : Browser!Goes(t, place)
  BY DEF Browser!Call
<1>2. windows[t].at = "calls" /\ place \in Onward
  BY DEF Browser!Call, Browser!At, Onward
<1>3. LockMoves(t) /\ Troubled
  BY DEF LockMoves, Troubled, Browser!Call
<1> QED
  BY <1>1, <1>2, <1>3, GoStep DEF Browser!Call

LEMMA EnterStep == ASSUME BrowserInv, NEW t \in Tabs, Browser!EnterLock(t) PROVE BrowserInv'
<1>1. PICK row \in WindowRows :
          windows' = [windows EXCEPT ![t] = row] /\ row.at = "checks" /\ row.carries = jar
  BY SendsTo DEF Browser!EnterLock, WindowPlaces
<1>2. windows[t].at = "queues" /\ Issued(row.carries)
  BY <1>1 DEF Browser!EnterLock, Browser!At, BrowserInv, CookiesIssued
<1>3. Calm => CalmRow(row)
  BY <1>1 DEF CalmRow, Calm
<1>4. LockMoves(t) /\ Troubled /\ refreshLock' = t
  BY DEF LockMoves, Troubled, Browser!EnterLock, Browser!LockIsFree
<1> QED
  BY <1>1, <1>2, <1>3, <1>4, WindowStep DEF Browser!EnterLock

LEMMA UnlockMoves == ASSUME NEW t \in Tabs, Browser!Unlock(t) PROVE LockMoves(t)
  BY DEF Browser!Unlock, LockMoves

LEMMA RetryStep == ASSUME BrowserInv, NEW t \in Tabs, Browser!Retry(t) PROVE BrowserInv'
<1> PICK s : s = windows[t].carries
  OBVIOUS
<1>1. PICK answers \in BOOLEAN :
          /\ Browser!Gateway(answers)
          /\ IF Browser!Outcome(s, answers) = "proceeds"
             THEN Browser!Goes(t, "calls again") /\ refreshLock' = refreshLock
             ELSE Browser!Goes(t, "refused") /\ Browser!Unlock(t)
  BY DEF Browser!Retry
<1>2. PICK place \in {"calls again", "refused"} :
          /\ Browser!Goes(t, place)
          /\ place = "refused" => Browser!Outcome(s, answers) # "proceeds"
  BY <1>1
<1>3. windows[t].at = "retries"
  BY DEF Browser!Retry, Browser!At
<1>4. Troubled /\ (troubles' = 0 => answers)
  BY <1>1, CalmAnswers
<1>5. ASSUME troubles' = 0, Calm PROVE s # None /\ s \notin aged /\ place # "refused"
  <2>1. s # None /\ s \notin aged
    BY <1>3, <1>5 DEF Calm, CalmTab
  <2>2. s \in Browser!Ids /\ families[s] # None
    BY <2>1, BrowserFacts DEF Issued
  <2> QED
    BY <1>2, <1>4, <1>5, <2>1, <2>2, CalmState
<1>6. LockMoves(t) /\ place \in Onward
  BY <1>1, UnlockMoves DEF LockMoves, Onward
<1> QED
  BY <1>2, <1>3, <1>4, <1>5, <1>6, GoStep DEF Browser!Retry

LEMMA CallAgainStep == ASSUME BrowserInv, NEW t \in Tabs, Browser!CallAgain(t) PROVE BrowserInv'
<1> PICK s : s = windows[t].carries
  OBVIOUS
<1>1. PICK place \in {"idle", "refused"} :
          Browser!Goes(t, place) /\ (place = "refused" => ~Browser!Live(s))
  BY DEF Browser!CallAgain
<1>2. windows[t].at = "calls again" /\ place \in Onward
  BY DEF Browser!CallAgain, Browser!At, Onward
<1>3. ASSUME Calm PROVE place # "refused"
  <2>1. s # None /\ s \notin aged
    BY <1>2, <1>3 DEF Calm, CalmTab
  <2>2. s \in Browser!Ids /\ families[s] # None
    BY <2>1, BrowserFacts DEF Issued
  <2> QED
    BY <1>1, <1>3, <2>1, <2>2, CalmState
<1>4. LockMoves(t) /\ Troubled
  BY UnlockMoves DEF Troubled, Browser!CallAgain
<1> QED
  BY <1>1, <1>2, <1>3, <1>4, GoStep DEF Browser!CallAgain

LEMMA TryAgainStep == ASSUME BrowserInv, NEW t \in Tabs, Browser!TryAgain(t) PROVE BrowserInv'
<1>1. /\ windows' = [windows EXCEPT ![t] = Browser!Idle] /\ windows[t].at = "refused"
      /\ Browser!Idle \in WindowRows /\ Browser!Idle.at = "idle" /\ Browser!Idle.carries = None
  BY DEF Browser!TryAgain, Browser!At, Browser!Idle, WindowRows, WindowPlaces
<1>2. LockMoves(t) /\ Troubled /\ CalmRow(Browser!Idle) /\ Issued(Browser!Idle.carries)
  BY <1>1 DEF Troubled, LockMoves, CalmRow, Issued, Browser!TryAgain
<1> QED
  BY <1>1, <1>2, WindowStep DEF Browser!TryAgain

\* The tab that holds the lock asks for a successor.
LEMMA PostsStep ==
    ASSUME BrowserInv, NEW t \in Tabs, Browser!Posts(t), windows[t].at = "checks",
           families' = families, aged' = aged, jar' = jar, refreshLock' = refreshLock,
           lost' = lost, reused' = reused, Troubled,
           troubles' = 0 /\ Calm => jar \in aged
    PROVE  BrowserInv'
<1>1. PICK row \in WindowRows :
          windows' = [windows EXCEPT ![t] = row] /\ row.at = "posts" /\ row.carries = None
  <2> PICK place \in WindowPlaces : place = "posts"
    BY DEF WindowPlaces
  <2>1. Browser!Goes(t, place)
    BY DEF Browser!Posts
  <2>2. PICK new \in WindowRows :
            /\ windows' = [windows EXCEPT ![t] = new]
            /\ new.at = place
            /\ place \in {"calls", "calls again"} => new.carries = windows[t].carries
            /\ place \notin {"calls", "calls again"} => new.carries = None
    BY <2>1, GoesTo
  <2> QED
    BY <2>2
<1> PICK post : post = [Browser!NoPost EXCEPT !.at = "reads", !.carries = jar]
  OBVIOUS
<1>2. post \in PostRows /\ post.at = "reads" /\ post.carries = jar /\ post.gets = None
  BY BrowserFacts DEF PostRows, Browser!NoPost
<1>3. posts' = [posts EXCEPT ![t] = post]
  BY DEF Browser!Posts
<1>4. /\ windows' \in [Tabs -> WindowRows] /\ windows'[t] = row
      /\ posts' \in [Tabs -> PostRows] /\ posts'[t] = post
      /\ \A u \in Tabs : u # t => windows'[u] = windows[u] /\ posts'[u] = posts[u]
  BY <1>1, <1>2, <1>3 DEF BrowserInv, BrowserType
<1>5. refreshLock = t
  BY DEF BrowserInv, LockHeld
<1>6. jar # None => Unused(jar)
  <2>1. \A u \in Tabs : ~Waits(u)
    BY <1>5 DEF BrowserInv, LockHeld, Waits
  <2> QED
    BY <2>1 DEF BrowserInv, JarOk
<1>7. BrowserType'
  BY <1>4 DEF BrowserInv, BrowserType, Troubled
<1>8. CookiesIssued'
  <2>1. CookiesIssued /\ families' = families /\ aged' = aged /\ jar' = jar
    BY DEF BrowserInv
  <2>2. \A u \in Tabs : Issued(windows'[u].carries)
    <3> TAKE u \in Tabs
    <3>1. CASE u = t
      BY <1>1, <1>4, <3>1 DEF Issued
    <3>2. CASE u # t
      BY <1>4, <2>1, <3>2 DEF CookiesIssued
    <3> QED
      BY <3>1, <3>2
  <2>3. \A u \in Tabs : Issued(posts'[u].carries) /\ Issued(posts'[u].gets)
    <3> TAKE u \in Tabs
    <3>1. CASE u = t
      BY <1>2, <1>4, <2>1, <3>1 DEF CookiesIssued, Issued
    <3>2. CASE u # t
      BY <1>4, <2>1, <3>2 DEF CookiesIssued
    <3> QED
      BY <3>1, <3>2
  <2> QED
    BY <2>1, <2>2, <2>3 DEF CookiesIssued, Issued
<1>9. LockHeld'
  BY <1>4, <1>5 DEF BrowserInv, LockHeld
<1>10. Unwaited'
  BY <1>1, <1>4 DEF BrowserInv, Unwaited, InFlight, Waits, Browser!FamilyOf
<1>11. ASSUME NEW u \in Tabs PROVE PostOk(u)'
  <2>1. CASE u = t
    BY <1>2, <1>4, <1>6, <2>1 DEF PostOk, Unused
  <2>2. CASE u # t
    BY <1>4, <2>2, BrowserFacts DEF PostOk, Unused
  <2> QED
    BY <2>1, <2>2
<1>12. JarOk'
  BY <1>6 DEF JarOk, Unused
<1>13. troubles' = 0 => Calm'
  <2> SUFFICES ASSUME troubles' = 0 PROVE Calm'
    OBVIOUS
  <2>1. Calm
    <3>1. troubles = 0
      BY BrowserFacts DEF Troubled
    <3> QED
      BY <3>1 DEF BrowserInv
  <2>2. ASSUME NEW u \in Tabs PROVE CalmTab(u)' /\ CalmPost(u)'
    <3>1. CASE u = t
      <4>1. jar \in aged /\ jar # None /\ None \notin aged
        BY <2>1, NoSession, BrowserFacts DEF Calm
      <4> QED
        BY <1>1, <1>2, <1>4, <3>1, <4>1 DEF CalmTab, CalmPost, InFlight
    <3>2. CASE u # t
      BY <1>4, <2>1, <3>2 DEF Calm, CalmTab, CalmPost, InFlight
    <3> QED
      BY <3>1, <3>2
  <2> QED
    BY <2>1, <2>2 DEF Calm
<1> QED
  BY <1>7, <1>8, <1>9, <1>10, <1>11, <1>12, <1>13 DEF BrowserInv

LEMMA CheckStatusStep == ASSUME BrowserInv, NEW t \in Tabs, Browser!CheckStatus(t) PROVE BrowserInv'
<1> PICK s : s = windows[t].carries
  OBVIOUS
<1>1. PICK answers \in BOOLEAN :
          /\ Browser!Gateway(answers)
          /\ IF Browser!SessionState(s, answers) = "active"
             THEN /\ Browser!Sends(t, "retries") /\ Browser!Unlock(t)
                  /\ posts' = posts
             ELSE Browser!Posts(t) /\ refreshLock' = refreshLock
  BY DEF Browser!CheckStatus
<1>2. windows[t].at = "checks"
  BY DEF Browser!CheckStatus, Browser!At
<1>3. Troubled /\ (troubles' = 0 => answers)
  BY <1>1, CalmAnswers
<1>4. ASSUME troubles' = 0, Calm
      PROVE  jar # None /\ (Browser!SessionState(s, answers) = "active" <=> jar \notin aged)
  <2>1. s = jar /\ jar # None
    BY <1>2, <1>4 DEF Calm, CalmTab
  <2>2. s \in Browser!Ids /\ families[s] # None
    BY <2>1, BrowserFacts DEF Issued
  <2>3. Browser!SessionState(s, answers) = IF s \in aged THEN "needs-refresh" ELSE "active"
    BY <1>3, <1>4, <2>2, CalmState
  <2> QED
    BY <2>1, <2>3
<1>5. CASE Browser!SessionState(s, answers) = "active"
  <2>1. PICK row \in WindowRows :
            windows' = [windows EXCEPT ![t] = row] /\ row.at = "retries" /\ row.carries = jar
    BY <1>1, <1>5, SendsTo DEF WindowPlaces
  <2>2. Issued(row.carries)
    BY <2>1 DEF BrowserInv, CookiesIssued
  <2>3. troubles' = 0 /\ Calm => CalmRow(row)
    BY <1>4, <1>5, <2>1 DEF CalmRow
  <2>4. LockMoves(t) /\ posts' = posts
    BY <1>1, <1>5, UnlockMoves
  <2> QED
    BY <1>2, <1>3, <2>1, <2>2, <2>3, <2>4, WindowStep DEF Browser!CheckStatus
<1>6. CASE Browser!SessionState(s, answers) # "active"
  <2>1. Browser!Posts(t) /\ refreshLock' = refreshLock
    BY <1>1, <1>6
  <2>2. troubles' = 0 /\ Calm => jar \in aged
    BY <1>4, <1>6
  <2> QED
    BY <1>2, <1>3, <2>1, <2>2, PostsStep DEF Browser!CheckStatus
<1> QED
  BY <1>5, <1>6

LEMMA PreflightStep == ASSUME BrowserInv, NEW t \in Tabs, Browser!Preflight(t) PROVE BrowserInv'
<1> PICK s : s = windows[t].carries
  OBVIOUS
<1>1. PICK answers \in BOOLEAN :
          /\ Browser!Gateway(answers)
          /\ CASE Browser!Outcome(s, answers) = "needs-refresh" ->
                    Browser!Posts(t) /\ refreshLock' = refreshLock
               [] OTHER ->
                    /\ Browser!Goes(t, IF Browser!Outcome(s, answers) = "proceeds"
                                       THEN "idle" ELSE "refused")
                    /\ Browser!Unlock(t)
                    /\ posts' = posts
  BY DEF Browser!Preflight
<1>2. windows[t].at = "checks"
  BY DEF Browser!Preflight, Browser!At
<1>3. Troubled /\ (troubles' = 0 => answers)
  BY <1>1, CalmAnswers
<1>4. ASSUME troubles' = 0, Calm
      PROVE  Browser!Outcome(s, answers) = IF jar \in aged THEN "needs-refresh" ELSE "proceeds"
  <2>1. s = jar /\ s # None
    BY <1>2, <1>4 DEF Calm, CalmTab
  <2>2. s \in Browser!Ids /\ families[s] # None
    BY <2>1, BrowserFacts DEF Issued
  <2>3. Browser!Outcome(s, answers) = IF s \in aged THEN "needs-refresh" ELSE "proceeds"
    BY <1>3, <1>4, <2>2, CalmState
  <2> QED
    BY <2>1, <2>3
<1>5. CASE Browser!Outcome(s, answers) = "needs-refresh"
  <2>1. Browser!Posts(t) /\ refreshLock' = refreshLock
    BY <1>1, <1>5
  <2>2. troubles' = 0 /\ Calm => jar \in aged
    BY <1>4, <1>5
  <2> QED
    BY <1>2, <1>3, <2>1, <2>2, PostsStep DEF Browser!Preflight
<1>6. CASE Browser!Outcome(s, answers) # "needs-refresh"
  <2>1. PICK place \in {"idle", "refused"} :
            /\ Browser!Goes(t, place)
            /\ place = "refused" => Browser!Outcome(s, answers) # "proceeds"
    BY <1>1, <1>6
  <2>2. LockMoves(t) /\ posts' = posts
    BY <1>1, <1>6, UnlockMoves
  <2>3. troubles' = 0 /\ Calm => place # "refused"
    BY <1>4, <1>6, <2>1
  <2>4. place \in Onward /\ place \notin {"calls", "calls again"}
    BY DEF Onward
  <2> QED
    BY <1>2, <1>3, <2>1, <2>2, <2>3, <2>4, GoStep DEF Browser!Preflight
<1> QED
  BY <1>5, <1>6

LEMMA LeaveStep == ASSUME BrowserInv, NEW t \in Tabs, Browser!GiveUp(t) PROVE BrowserInv'
<1>1. PICK row \in WindowRows :
          windows' = [windows EXCEPT ![t] = row] /\ row.at = "refused" /\ row.carries = None
  <2> PICK place \in WindowPlaces : place = "refused"
    BY DEF WindowPlaces
  <2>1. Browser!Goes(t, place)
    BY DEF Browser!GiveUp
  <2>2. PICK new \in WindowRows :
            /\ windows' = [windows EXCEPT ![t] = new]
            /\ new.at = place
            /\ place \in {"calls", "calls again"} => new.carries = windows[t].carries
            /\ place \notin {"calls", "calls again"} => new.carries = None
    BY <2>1, GoesTo
  <2> QED
    BY <2>2
<1>2. /\ windows' \in [Tabs -> WindowRows] /\ windows'[t] = row
      /\ \A u \in Tabs : u # t => windows'[u] = windows[u]
  BY <1>1 DEF BrowserInv, BrowserType
<1>3. /\ refreshLock = t /\ refreshLock' = None /\ troubles' = troubles + 1
      /\ lost' = IF Waits(t) THEN lost \cup Browser!FamilyOf(posts[t].carries) ELSE lost
      /\ families' = families /\ aged' = aged /\ jar' = jar /\ posts' = posts /\ reused' = reused
  BY DEF Browser!GiveUp, Browser!Unlock, Browser!Trouble, Browser!At, Waits
<1>4. Browser!FamilyOf(posts[t].carries) \subseteq Browser!Ids
  BY BrowserFacts DEF Browser!FamilyOf, Issued
<1>5. lost \subseteq lost' /\ lost' \subseteq Browser!Ids
  BY <1>3, <1>4, BrowserFacts
<1>6. BrowserType'
  BY <1>2, <1>3, <1>5 DEF BrowserInv, BrowserType
<1>7. CookiesIssued'
  BY <1>1, <1>2, <1>3 DEF BrowserInv, CookiesIssued, Issued
<1>8. LockHeld'
  BY <1>1, <1>2, <1>3 DEF BrowserInv, LockHeld
<1>9. Unwaited'
  <2> SUFFICES ASSUME NEW u \in Tabs, InFlight(u), ~Waits(u)'
               PROVE  Browser!FamilyOf(posts[u].carries) \subseteq lost'
    BY <1>3 DEF Unwaited, InFlight, Browser!FamilyOf
  <2>1. CASE Waits(u)
    <3>1. u = t
      BY <1>2, <2>1 DEF Waits
    <3> QED
      BY <1>3, <2>1, <3>1
  <2>2. CASE ~Waits(u)
    BY <1>5, <2>2 DEF BrowserInv, Unwaited
  <2> QED
    BY <2>1, <2>2
<1>10. \A s \in Browser!Ids : Unused(s) => Unused(s)'
  BY <1>3, <1>5 DEF Unused
<1>11. ASSUME NEW u \in Tabs PROVE PostOk(u)'
  BY <1>3, <1>10, BrowserFacts DEF PostOk
<1>12. JarOk'
  <2> SUFFICES ASSUME jar # None, ~Unused(jar)'
               PROVE  \E u \in Tabs : /\ Waits(u)' /\ posts[u].gets # None
                                      /\ families[posts[u].carries].family = families[jar].family
    BY <1>3 DEF JarOk
  <2>1. ~Unused(jar) /\ families[jar].family \notin lost'
    BY <1>3, <1>10, BrowserFacts DEF Unused
  <2>2. PICK u \in Tabs : /\ Waits(u) /\ posts[u].gets # None
                          /\ families[posts[u].carries].family = families[jar].family
    BY <2>1 DEF BrowserInv, JarOk
  <2>3. posts[u].carries # None
    BY <2>2, BrowserFacts DEF PostOk
  <2>4. u # t
    BY <1>3, <2>1, <2>2, <2>3 DEF Browser!FamilyOf
  <2> QED
    BY <1>2, <2>2, <2>4 DEF Waits
<1>13. troubles' # 0 /\ reused' \subseteq lost'
  BY <1>3, <1>5, BrowserFacts DEF BrowserInv
<1> QED
  BY <1>6, <1>7, <1>8, <1>9, <1>11, <1>12, <1>13 DEF BrowserInv

-----------------------------------------------------------------------------
(* The POST at the web server.                                             *)

\* The POST ends with these cookies.
LEMMA EndsWith ==
    ASSUME BrowserInv, NEW t \in Tabs, NEW s \in Browser!Ids \cup {None}, Browser!Ends(t, s)
    PROVE  \E new \in PostRows :
               /\ posts' = [posts EXCEPT ![t] = new]
               /\ new.at = "answers" /\ new.carries = posts[t].carries /\ new.gets = s
<1>1. posts[t] \in PostRows
  BY BrowserFacts
<1> PICK new : new = [posts[t] EXCEPT !.at = "answers", !.gets = s]
  OBVIOUS
<1>2. new \in PostRows /\ new.at = "answers" /\ new.carries = posts[t].carries /\ new.gets = s
  BY <1>1 DEF PostRows
<1>3. posts' = [posts EXCEPT ![t] = new]
  BY <1>1 DEF Browser!Ends, BrowserInv, BrowserType, PostRows
<1> QED
  BY <1>2, <1>3

LEMMA RowsKept == ASSUME BrowserInv, families' = families
                  PROVE  RowsSame /\ families' \in [Browser!Ids -> Browser!Rows \cup {None}]
  BY DEF BrowserInv, BrowserType, RowsSame

\* The POST ends without cookies, of which the tab may have expected none.
LEMMA EmptyAnswer ==
    ASSUME BrowserInv, NEW t \in Tabs, InFlight(t), Browser!Ends(t, None),
           windows' = windows, refreshLock' = refreshLock, jar' = jar, aged' = aged,
           families' \in [Browser!Ids -> Browser!Rows \cup {None}], RowsSame,
           lost \subseteq lost', lost' \subseteq Browser!Ids, reused' \subseteq lost',
           Troubled, ~(troubles' = 0 /\ Calm),
           posts[t].gets # None => families[posts[t].carries].family \in lost'
    PROVE  BrowserInv'
<1>1. PICK row \in PostRows :
          /\ posts' = [posts EXCEPT ![t] = row]
          /\ row.at = "answers" /\ row.carries = posts[t].carries /\ row.gets = None
  BY EndsWith
<1>2. posts'[t] = row
  BY <1>1 DEF BrowserInv, BrowserType
<1>3. PostOk(t)'
  BY <1>1, <1>2 DEF PostOk
<1>4. Issued(row.carries) /\ Issued(row.gets)
  BY <1>1, BrowserFacts DEF Issued
<1> QED
  BY <1>1, <1>3, <1>4, PostStep

LEMMA ReadCookiesStep == ASSUME BrowserInv, NEW t \in Tabs, Browser!ReadCookies(t) PROVE BrowserInv'
<1> PICK s : s = posts[t].carries
  OBVIOUS
<1>1. PICK answers \in BOOLEAN :
          /\ Browser!Gateway(answers)
          /\ IF Browser!SessionState(s, answers) = "invalid" THEN Browser!Ends(t, None)
             ELSE posts' = [posts EXCEPT ![t].at = "rotates"]
  BY DEF Browser!ReadCookies
<1>2. posts[t].at = "reads" /\ InFlight(t) /\ posts[t].gets = None
  BY BrowserFacts DEF Browser!ReadCookies, InFlight, PostOk
<1>3. Troubled /\ (troubles' = 0 => answers)
  BY <1>1, CalmAnswers
<1>4. RowsSame /\ families' \in [Browser!Ids -> Browser!Rows \cup {None}]
  BY RowsKept DEF Browser!ReadCookies
<1>5. lost' = lost /\ lost \subseteq Browser!Ids /\ reused' \subseteq lost'
  BY BrowserFacts DEF Browser!ReadCookies, BrowserInv
<1>6. CASE Browser!SessionState(s, answers) = "invalid"
  <2>1. ~(troubles' = 0 /\ Calm)
    <3> SUFFICES ASSUME troubles' = 0, Calm PROVE FALSE
      OBVIOUS
    <3>1. s # None /\ s \in aged
      BY <1>2 DEF Calm, CalmPost
    <3>2. s \in Browser!Ids /\ families[s] # None
      BY <3>1, BrowserFacts DEF Issued
    <3>3. Browser!SessionState(s, answers) = "needs-refresh"
      BY <1>3, <3>1, <3>2, CalmState
    <3> QED
      BY <1>6, <3>3
  <2> QED
    BY <1>1, <1>2, <1>3, <1>4, <1>5, <1>6, <2>1, EmptyAnswer DEF Browser!ReadCookies
<1>7. CASE Browser!SessionState(s, answers) # "invalid"
  <2> PICK row : row = [posts[t] EXCEPT !.at = "rotates"]
    OBVIOUS
  <2>1. row \in PostRows /\ row.at = "rotates" /\ row.carries = s /\ row.gets = None
    BY <1>2, BrowserFacts DEF PostRows
  <2>2. posts' = [posts EXCEPT ![t] = row]
    BY <1>1, <1>7
  <2>3. posts'[t] = row
    BY <2>2 DEF BrowserInv, BrowserType
  <2>4. s # None
    BY <1>7 DEF Browser!SessionState
  <2>5. PostOk(t)'
    <3>1. Unused(s)
      BY <1>2, <2>4, BrowserFacts DEF PostOk
    <3> QED
      BY <1>5, <2>1, <2>3, <2>4, <3>1 DEF PostOk, Unused, Browser!ReadCookies
  <2>6. Issued(row.carries) /\ Issued(row.gets)
    BY <2>1, BrowserFacts DEF Issued
  <2>7. None \notin aged
    BY NoSession, BrowserFacts
  <2>8. Calm => lost' = {} /\ row.gets \notin aged
    BY <1>5, <2>1, <2>7 DEF Calm
  <2> QED
    BY <1>2, <1>3, <1>4, <1>5, <2>1, <2>2, <2>5, <2>6, <2>8, PostStep DEF Browser!ReadCookies
<1> QED
  BY <1>6, <1>7

\* A revocation takes no row back and uses no token.
LEMMA RevokedRows ==
    ASSUME BrowserInv, NEW family, families' = Browser!Revoked(family)
    PROVE  RowsSame /\ families' \in [Browser!Ids -> Browser!Rows \cup {None}]
<1>1. ASSUME NEW s \in Browser!Ids
      PROVE  /\ families'[s] \in Browser!Rows \cup {None}
             /\ families'[s] = None <=> families[s] = None
             /\ families[s] # None => /\ families'[s].family = families[s].family
                                      /\ families'[s].consumed <=> families[s].consumed
  <2>1. CASE families[s] = None
    BY <2>1 DEF Browser!Revoked
  <2>2. CASE families[s] # None
    <3> PICK new : new = [families[s] EXCEPT !.revoked = TRUE]
      OBVIOUS
    <3>1. families[s] \in Browser!Rows
      BY <2>2, BrowserFacts
    <3>2. /\ new \in Browser!Rows /\ new.family = families[s].family
          /\ new.consumed = families[s].consumed
      BY <3>1 DEF Browser!Rows
    <3>3. families'[s] = new \/ families'[s] = families[s]
      BY DEF Browser!Revoked
    <3> QED
      BY <2>2, <3>1, <3>2, <3>3, NoSession
  <2> QED
    BY <2>1, <2>2
<1>2. families' \in [Browser!Ids -> Browser!Rows \cup {None}]
  BY <1>1 DEF Browser!Revoked
<1> QED
  BY <1>1, <1>2 DEF RowsSame

LEMMA RotateRefusedStep ==
    ASSUME BrowserInv, NEW t \in Tabs, Browser!RotateRefused(t) PROVE BrowserInv'
<1> PICK s : s = posts[t].carries
  OBVIOUS
<1>1. /\ posts[t].at = "rotates" /\ ~Browser!Live(s) /\ Browser!Ends(t, None)
      /\ windows' = windows /\ refreshLock' = refreshLock /\ jar' = jar /\ aged' = aged
      /\ lost' = lost /\ troubles' = troubles
      /\ IF families[s].consumed
         THEN /\ families' = Browser!Revoked(families[s].family)
              /\ reused' = reused \cup {families[s].family}
         ELSE families' = families /\ reused' = reused
  BY DEF Browser!RotateRefused
<1>2. s # None /\ s \in Browser!Ids /\ families[s] # None /\ Unused(s) /\ posts[t].gets = None
  BY <1>1, BrowserFacts DEF PostOk, Issued
<1>3. RowsSame /\ families' \in [Browser!Ids -> Browser!Rows \cup {None}]
  <2>1. CASE families[s].consumed
    BY <1>1, <2>1, RevokedRows
  <2>2. CASE ~families[s].consumed
    BY <1>1, <2>2, RowsKept
  <2> QED
    BY <2>1, <2>2
<1>4. lost' \subseteq Browser!Ids /\ reused' \subseteq lost'
  BY <1>1, <1>2, BrowserFacts DEF BrowserInv, Unused
<1>5. ~Calm
  <2>1. families[s].consumed \in BOOLEAN
    BY <1>2, BrowserFacts
  <2> QED
    BY <1>1, <1>2, <2>1 DEF Calm, Unused, Browser!Live
<1>6. InFlight(t) /\ Troubled
  BY <1>1 DEF InFlight, Troubled
<1> QED
  BY <1>1, <1>2, <1>3, <1>4, <1>5, <1>6, EmptyAnswer

LEMMA RotateFailsStep == ASSUME BrowserInv, NEW t \in Tabs, Browser!RotateFails(t) PROVE BrowserInv'
<1>1. posts[t].at = "rotates" /\ InFlight(t) /\ posts[t].gets = None
  BY BrowserFacts DEF Browser!RotateFails, InFlight, PostOk
<1>2. Troubled /\ troubles' # 0
  BY BrowserFacts DEF Troubled, Browser!RotateFails, Browser!Trouble
<1>3. RowsSame /\ families' \in [Browser!Ids -> Browser!Rows \cup {None}]
  BY RowsKept DEF Browser!RotateFails
<1>4. lost' = lost /\ lost \subseteq Browser!Ids /\ reused' \subseteq lost'
  BY BrowserFacts DEF Browser!RotateFails, BrowserInv
<1> QED
  BY <1>1, <1>2, <1>3, <1>4, EmptyAnswer DEF Browser!RotateFails

LEMMA ConfirmStep == ASSUME BrowserInv, NEW t \in Tabs, Browser!Confirm(t) PROVE BrowserInv'
<1> PICK s : s = posts[t].gets
  OBVIOUS
<1>1. PICK answers \in BOOLEAN :
          /\ Browser!Gateway(answers)
          /\ IF Browser!Live(s) /\ answers
             THEN Browser!Ends(t, s) /\ lost' = lost
             ELSE Browser!Ends(t, None) /\ lost' = lost \cup Browser!FamilyOf(s)
  BY DEF Browser!Confirm
<1>2. posts[t].at = "confirms" /\ InFlight(t)
  BY DEF Browser!Confirm, InFlight
<1>3. /\ s \in Browser!Ids /\ s # None /\ families[s] # None /\ posts[t].carries # None
      /\ families[s].family = families[posts[t].carries].family /\ Unused(s)
      /\ families[s].family \in Browser!Ids
  BY <1>2, BrowserFacts DEF PostOk, Issued
<1>4. Troubled /\ (troubles' = 0 => answers)
  BY <1>1, CalmAnswers
<1>5. RowsSame /\ families' \in [Browser!Ids -> Browser!Rows \cup {None}]
  BY RowsKept DEF Browser!Confirm
<1>6. lost \subseteq lost' /\ lost' \subseteq Browser!Ids
  BY <1>1, <1>3, BrowserFacts DEF Browser!FamilyOf
<1>7. reused' \subseteq lost'
  BY <1>6 DEF Browser!Confirm, BrowserInv
<1>8. CASE Browser!Live(s) /\ answers
  <2>1. PICK row \in PostRows :
            /\ posts' = [posts EXCEPT ![t] = row]
            /\ row.at = "answers" /\ row.carries = posts[t].carries /\ row.gets = s
    BY <1>1, <1>3, <1>8, EndsWith
  <2>2. posts'[t] = row
    BY <2>1 DEF BrowserInv, BrowserType
  <2>3. PostOk(t)'
    BY <1>3, <1>6, <2>1, <2>2 DEF PostOk, Unused, Browser!Confirm
  <2>4. Issued(row.carries) /\ Issued(row.gets)
    BY <2>1, BrowserFacts DEF Issued
  <2>5. Calm => lost' = {} /\ row.gets \notin aged
    BY <1>1, <1>2, <1>8, <2>1 DEF Calm, CalmPost
  <2> QED
    BY <1>2, <1>3, <1>4, <1>5, <1>6, <1>7, <2>1, <2>3, <2>4, <2>5, PostStep DEF Browser!Confirm
<1>9. CASE ~(Browser!Live(s) /\ answers)
  <2>1. Browser!Ends(t, None) /\ families[s].family \in lost'
    BY <1>1, <1>3, <1>9 DEF Browser!FamilyOf
  <2>2. ~(troubles' = 0 /\ Calm)
    <3> SUFFICES ASSUME troubles' = 0, Calm PROVE FALSE
      OBVIOUS
    <3>1. s \notin aged
      BY <1>2 DEF Calm, CalmPost
    <3>2. answers /\ Browser!Live(s)
      BY <1>3, <1>4, <3>1, CalmState
    <3> QED
      BY <1>9, <3>2
  <2> QED
    BY <1>2, <1>3, <1>4, <1>5, <1>6, <1>7, <2>1, <2>2, EmptyAnswer DEF Browser!Confirm
<1> QED
  BY <1>8, <1>9

\* Two POSTs that are waited for are of one tab.
LEMMA OneWaits ==
    ASSUME BrowserInv, NEW t \in Tabs, NEW u \in Tabs, InFlight(t), InFlight(u),
           posts[t].carries # None, posts[u].carries # None,
           families[posts[t].carries].family = families[posts[u].carries].family,
           families[posts[t].carries].family \notin lost
    PROVE  t = u /\ Waits(t)
<1>1. Waits(t) /\ Waits(u)
  BY DEF BrowserInv, Unwaited, Browser!FamilyOf
<1> QED
  BY <1>1 DEF BrowserInv, LockHeld, Waits

\* What the rotation writes.
LEMMA RotatedRows ==
    ASSUME BrowserInv, NEW s \in Browser!Ids, NEW new \in Browser!Fresh, Browser!Live(s), families[s] # None,
           families' = [families EXCEPT ![s].consumed = TRUE,
                                        ![new] = Browser!Session(families[s].family)]
    PROVE  /\ new \in Browser!Ids /\ new # s /\ families[new] = None
           /\ families' \in [Browser!Ids -> Browser!Rows \cup {None}]
           /\ \A r \in Browser!Ids : r # s /\ r # new => families'[r] = families[r]
           /\ families'[s] # None /\ families'[s].family = families[s].family
           /\ families'[s].revoked = families[s].revoked
           /\ families'[new] # None /\ families'[new].family = families[s].family
           /\ ~families'[new].consumed /\ ~families'[new].revoked
<1>1. new \in Browser!Ids /\ families[new] = None /\ new # s
  BY DEF Browser!Fresh
<1>2. families[s] \in Browser!Rows /\ families[s].family \in Browser!Ids
  BY BrowserFacts
<1> PICK old : old = [families[s] EXCEPT !.consumed = TRUE]
  OBVIOUS
<1> PICK row : row = Browser!Session(families[s].family)
  OBVIOUS
<1>3. old \in Browser!Rows /\ old.family = families[s].family /\ old.revoked = families[s].revoked
  BY <1>2 DEF Browser!Rows
<1>4. row \in Browser!Rows /\ row.family = families[s].family /\ ~row.consumed /\ ~row.revoked
  BY <1>2 DEF Browser!Rows, Browser!Session
<1>5. families' = [[families EXCEPT ![s] = old] EXCEPT ![new] = row]
  OBVIOUS
<1>6. families'[s] = old /\ families'[new] = row
      /\ \A r \in Browser!Ids : r # s /\ r # new => families'[r] = families[r]
  BY <1>1, <1>5 DEF BrowserInv, BrowserType
<1>7. families' \in [Browser!Ids -> Browser!Rows \cup {None}]
  BY <1>3, <1>4, <1>5 DEF BrowserInv, BrowserType
<1> QED
  BY <1>1, <1>3, <1>4, <1>6, <1>7, NoSession

LEMMA RotateStep == ASSUME BrowserInv, NEW t \in Tabs, Browser!Rotate(t) PROVE BrowserInv'
<1> PICK s : s = posts[t].carries
  OBVIOUS
<1> PICK family : family = families[s].family
  OBVIOUS
<1>1. /\ posts[t].at = "rotates" /\ Browser!Live(s)
      /\ aged' = aged /\ jar' = jar /\ refreshLock' = refreshLock /\ windows' = windows
      /\ reused' = reused
  BY DEF Browser!Rotate
<1>2. PICK new \in Browser!Fresh :
          /\ families' = [families EXCEPT ![s].consumed = TRUE, ![new] = Browser!Session(family)]
          /\ \/ /\ posts' = [posts EXCEPT ![t].at = "confirms", ![t].gets = new]
                /\ troubles' = troubles /\ lost' = lost
             \/ /\ Browser!Ends(t, None)
                /\ lost' = lost \cup Browser!FamilyOf(s) /\ Browser!Trouble
  BY DEF Browser!Rotate
<1>3. s \in Browser!Ids /\ s # None /\ families[s] # None /\ posts[t].gets = None /\ family \in Browser!Ids
  BY <1>1, BrowserFacts DEF PostOk, Issued
<1>4. /\ new \in Browser!Ids /\ new # s /\ families[new] = None
      /\ families' \in [Browser!Ids -> Browser!Rows \cup {None}]
      /\ \A r \in Browser!Ids : r # s /\ r # new => families'[r] = families[r]
      /\ families'[s] # None /\ families'[s].family = family
      /\ families'[s].revoked = families[s].revoked
      /\ families'[new] # None /\ families'[new].family = family
      /\ ~families'[new].consumed /\ ~families'[new].revoked
  <2>1. families' = [families EXCEPT ![s].consumed = TRUE,
                                     ![new] = Browser!Session(families[s].family)]
    BY <1>2
  <2>2. /\ new \in Browser!Ids /\ new # s /\ families[new] = None
        /\ families' \in [Browser!Ids -> Browser!Rows \cup {None}]
        /\ \A r \in Browser!Ids : r # s /\ r # new => families'[r] = families[r]
        /\ families'[s] # None /\ families'[s].family = families[s].family
        /\ families'[s].revoked = families[s].revoked
        /\ families'[new] # None /\ families'[new].family = families[s].family
        /\ ~families'[new].consumed /\ ~families'[new].revoked
    <3>1. s \in Browser!Ids /\ new \in Browser!Fresh /\ Browser!Live(s) /\ families[s] # None
      BY <1>1, <1>2, <1>3
    <3> QED
      BY <2>1, <3>1, RotatedRows
  <2> QED
    BY <2>2
<1> DEFINE Told == lost' = lost /\ troubles' = troubles
<1>5. PICK row \in PostRows :
          /\ posts' = [posts EXCEPT ![t] = row] /\ row.carries = s
          /\ \/ row.at = "confirms" /\ row.gets = new /\ Told
             \/ /\ row.at = "answers" /\ row.gets = None
                /\ lost' = lost \cup {family} /\ Browser!Trouble
  <2>1. CASE posts' = [posts EXCEPT ![t].at = "confirms", ![t].gets = new] /\ Told
    <3> PICK post : post = [posts[t] EXCEPT !.at = "confirms", !.gets = new]
      OBVIOUS
    <3>1. post \in PostRows /\ post.at = "confirms" /\ post.gets = new /\ post.carries = s
      BY <1>4, BrowserFacts DEF PostRows
    <3>2. posts' = [posts EXCEPT ![t] = post]
      BY <2>1 DEF BrowserInv, BrowserType, PostRows
    <3> QED
      BY <2>1, <3>1, <3>2
  <2>2. CASE Browser!Ends(t, None) /\ lost' = lost \cup Browser!FamilyOf(s) /\ Browser!Trouble
    <3>1. PICK post \in PostRows :
              /\ posts' = [posts EXCEPT ![t] = post]
              /\ post.at = "answers" /\ post.carries = posts[t].carries /\ post.gets = None
      BY <2>2, EndsWith
    <3>2. lost' = lost \cup {family}
      BY <1>3, <2>2 DEF Browser!FamilyOf
    <3> QED
      BY <2>2, <3>1, <3>2
  <2> QED
    BY <1>2, <2>1, <2>2
<1>6. /\ posts' \in [Tabs -> PostRows] /\ posts'[t] = row
      /\ \A u \in Tabs : u # t => posts'[u] = posts[u]
  BY <1>5 DEF BrowserInv, BrowserType
<1>7. lost \subseteq lost' /\ lost' \subseteq Browser!Ids /\ Troubled
  BY <1>3, <1>5, BrowserFacts DEF Troubled, Browser!Trouble
<1>8. ASSUME NEW r \in Browser!Ids, families[r] # None
      PROVE  families'[r] # None /\ families'[r].family = families[r].family
  BY <1>4, <1>8
<1>9. ASSUME NEW r \in Browser!Ids, families[r] # None, Unused(r), r # s \/ family \in lost'
      PROVE  Unused(r)'
  BY <1>4, <1>7, <1>9 DEF Unused
<1>10. BrowserType'
  BY <1>1, <1>4, <1>6, <1>7 DEF BrowserInv, BrowserType, Troubled
<1>11. CookiesIssued'
  <2>1. Issued(jar)' /\ \A r \in aged' : families'[r] # None
    BY <1>1, <1>8, BrowserFacts DEF BrowserInv, CookiesIssued, Issued
  <2>2. ASSUME NEW u \in Tabs
        PROVE  /\ Issued(windows[u].carries)' /\ Issued(posts[u].carries)'
               /\ Issued(posts[u].gets)'
    <3>1. Issued(windows[u].carries)'
      BY <1>1, <1>8, BrowserFacts DEF Issued
    <3>2. CASE u = t
      BY <1>3, <1>4, <1>5, <1>6, <3>1, <3>2 DEF Issued
    <3>3. CASE u # t
      <4>1. posts'[u] = posts[u]
        BY <1>6, <3>3
      <4> QED
        BY <1>8, <3>1, <4>1, BrowserFacts DEF Issued
    <3> QED
      BY <3>2, <3>3
  <2> QED
    BY <2>1, <2>2 DEF CookiesIssued
<1>12. LockHeld'
  BY <1>1 DEF BrowserInv, LockHeld
<1>13. Unwaited'
  <2> SUFFICES ASSUME NEW u \in Tabs, InFlight(u)', ~Waits(u)'
               PROVE  Browser!FamilyOf(posts[u].carries)' \subseteq lost'
    BY DEF Unwaited
  <2>1. posts'[u].carries = posts[u].carries /\ InFlight(u) /\ ~Waits(u)
    BY <1>1, <1>5, <1>6 DEF InFlight, Waits
  <2>2. Browser!FamilyOf(posts[u].carries) \subseteq lost
    BY <2>1 DEF BrowserInv, Unwaited
  <2> QED
    BY <1>7, <1>8, <2>1, <2>2, BrowserFacts DEF Browser!FamilyOf, Issued
<1>14. ASSUME NEW u \in Tabs PROVE PostOk(u)'
  <2>1. CASE u = t
    <3>1. posts'[u] = row /\ row.carries = s /\ s # None
      BY <1>3, <1>5, <1>6, <2>1
    <3>2. CASE row.at = "confirms" /\ row.gets = new
      <4>1. new # None /\ families'[new].family = families'[s].family /\ ~families'[new].consumed
        BY <1>4, NoSession
      <4> QED
        BY <3>1, <3>2, <4>1 DEF PostOk, Unused
    <3>3. CASE row.at = "answers" /\ row.gets = None
      BY <3>1, <3>3 DEF PostOk
    <3> QED
      BY <1>5, <3>2, <3>3
  <2>2. CASE u # t
    <3>1. posts'[u] = posts[u] /\ PostOk(u)
      BY <1>6, <2>2, BrowserFacts
    <3>2. /\ posts[u].carries # None =>
                 posts[u].carries \in Browser!Ids /\ families[posts[u].carries] # None
          /\ posts[u].gets # None =>
                 posts[u].gets \in Browser!Ids /\ families[posts[u].gets] # None
      BY BrowserFacts DEF Issued
    <3>3. ASSUME InFlight(u), posts[u].carries # None,
                 families[posts[u].carries].family = family
          PROVE  family \in lost'
      <4>1. InFlight(t)
        BY <1>1 DEF InFlight
      <4>2. family \in lost
        BY <1>3, <2>2, <3>3, <4>1, OneWaits
      <4> QED
        BY <1>7, <4>2
    <3>4. ASSUME posts[u].at \in {"reads", "rotates"}, posts[u].carries # None
          PROVE  Unused(posts[u].carries)'
      <4>1. Unused(posts[u].carries)
        BY <3>1, <3>4 DEF PostOk
      <4>2. posts[u].carries = s => family \in lost'
        BY <3>3, <3>4 DEF InFlight
      <4> QED
        BY <1>9, <3>1, <3>2, <3>4, <4>1, <4>2 DEF Unused
    <3>5. ASSUME posts[u].gets # None
          PROVE  /\ posts[u].at \in {"confirms", "answers"} /\ posts[u].carries # None
                 /\ families'[posts[u].gets].family = families'[posts[u].carries].family
                 /\ Unused(posts[u].gets)'
      <4>1. /\ posts[u].at \in {"confirms", "answers"} /\ posts[u].carries # None
            /\ families[posts[u].gets].family = families[posts[u].carries].family
            /\ Unused(posts[u].gets)
        BY <3>1, <3>5 DEF PostOk
      <4>2. posts[u].gets = s => family \in lost'
        BY <3>3, <4>1 DEF InFlight
      <4>3. Unused(posts[u].gets)'
        BY <1>9, <3>1, <3>2, <3>5, <4>1, <4>2 DEF Unused
      <4> QED
        BY <1>8, <3>2, <3>5, <4>1, <4>3
    <3>6. /\ posts[u].at \in {"rotates", "confirms"} => posts[u].carries # None
          /\ posts[u].at = "confirms" => posts[u].gets # None
      BY <3>1 DEF PostOk
    <3> QED
      BY <3>1, <3>4, <3>5, <3>6 DEF PostOk, Unused
  <2> QED
    BY <2>1, <2>2
<1>15. JarOk'
  <2> SUFFICES ASSUME jar # None, ~Unused(jar)'
               PROVE  \E u \in Tabs : /\ Waits(u)' /\ posts'[u].gets # None
                                      /\ families'[posts'[u].carries].family = families'[jar].family
    BY <1>1 DEF JarOk, Unused
  <2>1. jar \in Browser!Ids /\ families[jar] # None
    BY BrowserFacts DEF BrowserInv, CookiesIssued, Issued
  <2>2. families'[jar].family = families[jar].family /\ families[jar].family \notin lost'
    BY <1>1, <1>8, <2>1 DEF Unused
  <2>3. CASE Unused(jar)
    <3>1. jar = s
      BY <1>1, <1>9, <2>1, <2>3 DEF Unused
    <3>2. row.gets = new
      BY <1>5, <2>2, <3>1
    <3>3. Waits(t)
      BY <1>1, <1>3, <1>7, <2>2, <3>1, OneWaits DEF InFlight
    <3> QED
      BY <1>1, <1>3, <1>4, <1>5, <1>6, <3>1, <3>2, <3>3, NoSession DEF Waits
  <2>4. CASE ~Unused(jar)
    <3>1. PICK u \in Tabs : /\ Waits(u) /\ posts[u].gets # None
                            /\ families[posts[u].carries].family = families[jar].family
      BY <2>4 DEF BrowserInv, JarOk
    <3>2. posts[u].carries # None /\ posts[u].carries \in Browser!Ids
          /\ families[posts[u].carries] # None
      BY <3>1, BrowserFacts DEF PostOk, Issued
    <3>3. posts'[u] = posts[u]
      BY <1>3, <1>6, <3>1
    <3> QED
      BY <1>1, <1>8, <2>2, <3>1, <3>2, <3>3 DEF Waits
  <2> QED
    BY <2>3, <2>4
<1>16. troubles' = 0 => Calm'
  <2> SUFFICES ASSUME troubles' = 0 PROVE Calm'
    OBVIOUS
  <2>1. Calm /\ row.at = "confirms" /\ row.gets = new /\ lost' = lost
    <3>1. troubles = 0
      BY <1>7, BrowserFacts DEF Troubled
    <3>2. ~Browser!Trouble
      BY <3>1 DEF Browser!Trouble
    <3> QED
      BY <1>5, <3>1, <3>2 DEF BrowserInv
  <2>2. s \in aged
    BY <1>1, <2>1 DEF Calm, CalmPost, InFlight
  <2>3. ASSUME NEW r \in Browser!Ids, families'[r] # None
        PROVE  ~families'[r].revoked /\ (families'[r].consumed => r \in aged')
    <3>1. CASE r = s
      BY <1>1, <1>3, <1>4, <2>1, <2>2, <3>1 DEF Calm
    <3>2. CASE r = new
      BY <1>4, <3>2
    <3>3. CASE r # s /\ r # new
      BY <1>1, <1>4, <2>1, <2>3, <3>3 DEF Calm
    <3> QED
      BY <3>1, <3>2, <3>3
  <2>4. new \notin aged
    BY <1>4 DEF BrowserInv, CookiesIssued
  <2>5. ASSUME NEW u \in Tabs PROVE CalmTab(u)' /\ CalmPost(u)'
    <3>1. CalmTab(u)'
      BY <1>1, <2>1 DEF Calm, CalmTab
    <3>2. CASE u = t
      BY <1>1, <1>3, <1>5, <1>6, <2>1, <2>2, <2>4, <3>1, <3>2 DEF CalmPost, InFlight
    <3>3. CASE u # t
      <4>1. CalmPost(u)'
        BY <1>1, <1>6, <2>1, <3>3 DEF Calm, CalmPost, InFlight
      <4> QED
        BY <3>1, <4>1
    <3> QED
      BY <3>2, <3>3
  <2> QED
    BY <1>1, <2>1, <2>3, <2>5 DEF Calm
<1>17. reused' \subseteq lost'
  BY <1>1, <1>7 DEF BrowserInv
<1> QED
  BY <1>10, <1>11, <1>12, <1>13, <1>14, <1>15, <1>16, <1>17 DEF BrowserInv

LEMMA AnsweredStep == ASSUME BrowserInv, NEW t \in Tabs, Browser!Answered(t) PROVE BrowserInv'
<1> PICK s : s = posts[t].gets
  OBVIOUS
<1>1. /\ posts[t].at = "answers" /\ Waits(t) /\ InFlight(t)
      /\ IF posts[t].carries = None THEN jar' = jar ELSE jar' = s
      /\ families' = families /\ aged' = aged /\ troubles' = troubles
      /\ lost' = lost /\ reused' = reused
  BY DEF Browser!Answered, Browser!At, Waits, InFlight
<1>2. refreshLock = t
  BY <1>1 DEF BrowserInv, LockHeld, Waits
<1>3. refreshLock' \in {None, t}
  BY <1>2 DEF Browser!Answered, Browser!Unlock
<1>4. posts' = [posts EXCEPT ![t] = Browser!NoPost]
  BY DEF Browser!Answered
<1>5. /\ Browser!NoPost \in PostRows /\ Browser!NoPost.at = "none"
      /\ Browser!NoPost.carries = None /\ Browser!NoPost.gets = None
  BY DEF Browser!NoPost, PostRows
<1>6. PICK row \in WindowRows :
          /\ windows' = [windows EXCEPT ![t] = row]
          /\ \/ s = None /\ row.at = "refused" /\ row.carries = None
             \/ s # None /\ row.at = "retries" /\ row.carries = s
  <2>1. CASE s = None
    <3> PICK place \in WindowPlaces : place = "refused"
      BY DEF WindowPlaces
    <3>1. Browser!Goes(t, place)
      BY <2>1 DEF Browser!Answered
    <3>2. PICK new \in WindowRows :
              /\ windows' = [windows EXCEPT ![t] = new]
              /\ new.at = place
              /\ place \in {"calls", "calls again"} => new.carries = windows[t].carries
              /\ place \notin {"calls", "calls again"} => new.carries = None
      BY <3>1, GoesTo
    <3> QED
      BY <2>1, <3>2
  <2>2. CASE s # None
    <3> PICK new : new = [windows[t] EXCEPT !.at = "retries", !.carries = s]
      OBVIOUS
    <3>1. new \in WindowRows /\ new.at = "retries" /\ new.carries = s
      BY BrowserFacts DEF WindowRows, WindowPlaces
    <3>2. windows' = [windows EXCEPT ![t].at = "retries", ![t].carries = s]
      BY <2>2 DEF Browser!Answered
    <3>3. windows' = [windows EXCEPT ![t] = new]
      BY <3>2 DEF BrowserInv, BrowserType, WindowRows
    <3> QED
      BY <2>2, <3>1, <3>3
  <2> QED
    BY <2>1, <2>2
<1>7. /\ windows' \in [Tabs -> WindowRows] /\ windows'[t] = row
      /\ posts' \in [Tabs -> PostRows] /\ posts'[t] = Browser!NoPost
      /\ \A u \in Tabs : u # t => windows'[u] = windows[u] /\ posts'[u] = posts[u]
  BY <1>4, <1>5, <1>6 DEF BrowserInv, BrowserType
<1>8. s \in Browser!Ids \cup {None} /\ Issued(s) /\ PostOk(t) /\ Issued(jar)
  BY BrowserFacts DEF BrowserInv, CookiesIssued
<1>9. \A u \in Tabs : u # t => windows[u].at \notin {"checks", "posts"}
  BY <1>2 DEF BrowserInv, LockHeld
<1>10. BrowserType'
  BY <1>1, <1>2, <1>3, <1>7, <1>8 DEF BrowserInv, BrowserType
<1>11. CookiesIssued'
  <2>1. Issued(jar)'
    BY <1>1, <1>8 DEF Issued
  <2>2. ASSUME NEW u \in Tabs
        PROVE  /\ Issued(windows[u].carries)' /\ Issued(posts[u].carries)'
               /\ Issued(posts[u].gets)'
    <3>1. CASE u = t
      BY <1>1, <1>5, <1>6, <1>7, <1>8, <3>1 DEF Issued
    <3>2. CASE u # t
      <4>1. windows'[u] = windows[u] /\ posts'[u] = posts[u]
        BY <1>7, <3>2
      <4> QED
        BY <1>1, <4>1, BrowserFacts DEF Issued
    <3> QED
      BY <3>1, <3>2
  <2> QED
    BY <1>1, <2>1, <2>2 DEF CookiesIssued, BrowserInv
<1>12. LockHeld'
  BY <1>6, <1>7, <1>9 DEF LockHeld
<1>13. Unwaited'
  BY <1>1, <1>5, <1>7 DEF BrowserInv, Unwaited, InFlight, Waits, Browser!FamilyOf
<1>14. ASSUME NEW u \in Tabs PROVE PostOk(u)'
  <2>1. CASE u = t
    BY <1>5, <1>7, <2>1 DEF PostOk
  <2>2. CASE u # t
    <3>1. posts'[u] = posts[u] /\ PostOk(u)
      BY <1>7, <2>2, BrowserFacts
    <3> QED
      BY <1>1, <3>1 DEF PostOk, Unused
  <2> QED
    BY <2>1, <2>2
<1>15. JarOk'
  <2>1. CASE posts[t].carries = None
    <3>1. s = None
      BY <1>8, <2>1 DEF PostOk
    <3>2. \A u \in Tabs : ~(Waits(u) /\ posts[u].gets # None)
      BY <1>9, <3>1 DEF Waits
    <3>3. jar # None => Unused(jar)
      BY <3>2 DEF BrowserInv, JarOk
    <3>4. jar' = jar
      BY <1>1, <2>1
    <3> QED
      BY <1>1, <3>3, <3>4 DEF JarOk, Unused
  <2>2. CASE posts[t].carries # None
    <3>1. jar' = s /\ (s # None => Unused(s))
      BY <1>1, <1>8, <2>2 DEF PostOk
    <3> QED
      BY <1>1, <3>1 DEF JarOk, Unused
  <2> QED
    BY <2>1, <2>2
<1>16. Calm => Calm'
  <2> SUFFICES ASSUME Calm PROVE Calm'
    OBVIOUS
  <2>1. s # None /\ s \notin aged /\ posts[t].carries # None
    BY <1>1 DEF Calm, CalmPost
  <2>2. jar' = s
    BY <1>1, <2>1
  <2>3. ASSUME NEW u \in Tabs PROVE CalmTab(u)' /\ CalmPost(u)'
    <3>1. CASE u = t
      BY <1>1, <1>5, <1>6, <1>7, <2>1, <3>1 DEF CalmTab, CalmPost, InFlight
    <3>2. CASE u # t
      <4>1. windows'[u] = windows[u] /\ posts'[u] = posts[u] /\ windows[u].at # "checks"
        BY <1>7, <1>9, <3>2
      <4>2. CalmTab(u) /\ CalmPost(u)
        BY DEF Calm
      <4> QED
        BY <1>1, <4>1, <4>2 DEF CalmTab, CalmPost, InFlight
    <3> QED
      BY <3>1, <3>2
  <2>4. /\ lost' = {} /\ jar' # None
        /\ \A r \in Browser!Ids : families'[r] # None =>
               ~families'[r].revoked /\ (families'[r].consumed => r \in aged')
    BY <1>1, <2>1, <2>2 DEF Calm
  <2> QED
    BY <2>3, <2>4 DEF Calm
<1> QED
  BY <1>1, <1>10, <1>11, <1>12, <1>13, <1>14, <1>15, <1>16 DEF BrowserInv

LEMMA AnsweredLateStep ==
    ASSUME BrowserInv, NEW t \in Tabs, Browser!AnsweredLate(t) PROVE BrowserInv'
<1> PICK row : row = Browser!NoPost
  OBVIOUS
<1>1. /\ row \in PostRows /\ row.at = "none"
      /\ row.carries = None /\ row.gets = None
  BY DEF Browser!NoPost, PostRows
<1>2. posts' = [posts EXCEPT ![t] = row] /\ InFlight(t) /\ ~Waits(t)
  BY DEF Browser!AnsweredLate, Browser!At, InFlight, Waits
<1>3. PostOk(t)'
  BY <1>1, <1>2 DEF PostOk, BrowserInv, BrowserType
<1>4. RowsSame /\ families' \in [Browser!Ids -> Browser!Rows \cup {None}]
  BY RowsKept DEF Browser!AnsweredLate
<1>5. lost' = lost /\ lost \subseteq Browser!Ids /\ reused' \subseteq lost' /\ Troubled
  BY BrowserFacts DEF Browser!AnsweredLate, BrowserInv, Troubled
<1>6. Calm => lost' = {}
  BY <1>5 DEF Calm
<1>7. Issued(row.carries) /\ Issued(row.gets)
  BY <1>1 DEF Issued
<1> QED
  BY <1>1, <1>2, <1>3, <1>4, <1>5, <1>6, <1>7, PostStep DEF Browser!AnsweredLate

LEMMA LoginStep == ASSUME BrowserInv, NEW t \in Tabs, Browser!Login(t) PROVE BrowserInv'
<1>1. PICK new \in Browser!Fresh :
          families' = [families EXCEPT ![new] = Browser!Session(new)] /\ jar' = new
  BY DEF Browser!Login
<1>2. /\ windows[t].at = "refused" /\ windows' = [windows EXCEPT ![t] = Browser!Idle]
      /\ aged' = aged /\ refreshLock' = refreshLock /\ posts' = posts /\ troubles' = troubles
      /\ lost' = lost /\ reused' = reused
  BY DEF Browser!Login, Browser!At
<1>3. new \in Browser!Ids /\ families[new] = None
  BY DEF Browser!Fresh
<1> PICK row : row = Browser!Session(new)
  OBVIOUS
<1>4. row \in Browser!Rows /\ row.family = new /\ ~row.consumed
  BY <1>3 DEF Browser!Session, Browser!Rows
<1>5. /\ families' \in [Browser!Ids -> Browser!Rows \cup {None}]
      /\ families'[new] = row /\ families'[new] # None
      /\ \A s \in Browser!Ids : s # new => families'[s] = families[s]
  BY <1>1, <1>3, <1>4, NoSession DEF BrowserInv, BrowserType
<1>6. \A s \in Browser!Ids : families[s] # None => families'[s] = families[s] /\ families'[s] # None
  BY <1>3, <1>5
<1>7. /\ Browser!Idle \in WindowRows /\ Browser!Idle.at = "idle" /\ Browser!Idle.carries = None
      /\ windows' \in [Tabs -> WindowRows] /\ windows'[t] = Browser!Idle
      /\ \A u \in Tabs : u # t => windows'[u] = windows[u]
  BY <1>2 DEF Browser!Idle, WindowRows, WindowPlaces, BrowserInv, BrowserType
<1>8. BrowserType'
  BY <1>1, <1>2, <1>3, <1>5, <1>7 DEF BrowserInv, BrowserType
<1>9. CookiesIssued'
  <2>1. Issued(jar)' /\ \A s \in aged' : families'[s] # None
    BY <1>1, <1>2, <1>5, <1>6, BrowserFacts DEF BrowserInv, CookiesIssued, Issued
  <2>2. ASSUME NEW u \in Tabs
        PROVE  /\ Issued(windows[u].carries)' /\ Issued(posts[u].carries)'
               /\ Issued(posts[u].gets)'
    <3>1. Issued(posts[u].carries)' /\ Issued(posts[u].gets)'
      BY <1>2, <1>6, BrowserFacts DEF Issued
    <3>2. CASE u = t
      BY <1>7, <3>1, <3>2 DEF Issued
    <3>3. CASE u # t
      <4>1. windows'[u] = windows[u]
        BY <1>7, <3>3
      <4> QED
        BY <1>6, <3>1, <4>1, BrowserFacts DEF Issued
    <3> QED
      BY <3>2, <3>3
  <2> QED
    BY <2>1, <2>2 DEF CookiesIssued
<1>10. LockHeld'
  BY <1>2, <1>7 DEF BrowserInv, LockHeld
<1>11. \A u \in Tabs : Waits(u)' <=> Waits(u)
  BY <1>2, <1>7 DEF Waits
<1>12. Unwaited'
  <2> SUFFICES ASSUME NEW u \in Tabs, InFlight(u)', ~Waits(u)'
               PROVE  Browser!FamilyOf(posts[u].carries)' \subseteq lost'
    BY DEF Unwaited
  <2>1. Browser!FamilyOf(posts[u].carries) \subseteq lost
    BY <1>2, <1>11 DEF BrowserInv, Unwaited, InFlight
  <2> QED
    BY <1>2, <1>6, <2>1, BrowserFacts DEF Browser!FamilyOf, Issued
<1>13. ASSUME NEW u \in Tabs PROVE PostOk(u)'
  <2>1. PostOk(u) /\ posts'[u] = posts[u]
    BY <1>2, BrowserFacts
  <2>2. /\ posts[u].carries # None => families'[posts[u].carries] = families[posts[u].carries]
        /\ posts[u].gets # None => families'[posts[u].gets] = families[posts[u].gets]
    BY <1>6, BrowserFacts DEF Issued
  <2> QED
    BY <1>2, <2>1, <2>2 DEF PostOk, Unused
<1>14. JarOk'
  BY <1>1, <1>4, <1>5 DEF JarOk, Unused
<1>15. troubles' # 0
  BY <1>2 DEF BrowserInv, Calm, CalmTab
<1> QED
  BY <1>2, <1>8, <1>9, <1>10, <1>12, <1>13, <1>14, <1>15 DEF BrowserInv

LEMMA RevokeSessionStep ==
    ASSUME BrowserInv, NEW s \in Browser!Ids, Browser!Revoke(s) PROVE BrowserInv'
<1>1. /\ aged' = aged /\ jar' = jar /\ refreshLock' = refreshLock /\ windows' = windows
      /\ posts' = posts /\ troubles' = troubles + 1 /\ lost' = lost /\ reused' = reused
  BY DEF Browser!Revoke, Browser!Trouble
<1>2. RowsSame /\ families' \in [Browser!Ids -> Browser!Rows \cup {None}]
  BY RevokedRows DEF Browser!Revoke
<1>3. BrowserType'
  BY <1>1, <1>2 DEF BrowserInv, BrowserType
<1>4. CookiesIssued'
  BY <1>1, <1>2, BrowserFacts DEF BrowserInv, CookiesIssued, Issued, RowsSame
<1>5. LockHeld'
  BY <1>1 DEF BrowserInv, LockHeld
<1>6. Unwaited'
  BY <1>1, <1>2, BrowserFacts DEF BrowserInv, Unwaited, InFlight, Waits, Browser!FamilyOf,
     Issued, RowsSame
<1>7. ASSUME NEW u \in Tabs PROVE PostOk(u)'
  BY <1>1, <1>2, BrowserFacts DEF PostOk, Unused, Issued, RowsSame
<1>8. JarOk'
  <2> SUFFICES ASSUME jar # None, ~Unused(jar)'
               PROVE  \E u \in Tabs : /\ Waits(u) /\ posts[u].gets # None
                                      /\ families'[posts[u].carries].family = families'[jar].family
    BY <1>1 DEF JarOk, Unused, Waits
  <2>1. /\ jar \in Browser!Ids /\ ~Unused(jar)
        /\ families'[jar].family = families[jar].family
    BY <1>1, <1>2, BrowserFacts DEF BrowserInv, CookiesIssued, Issued, Unused, RowsSame
  <2>2. PICK u \in Tabs : /\ Waits(u) /\ posts[u].gets # None
                          /\ families[posts[u].carries].family = families[jar].family
    BY <2>1 DEF BrowserInv, JarOk
  <2>3. families'[posts[u].carries].family = families[posts[u].carries].family
    BY <1>2, <2>2, BrowserFacts DEF PostOk, Issued, RowsSame
  <2> QED
    BY <2>1, <2>2, <2>3
<1>9. troubles' # 0
  BY <1>1, BrowserFacts
<1> QED
  BY <1>1, <1>3, <1>4, <1>5, <1>6, <1>7, <1>8, <1>9 DEF BrowserInv

LEMMA AgeStep == ASSUME BrowserInv, NEW s \in Browser!Ids, Browser!Age(s) PROVE BrowserInv'
<1>1. /\ families[s] # None /\ refreshLock = None /\ aged' = aged \cup {s}
      /\ \A t \in Tabs : windows[t].at \in {"retries", "calls again"} => windows[t].carries # s
      /\ families' = families /\ jar' = jar /\ refreshLock' = refreshLock
      /\ windows' = windows /\ posts' = posts
      /\ troubles' = troubles /\ lost' = lost /\ reused' = reused
  BY DEF Browser!Age
<1>2. BrowserType'
  BY <1>1 DEF BrowserInv, BrowserType
<1>3. CookiesIssued'
  BY <1>1 DEF BrowserInv, CookiesIssued, Issued
<1>4. LockHeld' /\ Unwaited' /\ \A t \in Tabs : PostOk(t)'
  BY <1>1 DEF BrowserInv, LockHeld, Unwaited, InFlight, Waits, PostOk, Unused, Browser!FamilyOf
<1>5. JarOk'
  BY <1>1 DEF BrowserInv, JarOk, Unused, Waits
<1>6. Calm => Calm'
  <2> SUFFICES ASSUME Calm PROVE Calm'
    OBVIOUS
  <2>1. ASSUME NEW t \in Tabs, InFlight(t) PROVE FALSE
    <3>1. Waits(t)
      BY <2>1 DEF BrowserInv, Unwaited, Calm, CalmPost, Browser!FamilyOf
    <3>2. refreshLock = t
      BY <3>1 DEF BrowserInv, LockHeld, Waits
    <3> QED
      BY <1>1, <3>2, NoSession
  <2>2. ASSUME NEW t \in Tabs PROVE CalmTab(t)' /\ CalmPost(t)'
    <3>1. CalmTab(t)'
      BY <1>1 DEF Calm, CalmTab
    <3>2. CalmPost(t)'
      BY <1>1, <2>1 DEF CalmPost, InFlight
    <3> QED
      BY <3>1, <3>2
  <2> QED
    BY <1>1, <2>2 DEF Calm
<1> QED
  BY <1>1, <1>2, <1>3, <1>4, <1>5, <1>6 DEF BrowserInv

LEMMA BrowserStep ==
    ASSUME BrowserInv, [Browser!Next]_browserVars
    PROVE  BrowserInv'
<1>1. CASE UNCHANGED browserVars
  <2>1. /\ families' = families /\ aged' = aged /\ jar' = jar /\ refreshLock' = refreshLock
        /\ windows' = windows /\ posts' = posts /\ troubles' = troubles
        /\ lost' = lost /\ reused' = reused
    BY <1>1 DEF browserVars
  <2>2. BrowserType' /\ CookiesIssued' /\ LockHeld' /\ Unwaited' /\ JarOk'
        /\ \A t \in Tabs : PostOk(t)'
    BY <2>1 DEF BrowserInv, BrowserType, CookiesIssued, Issued, LockHeld, Unwaited, InFlight, Waits,
       JarOk, PostOk, Unused, Browser!FamilyOf
  <2>3. Calm => Calm'
    BY <2>1 DEF Calm, CalmTab, CalmPost, InFlight
  <2> QED
    BY <2>1, <2>2, <2>3 DEF BrowserInv
<1>2. ASSUME NEW t \in Tabs, Browser!TabSteps(t) PROVE BrowserInv'
  BY <1>2, StartStep, AskSessionStep, GatewayCallStep, EnterStep, CheckStatusStep, PreflightStep,
     RetryStep, CallAgainStep, LeaveStep, LoginStep, TryAgainStep
  DEF Browser!TabSteps
<1>3. ASSUME NEW t \in Tabs, Browser!ServerSteps(t) PROVE BrowserInv'
  BY <1>3, ReadCookiesStep, RotateStep, RotateRefusedStep, RotateFailsStep, ConfirmStep,
     AnsweredStep, AnsweredLateStep
  DEF Browser!ServerSteps
<1>4. ASSUME NEW s \in Browser!Ids, Browser!Revoke(s) \/ Browser!Age(s) PROVE BrowserInv'
  BY <1>4, RevokeSessionStep, AgeStep
<1> QED
  BY <1>1, <1>2, <1>3, <1>4 DEF Browser!Next

LEMMA BrowserInvHolds == ServicesSpec => []BrowserInv
<1>1. ServicesInit => BrowserInv
  BY BrowserInit DEF ServicesInit
<1>2. BrowserInv /\ [ServicesNext]_serviceVars => BrowserInv'
  BY OneAppSteps, BrowserStep
<1> QED
  BY <1>1, <1>2, PTL DEF ServicesSpec

\* For any number of tabs and sessions, and however often an answer is late, the
\* gateway fails or a session is revoked: while none of that happens no tab is
\* sent to the login page, and a refresh token of this browser comes twice only
\* where the answer with its successor was lost (session-refresh-client.ts,
\* coordinateSessionRefresh; server-session.ts, refreshAuthenticatedServerSession).
THEOREM SessionsAreKept == ServicesSpec => []SessionKept
<1>1. BrowserInv => SessionKept
  BY DEF BrowserInv, Calm, CalmTab, SessionKept, Browser!SessionKept, Browser!At
<1> QED
  BY <1>1, BrowserInvHolds, PTL
=============================================================================
