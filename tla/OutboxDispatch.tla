---------------------------- MODULE OutboxDispatch ----------------------------
(***************************************************************************)
(* How the events that a service wrote beside its data reach the broker.   *)
(* Replicas of the service publish from the same outbox table.  There are  *)
(* two transports.  "leased" (operations-service, asset-service): a row is *)
(* claimed under a lease, and a failure is retried after a growing delay,  *)
(* for ever.  "fenced" (generation-service, provider-runtime): rows are    *)
(* read in a batch and not claimed, what is recorded of a row is fenced by *)
(* the attempts read, and after MaxAttempts failures the row is isolated.  *)
(*                                                                         *)
(* The rows are kept in the order in which they are selected.  A call that *)
(* a replica awaits is a step; the broker removes duplicates by the key of *)
(* the event, so that what it has accepted is a set.                       *)
(***************************************************************************)
EXTENDS Integers, Sequences, SequencesExt

CONSTANTS
    EventIds,       \* ids of the rows
    Poison,         \* events with an envelope that is rejected
    Replicas,
    BatchSize,      \* rows of one selection
    MaxAttempts,    \* failures until a row is isolated, if it is fenced
    MaxTroubles,    \* bound: deaths, lost calls and leases that were too short
    None

VARIABLES
    transport,  \* "leased" or "fenced"
    rows,       \* the outbox
    queue,      \* unpublished rows that are due, in the order of selection
    replicas,   \* replicas[r]: the batch of r, and its call for the head of it
    accepted,   \* events the broker has
    troubles    \* faults so far

vars == <<transport, rows, queue, replicas, accepted, troubles>>

Leased == transport = "leased"

\* `attempts' is kept where it decides something: for a fenced row.
NoRow == [status |-> "none", attempts |-> 0, holder |-> None, live |-> FALSE]

\* `entry': events with the attempts that were read; `ok': the broker answered well.
Idle == [at |-> "idle", batch |-> <<>>, ok |-> FALSE]

Entry(e) == [event |-> e, seen |-> rows[e].attempts]

Init ==
    /\ transport \in {"leased", "fenced"}
    /\ rows = [e \in EventIds |-> NoRow]
    /\ queue = <<>>
    /\ replicas = [r \in Replicas |-> Idle]
    /\ accepted = {} /\ troubles = 0

Trouble == troubles < MaxTroubles /\ troubles' = troubles + 1

\* The row of an event that is committed with the data it tells of.  The replica
\* may publish it at once, without a selection (ResultImportService).
Commit(e) ==
    /\ rows[e] = NoRow
    /\ rows' = [rows EXCEPT ![e].status = "PENDING"]
    /\ queue' = Append(queue, e)
    /\ \/ UNCHANGED replicas
       \/ \E r \in Replicas :
             /\ Leased /\ replicas[r] = Idle
             /\ replicas' = [replicas EXCEPT ![r] = [Idle EXCEPT !.at = "claim",
                                                                 !.batch = <<Entry(e)>>]]
    /\ UNCHANGED <<transport, accepted, troubles>>

-----------------------------------------------------------------------------
(* Selecting and claiming.                                                 *)

Selectable(e) == IF Leased THEN ~rows[e].live ELSE rows[e].attempts < MaxAttempts

\* What a replica does for the next entry of its batch.
Next1 == IF Leased THEN "claim" ELSE "send"

Batch == LET due == SelectSeq(queue, Selectable)
         IN  SubSeq(due, 1, IF Len(due) < BatchSize THEN Len(due) ELSE BatchSize)

Select(r) ==
    /\ replicas[r] = Idle /\ Batch # <<>>
    /\ replicas' = [replicas EXCEPT ![r] =
                       [Idle EXCEPT !.at = Next1,
                                    !.batch = [i \in DOMAIN Batch |-> Entry(Batch[i])]]]
    /\ UNCHANGED <<transport, rows, queue, accepted, troubles>>

\* The replica goes on with the rest of its batch.
Rest(b) == IF Len(b) = 1 THEN Idle ELSE [Idle EXCEPT !.at = Next1, !.batch = Tail(b)]

Current(r) == Head(replicas[r].batch).event

\* A row that is published, waits or is leased by now is passed over.
Claim(r) ==
    /\ replicas[r].at = "claim"
    /\ IF Current(r) \in Range(queue) /\ ~rows[Current(r)].live
       THEN /\ rows' = [rows EXCEPT ![Current(r)].holder = r, ![Current(r)].live = TRUE]
            /\ replicas' = [replicas EXCEPT ![r].at = "send"]
       ELSE /\ replicas' = [replicas EXCEPT ![r] = Rest(@.batch)]
            /\ UNCHANGED rows
    /\ UNCHANGED <<transport, queue, accepted, troubles>>

-----------------------------------------------------------------------------
(* Publishing, and recording how it went.                                  *)

Send(r) ==
    /\ replicas[r].at = "send"
    /\ replicas' = [replicas EXCEPT ![r].at = "record", ![r].ok = Current(r) \notin Poison]
    /\ accepted' = accepted \cup ({Current(r)} \ Poison)
    /\ UNCHANGED <<transport, rows, queue, troubles>>

\* The call failed, or only its answer was lost.
SendFails(r) ==
    /\ replicas[r].at = "send" /\ Current(r) \notin Poison
    /\ Trouble
    /\ replicas' = [replicas EXCEPT ![r].at = "record"]
    /\ accepted' \in {accepted, accepted \cup {Current(r)}}
    /\ UNCHANGED <<transport, rows, queue>>

\* The row is still the one that the replica claimed, or read.
Fenced(r) ==
    /\ rows[Current(r)].status # "PUBLISHED"
    /\ IF Leased THEN rows[Current(r)].holder = r
       ELSE rows[Current(r)].attempts = Head(replicas[r].batch).seen

Published(e) ==
    /\ rows' = [rows EXCEPT ![e] = [NoRow EXCEPT !.status = "PUBLISHED"]]
    /\ queue' = SelectSeq(queue, LAMBDA f : f # e)

\* Mutant: the row that has failed is due at once.
Failed_AtOnce(e) ==
    /\ rows' = [rows EXCEPT ![e] = [NoRow EXCEPT !.status = "FAILED"]]
    /\ UNCHANGED queue

\* A leased row waits for its next attempt; a fenced one stays where it is.
Failed(e) ==
    IF Leased
    THEN /\ rows' = [rows EXCEPT ![e] = [NoRow EXCEPT !.status = "FAILED"]]
         /\ queue' = SelectSeq(queue, LAMBDA f : f # e)
    ELSE /\ rows' = [rows EXCEPT ![e].attempts = @ + 1]
         /\ UNCHANGED queue

Recorded(r) ==
    IF ~Fenced(r) THEN UNCHANGED <<rows, queue>>
    ELSE IF replicas[r].ok THEN Published(Current(r)) ELSE Failed(Current(r))

Record(r) ==
    /\ replicas[r].at = "record"
    /\ Recorded(r)
    /\ replicas' = [replicas EXCEPT ![r] = Rest(@.batch)]
    /\ UNCHANGED <<transport, accepted, troubles>>

\* The update fails, or only its answer is lost.  A leased event that was not
\* recorded as published is recorded as failed instead; a fenced batch is
\* broken off.
RecordFails(r) ==
    /\ replicas[r].at = "record"
    /\ Trouble
    /\ Recorded(r) \/ UNCHANGED <<rows, queue>>
    /\ replicas' = [replicas EXCEPT ![r] =
                       IF ~Leased THEN Idle
                       ELSE IF @.ok THEN [@ EXCEPT !.ok = FALSE]
                       ELSE Rest(@.batch)]
    /\ UNCHANGED <<transport, accepted>>

Die(r) ==
    /\ replicas[r] # Idle
    /\ Trouble
    /\ replicas' = [replicas EXCEPT ![r] = Idle]
    /\ UNCHANGED <<transport, rows, queue, accepted>>

-----------------------------------------------------------------------------
(* Time.                                                                   *)

Working(r, e) == replicas[r].at \in {"send", "record"} /\ Current(r) = e

\* A lease ends, also while its replica still awaits the broker.
LeaseEnds(e) ==
    /\ rows[e].live
    /\ IF Working(rows[e].holder, e) THEN Trouble ELSE UNCHANGED troubles
    /\ rows' = [rows EXCEPT ![e].live = FALSE]
    /\ UNCHANGED <<transport, queue, replicas, accepted>>

\* nextAttemptAt has come: the row is the last of those that are due.
BackoffEnds(e) ==
    /\ rows[e].status = "FAILED" /\ e \notin Range(queue)
    /\ queue' = Append(queue, e)
    /\ UNCHANGED <<transport, rows, replicas, accepted, troubles>>

-----------------------------------------------------------------------------
Work(r) == Select(r) \/ Claim(r) \/ Send(r) \/ Record(r)

Next ==
    \/ \E e \in EventIds : Commit(e) \/ LeaseEnds(e) \/ BackoffEnds(e)
    \/ \E r \in Replicas : Work(r) \/ SendFails(r) \/ RecordFails(r) \/ Die(r)

Spec == Init /\ [][Next]_vars

\* Each replica selects and publishes at intervals, and waits do end.
Fairness ==
    /\ \A r \in Replicas : WF_vars(Work(r))
    /\ \A e \in EventIds : WF_vars(LeaseEnds(e)) /\ WF_vars(BackoffEnds(e))

-----------------------------------------------------------------------------
\* A fenced row that failed too often waits for an operator.
Isolated(e) == ~Leased /\ rows[e].attempts = MaxAttempts

\* A committed event reaches the broker, and is then recorded as published, or it
\* is isolated: whichever replica dies, is slow or loses an answer, and whatever
\* rejected event stands before it (dispatchDue, publishBatch).
EventsArrive ==
    \A e \in EventIds \ Poison :
        rows[e] # NoRow ~> \/ rows[e].status = "PUBLISHED" /\ e \in accepted
                           \/ Isolated(e)
=============================================================================
