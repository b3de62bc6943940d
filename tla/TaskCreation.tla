---------------------------- MODULE TaskCreation ----------------------------
(***************************************************************************)
(* Creation of a generation task under one idempotency key: the saga of    *)
(* claim, reservation, persistence and compensation (CreateTaskService).   *)
(* Every call is one HTTP request with the key; one of them owns the       *)
(* operation, the others wait for it, take an expired claim over, or give  *)
(* a stalled operation to an operator.                                     *)
(*                                                                         *)
(* A statement of the repository is one step.  Its acknowledgement may be  *)
(* lost in all its attempts whether or not it committed, so that every     *)
(* write has a step that looks at the record again.  A wallet request may  *)
(* be answered with an error and reach the wallet later.                   *)
(***************************************************************************)
CONSTANTS
    Calls,      \* requests that carry the key
    Amended,    \* those whose body differs from that of the others
    Reliable,   \* those whose process and database connection never fail
    None

ASSUME CallsAssumption == Amended \subseteq Calls /\ Reliable \subseteq Calls
ASSUME NoneAssumption == None \notin Calls

VARIABLES
    record,     \* TaskIdempotency; its status follows from its phase
    calls,      \* calls[c]: where call c is, or what it was answered
    inflight,   \* wallet requests on their way
    posted      \* wallet commands of the operation that the ledger holds

vars == <<record, calls, inflight, posted>>

-----------------------------------------------------------------------------
\* Phases in which a wallet effect is possible (isRepairablePhase).
Repairable == {"RESERVE_REQUESTED", "RESERVED", "PERSISTENCE_FAILED",
               "COMPENSATION_REQUESTED", "COMPENSATED"}

\* status is SUCCEEDED or FAILED.
Closed == record.phase \in {"SUCCEEDED", "FAILED", "REPAIR_REQUIRED"}

At(place) == [at |-> place, from |-> None, to |-> None, token |-> None]

\* advancePhase(operation, from, to).
Advancing(from, to) == [at |-> "advance", from |-> from, to |-> to, token |-> None]

\* failWithRepair(record, phase), for the record that was read.
Repairing(phase, token) ==
    [at |-> "repair", from |-> phase, to |-> "REPAIR_REQUIRED", token |-> token]

\* awaitWinner; a stale owner of the operation must not repair it.
Waiting == At("await")
Consuming == At("consume")

Answers == {"QUEUED", "QUOTE_REFUSED", "TASK_CREATION_FAILED", "REPAIR_REQUIRED",
            "IN_PROGRESS", "UNAVAILABLE", "CONFLICT", "GONE"}

Goes(c, s) == calls' = [calls EXCEPT ![c] = s]

WalletUnchanged == UNCHANGED <<inflight, posted>>

Lossy(c) == c \notin Reliable

-----------------------------------------------------------------------------
(* Claiming the key.                                                       *)

Claim(c) ==
    /\ calls[c] = At("start")
    /\ \/ /\ record.phase = "NONE"
          /\ record' = [phase |-> "CLAIMED", token |-> c, amended |-> c \in Amended,
                        expired |-> FALSE, code |-> None]
          /\ Goes(c, At("quote"))
       \/ /\ record.phase # "NONE"
          /\ UNCHANGED record
          /\ Goes(c, IF record.amended # (c \in Amended) THEN At("CONFLICT")
                     ELSE IF record.phase = "CLAIMED" /\ record.expired
                          THEN [At("reclaim") EXCEPT !.token = record.token]
                          ELSE Waiting)
    /\ WalletUnchanged

\* An expired claim cannot have touched the wallet: it is taken over under a
\* new lease token, which fences its former owner.
Reclaim(c) ==
    /\ calls[c].at = "reclaim"
    /\ \/ /\ record.phase = "CLAIMED" /\ record.expired /\ record.token = calls[c].token
          /\ record' = [record EXCEPT !.token = c, !.expired = FALSE]
          /\ Goes(c, At("quote")) \/ (Lossy(c) /\ Goes(c, At("IN_PROGRESS")))
       \/ /\ record.phase # "CLAIMED" \/ ~record.expired \/ record.token # calls[c].token
          /\ UNCHANGED record
          /\ Goes(c, Waiting)
       \/ Lossy(c) /\ UNCHANGED record /\ Goes(c, At("IN_PROGRESS"))
    /\ WalletUnchanged

\* The lease of a claim ends.
Expire ==
    /\ record.phase = "CLAIMED" /\ ~record.expired
    /\ record' = [record EXCEPT !.expired = TRUE]
    /\ UNCHANGED <<calls, inflight, posted>>

-----------------------------------------------------------------------------
(* Before the reservation.                                                 *)

\* The quote is there and matches the request, or it is refused.
GetQuote(c) ==
    /\ calls[c].at = "quote"
    /\ Goes(c, At("begin")) \/ Goes(c, At("refuse"))
    /\ UNCHANGED record /\ WalletUnchanged

\* now() is read before the statement that compares it with the lease.
ReadClock(c) ==
    /\ \/ /\ calls[c].at = "begin"
          /\ Goes(c, At(IF record.expired THEN "begun" ELSE "beginning"))
       \/ /\ calls[c].at = "refuse"
          /\ Goes(c, At(IF record.expired THEN "refused" ELSE "refusing"))
    /\ UNCHANGED record /\ WalletUnchanged

OwnsClaim(c) == record.phase = "CLAIMED" /\ record.token = c

\* Mutant: the refusal is not fenced by the lease token.
Refuse_Unfenced(c) ==
    /\ calls[c].at = "refusing"
    /\ record.phase \notin {"SUCCEEDED", "FAILED", "REPAIR_REQUIRED"}
    /\ record' = [record EXCEPT !.phase = "FAILED", !.code = "QUOTE_REFUSED"]
    /\ Goes(c, At("QUOTE_REFUSED"))
    /\ WalletUnchanged

\* failWithoutReserve.
Refuse(c) ==
    /\ calls[c].at = "refusing"
    /\ \/ /\ OwnsClaim(c)
          /\ record' = [record EXCEPT !.phase = "FAILED", !.code = "QUOTE_REFUSED"]
          /\ Goes(c, At("QUOTE_REFUSED")) \/ (Lossy(c) /\ Goes(c, At("refused")))
       \/ /\ Lossy(c) \/ ~OwnsClaim(c)
          /\ UNCHANGED record
          /\ Goes(c, At("refused"))
    /\ WalletUnchanged

CheckRefused(c) ==
    /\ calls[c].at = "refused"
    /\ \/ Lossy(c) /\ Goes(c, At("IN_PROGRESS"))
       \/ record.token # c /\ Goes(c, Consuming)
       \/ /\ record.token = c
          /\ Goes(c, IF record.phase = "FAILED" /\ record.code = "QUOTE_REFUSED"
                     THEN At("QUOTE_REFUSED") ELSE At("IN_PROGRESS"))
    /\ UNCHANGED record /\ WalletUnchanged

\* beginReservation.
Begin(c) ==
    /\ calls[c].at = "beginning"
    /\ \/ /\ OwnsClaim(c)
          /\ record' = [record EXCEPT !.phase = "RESERVE_REQUESTED"]
          /\ Goes(c, At("reserve")) \/ (Lossy(c) /\ Goes(c, At("begun")))
       \/ /\ Lossy(c) \/ ~OwnsClaim(c)
          /\ UNCHANGED record
          /\ Goes(c, At("begun"))
    /\ WalletUnchanged

CheckBegun(c) ==
    /\ calls[c].at = "begun"
    /\ \/ Lossy(c) /\ Goes(c, At("IN_PROGRESS"))
       \/ Goes(c, IF record.token = c /\ record.phase = "RESERVE_REQUESTED"
                  THEN At("reserve") ELSE Consuming)
    /\ UNCHANGED record /\ WalletUnchanged

-----------------------------------------------------------------------------
(* The wallet.                                                             *)

Reserve(c) ==
    /\ calls[c].at = "reserve"
    /\ inflight' = inflight \cup {"reserve"}
    /\ Goes(c, At("reserving"))
    /\ UNCHANGED <<record, posted>>

\* Mutant: an error of the wallet is taken for a refusal.
ReserveAnswered_Trusting(c) ==
    /\ calls[c].at = "reserving"
    /\ \/ "reserve" \in posted /\ UNCHANGED record
          /\ Goes(c, Advancing("RESERVE_REQUESTED", "RESERVED"))
       \/ /\ "reserve" \notin posted /\ record.phase = "RESERVE_REQUESTED"
          /\ record' = [record EXCEPT !.phase = "FAILED", !.code = "TASK_CREATION_FAILED"]
          /\ Goes(c, At("TASK_CREATION_FAILED"))
    /\ WalletUnchanged

\* An error leaves it open whether the points are reserved.
ReserveAnswered(c) ==
    /\ calls[c].at = "reserving"
    /\ \/ "reserve" \in posted /\ Goes(c, Advancing("RESERVE_REQUESTED", "RESERVED"))
       \/ Goes(c, Repairing("RESERVE_REQUESTED", c))
    /\ UNCHANGED record /\ WalletUnchanged

Release(c) ==
    /\ calls[c].at = "release"
    /\ inflight' = inflight \cup {"release"}
    /\ Goes(c, At("releasing"))
    /\ UNCHANGED <<record, posted>>

ReleaseAnswered(c) ==
    /\ calls[c].at = "releasing"
    /\ \/ "release" \in posted /\ Goes(c, Advancing("COMPENSATION_REQUESTED", "COMPENSATED"))
       \/ Goes(c, Repairing("COMPENSATION_REQUESTED", c))
    /\ UNCHANGED record /\ WalletUnchanged

\* The wallet posts the command, or refuses it.
Land(command) ==
    /\ command \in inflight
    /\ inflight' = inflight \ {command}
    /\ posted' = posted \cup {command} \/ UNCHANGED posted
    /\ UNCHANGED <<record, calls>>

-----------------------------------------------------------------------------
(* The owner's progress.                                                   *)

\* What follows a phase that is durable.
After(to) ==
    IF to = "PERSISTENCE_FAILED"
    THEN Advancing("PERSISTENCE_FAILED", "COMPENSATION_REQUESTED")
    ELSE At(IF to = "RESERVED" THEN "persist"
            ELSE IF to = "COMPENSATION_REQUESTED" THEN "release" ELSE "finish")

\* What follows a phase that could not be written.
Without(to) ==
    IF to \in {"RESERVED", "PERSISTENCE_FAILED"}
    THEN Advancing(IF to = "RESERVED" THEN "RESERVE_REQUESTED" ELSE "RESERVED",
                   "COMPENSATION_REQUESTED")
    ELSE At("UNAVAILABLE")

\* Mutant: a phase is advanced whatever it has become.
Owns_AnyPhase(c, phase) == record.token = c

\* The condition of every write of the owner.
Owns(c, phase) == record.token = c /\ record.phase = phase

Advance(c) ==
    /\ calls[c].at = "advance"
    /\ \/ /\ Owns(c, calls[c].from)
          /\ record' = [record EXCEPT !.phase = calls[c].to]
          /\ \/ Goes(c, After(calls[c].to))
             \/ Lossy(c) /\ Goes(c, [calls[c] EXCEPT !.at = "advanced"])
       \/ /\ Lossy(c) \/ ~Owns(c, calls[c].from)
          /\ UNCHANGED record
          /\ Goes(c, [calls[c] EXCEPT !.at = "advanced"])
    /\ WalletUnchanged

CheckAdvanced(c) ==
    /\ calls[c].at = "advanced"
    /\ \/ Lossy(c) /\ Goes(c, Without(calls[c].to))
       \/ Goes(c, IF Owns(c, calls[c].to) THEN After(calls[c].to)
                  ELSE IF record.token # c \/ Closed THEN Consuming
                  ELSE Without(calls[c].to))
    /\ UNCHANGED record /\ WalletUnchanged

\* persistTask: the task, its saga, its queued event and the outcome.
Persist(c) ==
    /\ calls[c].at = "persist"
    /\ \/ /\ Owns(c, "RESERVED")
          /\ record' = [record EXCEPT !.phase = "SUCCEEDED"]
          /\ Goes(c, At("QUEUED")) \/ (Lossy(c) /\ Goes(c, At("persisted")))
       \/ /\ Lossy(c) \/ ~Owns(c, "RESERVED")
          /\ UNCHANGED record
          /\ Goes(c, At("persisted"))
    /\ WalletUnchanged

\* Mutant: a task whose persistence cannot be verified is compensated.
CheckPersisted_Presumes(c) ==
    /\ calls[c].at = "persisted"
    /\ \/ Lossy(c) /\ Goes(c, At("release"))
       \/ Goes(c, IF record.phase = "SUCCEEDED" THEN At("QUEUED")
                  ELSE IF Closed THEN At("UNAVAILABLE")
                  ELSE Advancing("RESERVED", "PERSISTENCE_FAILED"))
    /\ UNCHANGED record /\ WalletUnchanged

CheckPersisted(c) ==
    /\ calls[c].at = "persisted"
    /\ \/ Lossy(c) /\ Goes(c, At("UNAVAILABLE"))
       \/ Goes(c, IF record.phase = "SUCCEEDED" THEN At("QUEUED")
                  ELSE IF Closed THEN At("UNAVAILABLE")
                  ELSE Advancing("RESERVED", "PERSISTENCE_FAILED"))
    /\ UNCHANGED record /\ WalletUnchanged

\* Mutant: a compensated operation is closed without an error code.
Finish_NoCode(c) ==
    /\ calls[c].at = "finish"
    /\ \/ /\ Owns(c, "COMPENSATED")
          /\ record' = [record EXCEPT !.phase = "FAILED"]
          /\ \/ Goes(c, At("TASK_CREATION_FAILED"))
             \/ Lossy(c) /\ Goes(c, At("finished"))
       \/ /\ Lossy(c) \/ ~Owns(c, "COMPENSATED")
          /\ UNCHANGED record
          /\ Goes(c, At("finished"))
    /\ WalletUnchanged

\* persistFailureStatus of a compensated operation.
Finish(c) ==
    /\ calls[c].at = "finish"
    /\ \/ /\ Owns(c, "COMPENSATED")
          /\ record' = [record EXCEPT !.phase = "FAILED", !.code = "TASK_CREATION_FAILED"]
          /\ \/ Goes(c, At("TASK_CREATION_FAILED"))
             \/ Lossy(c) /\ Goes(c, At("finished"))
       \/ /\ Lossy(c) \/ ~Owns(c, "COMPENSATED")
          /\ UNCHANGED record
          /\ Goes(c, At("finished"))
    /\ WalletUnchanged

CheckFinished(c) ==
    /\ calls[c].at = "finished"
    /\ \/ Lossy(c) /\ Goes(c, At("UNAVAILABLE"))
       \/ Goes(c, IF record.token = c /\ record.phase = "FAILED"
                     /\ record.code = "TASK_CREATION_FAILED"
                  THEN At("TASK_CREATION_FAILED")
                  ELSE IF record.token # c THEN Consuming
                  ELSE At("UNAVAILABLE"))
    /\ UNCHANGED record /\ WalletUnchanged

-----------------------------------------------------------------------------
(* Waiting for the owner, and repair.                                      *)

\* What the record answers to any call.
AnswerOfRecord ==
    At(IF record.phase = "SUCCEEDED" THEN "QUEUED"
       ELSE IF record.phase = "FAILED" THEN record.code ELSE "REPAIR_REQUIRED")

\* Mutant: a compensated operation is not repaired.
Stalled_NotCompensated(phase) == phase \in Repairable \ {"COMPENSATED"}

Stalled(phase) == phase \in Repairable

\* awaitWinner polls until the operation is closed or patience runs out.  What
\* the last read found is only looked at for its phase, so that an operation
\* that was closed just then is answered as one that is still open.
Await(c) ==
    /\ calls[c] \in {Waiting, Consuming}
    /\ \/ Closed /\ Goes(c, AnswerOfRecord)
       \/ calls[c] = Consuming /\ Goes(c, At("IN_PROGRESS"))
       \/ /\ calls[c] = Waiting /\ Stalled(record.phase)
          /\ Goes(c, Repairing(record.phase, record.token))
       \/ /\ calls[c] = Waiting /\ ~Stalled(record.phase)
          /\ Goes(c, IF record.phase = "CLAIMED" THEN At("IN_PROGRESS")
                     ELSE At("UNAVAILABLE"))
    /\ UNCHANGED record /\ WalletUnchanged

RepairApplies(c) == Owns(calls[c].token, calls[c].from)

\* recordRepairRequired opens the operator's case with the outcome.
Repair(c) ==
    /\ calls[c].at = "repair"
    /\ \/ /\ RepairApplies(c)
          /\ record' = [record EXCEPT !.phase = "REPAIR_REQUIRED"]
          /\ \/ Goes(c, At("REPAIR_REQUIRED"))
             \/ Lossy(c) /\ Goes(c, [calls[c] EXCEPT !.at = "repaired"])
       \/ /\ Lossy(c) \/ ~RepairApplies(c)
          /\ UNCHANGED record
          /\ Goes(c, [calls[c] EXCEPT !.at = "repaired"])
    /\ WalletUnchanged

CheckRepaired(c) ==
    /\ calls[c].at = "repaired"
    /\ \/ Lossy(c) /\ Goes(c, At("UNAVAILABLE"))
       \/ Goes(c, IF record.token # calls[c].token THEN Consuming
                  ELSE IF record.phase = "REPAIR_REQUIRED" THEN At("REPAIR_REQUIRED")
                  ELSE At("UNAVAILABLE"))
    /\ UNCHANGED record /\ WalletUnchanged

\* The process of c dies, or a read it does not guard fails.
Crash(c) ==
    /\ Lossy(c) /\ calls[c].at \notin Answers
    /\ Goes(c, At("GONE"))
    /\ UNCHANGED record /\ WalletUnchanged

-----------------------------------------------------------------------------
Init ==
    /\ record = [phase |-> "NONE", token |-> None, amended |-> FALSE,
                 expired |-> FALSE, code |-> None]
    /\ calls = [c \in Calls |-> At("start")]
    /\ inflight = {}
    /\ posted = {}

Step(c) ==
    \/ Claim(c) \/ Reclaim(c) \/ GetQuote(c) \/ ReadClock(c)
    \/ Refuse(c) \/ CheckRefused(c) \/ Begin(c) \/ CheckBegun(c)
    \/ Reserve(c) \/ ReserveAnswered(c) \/ Release(c) \/ ReleaseAnswered(c)
    \/ Advance(c) \/ CheckAdvanced(c) \/ Persist(c) \/ CheckPersisted(c)
    \/ Finish(c) \/ CheckFinished(c)
    \/ Await(c) \/ Repair(c) \/ CheckRepaired(c)

Next ==
    \/ \E c \in Calls : Step(c) \/ Crash(c)
    \/ \E command \in {"reserve", "release"} : Land(command)
    \/ Expire

Spec == Init /\ [][Next]_vars

\* A call runs to its answer unless its process dies.
LiveSpec == Spec /\ \A c \in Calls : WF_vars(Step(c))

-----------------------------------------------------------------------------
(* Correctness.                                                            *)

Phases == {"NONE", "CLAIMED", "SUCCEEDED", "FAILED", "REPAIR_REQUIRED"} \cup Repairable

Places == {"start", "reclaim", "quote", "begin", "beginning", "begun", "refuse",
           "refusing", "refused", "reserve", "reserving", "advance", "advanced",
           "persist", "persisted", "release", "releasing", "finish", "finished",
           "await", "consume", "repair", "repaired"} \cup Answers

TypeOK ==
    /\ record \in [phase : Phases, token : Calls \cup {None}, amended : BOOLEAN,
                   expired : BOOLEAN,
                   code : {"QUOTE_REFUSED", "TASK_CREATION_FAILED", None}]
    /\ calls \in [Calls -> [at : Places, from : Phases \cup {None},
                            to : Phases \cup {None}, token : Calls \cup {None}]]
    /\ inflight \subseteq {"reserve", "release"}
    /\ posted \subseteq {"reserve", "release"}

Held == "reserve" \in posted /\ "release" \notin posted

\* No reservation is orphaned: points that are held, or may yet be by a
\* request on its way, belong to a queued task, to an operation that a later
\* call can still close, or to an operator's case.
HoldAccounted ==
    Held \/ "reserve" \in inflight =>
        record.phase \in Repairable \cup {"SUCCEEDED", "REPAIR_REQUIRED"}

\* A queued task stays funded: its reservation is posted and no compensation
\* is posted or on its way.
QueuedIsFunded ==
    record.phase = "SUCCEEDED" =>
        /\ "reserve" \in posted
        /\ "release" \notin inflight \cup posted

\* No answer is taken back: what any call with the key was told is what the
\* operation came to, and a caller told that it failed has his points.
AnswersHold ==
    \A c \in Calls :
        /\ calls[c].at = "QUEUED" => record.phase = "SUCCEEDED"
        /\ calls[c].at = "REPAIR_REQUIRED" => record.phase = "REPAIR_REQUIRED"
        /\ calls[c].at = "QUOTE_REFUSED" =>
               record.phase = "FAILED" /\ posted = {} /\ inflight = {}
        /\ calls[c].at = "TASK_CREATION_FAILED" =>
               record.phase = "FAILED" /\ ~Held /\ inflight = {}

\* What the operation came to, and what became of its points.
Outcome ==
    IF record.phase = "SUCCEEDED" THEN "queued"
    ELSE IF record.phase = "FAILED" THEN "failed"
    ELSE IF record.phase = "REPAIR_REQUIRED" THEN "escalated" ELSE "open"

Hold ==
    IF "release" \in posted THEN "returned"
    ELSE IF "reserve" \in posted THEN "held" ELSE "none"

Funding == INSTANCE TaskFunding WITH outcome <- Outcome, hold <- Hold

\* Taken together, the calls create at most one task, on held points that are
\* returned when there is none.
KeepsFunding == Funding!Spec

\* A reservation whose owner is gone does not wait for ever: a call that
\* comes when no other is running leaves the operation closed, or not yet
\* begun.
Finished(c) == calls[c].at \in Answers \cup {"start"}

RetryResolves ==
    \A c \in Reliable :
        (calls[c] = Waiting /\ \A b \in Calls \ {c} : Finished(b))
            ~> (Closed \/ record.phase = "CLAIMED" \/ \E b \in Calls \ {c} : ~Finished(b))
=============================================================================
