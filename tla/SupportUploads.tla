---------------------------- MODULE SupportUploads ----------------------------
(***************************************************************************)
(* The attachment of a support message (services/operations-service): the  *)
(* upload is reserved at the asset service, the message is written, and    *)
(* the reservation is finalized; or it is released.  A binding row records *)
(* how far that is.  Requests with one idempotency key and a worker that   *)
(* retries what is due work on it; generations, claims and the CAS of the  *)
(* row's update are to keep them apart.                                    *)
(* createFeedback runs the same saga, with one request.                    *)
(*                                                                         *)
(* One transaction, or one call of the asset service, is a step.  A        *)
(* transaction may fail, and its commit may lose its answer; a call may    *)
(* fail and still be executed, a reserve even later.  The asset service is *)
(* taken to answer truthfully, and a refused upload to stay refused.  Time *)
(* is the binding falling due, which ends its lease.                       *)
(***************************************************************************)
EXTENDS Integers

CONSTANTS
    Requests,       \* requests to send the message
    Workers,        \* processes that run retryPendingAttachmentFinalizations
    MaxGeneration,  \* bound on the rearmings of the binding
    None

Generations == 0..MaxGeneration

VARIABLES
    binding,        \* the SupportUploadBinding row, or None
    message,        \* generation whose upload the message has, or None
    remote,         \* remote[g]: SupportUploadReservation.status, or None
    compensation,   \* compensation[g]: SupportUploadCompensation.status, or None
    usable,         \* the asset service accepts new reservations of the upload
    late,           \* generations whose reserve may still be executed
    requests,       \* requests[r]: where request r is
    workers,        \* workers[w]: where worker w is
    forgotten,      \* generations closed by a request that knew of no
                    \* reservation (history)
    exposed         \* the message was attached with nothing to guard it (history)

vars == <<binding, message, remote, compensation, usable, late, requests, workers,
          forgotten, exposed>>

-----------------------------------------------------------------------------
\* The claim token of a request is the fence of its generation.
Fence == "fence"

Statuses == {"RESERVING", "RESERVED", "FINALIZE_PENDING", "FINALIZED", "RELEASE_PENDING",
             "RELEASED", "CANCELLED"}

\* Rows of SupportUploadBinding.
Rows == [gen : Generations, status : Statuses, token : BOOLEAN,
         claim : Workers \cup {Fence, None}, due : BOOLEAN]

Distinct ==
    /\ MaxGeneration \in Nat
    /\ Fence \notin Workers \cup {None}
    /\ None \notin Generations \cup Rows \cup Statuses \cup Workers

Intent(g) == [gen |-> g, status |-> "RESERVING", token |-> FALSE, claim |-> Fence,
              due |-> FALSE]

\* held: the reservation is known to the request.
Idle == [at |-> "idle", gen |-> None, held |-> FALSE]

At(r, place) == requests[r].at = place

Goes(r, place) == requests' = [requests EXCEPT ![r].at = place]

\* matchesGeneration.
Current(r) == binding # None /\ binding.gen = requests[r].gen

Moves(status) == binding' = [binding EXCEPT !.status = status]

\* status, free of any claim; due at once or after a while.
Unclaims(status, due) ==
    binding' = [binding EXCEPT !.status = status, !.claim = None, !.due = due]

outside == <<remote, compensation, usable, late>>
history == <<forgotten, exposed>>

-----------------------------------------------------------------------------
(* Reserving.                                                              *)

\* The snapshot finds the message, or nothing.
Send(r) ==
    /\ At(r, "idle")
    /\ Goes(r, IF message = None THEN "intent" ELSE "done")
    /\ UNCHANGED <<binding, message, outside, workers, history>>

Over(b) == b # None /\ b.status \in {"RELEASED", "CANCELLED"}

\* beginSupportUploadIntent; whoever finds an intent waits for its message.
BeginIntent(r) ==
    /\ At(r, "intent")
    /\ \/ /\ binding = None \/ Over(binding)
          /\ LET g == IF binding = None THEN 0 ELSE binding.gen + 1
             IN  /\ g \in Generations
                 /\ binding' = Intent(g)
                 /\ \E place \in {"check", "done"} :
                       requests' = [requests EXCEPT ![r] = [at |-> place, gen |-> g, held |-> FALSE]]
       \/ /\ binding # None /\ ~Over(binding)
          /\ Goes(r, "done")
          /\ UNCHANGED binding
    /\ UNCHANGED <<message, outside, workers, history>>

IsMine(r, status) == Current(r) /\ binding.status = status /\ binding.claim = Fence

\* assertCurrentGeneration.
CheckGeneration(r) ==
    /\ At(r, "check")
    /\ \/ IsMine(r, "RESERVING")
          /\ binding' = [binding EXCEPT !.due = FALSE] /\ Goes(r, "reserve")
       \/ UNCHANGED binding /\ Goes(r, "release")
    /\ UNCHANGED <<message, outside, workers, history>>

\* The asset service: reserve is idempotent, whatever has become of the row.
Executes(g) == remote' = [remote EXCEPT ![g] = IF @ = None THEN "RESERVED" ELSE @]

Refused(g) == remote[g] = None /\ ~usable

Reserve(r) ==
    /\ At(r, "reserve")
    /\ LET g == requests[r].gen
       IN  \/ /\ ~Refused(g)
              /\ Executes(g)
              /\ requests' = [requests EXCEPT ![r].at = "record", ![r].held = TRUE]
              /\ UNCHANGED late
           \/ /\ ~Refused(g)
              /\ late' = late \cup {g}
              /\ Goes(r, "release")
              /\ UNCHANGED remote
           \/ /\ Refused(g)
              /\ Goes(r, "release")
              /\ UNCHANGED <<remote, late>>
    /\ UNCHANGED <<binding, message, compensation, usable, workers, history>>

ExecuteLate(g) ==
    /\ g \in late /\ ~Refused(g)
    /\ Executes(g)
    /\ late' = late \ {g}
    /\ UNCHANGED <<binding, message, compensation, usable, requests, workers, history>>

\* The upload expires, or its asset is deleted.
BecomesUnusable ==
    /\ usable
    /\ usable' = FALSE
    /\ UNCHANGED <<binding, message, remote, compensation, late, requests, workers, history>>

RecordReserved(r) ==
    /\ At(r, "record")
    /\ \/ /\ IsMine(r, "RESERVING")
          /\ binding' = [binding EXCEPT !.status = "RESERVED", !.token = TRUE, !.due = FALSE]
          /\ Goes(r, "attach") \/ Goes(r, "release")
       \/ UNCHANGED binding /\ Goes(r, "release")
    /\ UNCHANGED <<message, outside, workers, history>>

-----------------------------------------------------------------------------
(* The message.                                                            *)

\* attachBindings, which does not ask who holds the claim.
Attachable(r) == Current(r) /\ binding.status = "RESERVED" /\ binding.token

\* The transaction of the message; its revision may be stale ("look").
Attach(r) ==
    /\ At(r, "attach")
    /\ \/ /\ message = None /\ Attachable(r)
          /\ message' = binding.gen
          /\ Unclaims("FINALIZE_PENDING", TRUE)
          /\ \/ Goes(r, "finalize") /\ exposed' = (exposed \/ binding.claim # Fence)
             \/ Goes(r, "release") /\ exposed' = TRUE
       \/ /\ message # None
          /\ Goes(r, "finalize")
          /\ UNCHANGED <<binding, message, exposed>>
       \/ Goes(r, "look") /\ UNCHANGED <<binding, message, exposed>>
       \/ Goes(r, "release") /\ UNCHANGED <<binding, message, exposed>>
    /\ UNCHANGED <<outside, workers, forgotten>>

Look(r) ==
    /\ At(r, "look")
    /\ Goes(r, IF message = None THEN "release" ELSE "finalize")
    /\ UNCHANGED <<binding, message, outside, workers, history>>

\* finalize: true of what is reserved or finalized.
Finalizes(g) == remote[g] \in {"RESERVED", "FINALIZED"} /\ remote' = [remote EXCEPT ![g] = "FINALIZED"]

\* release: true of everything that was ever reserved.
Releases(g) == remote[g] # None /\ remote' = [remote EXCEPT ![g] = "RELEASED"]

Finalize(r) ==
    /\ At(r, "finalize")
    /\ \/ Finalizes(requests[r].gen) /\ (Goes(r, "finalized") \/ Goes(r, "note"))
       \/ UNCHANGED remote /\ Goes(r, "note")
    /\ UNCHANGED <<binding, message, compensation, usable, late, workers, history>>

SettleFinalized(r) ==
    /\ At(r, "finalized")
    /\ \/ /\ Current(r) /\ binding.status = "FINALIZE_PENDING" /\ binding.token
          /\ Unclaims("FINALIZED", FALSE)
          /\ Goes(r, "done") \/ Goes(r, "note")
       \/ /\ ~(Current(r) /\ binding.status = "FINALIZE_PENDING" /\ binding.token)
          /\ Goes(r, "done")
          /\ UNCHANGED binding
       \/ Goes(r, "note") /\ UNCHANGED binding
    /\ UNCHANGED <<message, outside, workers, history>>

\* recordSagaFailure, whatever the status.
Note(r) ==
    /\ At(r, "note")
    /\ IF Current(r) THEN Unclaims(binding.status, FALSE) ELSE UNCHANGED binding
    /\ Goes(r, "done")
    /\ UNCHANGED <<message, outside, workers, history>>

-----------------------------------------------------------------------------
(* Releasing.                                                              *)

Releasable(r) == Current(r) /\ ~Over(binding) /\ binding.status # "FINALIZED"

Release(r) ==
    /\ At(r, "release")
    /\ \/ /\ Releasable(r)
          /\ binding' = [binding EXCEPT !.status = "RELEASE_PENDING", !.claim = None, !.due = TRUE,
                                        !.token = @ \/ requests[r].held]
          /\ Goes(r, IF requests[r].held THEN "unreserve" ELSE "forget")
          /\ forgotten' = IF binding'.token THEN forgotten ELSE forgotten \cup {binding.gen}
       \/ /\ ~Releasable(r)
          /\ Goes(r, IF requests[r].held THEN "compensate" ELSE "done")
          /\ UNCHANGED <<binding, forgotten>>
    /\ UNCHANGED <<message, outside, workers, exposed>>

\* markReleasedWithoutRemoteReservation.
Forget(r) ==
    /\ At(r, "forget")
    /\ IF Current(r) /\ binding.status = "RELEASE_PENDING" /\ ~binding.token
       THEN Moves("RELEASED") ELSE UNCHANGED binding
    /\ Goes(r, "done")
    /\ UNCHANGED <<message, outside, workers, history>>

Unreserve(r) ==
    /\ At(r, "unreserve")
    /\ \/ Releases(requests[r].gen) /\ (Goes(r, "released") \/ Goes(r, "note"))
       \/ UNCHANGED remote /\ Goes(r, "note")
    /\ UNCHANGED <<binding, message, compensation, usable, late, workers, history>>

SettleReleased(r) ==
    /\ At(r, "released")
    /\ IF Current(r) /\ binding.status = "RELEASE_PENDING" /\ binding.token
       THEN Unclaims("RELEASED", FALSE) ELSE UNCHANGED binding
    /\ Goes(r, "done")
    /\ UNCHANGED <<message, outside, workers, history>>

\* enqueueCompensation; releaseCompensation is the worker's Compensate.
EnqueueCompensation(r) ==
    /\ At(r, "compensate")
    /\ LET g == requests[r].gen
       IN  compensation' = [compensation EXCEPT ![g] = IF @ = None THEN "RELEASE_PENDING" ELSE @]
    /\ Goes(r, "done")
    /\ UNCHANGED <<binding, message, remote, usable, late, workers, history>>

\* The request dies, or a transaction of its error path fails.
Die(r) ==
    /\ requests[r].at \notin {"idle", "done"}
    /\ Goes(r, "done")
    /\ UNCHANGED <<binding, message, outside, workers, history>>

-----------------------------------------------------------------------------
(* retryPendingAttachmentFinalizations.                                    *)

Resting == [at |-> "idle", gen |-> None, status |-> None]

Job(w, place) == workers' = [workers EXCEPT ![w].at = place]

\* Mutant: a stale intent is closed without asking for its reservation.
FirstStep_Presumes ==
    IF binding.status = "RESERVING" THEN "settle"
    ELSE IF binding.token THEN "call" ELSE "fail"

FirstStep ==
    IF binding.status = "RESERVING" THEN "reserve"
    ELSE IF binding.token THEN "call" ELSE "fail"

Claim(w) ==
    /\ workers[w].at = "idle"
    /\ binding # None /\ binding.due
    /\ ~Over(binding) /\ binding.status # "FINALIZED"
    /\ binding' = [binding EXCEPT !.claim = w, !.due = FALSE]
    /\ workers' = [workers EXCEPT ![w] = [at |-> FirstStep, gen |-> binding.gen,
                                          status |-> binding.status]]
    /\ UNCHANGED <<message, outside, requests, history>>

Holds(w) == binding.gen = workers[w].gen /\ binding.claim = w

ReplayReserve(w) ==
    /\ workers[w].at = "reserve"
    /\ LET g == workers[w].gen
       IN  \/ ~Refused(g) /\ Executes(g) /\ Job(w, "own") /\ UNCHANGED late
           \/ ~Refused(g) /\ late' = late \cup {g} /\ Job(w, "fail") /\ UNCHANGED remote
           \/ Refused(g) /\ Job(w, "cancel") /\ UNCHANGED <<remote, late>>
    /\ UNCHANGED <<binding, message, compensation, usable, requests, history>>

Own(w) ==
    /\ workers[w].at = "own"
    /\ IF Holds(w) /\ binding.status = "RESERVING"
       THEN /\ binding' = [binding EXCEPT !.status = "RELEASE_PENDING", !.token = TRUE]
            /\ Job(w, "call")
       ELSE Job(w, "fail") /\ UNCHANGED binding
    /\ UNCHANGED <<message, outside, requests, history>>

\* Finalize or release, by the status the binding was claimed in.
Call(w) ==
    /\ workers[w].at = "call"
    /\ \/ /\ IF workers[w].status = "FINALIZE_PENDING" THEN Finalizes(workers[w].gen)
             ELSE Releases(workers[w].gen)
          /\ Job(w, "settle") \/ Job(w, "fail")
       \/ UNCHANGED remote /\ Job(w, "fail")
    /\ UNCHANGED <<binding, message, compensation, usable, late, requests, history>>

Settle(w) ==
    /\ workers[w].at = "settle"
    /\ IF Holds(w)
       THEN Unclaims(IF workers[w].status = "FINALIZE_PENDING" THEN "FINALIZED" ELSE "RELEASED", FALSE)
       ELSE UNCHANGED binding
    /\ workers' = [workers EXCEPT ![w] = Resting]
    /\ UNCHANGED <<message, outside, requests, history>>

GiveUp(w) ==
    /\ workers[w].at \in {"fail", "cancel"}
    /\ IF Holds(w)
       THEN Unclaims(IF workers[w].at = "cancel" THEN "CANCELLED" ELSE binding.status, FALSE)
       ELSE UNCHANGED binding
    /\ workers' = [workers EXCEPT ![w] = Resting]
    /\ UNCHANGED <<message, outside, requests, history>>

\* Also called by the request, in releaseStaleReservation.
Compensate(g) ==
    /\ compensation[g] = "RELEASE_PENDING"
    /\ Releases(g)
    /\ compensation' = [compensation EXCEPT ![g] = "RELEASED"] \/ UNCHANGED compensation
    /\ UNCHANGED <<binding, message, usable, late, requests, workers, history>>

\* The process is replaced: its claim stays until it falls due.
Stop(w) ==
    /\ workers[w] # Resting
    /\ workers' = [workers EXCEPT ![w] = Resting]
    /\ UNCHANGED <<binding, message, outside, requests, history>>

FallsDue ==
    /\ binding # None /\ ~binding.due /\ ~Over(binding) /\ binding.status # "FINALIZED"
    /\ binding' = [binding EXCEPT !.due = TRUE]
    /\ UNCHANGED <<message, outside, requests, workers, history>>

-----------------------------------------------------------------------------
Init ==
    /\ binding = None
    /\ message = None
    /\ remote = [g \in Generations |-> None]
    /\ compensation = [g \in Generations |-> None]
    /\ usable = TRUE
    /\ late = {}
    /\ requests = [r \in Requests |-> Idle]
    /\ workers = [w \in Workers |-> Resting]
    /\ forgotten = {}
    /\ exposed = FALSE

Serve(r) ==
    \/ Send(r) \/ BeginIntent(r) \/ CheckGeneration(r) \/ Reserve(r) \/ RecordReserved(r)
    \/ Attach(r) \/ Look(r) \/ Finalize(r) \/ SettleFinalized(r) \/ Note(r)
    \/ Release(r) \/ Forget(r) \/ Unreserve(r) \/ SettleReleased(r)
    \/ EnqueueCompensation(r) \/ Die(r)

Retry(w) ==
    \/ Claim(w) \/ ReplayReserve(w) \/ Own(w) \/ Call(w) \/ Settle(w) \/ GiveUp(w) \/ Stop(w)

Next ==
    \/ \E r \in Requests : Serve(r)
    \/ \E w \in Workers : Retry(w)
    \/ \E g \in Generations : ExecuteLate(g) \/ Compensate(g)
    \/ BecomesUnusable
    \/ FallsDue

Spec == Init /\ [][Next]_vars

-----------------------------------------------------------------------------
\* The upload of a message stays reserved for it, or finalized: whatever other
\* requests with its key, stale generations and retries do.  The exceptions are
\* messages that were written after the claim of the binding had passed to a
\* worker, and those whose commit lost its answer (attachBindings,
\* releaseReservations).
AttachedIsKept ==
    message # None /\ ~exposed => remote[message] \in {"RESERVED", "FINALIZED"}

\* A reservation at the asset service that is neither finalized nor released is
\* known to the binding or to a compensation, so that the worker will see to it,
\* whoever dies between the services.  The exceptions are generations that their
\* request has closed without asking the asset service, as it had no answer
\* (markReleasedWithoutRemoteReservation).
ReservationKnown ==
    \A g \in Generations \ forgotten : remote[g] = "RESERVED" =>
        \/ binding.gen = g /\ (binding.status = "RESERVING" \/ (binding.token /\ ~Over(binding)))
        \/ compensation[g] = "RELEASE_PENDING"

\* The asset service and the binding agree on the upload: both of them.
UploadsAccounted == AttachedIsKept /\ ReservationKnown
=============================================================================
