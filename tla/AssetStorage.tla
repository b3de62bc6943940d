---------------------------- MODULE AssetStorage ----------------------------
(***************************************************************************)
(* Assets (services/asset-service): rows in the database, objects in the   *)
(* object store.  A client uploads an object with a signed URL and then    *)
(* asks for it to be checked; a provider's result is copied under a        *)
(* reservation with a lease; an owner deletes and restores; the lifecycle  *)
(* job deletes objects under leases.                                       *)
(*                                                                         *)
(* One transaction, or one call of the object store, is a step.  A request *)
(* may end after any step, and its transaction may commit and lose its     *)
(* answer.  An object is only told apart by whether it passes the checks.  *)
(* Time appears as deadlines that pass; `take: 100' is never reached.  All *)
(* imports are of one result, so one reservation row; the object key of an *)
(* import is random, so it is named after the request that chose it.  A    *)
(* worker whose pod is replaced is one that takes no further step: claims  *)
(* stay until their leases end.  The owner deletes uploads only (a bound). *)
(***************************************************************************)
EXTENDS Integers, FiniteSets

CONSTANTS
    Uploads,    \* upload sessions, and their assets and objects
    Calls,      \* requests to complete an upload or to import the result
    Workers,    \* processes that run the lifecycle job
    Reliable,   \* those of them that are not abandoned for ever
    None

Keys == Uploads \cup Calls

Statuses == {"PENDING", "AVAILABLE", "DELETING", "DELETED"}

Imports == [status : {"RESERVED", "FAILED", "IMPORTED"}, key : Calls \cup {None},
            holder : Calls \cup {None}, passed : BOOLEAN]

\* Object keys are random: an upload never has the key of an import.
ASSUME KeysAssumption == Uploads \cap Calls = {}
ASSUME NoneAssumption ==
    None \notin Keys \cup Workers \cup Statuses \cup {"COMPLETED", "REJECTED", "EXPIRED"}
ASSUME ImportAssumption == None \notin Imports

VARIABLES
    objects,    \* objects[k]: what the object store holds under key k
    uploads,    \* uploads[u]: UploadSession.status, or None
    late,       \* uploads whose session has expired, and so has the signed URL
    assets,     \* assets[k]: Asset.status, or None
    retention,  \* retention[k]: the asset's (failed)TemporaryExpiresAt
    deletion,   \* deletion[k]: the AssetDeletion row, or None
    cleanup,    \* cleanup[k]: the AssetCleanup row, or None
    import,     \* the ResultImport row, or None
    calls,      \* calls[c]: where request c is, and on which upload
    workers,    \* workers[w]: where the job of worker w is
    exposed     \* imports that became available with nothing to guard them

rows == <<uploads, assets, retention, deletion, cleanup, import>>
clock == <<late>>
vars == <<objects, rows, clock, calls, workers, exposed>>

-----------------------------------------------------------------------------
(* Rows of work for the lifecycle job: AssetDeletion and AssetCleanup.     *)
(* A row with deletedAt is as good as none: every writer upserts it.       *)

Work(due) == [due |-> due, holder |-> None, lapsed |-> FALSE]

Claimable(r) == r # None /\ r.due /\ (r.holder = None \/ r.lapsed)

Claimed(r, w) == [r EXCEPT !.holder = w, !.lapsed = FALSE]

Unclaimed(r) == [r EXCEPT !.holder = None, !.lapsed = FALSE]

\* The row is still claimed under the token this worker was given.
HeldBy(r, w) == r # None /\ r.holder = w

At(c, place) == calls[c].at = place

To(c, place) == calls' = [calls EXCEPT ![c].at = place]

Upload(c) == calls[c].upload

-----------------------------------------------------------------------------
(* Direct uploads.                                                         *)

CreateUpload(u) ==
    /\ uploads[u] = None
    /\ import = None                            \* bound: uploads or the import
    /\ uploads' = [uploads EXCEPT ![u] = "PENDING"]
    /\ assets' = [assets EXCEPT ![u] = "PENDING"]
    /\ UNCHANGED <<objects, retention, deletion, cleanup, import, clock, calls,
                   workers, exposed>>

\* The client uses the signed URL, which refuses to overwrite (external).
PutObject(u) ==
    /\ uploads[u] # None /\ u \notin late /\ objects[u] = "absent"
    /\ \E content \in {"good", "bad"} : objects' = [objects EXCEPT ![u] = content]
    /\ UNCHANGED <<rows, clock, calls, workers, exposed>>

\* complete: findSession; the declaration of the client may be wrong.
FindSession(c, u) ==
    /\ At(c, "idle") /\ uploads[u] = "PENDING"
    /\ \E place \in IF u \in late THEN {"expire"} ELSE {"inspect", "reject"} :
           calls' = [calls EXCEPT ![c] = [at |-> place, upload |-> u]]
    /\ UNCHANGED <<objects, rows, clock, workers, exposed>>

\* head and readPrefix, and a last look at the clock.
Inspect(c) ==
    /\ At(c, "inspect")
    /\ \/ objects[Upload(c)] = "good"
          /\ To(c, IF Upload(c) \in late THEN "expire" ELSE "complete")
       \/ objects[Upload(c)] = "bad" /\ To(c, "reject")
       \/ To(c, "done")
    /\ UNCHANGED <<objects, rows, clock, workers, exposed>>

\* The deadline was not passed at completedAt, which Inspect took.
CompletePending(c) ==
    /\ At(c, "complete")
    /\ \/ /\ uploads[Upload(c)] = "PENDING"
          /\ uploads' = [uploads EXCEPT ![Upload(c)] = "COMPLETED"]
          /\ assets' = [assets EXCEPT ![Upload(c)] = "AVAILABLE"]
          /\ retention' = [retention EXCEPT ![Upload(c)] = "running"]
       \/ UNCHANGED <<uploads, assets, retention>>
    /\ To(c, "done")
    /\ UNCHANGED <<objects, deletion, cleanup, import, clock, workers, exposed>>

\* claimTerminalPending: an expired session leaves its asset DELETING with
\* no retention, a rejected one keeps it for seven days.
ClaimTerminal(c) ==
    /\ calls[c].at \in {"expire", "reject"}
    /\ LET u == Upload(c)
           rejected == At(c, "reject")
       IN  \/ /\ uploads[u] = "PENDING"
              /\ uploads' = [uploads EXCEPT ![u] = IF rejected THEN "REJECTED" ELSE "EXPIRED"]
              /\ assets' = [assets EXCEPT ![u] = "DELETING"]
              /\ retention' = [retention EXCEPT ![u] = IF rejected THEN "running" ELSE "none"]
              /\ deletion' = [deletion EXCEPT ![u] = Work(~rejected)]
              /\ To(c, "discard") \/ To(c, "done")
           \/ To(c, "done") /\ UNCHANGED <<uploads, assets, retention, deletion>>
    /\ UNCHANGED <<objects, cleanup, import, clock, workers, exposed>>

\* deleteInvalidObject, and the same call at the end of a failed import;
\* an error is swallowed.
Discard(c) ==
    /\ At(c, "discard")
    /\ LET k == IF Upload(c) = None THEN c ELSE Upload(c)
       IN  objects' = [objects EXCEPT ![k] = "absent"] \/ UNCHANGED objects
    /\ To(c, "done")
    /\ UNCHANGED <<rows, clock, workers, exposed>>

-----------------------------------------------------------------------------
(* Import of the provider's result.                                        *)

Reservation(c) == [status |-> "RESERVED", key |-> c, holder |-> c, passed |-> FALSE]

Imported == import # None /\ import.status = "IMPORTED"

\* A reservation that nobody may be working on any more.  `passed' is the
\* end of the lease of a reservation.
Abandoned ==
    import # None /\ (import.status = "FAILED" \/ (import.status = "RESERVED" /\ import.passed))

\* findImported found nothing, and then reserveImport.
ReserveImport(c) ==
    /\ At(c, "idle")
    /\ \A u \in Uploads : uploads[u] = None     \* the same bound
    /\ \/ import = None /\ UNCHANGED cleanup
       \/ /\ Abandoned
          /\ cleanup' = IF import.key = None THEN cleanup
                        ELSE [cleanup EXCEPT ![import.key] = Work(TRUE)]
    /\ import' = Reservation(c)
    /\ To(c, "copy") \/ To(c, "done")
    /\ UNCHANGED <<objects, uploads, assets, retention, deletion, clock, workers, exposed>>

\* transport.copy; an error may leave an object behind.
CopyResult(c) ==
    /\ At(c, "copy")
    /\ \/ objects' = [objects EXCEPT ![c] = "good"] /\ To(c, "verify")
       \/ objects' = [objects EXCEPT ![c] = "bad"] /\ (To(c, "verify") \/ To(c, "fail"))
       \/ UNCHANGED objects /\ To(c, "fail")
    /\ UNCHANGED <<rows, clock, workers, exposed>>

VerifyResult(c) ==
    /\ At(c, "verify")
    /\ To(c, "fail") \/ (objects[c] = "good" /\ To(c, "persist"))
    /\ UNCHANGED <<objects, rows, clock, workers, exposed>>

OwnsReservation(c) == import.status = "RESERVED" /\ import.holder = c

\* persistImported.  Its lease is not asked for, and its answer may be lost:
\* in both cases a cleanup of the object may follow or be under way.
PersistImported(c) ==
    /\ At(c, "persist")
    /\ \/ /\ OwnsReservation(c)
          /\ assets' = [assets EXCEPT ![c] = "AVAILABLE"]
          /\ import' = [import EXCEPT !.status = "IMPORTED", !.key = None, !.holder = None,
                                       !.passed = FALSE]
          /\ \/ To(c, "done") /\ exposed' = IF import.passed THEN exposed \cup {c} ELSE exposed
             \/ To(c, "fail") /\ exposed' = exposed \cup {c}
          /\ UNCHANGED cleanup
       \/ /\ ~Imported /\ ~OwnsReservation(c)
          /\ cleanup' = [cleanup EXCEPT ![c] = Work(TRUE)]
          /\ To(c, "done") \/ To(c, "fail")
          /\ UNCHANGED <<assets, import, exposed>>
       \/ /\ Imported
          /\ To(c, "duplicate")
          /\ UNCHANGED <<assets, import, cleanup, exposed>>
       \/ To(c, "fail") /\ UNCHANGED <<assets, import, cleanup, exposed>>
    /\ UNCHANGED <<objects, uploads, retention, deletion, clock, workers>>

\* scheduleCleanup of the copy that came second.
ScheduleCleanup(c) ==
    /\ At(c, "duplicate")
    /\ \/ cleanup' = [cleanup EXCEPT ![c] = Work(TRUE)] /\ (To(c, "done") \/ To(c, "fail"))
       \/ UNCHANGED cleanup /\ To(c, "fail")
    /\ UNCHANGED <<objects, uploads, assets, retention, deletion, import, clock, workers,
                   exposed>>

\* failAndScheduleCleanup: the object is due in seven days, whoever owns it.
FailAndScheduleCleanup(c) ==
    /\ At(c, "fail")
    /\ \/ /\ import' = IF OwnsReservation(c)
                       THEN [import EXCEPT !.status = "FAILED", !.holder = None, !.passed = FALSE]
                       ELSE import
          /\ cleanup' = [cleanup EXCEPT ![c] = Work(FALSE)]
          /\ To(c, "done") \/ To(c, "discard")
       \/ UNCHANGED <<import, cleanup>> /\ To(c, "discard")
    /\ UNCHANGED <<objects, uploads, assets, retention, deletion, clock, workers, exposed>>

-----------------------------------------------------------------------------
(* The owner.                                                              *)

RequestDeletion(k) ==
    /\ assets[k] = "AVAILABLE"
    /\ assets' = [assets EXCEPT ![k] = "DELETED"]
    /\ deletion' = [deletion EXCEPT ![k] = Work(FALSE)]
    /\ UNCHANGED <<objects, uploads, retention, cleanup, import, clock, calls, workers, exposed>>

\* Mutant: a deletion may be undone for as long as it is not carried out.
Restorable_Undone(k) ==
    /\ assets[k] = "DELETED"
    /\ deletion[k] # None

Restorable(k) ==
    /\ assets[k] = "DELETED"
    /\ deletion[k] # None /\ ~deletion[k].due

RestoreDeletion(k) ==
    /\ Restorable(k)
    /\ assets' = [assets EXCEPT ![k] = "AVAILABLE"]
    /\ deletion' = [deletion EXCEPT ![k] = None]
    /\ UNCHANGED <<objects, uploads, retention, cleanup, import, clock, calls, workers, exposed>>

-----------------------------------------------------------------------------
(* The lifecycle job.                                                      *)

Resting == [at |-> "recover", todo |-> {}, key |-> None, deleted |-> FALSE]

Goes(w, s) == workers' = [workers EXCEPT ![w] = s]

Is(w, place) == workers[w].at = place

\* Mutant: only failed reservations are recovered, not abandoned ones.
RecoverImportOrphans_OnlyFailed(w) ==
    /\ Is(w, "recover")
    /\ cleanup' = IF import # None /\ import.status = "FAILED" /\ import.key # None
                  THEN [cleanup EXCEPT ![import.key] = Work(import.passed)]
                  ELSE cleanup
    /\ Goes(w, [Resting EXCEPT !.at = "schedule"])
    /\ UNCHANGED <<objects, uploads, assets, retention, deletion, import, clock, calls, exposed>>

\* For a failed reservation `passed' is the end of its seven days.
RecoverImportOrphans(w) ==
    /\ Is(w, "recover")
    /\ cleanup' = IF Abandoned /\ import.key # None
                  THEN [cleanup EXCEPT ![import.key] =
                            Work(import.status = "FAILED" => import.passed)]
                  ELSE cleanup
    /\ Goes(w, [Resting EXCEPT !.at = "schedule"])
    /\ UNCHANGED <<objects, uploads, assets, retention, deletion, import, clock, calls, exposed>>

ScheduleExpiredTemporary(w) ==
    /\ Is(w, "schedule")
    /\ LET expired == {k \in Keys : /\ retention[k] = "over"
                                    /\ assets[k] \in {"AVAILABLE", "DELETING"}}
       IN  /\ assets' = [k \in Keys |-> IF k \in expired THEN "DELETED" ELSE assets[k]]
           /\ deletion' = [k \in Keys |-> IF k \in expired THEN Work(TRUE) ELSE deletion[k]]
    /\ Goes(w, [Resting EXCEPT !.at = "deletions"])
    /\ UNCHANGED <<objects, uploads, retention, cleanup, import, clock, calls, exposed>>

\* claimDue.
ClaimDeletions(w) ==
    /\ Is(w, "deletions")
    /\ LET due == {k \in Keys : assets[k] = "DELETED" /\ Claimable(deletion[k])}
       IN  /\ deletion' = [k \in Keys |-> IF k \in due THEN Claimed(deletion[k], w)
                                          ELSE deletion[k]]
           /\ Goes(w, [Resting EXCEPT !.at = "deleting", !.todo = due])
    /\ UNCHANGED <<objects, uploads, assets, retention, cleanup, import, clock, calls, exposed>>

\* claimCleanupDue, after the last of the deletions.
ClaimCleanups(w) ==
    /\ Is(w, "deleting") /\ workers[w].todo = {} /\ workers[w].key = None
    /\ LET due == {k \in Keys : Claimable(cleanup[k])}
       IN  /\ cleanup' = [k \in Keys |-> IF k \in due THEN Claimed(cleanup[k], w)
                                         ELSE cleanup[k]]
           /\ Goes(w, [Resting EXCEPT !.at = "cleaning", !.todo = due])
    /\ UNCHANGED <<objects, uploads, assets, retention, deletion, import, clock, calls, exposed>>

\* The next pass starts from the beginning.
Finish(w) ==
    /\ Is(w, "cleaning") /\ workers[w].todo = {} /\ workers[w].key = None
    /\ Goes(w, Resting)
    /\ UNCHANGED <<objects, rows, clock, calls, exposed>>

\* objectStore.delete; it may fail, or succeed and lose its answer.
DeleteObject(w, k) ==
    /\ k \in workers[w].todo /\ workers[w].key = None
    /\ \E gone, told \in BOOLEAN :
          /\ told => gone
          /\ objects' = IF gone THEN [objects EXCEPT ![k] = "absent"] ELSE objects
          /\ Goes(w, [workers[w] EXCEPT !.todo = @ \ {k}, !.key = k, !.deleted = told])
    /\ UNCHANGED <<rows, clock, calls, exposed>>

\* completeDelete or recordDeleteFailure; the latter also when the former fails.
SettleDeletion(w) ==
    /\ Is(w, "deleting") /\ workers[w].key # None
    /\ LET k == workers[w].key
       IN  \/ /\ HeldBy(deletion[k], w) /\ assets[k] = "DELETED"
              /\ \/ workers[w].deleted /\ deletion' = [deletion EXCEPT ![k] = None]
                 \/ deletion' = [deletion EXCEPT ![k] = Unclaimed(@)]
           \/ UNCHANGED deletion
    /\ Goes(w, [workers[w] EXCEPT !.key = None, !.deleted = FALSE])
    /\ UNCHANGED <<objects, uploads, assets, retention, cleanup, import, clock, calls, exposed>>

\* completeCleanup, which also forgets the key of the reservation, or
\* recordCleanupFailure.
SettleCleanup(w) ==
    /\ Is(w, "cleaning") /\ workers[w].key # None
    /\ LET k == workers[w].key
       IN  \/ /\ HeldBy(cleanup[k], w) /\ workers[w].deleted
              /\ cleanup' = [cleanup EXCEPT ![k] = None]
              /\ import' = IF Abandoned /\ import.key = k THEN [import EXCEPT !.key = None]
                           ELSE import
           \/ /\ HeldBy(cleanup[k], w)
              /\ cleanup' = [cleanup EXCEPT ![k] = Unclaimed(@)]
              /\ UNCHANGED import
           \/ UNCHANGED <<cleanup, import>>
    /\ Goes(w, [workers[w] EXCEPT !.key = None, !.deleted = FALSE])
    /\ UNCHANGED <<objects, uploads, assets, retention, deletion, clock, calls, exposed>>

-----------------------------------------------------------------------------
(* Time.                                                                   *)

SessionExpires(u) ==
    /\ uploads[u] # None /\ u \notin late
    /\ late' = late \cup {u}
    /\ UNCHANGED <<objects, rows, calls, workers, exposed>>

\* A session lasts 15 minutes, a retention at least a day.
RetentionEnds(k) ==
    /\ retention[k] = "running" /\ k \in late
    /\ retention' = [retention EXCEPT ![k] = "over"]
    /\ UNCHANGED <<objects, uploads, assets, deletion, cleanup, import, clock, calls, workers,
                   exposed>>

DeletionFallsDue(k) ==
    /\ deletion[k] # None /\ ~deletion[k].due
    /\ k \in Uploads => k \in late
    /\ deletion' = [deletion EXCEPT ![k].due = TRUE]
    /\ UNCHANGED <<objects, uploads, assets, retention, cleanup, import, clock, calls, workers,
                   exposed>>

DeletionLapses(k) ==
    /\ deletion[k] # None /\ deletion[k].holder # None /\ ~deletion[k].lapsed
    /\ deletion' = [deletion EXCEPT ![k].lapsed = TRUE]
    /\ UNCHANGED <<objects, uploads, assets, retention, cleanup, import, clock, calls, workers,
                   exposed>>

CleanupFallsDue(k) ==
    /\ cleanup[k] # None /\ ~cleanup[k].due
    /\ cleanup' = [cleanup EXCEPT ![k].due = TRUE]
    /\ UNCHANGED <<objects, uploads, assets, retention, deletion, import, clock, calls, workers,
                   exposed>>

CleanupLapses(k) ==
    /\ cleanup[k] # None /\ cleanup[k].holder # None /\ ~cleanup[k].lapsed
    /\ cleanup' = [cleanup EXCEPT ![k].lapsed = TRUE]
    /\ UNCHANGED <<objects, uploads, assets, retention, deletion, import, clock, calls, workers,
                   exposed>>

\* The lease of a reservation ends, or the seven days of a failed one.
ImportAges ==
    /\ import # None /\ import.status \in {"RESERVED", "FAILED"} /\ ~import.passed
    /\ import' = [import EXCEPT !.passed = TRUE]
    /\ UNCHANGED <<objects, uploads, assets, retention, deletion, cleanup, clock, calls, workers,
                   exposed>>

-----------------------------------------------------------------------------
Init ==
    /\ objects = [k \in Keys |-> "absent"]
    /\ uploads = [u \in Uploads |-> None]
    /\ late = {}
    /\ assets = [k \in Keys |-> None]
    /\ retention = [k \in Keys |-> "none"]
    /\ deletion = [k \in Keys |-> None]
    /\ cleanup = [k \in Keys |-> None]
    /\ import = None
    /\ calls = [c \in Calls |-> [at |-> "idle", upload |-> None]]
    /\ workers = [w \in Workers |-> Resting]
    /\ exposed = {}

Request(c) ==
    \/ \E u \in Uploads : FindSession(c, u)
    \/ Inspect(c)
    \/ CompletePending(c)
    \/ ClaimTerminal(c)
    \/ Discard(c)
    \/ ReserveImport(c)
    \/ CopyResult(c)
    \/ VerifyResult(c)
    \/ PersistImported(c)
    \/ ScheduleCleanup(c)
    \/ FailAndScheduleCleanup(c)

Job(w) ==
    \/ RecoverImportOrphans(w)
    \/ ScheduleExpiredTemporary(w)
    \/ ClaimDeletions(w)
    \/ \E k \in Keys : DeleteObject(w, k)
    \/ SettleDeletion(w)
    \/ ClaimCleanups(w)
    \/ SettleCleanup(w)
    \/ Finish(w)

Ages(k) ==
    \/ RetentionEnds(k)
    \/ DeletionFallsDue(k)
    \/ DeletionLapses(k)
    \/ CleanupFallsDue(k)
    \/ CleanupLapses(k)

Next ==
    \/ \E u \in Uploads : CreateUpload(u) \/ PutObject(u)
    \/ \E c \in Calls : Request(c)
    \/ \E k \in Uploads : RequestDeletion(k) \/ RestoreDeletion(k)
    \/ \E w \in Workers : Job(w)
    \/ \E u \in Uploads : SessionExpires(u)
    \/ \E k \in Keys : Ages(k)
    \/ ImportAges

Spec == Init /\ [][Next]_vars

\* Deadlines pass; the interval of a reliable worker goes on; and the object
\* store does not fail for ever.  Nothing is asked of requests or owners.
Fairness ==
    /\ \A u \in Uploads : WF_vars(SessionExpires(u))
    /\ \A k \in Keys :
          /\ WF_vars(Ages(k))
          /\ SF_vars(\E w \in Workers : DeleteObject(w, k) /\ objects'[k] = "absent")
    /\ WF_vars(ImportAges)
    /\ \A w \in Reliable : WF_vars(Job(w))

LiveSpec == Spec /\ Fairness

-----------------------------------------------------------------------------
\* What is available, or may still be restored, has a checked object: no
\* order of requests, claims, lost leases and restorations deletes it.  The
\* exceptions are imports that committed after their lease had ended or whose
\* answer was lost: both cleanups of AvailableIsStored's exposed are real.
AvailableIsStored ==
    \A k \in Keys :
        (assets[k] = "AVAILABLE" \/ Restorable(k)) /\ k \notin exposed => objects[k] = "good"

\* A row leads to the object: a deletion the job will claim, a cleanup, or
\* the reservation of an import; and that row is not just being settled.
Remembered(k) ==
    /\ \A w \in Workers : workers[w].key # k
    /\ \/ assets[k] = "DELETED" /\ deletion[k] # None
       \/ assets[k] = "DELETING" /\ retention[k] # "none"
       \/ cleanup[k] # None
       \/ Abandoned /\ import.key = k

\* An object that is not wanted any more and that a row remembers is deleted in
\* the end, whatever requests and unreliable workers do half way.  A copy that
\* lands after the job has deleted its key, and before the job settles the row,
\* is forgotten: the reservation is no protection against that.
RememberedIsDeleted ==
    \A k \in Keys : objects[k] # "absent" /\ Remembered(k)
                        ~> objects[k] = "absent" \/ assets[k] = "AVAILABLE"
=============================================================================
