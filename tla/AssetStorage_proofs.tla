------------------------- MODULE AssetStorage_proofs -------------------------
(***************************************************************************)
(* What holds of AssetStorage for any number of uploads, requests and      *)
(* workers of the lifecycle job.                                           *)
(***************************************************************************)
EXTENDS AssetStorage, TLAPS

-----------------------------------------------------------------------------
(* Types.                                                                  *)

Places == {"idle", "expire", "inspect", "reject", "complete", "discard", "copy", "verify",
           "fail", "persist", "duplicate", "done"}

Jobs == {"recover", "schedule", "deletions", "deleting", "cleaning"}

Steps == [at : Jobs, todo : SUBSET Keys, key : Keys \cup {None}, deleted : BOOLEAN]

Rows == [due : BOOLEAN, holder : Workers \cup {None}, lapsed : BOOLEAN]

TypeOK ==
    /\ objects \in [Keys -> {"absent", "good", "bad"}]
    /\ uploads \in [Uploads -> {None, "PENDING", "COMPLETED", "REJECTED", "EXPIRED"}]
    /\ late \subseteq Uploads
    /\ assets \in [Keys -> Statuses \cup {None}]
    /\ retention \in [Keys -> {"none", "running", "over"}]
    /\ deletion \in [Keys -> Rows \cup {None}]
    /\ cleanup \in [Keys -> Rows \cup {None}]
    /\ import \in Imports \cup {None}
    /\ calls \in [Calls -> [at : Places, upload : Uploads \cup {None}]]
    /\ workers \in [Workers -> Steps]
    /\ exposed \subseteq Calls

-----------------------------------------------------------------------------
(* The inductive invariant.                                                *)

\* What is deleted and cannot be restored any more stays so.
Gone(k) == assets[k] = "DELETED" /\ (deletion[k] = None \/ deletion[k].due)

Wanted(k) == assets[k] = "AVAILABLE" \/ Restorable(k)

\* An upload has been decided once: its asset becomes available, or it is
\* never seen again.
UploadInv(u) ==
    /\ uploads[u] = None => assets[u] = None
    /\ uploads[u] = "PENDING" => assets[u] = "PENDING"
    /\ uploads[u] = "COMPLETED" => assets[u] \in {"AVAILABLE", "DELETED"}
    /\ uploads[u] \in {"EXPIRED", "REJECTED"} => assets[u] = "DELETING" \/ Gone(u)
    /\ cleanup[u] = None
    /\ Wanted(u) => objects[u] = "good"

\* No cleanup of this key is scheduled or under way.
Untouched(c) ==
    /\ cleanup[c] = None
    /\ \A w \in Workers : c \notin workers[w].todo

\* The request works under a reservation that nobody else may take.
Protected(c) == import # None /\ OwnsReservation(c) /\ ~import.passed

\* What a request relies on between its steps.
CallInv(c) ==
    /\ At(c, "idle") =>
           /\ Upload(c) = None
           /\ import # None => import.key # c /\ import.holder # c
           /\ Untouched(c)
    /\ calls[c].at \in {"inspect", "expire", "reject", "complete"} =>
           Upload(c) # None /\ uploads[Upload(c)] # None
    /\ At(c, "complete") /\ uploads[Upload(c)] = "PENDING" => objects[Upload(c)] = "good"
    /\ At(c, "discard") /\ Upload(c) # None => uploads[Upload(c)] \in {"EXPIRED", "REJECTED"}
    /\ calls[c].at \in {"copy", "verify", "persist", "duplicate", "fail"} =>
           import # None /\ Upload(c) = None
    /\ calls[c].at \in {"copy", "verify", "persist"} /\ Protected(c) => Untouched(c)
    /\ At(c, "persist") /\ Protected(c) => objects[c] = "good"

\* The asset of an import is there from the commit on.
ImportedInv(c) ==
    /\ assets[c] \in {None, "AVAILABLE"}
    /\ deletion[c] = None
    /\ retention[c] = "none"
    /\ assets[c] = "AVAILABLE" /\ c \notin exposed =>
           At(c, "done") /\ Imported /\ Untouched(c) /\ objects[c] = "good"

\* What a worker still has to delete nobody wants.
WorkerInv(w) ==
    /\ Is(w, "deleting") => \A k \in workers[w].todo : Gone(k)
    /\ Is(w, "cleaning") => workers[w].todo \subseteq Calls
    /\ workers[w].at \notin {"deleting", "cleaning"} => workers[w].todo = {}

IInv ==
    /\ TypeOK
    /\ \A u \in Uploads : UploadInv(u)
    /\ \A c \in Calls : CallInv(c) /\ ImportedInv(c)
    /\ Imported => import.key = None /\ import.holder = None
    /\ \A w \in Workers : WorkerInv(w)

-----------------------------------------------------------------------------
(* The rows of work.                                                       *)

LEMMA WorkType == \A due \in BOOLEAN : Work(due) \in Rows /\ Work(due).due = due
<1> QED
  BY DEF Work, Rows

LEMMA ClaimType ==
    ASSUME NEW r \in Rows, NEW w \in Workers
    PROVE  /\ Claimed(r, w) \in Rows /\ Claimed(r, w).due = r.due
           /\ Unclaimed(r) \in Rows /\ Unclaimed(r).due = r.due
<1> QED
  BY DEF Claimed, Unclaimed, Rows

LEMMA AgedType ==
    ASSUME NEW r \in Rows
    PROVE  /\ [r EXCEPT !.due = TRUE] \in Rows
           /\ [r EXCEPT !.lapsed = TRUE] \in Rows /\ [r EXCEPT !.lapsed = TRUE].due = r.due
<1> QED
  BY DEF Rows

LEMMA StepType ==
    ASSUME NEW s \in Steps
    PROVE  /\ [s EXCEPT !.key = None, !.deleted = FALSE] \in Steps
           /\ \A k \in Keys, told \in BOOLEAN :
                 [s EXCEPT !.todo = @ \ {k}, !.key = k, !.deleted = told] \in Steps
<1> QED
  BY DEF Steps

\* A request moves.
LEMMA MoveType ==
    ASSUME TypeOK, NEW c \in Calls, NEW place \in Places, To(c, place)
    PROVE  /\ calls' \in [Calls -> [at : Places, upload : Uploads \cup {None}]]
           /\ calls'[c].at = place /\ calls'[c].upload = calls[c].upload
           /\ \A d \in Calls \ {c} : calls'[d] = calls[d]
<1> QED
  BY DEF TypeOK, To

-----------------------------------------------------------------------------
(* What the parts of the invariant depend on.                              *)

LEMMA UploadFrame ==
    ASSUME IInv, UNCHANGED <<objects, uploads, assets, deletion, cleanup>>
    PROVE  \A u \in Uploads : UploadInv(u)'
<1> QED
  BY DEF IInv, UploadInv, Gone, Wanted, Restorable

LEMMA WorkerFrame ==
    ASSUME IInv, UNCHANGED <<assets, deletion, workers>>
    PROVE  \A w \in Workers : WorkerInv(w)'
<1> QED
  BY DEF IInv, WorkerInv, Gone, Is

\* What a worker has to delete, and what it works on, are keys.
LEMMA WorkerType ==
    ASSUME TypeOK, NEW w \in Workers
    PROVE  /\ workers[w] \in Steps /\ workers[w].at \in Jobs
           /\ workers[w].todo \subseteq Keys /\ workers[w].key \in Keys \cup {None}
<1> QED
  BY DEF TypeOK, Steps

LEMMA WorkerKept ==
    ASSUME IInv, UNCHANGED workers, \A k \in Keys : Gone(k) => Gone(k)'
    PROVE  \A w \in Workers : WorkerInv(w)'
<1> SUFFICES ASSUME NEW w \in Workers
             PROVE  WorkerInv(w)'
  OBVIOUS
<1>1. WorkerInv(w) /\ workers[w].todo \subseteq Keys
  BY WorkerType DEF IInv
<1> QED
  BY <1>1 DEF WorkerInv, Is

LEMMA ImportedFrame ==
    ASSUME IInv,
           UNCHANGED <<objects, assets, retention, deletion, cleanup, import, workers,
           exposed>>,
           \A d \in Calls : calls'[d] # calls[d] => ~At(d, "done")
    PROVE  \A d \in Calls : ImportedInv(d)'
<1> QED
  BY DEF IInv, ImportedInv, Imported, Untouched, At

\* What a step of this request itself does to what it relies on is to be shown.
LEMMA CallFrame ==
    ASSUME IInv, UNCHANGED <<objects, uploads, cleanup, import, workers>>
    PROVE  \A d \in Calls : calls'[d] = calls[d] => CallInv(d)'
<1> QED
  BY DEF IInv, CallInv, Untouched, Protected, OwnsReservation, At, Upload

\* A deletion that is settled is forgotten or released, and stays as due as it was.
LEMMA SettledDeletion ==
    ASSUME IInv, NEW w \in Workers, SettleDeletion(w), NEW k \in Keys
    PROVE  deletion'[k] = None \/ (deletion[k] # None /\ deletion'[k].due = deletion[k].due)
<1>1. \/ UNCHANGED deletion
      \/ \E j \in Keys : deletion' = [deletion EXCEPT ![j] = None]
      \/ \E j \in Keys : deletion[j] # None /\ deletion' = [deletion EXCEPT ![j] = Unclaimed(deletion[j])]
  BY DEF IInv, TypeOK, SettleDeletion, HeldBy
<1>2. \A j \in Keys : deletion[j] # None => Unclaimed(deletion[j]).due = deletion[j].due
  BY ClaimType DEF IInv, TypeOK
<1> QED
  BY <1>1, <1>2 DEF IInv, TypeOK

LEMMA CreateUploadKeeps ==
    ASSUME IInv, NEW u \in Uploads, CreateUpload(u)
    PROVE  IInv'
<1>1. TypeOK'
  BY DEF IInv, TypeOK, Keys, Statuses, CreateUpload, clock
<1>2. ASSUME NEW v \in Uploads
      PROVE  UploadInv(v)'
  BY DEF IInv, TypeOK, Keys, Statuses, UploadInv, Gone, Wanted, Restorable, CreateUpload,
         clock, WorkerInv, Is
<1>3. ASSUME NEW d \in Calls
      PROVE  CallInv(d)'
  BY NoneAssumption
  DEF IInv, TypeOK, Keys, Statuses, CallInv, Untouched, Protected, At, Upload,
      OwnsReservation, CreateUpload, clock
<1>4. ASSUME NEW d \in Calls
      PROVE  ImportedInv(d)'
  BY KeysAssumption
  DEF IInv, TypeOK, Keys, Statuses, ImportedInv, CreateUpload, clock, Imported
<1>5. (Imported => import.key = None /\ import.holder = None)'
  BY DEF IInv, Imported, CreateUpload, clock
<1>6. ASSUME NEW x \in Workers
      PROVE  WorkerInv(x)'
  BY NoneAssumption
  DEF IInv, TypeOK, Keys, Statuses, WorkerInv, Gone, Is, CreateUpload, clock, UploadInv,
      Wanted, Restorable
<1> QED
  BY <1>1, <1>2, <1>3, <1>4, <1>5, <1>6 DEF IInv

LEMMA PutObjectKeeps ==
    ASSUME IInv, NEW u \in Uploads, PutObject(u)
    PROVE  IInv'
<1>1. TypeOK'
  BY DEF IInv, TypeOK, Keys, Statuses, PutObject, rows, clock
<1>2. ASSUME NEW v \in Uploads
      PROVE  UploadInv(v)'
  BY DEF IInv, TypeOK, Keys, Statuses, UploadInv, Gone, Wanted, Restorable, PutObject,
         rows, clock, WorkerInv, Is
<1>3. ASSUME NEW d \in Calls
      PROVE  CallInv(d)'
  BY DEF IInv, TypeOK, Keys, Statuses, CallInv, Untouched, Protected, At, Upload,
         OwnsReservation, PutObject, rows, clock
<1>4. ASSUME NEW d \in Calls
      PROVE  ImportedInv(d)'
  BY DEF IInv, TypeOK, Keys, Statuses, ImportedInv, Untouched, At, PutObject, rows,
         clock, Imported
<1>5. (Imported => import.key = None /\ import.holder = None)'
  BY DEF IInv, Imported, PutObject, rows, clock
<1>6. \A x \in Workers : WorkerInv(x)'
  BY WorkerFrame DEF PutObject, rows, clock
<1> QED
  BY <1>1, <1>2, <1>3, <1>4, <1>5, <1>6 DEF IInv

LEMMA FindSessionKeeps ==
    ASSUME IInv, NEW c \in Calls, NEW u \in Uploads, FindSession(c, u)
    PROVE  IInv'
<1>1. TypeOK'
  BY DEF IInv, TypeOK, Rows, Imports, Places, Jobs, Keys, Statuses, FindSession, rows,
         clock
<1>2. \A v \in Uploads : UploadInv(v)'
  BY UploadFrame DEF FindSession, rows, clock
<1>3. ASSUME NEW d \in Calls
      PROVE  CallInv(d)'
  <2>1. PICK place \in {"expire", "inspect", "reject"} :
            calls' = [calls EXCEPT ![c] = [at |-> place, upload |-> u]]
    BY DEF FindSession
  <2>2. calls'[c].at = place /\ calls'[c].upload = u
        /\ (d # c => calls'[d] = calls[d])
    BY <2>1 DEF IInv, TypeOK
  <2>3. CASE d # c
    BY <2>2, <2>3, CallFrame DEF FindSession, rows
  <2>4. CASE d = c
    <3>1. uploads[u] = "PENDING" /\ uploads' = uploads
      BY DEF FindSession, rows
    <3>2. u # None /\ "PENDING" # None
      BY NoneAssumption DEF Keys, Statuses
    <3> QED
      BY <2>2, <2>4, <3>1, <3>2 DEF CallInv, At, Upload
  <2> QED
    BY <2>3, <2>4
<1>4. \A d \in Calls : ImportedInv(d)'
  BY ImportedFrame DEF IInv, TypeOK, To, At, FindSession, rows, clock
<1>5. (Imported => import.key = None /\ import.holder = None)'
  BY DEF IInv, Imported, FindSession, rows, clock
<1>6. \A x \in Workers : WorkerInv(x)'
  BY WorkerFrame DEF FindSession, rows, clock
<1> QED
  BY <1>1, <1>2, <1>3, <1>4, <1>5, <1>6 DEF IInv

LEMMA InspectKeeps ==
    ASSUME IInv, NEW c \in Calls, Inspect(c)
    PROVE  IInv'
<1>1. TypeOK'
  <2>1. PICK place \in {"expire", "complete", "reject", "done"} : To(c, place)
    BY DEF Inspect
  <2>2. calls' \in [Calls -> [at : Places, upload : Uploads \cup {None}]]
    BY <2>1, MoveType DEF IInv, Places
  <2> QED
    BY <2>2 DEF IInv, TypeOK, Inspect, rows, clock
<1>2. \A v \in Uploads : UploadInv(v)'
  BY UploadFrame DEF Inspect, rows, clock
<1>3. ASSUME NEW d \in Calls
      PROVE  CallInv(d)'
  <2>1. PICK place \in {"expire", "complete", "reject", "done"} :
            To(c, place) /\ (place = "complete" => objects[Upload(c)] = "good")
    BY DEF Inspect
  <2>2. calls'[c].at = place /\ calls'[c].upload = calls[c].upload
        /\ (d # c => calls'[d] = calls[d])
    BY <2>1, MoveType DEF IInv, Places
  <2>3. CASE d # c
    BY <2>2, <2>3, CallFrame DEF Inspect, rows
  <2>4. CASE d = c
    <3>1. Upload(c) # None /\ uploads[Upload(c)] # None
      BY DEF IInv, CallInv, Inspect, At
    <3>2. uploads' = uploads /\ objects' = objects
      BY DEF Inspect, rows
    <3> QED
      BY <2>1, <2>2, <2>4, <3>1, <3>2 DEF CallInv, At, Upload
  <2> QED
    BY <2>3, <2>4
<1>4. \A d \in Calls : ImportedInv(d)'
  BY ImportedFrame DEF IInv, TypeOK, To, At, Inspect, rows, clock
<1>5. (Imported => import.key = None /\ import.holder = None)'
  BY DEF IInv, Imported, Inspect, rows, clock
<1>6. \A x \in Workers : WorkerInv(x)'
  BY WorkerFrame DEF Inspect, rows, clock
<1> QED
  BY <1>1, <1>2, <1>3, <1>4, <1>5, <1>6 DEF IInv

LEMMA CompletePendingKeeps ==
    ASSUME IInv, NEW c \in Calls, CompletePending(c)
    PROVE  IInv'
<1>1. TypeOK'
  <2>1. calls' \in [Calls -> [at : Places, upload : Uploads \cup {None}]]
    <3>1. To(c, "done") /\ "done" \in Places
      BY DEF CompletePending, Places
    <3> QED
      BY <3>1, MoveType DEF IInv
  <2> QED
    <3>1. uploads' \in [Uploads -> {None, "PENDING", "COMPLETED", "REJECTED", "EXPIRED"}]
      BY DEF IInv, TypeOK, CompletePending
    <3>2. assets' \in [Keys -> Statuses \cup {None}]
      BY DEF IInv, TypeOK, CompletePending, Statuses
    <3>3. retention' \in [Keys -> {"none", "running", "over"}]
      BY DEF IInv, TypeOK, CompletePending
    <3> QED
      BY <2>1, <3>1, <3>2, <3>3 DEF IInv, TypeOK, CompletePending, clock
<1>2. ASSUME NEW v \in Uploads
      PROVE  UploadInv(v)'
  BY NoneAssumption
  DEF IInv, TypeOK, Keys, Statuses, UploadInv, Gone, Wanted, Restorable, CompletePending,
      To, Upload, clock, CallInv, WorkerInv, Protected, OwnsReservation, Is
<1>3. ASSUME NEW d \in Calls
      PROVE  CallInv(d)'
  BY NoneAssumption
  DEF IInv, TypeOK, Keys, Statuses, CallInv, Untouched, Protected, At, Upload,
      OwnsReservation, CompletePending, To, clock
<1>4. ASSUME NEW d \in Calls
      PROVE  ImportedInv(d)'
  BY KeysAssumption
  DEF IInv, TypeOK, Keys, Statuses, ImportedInv, Untouched, At, CompletePending, To,
      Upload, clock, CallInv, Protected, OwnsReservation, Imported
<1>5. (Imported => import.key = None /\ import.holder = None)'
  BY DEF IInv, Imported, CompletePending, clock
<1>6. \A x \in Workers : WorkerInv(x)'
  <2>1. ASSUME NEW k \in Keys, Gone(k)
        PROVE  Gone(k)'
    <3>1. uploads[Upload(c)] = "PENDING" /\ Upload(c) \in Uploads => k # Upload(c)
      BY <2>1 DEF IInv, UploadInv, Gone
    <3>2. Upload(c) \in Uploads
      BY DEF IInv, TypeOK, CallInv, CompletePending, At, Upload
    <3> QED
      BY <2>1, <3>1, <3>2 DEF IInv, TypeOK, Gone, CompletePending
  <2> QED
    BY <2>1, WorkerKept DEF CompletePending
<1> QED
  BY <1>1, <1>2, <1>3, <1>4, <1>5, <1>6 DEF IInv

LEMMA ClaimTerminalKeeps ==
    ASSUME IInv, NEW c \in Calls, ClaimTerminal(c)
    PROVE  IInv'
<1>1. TypeOK'
  <2>1. PICK place \in {"discard", "done"} : To(c, place)
    BY DEF ClaimTerminal
  <2>2. calls' \in [Calls -> [at : Places, upload : Uploads \cup {None}]]
    BY <2>1, MoveType DEF IInv, Places
  <2>3. Work(~At(c, "reject")) \in Rows
    BY WorkType
  <2>4. deletion' \in [Keys -> Rows \cup {None}]
    BY <2>3 DEF IInv, TypeOK, ClaimTerminal, clock
  <2>5. /\ uploads' \in [Uploads -> {None, "PENDING", "COMPLETED", "REJECTED", "EXPIRED"}]
        /\ assets' \in [Keys -> Statuses \cup {None}]
        /\ retention' \in [Keys -> {"none", "running", "over"}]
    <3>1. CASE UNCHANGED <<uploads, assets, retention>>
      BY <3>1 DEF IInv, TypeOK
    <3>2. CASE ~UNCHANGED <<uploads, assets, retention>>
      <4>1. PICK decided \in {"REJECTED", "EXPIRED"}, until \in {"running", "none"} :
                /\ uploads' = [uploads EXCEPT ![Upload(c)] = decided]
                /\ assets' = [assets EXCEPT ![Upload(c)] = "DELETING"]
                /\ retention' = [retention EXCEPT ![Upload(c)] = until]
        BY <3>2 DEF ClaimTerminal
      <4> QED
        BY <4>1 DEF IInv, TypeOK, Statuses
    <3> QED
      BY <3>1, <3>2
  <2> QED
    BY <2>2, <2>4, <2>5 DEF IInv, TypeOK, ClaimTerminal, clock
<1>2. ASSUME NEW v \in Uploads
      PROVE  UploadInv(v)'
  <2>1. UploadInv(v) /\ v \in Keys /\ objects' = objects /\ cleanup' = cleanup
    BY DEF IInv, ClaimTerminal, Keys
  <2>2. CASE UNCHANGED <<uploads, assets, retention, deletion>>
    BY <2>1, <2>2 DEF UploadInv, Gone, Wanted, Restorable
  <2>3. CASE ~UNCHANGED <<uploads, assets, retention, deletion>>
    <3>1. PICK decided \in {"REJECTED", "EXPIRED"}, due \in BOOLEAN :
              /\ uploads[Upload(c)] = "PENDING"
              /\ uploads' = [uploads EXCEPT ![Upload(c)] = decided]
              /\ assets' = [assets EXCEPT ![Upload(c)] = "DELETING"]
              /\ deletion' = [deletion EXCEPT ![Upload(c)] = Work(due)]
      BY <2>3 DEF ClaimTerminal
    <3>2. CASE v # Upload(c)
      <4>1. uploads'[v] = uploads[v] /\ assets'[v] = assets[v] /\ deletion'[v] = deletion[v]
        BY <2>1, <3>1, <3>2 DEF IInv, TypeOK
      <4> QED
        BY <2>1, <4>1 DEF UploadInv, Gone, Wanted, Restorable
    <3>3. CASE v = Upload(c)
      <4>1. uploads'[v] = decided /\ assets'[v] = "DELETING"
        BY <2>1, <3>1, <3>3 DEF IInv, TypeOK
      <4>2. decided # None
        BY NoneAssumption
      <4> QED
        BY <2>1, <4>1, <4>2 DEF UploadInv, Wanted, Restorable
    <3> QED
      BY <3>2, <3>3
  <2> QED
    BY <2>2, <2>3
<1>3. ASSUME NEW d \in Calls
      PROVE  CallInv(d)'
  <2>1. PICK place \in {"discard", "done"} : To(c, place)
    BY DEF ClaimTerminal
  <2>2. calls'[c].at = place /\ calls'[c].upload = calls[c].upload
        /\ (d # c => calls'[d] = calls[d])
    BY <2>1, MoveType DEF IInv, Places
  <2>3. \A u \in Uploads :
            uploads'[u] = uploads[u] \/ (uploads[u] = "PENDING" /\ uploads'[u] \in {"EXPIRED", "REJECTED"})
    BY DEF IInv, TypeOK, ClaimTerminal
  <2>4. CASE d = c
    <3>1. Upload(c) \in Uploads
      BY DEF IInv, TypeOK, CallInv, ClaimTerminal, Upload
    <3>2. place = "discard" => uploads'[Upload(c)] \in {"EXPIRED", "REJECTED"}
      BY <2>2, <3>1 DEF IInv, TypeOK, ClaimTerminal, To, Upload, At
    <3> QED
      BY <2>1, <2>2, <2>4, <3>1, <3>2 DEF CallInv, At, Upload
  <2>5. CASE d # c
    <3>1. CallInv(d) /\ Upload(d) \in Uploads \cup {None}
      BY DEF IInv, TypeOK, Upload
    <3> QED
      BY <2>2, <2>3, <2>5, <3>1, NoneAssumption DEF CallInv, Untouched, Protected,
         OwnsReservation, At, Upload, ClaimTerminal
  <2> QED
    BY <2>4, <2>5
<1>4. ASSUME NEW d \in Calls
      PROVE  ImportedInv(d)'
  <2>1. ImportedInv(d) /\ UNCHANGED <<objects, cleanup, import, workers, exposed>>
    BY DEF IInv, ClaimTerminal
  <2>2. d # Upload(c)
    <3>1. Upload(c) \in Uploads
      BY DEF IInv, TypeOK, CallInv, ClaimTerminal, Upload
    <3> QED
      BY <3>1, KeysAssumption
  <2>3. assets'[d] = assets[d] /\ retention'[d] = retention[d] /\ deletion'[d] = deletion[d]
    BY <2>2 DEF IInv, TypeOK, ClaimTerminal, Keys
  <2>4. At(d, "done") => At(d, "done")'
    BY DEF IInv, TypeOK, ClaimTerminal, At, To
  <2> QED
    BY <2>1, <2>3, <2>4 DEF ImportedInv, Imported, Untouched
<1>5. (Imported => import.key = None /\ import.holder = None)'
  BY DEF IInv, Imported, ClaimTerminal, clock
<1>6. \A x \in Workers : WorkerInv(x)'
  <2>1. ASSUME NEW k \in Keys, Gone(k)
        PROVE  Gone(k)'
    <3>1. uploads[Upload(c)] = "PENDING" /\ Upload(c) \in Uploads => k # Upload(c)
      BY <2>1 DEF IInv, UploadInv, Gone
    <3>2. Upload(c) \in Uploads
      BY DEF IInv, TypeOK, CallInv, ClaimTerminal, Upload
    <3>3. \/ UNCHANGED <<assets, deletion>>
          \/ k # Upload(c) /\ assets'[k] = assets[k] /\ deletion'[k] = deletion[k]
      BY <3>1, <3>2 DEF IInv, TypeOK, ClaimTerminal
    <3> QED
      BY <2>1, <3>3 DEF Gone
  <2> QED
    BY <2>1, WorkerKept DEF ClaimTerminal
<1> QED
  BY <1>1, <1>2, <1>3, <1>4, <1>5, <1>6 DEF IInv

LEMMA DiscardKeeps ==
    ASSUME IInv, NEW c \in Calls, Discard(c)
    PROVE  IInv'
<1>1. TypeOK'
  <2>1. calls' \in [Calls -> [at : Places, upload : Uploads \cup {None}]]
    BY MoveType DEF IInv, Discard, Places
  <2>2. objects' \in [Keys -> {"absent", "good", "bad"}]
    BY DEF IInv, TypeOK, Discard
  <2> QED
    BY <2>1, <2>2 DEF IInv, TypeOK, Discard, rows, clock
<1>2. ASSUME NEW v \in Uploads
      PROVE  UploadInv(v)'
  BY KeysAssumption
  DEF IInv, TypeOK, Discard, Keys, Statuses, UploadInv, Gone, Wanted, Restorable, To,
      Upload,
      rows, clock, CallInv, WorkerInv, Protected, OwnsReservation, Is
<1>3. ASSUME NEW d \in Calls
      PROVE  CallInv(d)'
  BY KeysAssumption
  DEF IInv, TypeOK, Discard, Keys, Statuses, CallInv, Untouched, Protected, At, Upload,
      OwnsReservation, To, rows, clock
<1>4. ASSUME NEW d \in Calls
      PROVE  ImportedInv(d)'
  BY KeysAssumption
  DEF IInv, TypeOK, Discard, Keys, Statuses, ImportedInv, Untouched, At, To, Upload,
      rows, clock,
      Protected, OwnsReservation, Imported
<1>5. (Imported => import.key = None /\ import.holder = None)'
  BY DEF IInv, Imported, Discard, rows, clock
<1>6. \A x \in Workers : WorkerInv(x)'
  BY WorkerFrame DEF Discard, rows, clock
<1> QED
  BY <1>1, <1>2, <1>3, <1>4, <1>5, <1>6 DEF IInv

LEMMA ReserveImportKeeps ==
    ASSUME IInv, NEW c \in Calls, ReserveImport(c)
    PROVE  IInv'
<1>1. TypeOK'
  <2>1. PICK place \in {"copy", "done"} : To(c, place)
    BY DEF ReserveImport
  <2>2. calls' \in [Calls -> [at : Places, upload : Uploads \cup {None}]]
    BY <2>1, MoveType DEF IInv, Places
  <2>3. cleanup' \in [Keys -> Rows \cup {None}]
    BY WorkType DEF IInv, TypeOK, ReserveImport, clock
  <2>4. import' \in Imports
    BY DEF ReserveImport, Reservation, Imports
  <2> QED
    BY <2>2, <2>3, <2>4 DEF IInv, TypeOK, ReserveImport, clock
<1>2. ASSUME NEW v \in Uploads
      PROVE  UploadInv(v)'
  BY KeysAssumption, NoneAssumption
  DEF IInv, TypeOK, Rows, Imports, Places, Jobs, Keys, Statuses, UploadInv, Wanted,
      Restorable, ReserveImport, Work, Reservation, To, Abandoned, clock
<1>3. ASSUME NEW d \in Calls
      PROVE  CallInv(d)'
  <2>1. PICK place \in {"copy", "done"} : To(c, place)
    BY DEF ReserveImport
  <2>2. calls'[c].at = place /\ calls'[c].upload = calls[c].upload
        /\ (d # c => calls'[d] = calls[d])
    BY <2>1, MoveType DEF IInv, Places
  <2>0. import' \in Imports
    BY DEF ReserveImport, Reservation, Imports
  <2>3. import' # None /\ import'.key = c /\ import'.holder = c /\ ~import'.passed
        /\ import'.status = "RESERVED"
    BY <2>0, ImportAssumption DEF ReserveImport, Reservation
  <2>4. CallInv(d) /\ CallInv(c)
    BY DEF IInv
  <2>5. (import = None \/ import.key # d) => cleanup'[d] = cleanup[d]
    <3>1. cleanup \in [Keys -> Rows \cup {None}] /\ d \in Keys
      BY DEF IInv, TypeOK, Keys
    <3> QED
      BY <3>1 DEF ReserveImport, Abandoned
  <2>6. CASE d = c
    BY <2>2, <2>3, <2>4, <2>5, <2>6 DEF CallInv, Untouched, At, Upload, ReserveImport
  <2>7. CASE d # c
    BY <2>2, <2>3, <2>4, <2>5, <2>7 DEF CallInv, Untouched, Protected, OwnsReservation,
       At, Upload, ReserveImport
  <2> QED
    BY <2>6, <2>7
<1>4. ASSUME NEW d \in Calls
      PROVE  ImportedInv(d)'
  <2>1. ImportedInv(d)
    BY DEF IInv
  <2>2. At(d, "done") => At(d, "done")'
    BY DEF IInv, TypeOK, ReserveImport, To, At
  <2>3. cleanup'[d] = cleanup[d] \/ (Abandoned /\ import.key = d)
    BY DEF IInv, TypeOK, ReserveImport, Keys
  <2> QED
    BY <2>1, <2>2, <2>3 DEF ImportedInv, Imported, Abandoned, Untouched, ReserveImport
<1>5. (Imported => import.key = None /\ import.holder = None)'
  BY DEF IInv, TypeOK, Keys, Statuses, Imported, ReserveImport, Work, Reservation, To,
         clock, ImportedInv
<1>6. \A x \in Workers : WorkerInv(x)'
  BY WorkerFrame DEF ReserveImport, clock
<1> QED
  BY <1>1, <1>2, <1>3, <1>4, <1>5, <1>6 DEF IInv

LEMMA CopyResultKeeps ==
    ASSUME IInv, NEW c \in Calls, CopyResult(c)
    PROVE  IInv'
<1>1. PICK place \in {"verify", "fail"}, content \in {"good", "bad", objects[c]} :
         To(c, place) /\ objects' = [objects EXCEPT ![c] = content]
  <2>1. objects = [objects EXCEPT ![c] = objects[c]]
    BY DEF IInv, TypeOK, Keys
  <2> QED
    BY <2>1 DEF CopyResult
<1>2. c \in Keys /\ At(c, "copy") /\ UNCHANGED <<rows, clock, workers, exposed>>
  BY DEF CopyResult, Keys
<1>3. /\ calls' \in [Calls -> [at : Places, upload : Uploads \cup {None}]]
      /\ calls'[c].at = place /\ calls'[c].upload = calls[c].upload
      /\ \A d \in Calls \ {c} : calls'[d] = calls[d]
  BY <1>1, MoveType DEF IInv, Places
<1>4. /\ objects' \in [Keys -> {"absent", "good", "bad"}]
      /\ \A k \in Keys \ {c} : objects'[k] = objects[k]
  BY <1>1, <1>2 DEF IInv, TypeOK
<1>5. TypeOK'
  BY <1>2, <1>3, <1>4 DEF IInv, TypeOK, rows, clock
<1>6. ASSUME NEW v \in Uploads
      PROVE  UploadInv(v)'
  <2>1. v \in Keys \ {c} /\ UploadInv(v)
    BY KeysAssumption DEF IInv, Keys
  <2> QED
    BY <1>2, <1>4, <2>1 DEF UploadInv, Gone, Wanted, Restorable, rows
<1>7. ASSUME NEW d \in Calls
      PROVE  CallInv(d)'
  <2>1. CallInv(d)
    BY DEF IInv
  <2>2. CASE d = c
    <3>1. import # None /\ Upload(c) = None /\ (Protected(c) => Untouched(c))
      BY <1>2, <2>1, <2>2 DEF CallInv, At
    <3> QED
      BY <1>2, <1>3, <2>2, <3>1 DEF CallInv, Untouched, Protected, At, Upload,
         OwnsReservation, rows
  <2>3. CASE d # c
    <3>1. calls'[d] = calls[d] /\ objects'[d] = objects[d]
      BY <1>3, <1>4, <2>3 DEF Keys
    <3>2. At(d, "complete") => objects'[Upload(d)] = objects[Upload(d)]
      <4>1. At(d, "complete") => Upload(d) \in Uploads
        BY <2>1 DEF IInv, TypeOK, CallInv, At, Upload
      <4> QED
        BY <1>4, <4>1, KeysAssumption DEF Keys
    <3> QED
      BY <1>2, <2>1, <3>1, <3>2 DEF CallInv, Untouched, Protected, At, Upload,
         OwnsReservation, rows
  <2> QED
    BY <2>2, <2>3
<1>8. ASSUME NEW d \in Calls
      PROVE  ImportedInv(d)'
  <2>1. ImportedInv(d)
    BY DEF IInv
  <2>2. CASE d = c
    BY <1>2, <2>1, <2>2 DEF ImportedInv, At, rows
  <2>3. CASE d # c
    <3>1. calls'[d] = calls[d] /\ objects'[d] = objects[d]
      BY <1>3, <1>4, <2>3 DEF Keys
    <3> QED
      BY <1>2, <2>1, <3>1 DEF ImportedInv, Untouched, At, Imported, rows
  <2> QED
    BY <2>2, <2>3
<1>9. (Imported => import.key = None /\ import.holder = None)'
  BY <1>2 DEF IInv, Imported, rows
<1>10. \A x \in Workers : WorkerInv(x)'
  BY <1>2, WorkerFrame DEF rows
<1> QED
  BY <1>5, <1>6, <1>7, <1>8, <1>9, <1>10 DEF IInv

LEMMA VerifyResultKeeps ==
    ASSUME IInv, NEW c \in Calls, VerifyResult(c)
    PROVE  IInv'
<1>1. TypeOK'
  BY NoneAssumption
  DEF IInv, TypeOK, Rows, Imports, Places, Jobs, Keys, Statuses, VerifyResult, At, To,
      rows, clock
<1>2. \A v \in Uploads : UploadInv(v)'
  BY UploadFrame DEF VerifyResult, rows, clock
<1>3. ASSUME NEW d \in Calls
      PROVE  CallInv(d)'
  BY DEF IInv, TypeOK, Keys, Statuses, CallInv, Untouched, Protected, At, Upload,
         OwnsReservation, VerifyResult, To, rows, clock
<1>4. \A d \in Calls : ImportedInv(d)'
  BY ImportedFrame DEF IInv, TypeOK, To, At, VerifyResult, rows, clock
<1>5. (Imported => import.key = None /\ import.holder = None)'
  BY DEF IInv, Imported, VerifyResult, rows, clock
<1>6. \A x \in Workers : WorkerInv(x)'
  BY WorkerFrame DEF VerifyResult, rows, clock
<1> QED
  BY <1>1, <1>2, <1>3, <1>4, <1>5, <1>6 DEF IInv

LEMMA PersistImportedKeeps ==
    ASSUME IInv, NEW c \in Calls, PersistImported(c)
    PROVE  IInv'
<1>1. TypeOK'
  <2>1. PICK place \in {"done", "fail", "duplicate"} : To(c, place)
    BY DEF PersistImported
  <2>2. calls' \in [Calls -> [at : Places, upload : Uploads \cup {None}]]
    BY <2>1, MoveType DEF IInv, Places
  <2>3. cleanup' \in [Keys -> Rows \cup {None}]
    BY WorkType DEF IInv, TypeOK, PersistImported, clock
  <2>4. import \in Imports
    BY DEF IInv, TypeOK, CallInv, PersistImported, At
  <2>5. import' \in Imports
    BY <2>4 DEF PersistImported, Imports
  <2>6. assets' \in [Keys -> Statuses \cup {None}] /\ exposed' \subseteq Calls
    BY DEF IInv, TypeOK, PersistImported, Statuses
  <2> QED
    BY <2>2, <2>3, <2>5, <2>6 DEF IInv, TypeOK, PersistImported, clock
<1>2. ASSUME NEW v \in Uploads
      PROVE  UploadInv(v)'
  <2>1. UploadInv(v) /\ v \in Keys /\ v # c
    BY KeysAssumption DEF IInv, Keys
  <2>2. assets'[v] = assets[v] /\ cleanup'[v] = cleanup[v]
    BY <2>1 DEF PersistImported, IInv, TypeOK
  <2> QED
    BY <2>1, <2>2 DEF UploadInv, Gone, Wanted, Restorable, PersistImported, clock
<1>3. ASSUME NEW d \in Calls
      PROVE  CallInv(d)'
  <2>1. PICK place \in {"done", "fail", "duplicate"} : To(c, place)
    BY DEF PersistImported
  <2>2. calls'[c].at = place /\ calls'[c].upload = calls[c].upload
        /\ (d # c => calls'[d] = calls[d])
    BY <2>1, MoveType DEF IInv, Places
  <2>3. CallInv(d) /\ CallInv(c) /\ import \in Imports
    BY DEF IInv, TypeOK, CallInv, PersistImported, At
  <2>4. import' # None /\ (UNCHANGED import \/ (import'.status = "IMPORTED" /\ import'.key = None /\ import'.holder = None))
    <3>1. import' \in Imports
      BY <2>3 DEF PersistImported, Imports
    <3> QED
      BY <2>3, <3>1, ImportAssumption DEF PersistImported, Imports
  <2>5. d # c => cleanup'[d] = cleanup[d]
    BY DEF IInv, TypeOK, PersistImported, Keys
  <2>6. CASE d = c
    BY <2>1, <2>2, <2>3, <2>4, <2>6 DEF CallInv, At, Upload, PersistImported
  <2>7. CASE d # c
    BY <2>2, <2>3, <2>4, <2>5, <2>7, NoneAssumption DEF CallInv, Untouched, Protected,
       OwnsReservation, At, Upload, PersistImported, Keys
  <2> QED
    BY <2>6, <2>7
<1>4. ASSUME NEW d \in Calls
      PROVE  ImportedInv(d)'
  <2>1. ImportedInv(d) /\ CallInv(c) /\ d \in Keys /\ d # None /\ import \in Imports
    BY NoneAssumption DEF IInv, TypeOK, Keys, CallInv, PersistImported, At
  <2>2. CASE d = c
    <3>1. CASE OwnsReservation(c) /\ ~import.passed /\ At(c, "done")'
               /\ assets' = [assets EXCEPT ![c] = "AVAILABLE"] /\ UNCHANGED cleanup
               /\ import' = [import EXCEPT !.status = "IMPORTED", !.key = None, !.holder = None, !.passed = FALSE]
      <4>1. Untouched(c) /\ objects[c] = "good"
        <5>1. Protected(c) /\ At(c, "persist")
          BY <2>1, <3>1, ImportAssumption DEF Protected, PersistImported
        <5> QED
          BY <2>1, <5>1 DEF CallInv, At
      <4>4. Imported'
        <5>1. import'.status = "IMPORTED" /\ import' \in Imports
          BY <2>1, <3>1 DEF Imports
        <5> QED
          BY <5>1, ImportAssumption DEF Imported
      <4>2. assets'[c] = "AVAILABLE"
        BY <2>1, <2>2, <3>1 DEF IInv, TypeOK
      <4>3. UNCHANGED <<objects, deletion, retention, cleanup, workers>>
        BY <3>1 DEF PersistImported
      <4> QED
        BY <2>1, <2>2, <3>1, <4>1, <4>2, <4>3, <4>4 DEF ImportedInv, Untouched
    <3>2. CASE c \in exposed'
      BY <2>1, <2>2, <3>2 DEF PersistImported, ImportedInv, IInv, TypeOK
    <3>3. CASE UNCHANGED <<assets, exposed>>
      BY <2>1, <2>2, <3>3 DEF PersistImported, ImportedInv, At
    <3>4. To(c, "done") => At(c, "done")'
      BY DEF IInv, TypeOK, To, At
    <3>5. \/ UNCHANGED <<assets, exposed>>
          \/ c \in exposed'
          \/ /\ OwnsReservation(c) /\ ~import.passed /\ To(c, "done")
             /\ assets' = [assets EXCEPT ![c] = "AVAILABLE"] /\ UNCHANGED cleanup
             /\ import' = [import EXCEPT !.status = "IMPORTED", !.key = None, !.holder = None,
                                          !.passed = FALSE]
      BY DEF PersistImported
    <3> QED
      BY <3>1, <3>2, <3>3, <3>4, <3>5
  <2>3. CASE d # c
    <3>1. assets'[d] = assets[d] /\ cleanup'[d] = cleanup[d] /\ calls'[d] = calls[d]
          /\ (d \notin exposed' <=> d \notin exposed)
      BY <2>1, <2>3 DEF IInv, TypeOK, PersistImported, To
    <3>2. Imported => UNCHANGED import
      BY DEF PersistImported, Imported, OwnsReservation
    <3> QED
      BY <2>1, <3>1, <3>2 DEF PersistImported, ImportedInv, Imported, Untouched, At
  <2> QED
    BY <2>2, <2>3
<1>5. (Imported => import.key = None /\ import.holder = None)'
  <2>1. import \in Imports
    BY DEF IInv, TypeOK, CallInv, PersistImported, At
  <2>2. UNCHANGED import \/ (import'.key = None /\ import'.holder = None)
    BY <2>1 DEF PersistImported, Imports
  <2> QED
    BY <2>2 DEF IInv, Imported
<1>6. \A x \in Workers : WorkerInv(x)'
  <2>1. ASSUME NEW k \in Keys, Gone(k)
        PROVE  Gone(k)'
    <3>1. k # c
      BY <2>1, NoneAssumption DEF IInv, ImportedInv, Gone, Statuses
    <3>2. assets'[k] = assets[k] /\ deletion' = deletion
      BY <3>1 DEF IInv, TypeOK, PersistImported
    <3> QED
      BY <2>1, <3>2 DEF Gone
  <2> QED
    BY <2>1, WorkerKept DEF PersistImported
<1> QED
  BY <1>1, <1>2, <1>3, <1>4, <1>5, <1>6 DEF IInv

LEMMA ScheduleCleanupKeeps ==
    ASSUME IInv, NEW c \in Calls, ScheduleCleanup(c)
    PROVE  IInv'
<1>1. TypeOK'
  <2>1. PICK place \in {"done", "fail"} : To(c, place)
    BY DEF ScheduleCleanup
  <2>2. calls' \in [Calls -> [at : Places, upload : Uploads \cup {None}]]
    BY <2>1, MoveType DEF IInv, Places
  <2>3. cleanup' \in [Keys -> Rows \cup {None}]
    BY WorkType DEF IInv, TypeOK, ScheduleCleanup, clock
  <2> QED
    BY <2>2, <2>3 DEF IInv, TypeOK, ScheduleCleanup, clock
<1>2. ASSUME NEW v \in Uploads
      PROVE  UploadInv(v)'
  BY KeysAssumption
  DEF IInv, TypeOK, Keys, Statuses, UploadInv, Gone, Wanted, Restorable, ScheduleCleanup,
      Work, To, clock, WorkerInv, Is
<1>3. ASSUME NEW d \in Calls
      PROVE  CallInv(d)'
  <2>1. PICK place \in {"done", "fail"} : To(c, place)
    BY DEF ScheduleCleanup
  <2>2. calls'[c].at = place /\ calls'[c].upload = calls[c].upload
        /\ (d # c => calls'[d] = calls[d])
    BY <2>1, MoveType DEF IInv, Places
  <2>3. CallInv(d) /\ UNCHANGED <<objects, uploads, import, workers>>
    BY DEF IInv, ScheduleCleanup
  <2>4. CASE d = c
    <3>1. import # None /\ Upload(c) = None
      BY <2>3, <2>4 DEF CallInv, ScheduleCleanup, At
    <3> QED
      BY <2>1, <2>2, <2>3, <2>4, <3>1 DEF CallInv, At, Upload
  <2>5. CASE d # c
    <3>1. cleanup'[d] = cleanup[d]
      BY <2>5 DEF IInv, TypeOK, ScheduleCleanup, Keys
    <3> QED
      BY <2>2, <2>3, <2>5, <3>1 DEF CallInv, Untouched, Protected, OwnsReservation, At, Upload
  <2> QED
    BY <2>4, <2>5
<1>4. ASSUME NEW d \in Calls
      PROVE  ImportedInv(d)'
  BY DEF IInv, TypeOK, Keys, Statuses, ImportedInv, Untouched, At, ScheduleCleanup, Work,
         To, clock, UploadInv, Wanted, Restorable, Imported
<1>5. (Imported => import.key = None /\ import.holder = None)'
  BY DEF IInv, Imported, ScheduleCleanup, clock
<1>6. \A x \in Workers : WorkerInv(x)'
  BY WorkerFrame DEF ScheduleCleanup, clock
<1> QED
  BY <1>1, <1>2, <1>3, <1>4, <1>5, <1>6 DEF IInv

LEMMA FailAndScheduleCleanupKeeps ==
    ASSUME IInv, NEW c \in Calls, FailAndScheduleCleanup(c)
    PROVE  IInv'
<1>1. TypeOK'
  <2>1. PICK place \in {"done", "discard"} : To(c, place)
    BY DEF FailAndScheduleCleanup
  <2>2. calls' \in [Calls -> [at : Places, upload : Uploads \cup {None}]]
    BY <2>1, MoveType DEF IInv, Places
  <2>3. cleanup' \in [Keys -> Rows \cup {None}]
    BY WorkType DEF IInv, TypeOK, FailAndScheduleCleanup, clock
  <2>4. import \in Imports
    BY DEF IInv, TypeOK, CallInv, FailAndScheduleCleanup, At
  <2>5. import' \in Imports
    BY <2>4 DEF FailAndScheduleCleanup, Imports
  <2> QED
    BY <2>2, <2>3, <2>5 DEF IInv, TypeOK, FailAndScheduleCleanup, clock
<1>2. ASSUME NEW v \in Uploads
      PROVE  UploadInv(v)'
  BY KeysAssumption
  DEF IInv, TypeOK, Keys, Statuses, UploadInv, Gone, Wanted, Restorable,
      FailAndScheduleCleanup, Work, To, clock, WorkerInv, Is
<1>3. ASSUME NEW d \in Calls
      PROVE  CallInv(d)'
  <2>1. PICK place \in {"done", "discard"} : To(c, place)
    BY DEF FailAndScheduleCleanup
  <2>2. calls'[c].at = place /\ calls'[c].upload = calls[c].upload
        /\ (d # c => calls'[d] = calls[d])
    BY <2>1, MoveType DEF IInv, Places
  <2>3. CallInv(d) /\ CallInv(c) /\ import \in Imports
    BY DEF IInv, TypeOK, CallInv, FailAndScheduleCleanup, At
  <2>4. import' # None /\ import'.key = import.key
        /\ (UNCHANGED import \/ (import'.status = "FAILED" /\ import'.holder = None))
    <3>1. import' \in Imports
      BY <2>3 DEF FailAndScheduleCleanup, Imports
    <3> QED
      BY <2>3, <3>1, ImportAssumption DEF FailAndScheduleCleanup, Imports
  <2>5. d # c => cleanup'[d] = cleanup[d]
    BY DEF IInv, TypeOK, FailAndScheduleCleanup, Keys
  <2>6. CASE d = c
    BY <2>1, <2>2, <2>3, <2>4, <2>6 DEF CallInv, At, Upload, FailAndScheduleCleanup
  <2>7. CASE d # c
    BY <2>2, <2>3, <2>4, <2>5, <2>7, NoneAssumption DEF CallInv, Untouched, Protected,
       OwnsReservation, At, Upload, FailAndScheduleCleanup, Keys
  <2> QED
    BY <2>6, <2>7
<1>4. ASSUME NEW d \in Calls
      PROVE  ImportedInv(d)'
  BY DEF IInv, TypeOK, Keys, Statuses, ImportedInv, Untouched, At,
         FailAndScheduleCleanup, Work, To, OwnsReservation, clock, Protected, Upload,
         Imported
<1>5. (Imported => import.key = None /\ import.holder = None)'
  <2>1. import \in Imports
    BY DEF IInv, TypeOK, CallInv, FailAndScheduleCleanup, At
  <2>2. UNCHANGED import \/ import'.status = "FAILED"
    BY <2>1 DEF FailAndScheduleCleanup, Imports
  <2> QED
    BY <2>2 DEF IInv, Imported
<1>6. \A x \in Workers : WorkerInv(x)'
  BY WorkerFrame DEF FailAndScheduleCleanup, clock
<1> QED
  BY <1>1, <1>2, <1>3, <1>4, <1>5, <1>6 DEF IInv

LEMMA RequestDeletionKeeps ==
    ASSUME IInv, NEW u \in Uploads, RequestDeletion(u)
    PROVE  IInv'
<1>1. TypeOK'
  BY WorkType DEF IInv, TypeOK, Keys, Statuses, RequestDeletion, clock
<1>2. ASSUME NEW v \in Uploads
      PROVE  UploadInv(v)'
  BY NoneAssumption
  DEF IInv, TypeOK, Keys, Statuses, UploadInv, Gone, Wanted, Restorable, RequestDeletion,
      Work, clock, WorkerInv, Is
<1>3. \A d \in Calls : CallInv(d)'
  BY CallFrame DEF RequestDeletion, clock
<1>4. ASSUME NEW d \in Calls
      PROVE  ImportedInv(d)'
  BY KeysAssumption
  DEF IInv, TypeOK, Keys, Statuses, ImportedInv, Untouched, At, RequestDeletion, Work,
      clock, Imported
<1>5. (Imported => import.key = None /\ import.holder = None)'
  BY DEF IInv, Imported, RequestDeletion, clock
<1>6. ASSUME NEW x \in Workers
      PROVE  WorkerInv(x)'
  BY DEF IInv, TypeOK, Keys, Statuses, WorkerInv, Gone, Is, RequestDeletion, Work, clock,
         UploadInv, Wanted, Restorable
<1> QED
  BY <1>1, <1>2, <1>3, <1>4, <1>5, <1>6 DEF IInv

LEMMA RestoreDeletionKeeps ==
    ASSUME IInv, NEW u \in Uploads, RestoreDeletion(u)
    PROVE  IInv'
<1>1. TypeOK'
  BY DEF IInv, TypeOK, Keys, Statuses, RestoreDeletion, clock
<1>2. ASSUME NEW v \in Uploads
      PROVE  UploadInv(v)'
  BY NoneAssumption
  DEF IInv, TypeOK, Keys, Statuses, UploadInv, Gone, Wanted, Restorable, RestoreDeletion,
      clock, WorkerInv, Is
<1>3. \A d \in Calls : CallInv(d)'
  BY CallFrame DEF RestoreDeletion, clock
<1>4. ASSUME NEW d \in Calls
      PROVE  ImportedInv(d)'
  BY KeysAssumption
  DEF IInv, TypeOK, Keys, Statuses, ImportedInv, Untouched, At, RestoreDeletion, clock,
      Imported
<1>5. (Imported => import.key = None /\ import.holder = None)'
  BY DEF IInv, Imported, RestoreDeletion, clock
<1>6. ASSUME NEW x \in Workers
      PROVE  WorkerInv(x)'
  BY DEF IInv, TypeOK, Keys, Statuses, WorkerInv, Gone, Is, RestoreDeletion, Restorable,
         clock, UploadInv, Wanted
<1> QED
  BY <1>1, <1>2, <1>3, <1>4, <1>5, <1>6 DEF IInv

LEMMA RecoverImportOrphansKeeps ==
    ASSUME IInv, NEW w \in Workers, RecoverImportOrphans(w)
    PROVE  IInv'
<1>1. TypeOK'
  BY WorkType
  DEF IInv, TypeOK, Imports, Places, Jobs, Steps, Keys, Statuses, RecoverImportOrphans, Resting,
      Goes, clock
<1>2. ASSUME NEW v \in Uploads
      PROVE  UploadInv(v)'
  BY KeysAssumption
  DEF IInv, TypeOK, Rows, Imports, Places, Jobs, Keys, Statuses, UploadInv, Gone, Wanted,
      Restorable, RecoverImportOrphans, Work, Resting, Goes, Is, Abandoned, clock,
      WorkerInv
<1>3. ASSUME NEW d \in Calls
      PROVE  CallInv(d)'
  BY DEF IInv, TypeOK, Keys, Statuses, CallInv, Untouched, Protected, At, Upload,
         OwnsReservation, RecoverImportOrphans, Work, Resting, Goes, Abandoned, clock
<1>4. ASSUME NEW d \in Calls
      PROVE  ImportedInv(d)'
  <2>1. ImportedInv(d)
    BY DEF IInv
  <2>2. cleanup'[d] = cleanup[d] \/ (Abandoned /\ import.key = d)
    BY DEF IInv, TypeOK, RecoverImportOrphans
  <2>3. \A x \in Workers : workers'[x].todo \subseteq workers[x].todo
    BY DEF IInv, TypeOK, RecoverImportOrphans, Goes, Resting
  <2> QED
    BY <2>1, <2>2, <2>3 DEF ImportedInv, Imported, Abandoned, Untouched,
       RecoverImportOrphans, At, clock
<1>5. (Imported => import.key = None /\ import.holder = None)'
  BY DEF IInv, Imported, RecoverImportOrphans, clock
<1>6. ASSUME NEW x \in Workers
      PROVE  WorkerInv(x)'
  BY DEF IInv, TypeOK, Keys, Statuses, WorkerInv, Gone, Is, RecoverImportOrphans, Work,
         Resting, Goes, clock, UploadInv, Wanted, Restorable
<1> QED
  BY <1>1, <1>2, <1>3, <1>4, <1>5, <1>6 DEF IInv

LEMMA ScheduleExpiredTemporaryKeeps ==
    ASSUME IInv, NEW w \in Workers, ScheduleExpiredTemporary(w)
    PROVE  IInv'
<1>1. TypeOK'
  BY WorkType
  DEF IInv, TypeOK, Imports, Places, Jobs, Steps, Keys, Statuses, ScheduleExpiredTemporary,
      Resting, Goes, clock
<1>2. ASSUME NEW v \in Uploads
      PROVE  UploadInv(v)'
  BY NoneAssumption
  DEF IInv, TypeOK, Keys, Statuses, UploadInv, Gone, Wanted, Restorable,
      ScheduleExpiredTemporary, Work, Resting, Goes, Is, clock, WorkerInv
<1>3. ASSUME NEW d \in Calls
      PROVE  CallInv(d)'
  BY DEF IInv, TypeOK, Keys, Statuses, CallInv, Untouched, Protected, At, Upload,
         OwnsReservation, ScheduleExpiredTemporary, Work, Resting, Goes, clock
<1>4. ASSUME NEW d \in Calls
      PROVE  ImportedInv(d)'
  BY DEF IInv, TypeOK, Keys, Statuses, ImportedInv, Untouched, At,
         ScheduleExpiredTemporary, Work, Resting, Goes, clock, Imported
<1>5. (Imported => import.key = None /\ import.holder = None)'
  BY DEF IInv, Imported, ScheduleExpiredTemporary, clock
<1>6. ASSUME NEW x \in Workers
      PROVE  WorkerInv(x)'
  <2>1. ASSUME NEW k \in Keys, Gone(k)
        PROVE  Gone(k)'
    BY <2>1 DEF Gone, ScheduleExpiredTemporary
  <2>2. WorkerInv(x) /\ workers[x].todo \subseteq Keys
    BY WorkerType DEF IInv
  <2>3. CASE x = w
    <3>1. workers'[x].at = "deletions" /\ workers'[x].todo = {}
      BY <2>3 DEF IInv, TypeOK, ScheduleExpiredTemporary, Goes, Resting
    <3> QED
      BY <3>1 DEF WorkerInv, Is
  <2>4. CASE x # w
    <3>1. workers'[x] = workers[x]
      BY <2>4 DEF IInv, TypeOK, ScheduleExpiredTemporary, Goes
    <3> QED
      BY <2>1, <2>2, <3>1 DEF WorkerInv, Is
  <2> QED
    BY <2>3, <2>4
<1> QED
  BY <1>1, <1>2, <1>3, <1>4, <1>5, <1>6 DEF IInv

LEMMA ClaimDeletionsKeeps ==
    ASSUME IInv, NEW w \in Workers, ClaimDeletions(w)
    PROVE  IInv'
<1>1. TypeOK'
  BY ClaimType
  DEF IInv, TypeOK, Imports, Places, Jobs, Steps, Keys, Statuses, ClaimDeletions, Claimable,
      Resting, Goes, clock
<1>2. ASSUME NEW v \in Uploads
      PROVE  UploadInv(v)'
  <2>1. UploadInv(v)
    BY DEF IInv
  <2>2. (deletion[v] = None => deletion'[v] = None) /\ (deletion[v] # None => deletion'[v].due = deletion[v].due)
    <3>1. v \in Keys /\ (deletion[v] # None => deletion[v] \in Rows)
      BY DEF IInv, TypeOK, Keys
    <3>2. deletion'[v] = IF assets[v] = "DELETED" /\ Claimable(deletion[v])
                         THEN Claimed(deletion[v], w) ELSE deletion[v]
      BY <3>1 DEF ClaimDeletions
    <3> QED
      BY <3>1, <3>2, ClaimType DEF Claimable
  <2> QED
    BY <2>1, <2>2 DEF UploadInv, Gone, Wanted, Restorable, ClaimDeletions
<1>3. ASSUME NEW d \in Calls
      PROVE  CallInv(d)'
  <2>1. CallInv(d) /\ ImportedInv(d) /\ d \in Keys
    BY DEF IInv, Keys
  <2>2. \A x \in Workers : d \in workers'[x].todo => d \in workers[x].todo
    BY <2>1, NoneAssumption DEF IInv, TypeOK, ClaimDeletions, Goes, Resting,
       ImportedInv, Statuses
  <2> QED
    BY <2>1, <2>2 DEF CallInv, Untouched, Protected, OwnsReservation, At, Upload,
       ClaimDeletions, clock
<1>4. ASSUME NEW d \in Calls
      PROVE  ImportedInv(d)'
  <2>1. ImportedInv(d) /\ d \in Keys
    BY DEF IInv, Keys
  <2>2. \A x \in Workers : d \in workers'[x].todo => d \in workers[x].todo
    BY <2>1, NoneAssumption DEF IInv, TypeOK, ClaimDeletions, Goes, Resting,
       ImportedInv, Statuses, Keys
  <2>3. deletion'[d] = None
    BY <2>1 DEF ClaimDeletions, ImportedInv, Claimable
  <2> QED
    BY <2>1, <2>2, <2>3 DEF ImportedInv, Imported, Untouched, At, ClaimDeletions, clock
<1>5. (Imported => import.key = None /\ import.holder = None)'
  BY DEF IInv, Imported, ClaimDeletions, clock
<1>6. ASSUME NEW x \in Workers
      PROVE  WorkerInv(x)'
  <2>1. ASSUME NEW k \in Keys, Gone(k)
        PROVE  Gone(k)'
    <3>1. assets' = assets /\ deletion'[k] = IF assets[k] = "DELETED" /\ Claimable(deletion[k])
                                            THEN Claimed(deletion[k], w) ELSE deletion[k]
      BY DEF ClaimDeletions
    <3>2. deletion[k] # None => Claimed(deletion[k], w).due = deletion[k].due
      BY ClaimType DEF IInv, TypeOK
    <3> QED
      BY <2>1, <3>1, <3>2 DEF Gone, Claimable
  <2>2. \A k \in Keys : assets[k] = "DELETED" /\ Claimable(deletion[k]) => Gone(k)
    BY DEF Claimable, Gone
  <2>3. WorkerInv(x) /\ workers[x].todo \subseteq Keys
    BY WorkerType DEF IInv
  <2>4. CASE x = w
    <3>1. workers'[w].at = "deleting" /\ \A k \in workers'[w].todo : k \in Keys /\ assets[k] = "DELETED" /\ Claimable(deletion[k])
      BY DEF IInv, TypeOK, ClaimDeletions, Goes, Resting
    <3> QED
      BY <2>1, <2>2, <2>4, <3>1 DEF WorkerInv, Is
  <2>5. CASE x # w
    <3>1. workers'[x] = workers[x]
      BY <2>5 DEF IInv, TypeOK, ClaimDeletions, Goes
    <3> QED
      BY <2>1, <2>3, <3>1 DEF WorkerInv, Is
  <2> QED
    BY <2>4, <2>5
<1> QED
  BY <1>1, <1>2, <1>3, <1>4, <1>5, <1>6 DEF IInv

LEMMA ClaimCleanupsKeeps ==
    ASSUME IInv, NEW w \in Workers, ClaimCleanups(w)
    PROVE  IInv'
<1>1. TypeOK'
  BY ClaimType
  DEF IInv, TypeOK, Imports, Places, Jobs, Steps, Keys, Statuses, ClaimCleanups, Claimable,
      Resting, Goes, clock
<1>2. ASSUME NEW v \in Uploads
      PROVE  UploadInv(v)'
  BY DEF IInv, TypeOK, Keys, Statuses, UploadInv, Gone, Wanted, Restorable,
         ClaimCleanups, Claimable, Resting, Goes, Is, clock, WorkerInv
<1>3. ASSUME NEW d \in Calls
      PROVE  CallInv(d)'
  <2>1. CallInv(d) /\ d \in Keys
    BY DEF IInv, Keys
  <2>2. Untouched(d) => Untouched(d)'
    BY <2>1 DEF IInv, TypeOK, ClaimCleanups, Goes, Resting, Untouched, Claimable
  <2> QED
    BY <2>1, <2>2 DEF CallInv, Protected, OwnsReservation, At, Upload, ClaimCleanups,
       clock
<1>4. ASSUME NEW d \in Calls
      PROVE  ImportedInv(d)'
  <2>1. ImportedInv(d) /\ d \in Keys
    BY DEF IInv, Keys
  <2>2. Untouched(d) => Untouched(d)'
    BY <2>1 DEF IInv, TypeOK, ClaimCleanups, Goes, Resting, Untouched, Claimable
  <2> QED
    BY <2>1, <2>2 DEF ImportedInv, Imported, At, ClaimCleanups, clock
<1>5. (Imported => import.key = None /\ import.holder = None)'
  BY DEF IInv, Imported, ClaimCleanups, clock
<1>6. ASSUME NEW x \in Workers
      PROVE  WorkerInv(x)'
  <2>1. \A k \in Keys : Claimable(cleanup[k]) => k \in Calls
    BY DEF IInv, UploadInv, Claimable, Keys
  <2>2. CASE x = w
    BY <2>1, <2>2 DEF IInv, TypeOK, ClaimCleanups, Goes, Resting, WorkerInv, Is
  <2>3. CASE x # w
    <3>1. workers'[x] = workers[x]
      BY <2>3 DEF IInv, TypeOK, ClaimCleanups, Goes
    <3> QED
      BY <3>1 DEF IInv, WorkerInv, Is, ClaimCleanups, Gone
  <2> QED
    BY <2>2, <2>3
<1> QED
  BY <1>1, <1>2, <1>3, <1>4, <1>5, <1>6 DEF IInv

LEMMA FinishKeeps ==
    ASSUME IInv, NEW w \in Workers, Finish(w)
    PROVE  IInv'
<1>1. TypeOK'
  BY DEF IInv, TypeOK, Rows, Imports, Places, Jobs, Steps, Keys, Statuses, Finish, Resting,
         Goes, rows, clock
<1>2. \A v \in Uploads : UploadInv(v)'
  BY UploadFrame DEF Finish, rows, clock
<1>3. ASSUME NEW d \in Calls
      PROVE  CallInv(d)'
  BY DEF IInv, TypeOK, Keys, Statuses, CallInv, Untouched, Protected, At, Upload,
         OwnsReservation, Finish, Resting, Goes, rows, clock
<1>4. ASSUME NEW d \in Calls
      PROVE  ImportedInv(d)'
  BY DEF IInv, TypeOK, Keys, Statuses, ImportedInv, Untouched, At, Finish, Resting, Goes,
         rows, clock, Imported
<1>5. (Imported => import.key = None /\ import.holder = None)'
  BY DEF IInv, Imported, Finish, rows, clock
<1>6. ASSUME NEW x \in Workers
      PROVE  WorkerInv(x)'
  BY DEF IInv, TypeOK, Keys, Statuses, WorkerInv, Gone, Is, Finish, Resting, Goes, rows,
         clock, UploadInv, Wanted, Restorable
<1> QED
  BY <1>1, <1>2, <1>3, <1>4, <1>5, <1>6 DEF IInv

LEMMA DeleteObjectKeeps ==
    ASSUME IInv, NEW w \in Workers, NEW k \in Keys, DeleteObject(w, k)
    PROVE  IInv'
<1>1. k \in workers[w].todo /\ UNCHANGED <<rows, clock, calls, exposed>>
  BY DEF DeleteObject
<1>2. PICK gone \in BOOLEAN, told \in BOOLEAN :
         /\ objects' = IF gone THEN [objects EXCEPT ![k] = "absent"] ELSE objects
         /\ workers' = [workers EXCEPT ![w] = [workers[w] EXCEPT !.todo = @ \ {k}, !.key = k, !.deleted = told]]
  BY DEF DeleteObject, Goes
<1>3. [workers[w] EXCEPT !.todo = @ \ {k}, !.key = k, !.deleted = told] \in Steps
  BY StepType DEF IInv, TypeOK
<1>4. /\ objects' \in [Keys -> {"absent", "good", "bad"}]
      /\ \A j \in Keys : j # k => objects'[j] = objects[j]
  BY <1>2 DEF IInv, TypeOK
<1>5. \A x \in Workers : /\ workers'[x].at = workers[x].at
                         /\ workers'[x].todo \subseteq workers[x].todo
  BY <1>2 DEF IInv, TypeOK
\* Nobody wants what is deleted, and no request to import works on it.
<1>6. Gone(k) \/ k \in Calls
  BY <1>1 DEF IInv, WorkerInv, Is
<1>7. k \in Calls => ~Untouched(k)
  BY <1>1 DEF Untouched
<1>8. TypeOK'
  BY <1>1, <1>2, <1>3, <1>4 DEF IInv, TypeOK, rows, clock
<1>9. ASSUME NEW v \in Uploads
      PROVE  UploadInv(v)'
  <2>1. UploadInv(v) /\ v \in Keys /\ (Wanted(v) => v # k)
    <3>1. Wanted(v) => ~Gone(v)
      BY DEF Wanted, Restorable, Gone
    <3> QED
      BY <3>1, <1>6, KeysAssumption DEF IInv, Keys
  <2> QED
    BY <1>1, <1>4, <2>1 DEF UploadInv, Gone, Wanted, Restorable, rows
<1>10. ASSUME NEW d \in Calls
       PROVE  CallInv(d)'
  <2>1. CallInv(d)
    BY DEF IInv
  <2>2. Untouched(d) => Untouched(d)' /\ d # k
    BY <1>1, <1>5, <1>7 DEF Untouched, rows
  <2>3. At(d, "complete") /\ uploads[Upload(d)] = "PENDING" =>
            objects'[Upload(d)] = objects[Upload(d)]
    <3>1. At(d, "complete") => Upload(d) \in Uploads
      BY <2>1 DEF IInv, TypeOK, CallInv, At, Upload
    <3>2. ASSUME NEW v \in Uploads, uploads[v] = "PENDING"
          PROVE  v # k
      <4>1. assets[v] = "PENDING"
        BY <3>2 DEF IInv, UploadInv
      <4> QED
        BY <4>1, <1>6, KeysAssumption DEF Gone
    <3> QED
      BY <1>4, <3>1, <3>2 DEF Keys
  <2>4. d # k => objects'[d] = objects[d]
    BY <1>4 DEF Keys
  <2> QED
    BY <1>1, <2>1, <2>2, <2>3, <2>4 DEF CallInv, Protected, OwnsReservation, At, Upload, rows
<1>11. ASSUME NEW d \in Calls
       PROVE  ImportedInv(d)'
  <2>1. ImportedInv(d) /\ (Untouched(d) => Untouched(d)' /\ d # k)
    BY <1>1, <1>5, <1>7 DEF IInv, Untouched, rows
  <2>2. d # k => objects'[d] = objects[d]
    BY <1>4 DEF Keys
  <2> QED
    BY <1>1, <2>1, <2>2 DEF ImportedInv, Imported, At, rows
<1>12. (Imported => import.key = None /\ import.holder = None)'
  BY <1>1 DEF IInv, Imported, rows
<1>13. ASSUME NEW x \in Workers
       PROVE  WorkerInv(x)'
  <2>1. WorkerInv(x)
    BY DEF IInv
  <2> QED
    BY <1>1, <1>5, <2>1 DEF WorkerInv, Gone, Is, rows
<1> QED
  BY <1>8, <1>9, <1>10, <1>11, <1>12, <1>13 DEF IInv

LEMMA SettleDeletionKeeps ==
    ASSUME IInv, NEW w \in Workers, SettleDeletion(w)
    PROVE  IInv'
<1>1. TypeOK'
  <2>1. [workers[w] EXCEPT !.key = None, !.deleted = FALSE] \in Steps
    BY StepType DEF IInv, TypeOK
  <2>2. \A k \in Keys : deletion[k] # None => Unclaimed(deletion[k]) \in Rows
    BY ClaimType DEF IInv, TypeOK
  <2>3. deletion' \in [Keys -> Rows \cup {None}]
    <3>1. workers[w].key \in Keys
      BY WorkerType DEF IInv, SettleDeletion
    <3> DEFINE k == workers[w].key
    <3>2. \/ UNCHANGED deletion
          \/ deletion' = [deletion EXCEPT ![k] = None]
          \/ deletion[k] # None /\ deletion' = [deletion EXCEPT ![k] = Unclaimed(deletion[k])]
      BY DEF SettleDeletion, HeldBy
    <3> QED
      BY <2>2, <3>1, <3>2 DEF IInv, TypeOK
  <2> QED
    BY <2>1, <2>3 DEF IInv, TypeOK, Goes, SettleDeletion, clock
<1>2. ASSUME NEW v \in Uploads
      PROVE  UploadInv(v)'
  <2>1. UploadInv(v) /\ v \in Keys
    BY DEF IInv, Keys
  <2>2. deletion'[v] = None \/ (deletion[v] # None /\ deletion'[v].due = deletion[v].due)
    BY <2>1, SettledDeletion
  <2> QED
    BY <2>1, <2>2 DEF UploadInv, Gone, Wanted, Restorable, SettleDeletion
<1>3. ASSUME NEW d \in Calls
      PROVE  CallInv(d)'
  BY DEF IInv, TypeOK, Keys, Statuses, CallInv, Untouched, Protected, At, Upload,
         OwnsReservation, SettleDeletion, Unclaimed, HeldBy, Goes, clock
<1>4. ASSUME NEW d \in Calls
      PROVE  ImportedInv(d)'
  BY DEF IInv, TypeOK, Keys, Statuses, ImportedInv, Untouched, At, SettleDeletion,
         Unclaimed, HeldBy, Goes, clock, Imported
<1>5. (Imported => import.key = None /\ import.holder = None)'
  BY DEF IInv, Imported, SettleDeletion, clock
<1>6. ASSUME NEW x \in Workers
      PROVE  WorkerInv(x)'
  <2>1. \A k \in Keys : Gone(k) => Gone(k)'
    BY SettledDeletion DEF Gone, SettleDeletion
  <2>2. workers'[x].todo = workers[x].todo /\ workers'[x].at = workers[x].at
    <3>1. workers' = [workers EXCEPT ![w] = [workers[w] EXCEPT !.key = None, !.deleted = FALSE]]
      BY DEF SettleDeletion, Goes
    <3> QED
      BY <3>1 DEF IInv, TypeOK, Steps
  <2>3. WorkerInv(x) /\ workers[x].todo \subseteq Keys
    BY WorkerType DEF IInv
  <2> QED
    BY <2>1, <2>2, <2>3 DEF WorkerInv, Is
<1> QED
  BY <1>1, <1>2, <1>3, <1>4, <1>5, <1>6 DEF IInv

LEMMA SettleCleanupKeeps ==
    ASSUME IInv, NEW w \in Workers, SettleCleanup(w)
    PROVE  IInv'
<1>1. TypeOK'
  <2>1. [workers[w] EXCEPT !.key = None, !.deleted = FALSE] \in Steps
    BY StepType DEF IInv, TypeOK
  <2>2. \A k \in Keys : cleanup[k] # None => Unclaimed(cleanup[k]) \in Rows
    BY ClaimType DEF IInv, TypeOK
  <2>3. cleanup' \in [Keys -> Rows \cup {None}]
    <3>1. workers[w].key \in Keys
      BY WorkerType DEF IInv, SettleCleanup
    <3> DEFINE k == workers[w].key
    <3>2. \/ UNCHANGED cleanup
          \/ cleanup' = [cleanup EXCEPT ![k] = None]
          \/ cleanup[k] # None /\ cleanup' = [cleanup EXCEPT ![k] = Unclaimed(cleanup[k])]
      BY DEF SettleCleanup, HeldBy
    <3> QED
      BY <2>2, <3>1, <3>2 DEF IInv, TypeOK
  <2>4. import' \in Imports \cup {None}
    <3>1. UNCHANGED import \/ (import \in Imports /\ import' = [import EXCEPT !.key = None])
      BY DEF IInv, TypeOK, SettleCleanup, Abandoned
    <3> QED
      BY <3>1 DEF IInv, TypeOK, Imports
  <2> QED
    BY <2>1, <2>3, <2>4 DEF IInv, TypeOK, Goes, SettleCleanup, clock
<1>2. ASSUME NEW v \in Uploads
      PROVE  UploadInv(v)'
  BY DEF IInv, TypeOK, Keys, Statuses, UploadInv, Gone, Wanted, Restorable,
         SettleCleanup, Unclaimed, HeldBy, Goes, Is, clock, WorkerInv
<1>3. ASSUME NEW d \in Calls
      PROVE  CallInv(d)'
  <2>1. CallInv(d) /\ d \in Keys
    BY DEF IInv, Keys
  <2>2. \A x \in Workers : workers'[x].todo = workers[x].todo
    BY DEF IInv, TypeOK, SettleCleanup, Goes
  <2>3. cleanup[d] = None => cleanup'[d] = None
    BY <2>1 DEF IInv, TypeOK, SettleCleanup, HeldBy
  <2>4. \/ UNCHANGED import
        \/ /\ import # None /\ import' # None /\ import'.key = None
           /\ import'.holder = import.holder /\ import'.status = import.status
           /\ import'.passed = import.passed
    BY ImportAssumption DEF IInv, TypeOK, Imports, SettleCleanup, Abandoned
  <2> QED
    BY <2>1, <2>2, <2>3, <2>4, NoneAssumption DEF CallInv, Untouched, Protected,
       OwnsReservation, At, Upload, SettleCleanup, Keys
<1>4. ASSUME NEW d \in Calls
      PROVE  ImportedInv(d)'
  BY DEF IInv, TypeOK, Keys, Statuses, ImportedInv, Untouched, At, SettleCleanup,
         Unclaimed, HeldBy, Goes, clock, Imported
<1>5. (Imported => import.key = None /\ import.holder = None)'
  BY DEF IInv, TypeOK, Rows, Imports, Places, Jobs, Keys, Statuses, Imported,
         SettleCleanup, Unclaimed, HeldBy, Goes, Abandoned, clock, ImportedInv, At
<1>6. ASSUME NEW x \in Workers
      PROVE  WorkerInv(x)'
  BY DEF IInv, TypeOK, Keys, Statuses, WorkerInv, Gone, Is, SettleCleanup, Unclaimed,
         HeldBy, Goes, clock, UploadInv, Wanted, Restorable
<1> QED
  BY <1>1, <1>2, <1>3, <1>4, <1>5, <1>6 DEF IInv

LEMMA SessionExpiresKeeps ==
    ASSUME IInv, NEW u \in Uploads, SessionExpires(u)
    PROVE  IInv'
<1>1. TypeOK'
  BY DEF IInv, TypeOK, Keys, Statuses, SessionExpires, rows
<1>2. \A v \in Uploads : UploadInv(v)'
  BY UploadFrame DEF SessionExpires, rows
<1>3. \A d \in Calls : CallInv(d)'
  BY CallFrame DEF SessionExpires, rows
<1>4. \A d \in Calls : ImportedInv(d)'
  BY ImportedFrame DEF SessionExpires, rows
<1>5. (Imported => import.key = None /\ import.holder = None)'
  BY DEF IInv, Imported, SessionExpires, rows
<1>6. \A x \in Workers : WorkerInv(x)'
  BY WorkerFrame DEF SessionExpires, rows
<1> QED
  BY <1>1, <1>2, <1>3, <1>4, <1>5, <1>6 DEF IInv

LEMMA RetentionEndsKeeps ==
    ASSUME IInv, NEW k \in Keys, RetentionEnds(k)
    PROVE  IInv'
<1>1. TypeOK'
  BY DEF IInv, TypeOK, Keys, Statuses, RetentionEnds, clock
<1>2. \A v \in Uploads : UploadInv(v)'
  BY UploadFrame DEF RetentionEnds, clock
<1>3. \A d \in Calls : CallInv(d)'
  BY CallFrame DEF RetentionEnds, clock
<1>4. ASSUME NEW d \in Calls
      PROVE  ImportedInv(d)'
  BY DEF IInv, TypeOK, Keys, Statuses, ImportedInv, Untouched, At, RetentionEnds, clock,
         Imported
<1>5. (Imported => import.key = None /\ import.holder = None)'
  BY DEF IInv, Imported, RetentionEnds, clock
<1>6. \A x \in Workers : WorkerInv(x)'
  BY WorkerFrame DEF RetentionEnds, clock
<1> QED
  BY <1>1, <1>2, <1>3, <1>4, <1>5, <1>6 DEF IInv

LEMMA DeletionFallsDueKeeps ==
    ASSUME IInv, NEW k \in Keys, DeletionFallsDue(k)
    PROVE  IInv'
<1>1. TypeOK'
  BY AgedType DEF IInv, TypeOK, Keys, Statuses, DeletionFallsDue, clock
<1>2. ASSUME NEW v \in Uploads
      PROVE  UploadInv(v)'
  BY DEF IInv, TypeOK, Keys, Statuses, UploadInv, Gone, Wanted, Restorable,
         DeletionFallsDue, clock, WorkerInv, Is
<1>3. \A d \in Calls : CallInv(d)'
  BY CallFrame DEF DeletionFallsDue, clock
<1>4. ASSUME NEW d \in Calls
      PROVE  ImportedInv(d)'
  BY DEF IInv, TypeOK, Keys, Statuses, ImportedInv, Untouched, At, DeletionFallsDue,
         clock, Imported
<1>5. (Imported => import.key = None /\ import.holder = None)'
  BY DEF IInv, Imported, DeletionFallsDue, clock
<1>6. ASSUME NEW x \in Workers
      PROVE  WorkerInv(x)'
  BY DEF IInv, TypeOK, Keys, Statuses, WorkerInv, Gone, Is, DeletionFallsDue, clock,
         UploadInv, Wanted, Restorable
<1> QED
  BY <1>1, <1>2, <1>3, <1>4, <1>5, <1>6 DEF IInv

LEMMA DeletionLapsesKeeps ==
    ASSUME IInv, NEW k \in Keys, DeletionLapses(k)
    PROVE  IInv'
<1>1. TypeOK'
  BY AgedType DEF IInv, TypeOK, Keys, Statuses, DeletionLapses, clock
<1>2. ASSUME NEW v \in Uploads
      PROVE  UploadInv(v)'
  BY DEF IInv, TypeOK, Keys, Statuses, UploadInv, Gone, Wanted, Restorable,
         DeletionLapses, clock, WorkerInv, Is
<1>3. \A d \in Calls : CallInv(d)'
  BY CallFrame DEF DeletionLapses, clock
<1>4. ASSUME NEW d \in Calls
      PROVE  ImportedInv(d)'
  BY DEF IInv, TypeOK, Keys, Statuses, ImportedInv, Untouched, At, DeletionLapses, clock,
         Imported
<1>5. (Imported => import.key = None /\ import.holder = None)'
  BY DEF IInv, Imported, DeletionLapses, clock
<1>6. ASSUME NEW x \in Workers
      PROVE  WorkerInv(x)'
  BY DEF IInv, TypeOK, Keys, Statuses, WorkerInv, Gone, Is, DeletionLapses, clock,
         UploadInv, Wanted, Restorable
<1> QED
  BY <1>1, <1>2, <1>3, <1>4, <1>5, <1>6 DEF IInv

LEMMA CleanupFallsDueKeeps ==
    ASSUME IInv, NEW k \in Keys, CleanupFallsDue(k)
    PROVE  IInv'
<1>1. TypeOK'
  BY AgedType DEF IInv, TypeOK, Keys, Statuses, CleanupFallsDue, clock
<1>2. ASSUME NEW v \in Uploads
      PROVE  UploadInv(v)'
  BY DEF IInv, TypeOK, Keys, Statuses, UploadInv, Gone, Wanted, Restorable,
         CleanupFallsDue, clock, WorkerInv, Is
<1>3. ASSUME NEW d \in Calls
      PROVE  CallInv(d)'
  BY DEF IInv, TypeOK, Keys, Statuses, CallInv, Untouched, Protected, At, Upload,
         OwnsReservation, CleanupFallsDue, clock
<1>4. ASSUME NEW d \in Calls
      PROVE  ImportedInv(d)'
  BY DEF IInv, TypeOK, Keys, Statuses, ImportedInv, Untouched, At, CleanupFallsDue,
         clock, Imported
<1>5. (Imported => import.key = None /\ import.holder = None)'
  BY DEF IInv, Imported, CleanupFallsDue, clock
<1>6. \A x \in Workers : WorkerInv(x)'
  BY WorkerFrame DEF CleanupFallsDue, clock
<1> QED
  BY <1>1, <1>2, <1>3, <1>4, <1>5, <1>6 DEF IInv

LEMMA CleanupLapsesKeeps ==
    ASSUME IInv, NEW k \in Keys, CleanupLapses(k)
    PROVE  IInv'
<1>1. TypeOK'
  BY AgedType DEF IInv, TypeOK, Keys, Statuses, CleanupLapses, clock
<1>2. ASSUME NEW v \in Uploads
      PROVE  UploadInv(v)'
  BY DEF IInv, TypeOK, Keys, Statuses, UploadInv, Gone, Wanted, Restorable,
         CleanupLapses, clock, WorkerInv, Is
<1>3. ASSUME NEW d \in Calls
      PROVE  CallInv(d)'
  BY DEF IInv, TypeOK, Keys, Statuses, CallInv, Untouched, Protected, At, Upload,
         OwnsReservation, CleanupLapses, clock
<1>4. ASSUME NEW d \in Calls
      PROVE  ImportedInv(d)'
  BY DEF IInv, TypeOK, Keys, Statuses, ImportedInv, Untouched, At, CleanupLapses, clock,
         Imported
<1>5. (Imported => import.key = None /\ import.holder = None)'
  BY DEF IInv, Imported, CleanupLapses, clock
<1>6. \A x \in Workers : WorkerInv(x)'
  BY WorkerFrame DEF CleanupLapses, clock
<1> QED
  BY <1>1, <1>2, <1>3, <1>4, <1>5, <1>6 DEF IInv

LEMMA ImportAgesKeeps ==
    ASSUME IInv, ImportAges
    PROVE  IInv'
<1>1. TypeOK'
  BY DEF IInv, TypeOK, Rows, Imports, Places, Jobs, Keys, Statuses, ImportAges, clock
<1>2. \A v \in Uploads : UploadInv(v)'
  BY UploadFrame DEF ImportAges, clock
<1>3. ASSUME NEW d \in Calls
      PROVE  CallInv(d)'
  <2>1. CallInv(d)
    BY DEF IInv
  <2>2. /\ import # None /\ import' # None /\ import'.passed
        /\ import'.key = import.key /\ import'.holder = import.holder
    BY ImportAssumption DEF IInv, TypeOK, Imports, ImportAges
  <2> QED
    BY <2>1, <2>2 DEF CallInv, Untouched, Protected, OwnsReservation, At, Upload,
       ImportAges, clock
<1>4. ASSUME NEW d \in Calls
      PROVE  ImportedInv(d)'
  BY DEF IInv, TypeOK, Keys, Statuses, ImportedInv, ImportAges, clock, Imported
<1>5. (Imported => import.key = None /\ import.holder = None)'
  BY DEF IInv, TypeOK, Keys, Statuses, Imported, ImportAges, clock, ImportedInv
<1>6. \A x \in Workers : WorkerInv(x)'
  BY WorkerFrame DEF ImportAges, clock
<1> QED
  BY <1>1, <1>2, <1>3, <1>4, <1>5, <1>6 DEF IInv

-----------------------------------------------------------------------------
LEMMA InitHolds == Init => IInv
<1> SUFFICES ASSUME Init PROVE IInv
  OBVIOUS
<1>1. TypeOK
  BY DEF Init, TypeOK, Places, Jobs, Steps, Resting, Keys
<1>2. \A u \in Uploads : UploadInv(u)
  BY NoneAssumption DEF Init, UploadInv, Wanted, Restorable, Keys, Statuses
<1>3. \A c \in Calls : CallInv(c) /\ ImportedInv(c)
  BY NoneAssumption
  DEF Init, CallInv, ImportedInv, At, Upload, Untouched, Resting, Keys, Statuses
<1>4. \A w \in Workers : WorkerInv(w)
  BY DEF Init, WorkerInv, Is, Resting
<1> QED
  BY <1>1, <1>2, <1>3, <1>4 DEF IInv, Init, Imported

LEMMA Step ==
    ASSUME IInv, [Next]_vars
    PROVE  IInv'
<1>1. CASE UNCHANGED vars
  <2>1. TypeOK'
    BY <1>1 DEF IInv, TypeOK, vars, rows, clock
  <2>2. (Imported => import.key = None /\ import.holder = None)'
    BY <1>1 DEF IInv, Imported, vars, rows
  <2> QED
    BY <1>1, <2>1, <2>2, UploadFrame, CallFrame, ImportedFrame, WorkerFrame
    DEF IInv, vars, rows
<1>2. ASSUME NEW u \in Uploads, CreateUpload(u) \/ PutObject(u) \/ SessionExpires(u)
      PROVE  IInv'
  BY <1>2, CreateUploadKeeps, PutObjectKeeps, SessionExpiresKeeps
<1>3. ASSUME NEW c \in Calls, Request(c)
      PROVE  IInv'
  <2>1. CASE \E u \in Uploads : FindSession(c, u)
    BY <2>1, FindSessionKeeps
  <2> QED
    BY <1>3, <2>1, InspectKeeps, CompletePendingKeeps, ClaimTerminalKeeps, DiscardKeeps,
       ReserveImportKeeps, CopyResultKeeps, VerifyResultKeeps, PersistImportedKeeps,
       ScheduleCleanupKeeps, FailAndScheduleCleanupKeeps DEF Request
<1>4. ASSUME NEW u \in Uploads, RequestDeletion(u) \/ RestoreDeletion(u)
      PROVE  IInv'
  BY <1>4, RequestDeletionKeeps, RestoreDeletionKeeps
<1>5. ASSUME NEW w \in Workers, Job(w)
      PROVE  IInv'
  <2>1. CASE \E k \in Keys : DeleteObject(w, k)
    BY <2>1, DeleteObjectKeeps
  <2> QED
    BY <1>5, <2>1, RecoverImportOrphansKeeps, ScheduleExpiredTemporaryKeeps,
       ClaimDeletionsKeeps, SettleDeletionKeeps, ClaimCleanupsKeeps, SettleCleanupKeeps,
       FinishKeeps DEF Job
<1>6. ASSUME NEW k \in Keys, Ages(k)
      PROVE  IInv'
  BY <1>6, RetentionEndsKeeps, DeletionFallsDueKeeps, DeletionLapsesKeeps,
     CleanupFallsDueKeeps, CleanupLapsesKeeps DEF Ages
<1>7. CASE ImportAges
  BY <1>7, ImportAgesKeeps
<1> QED
  BY <1>1, <1>2, <1>3, <1>4, <1>5, <1>6, <1>7 DEF Next

LEMMA IInvHolds == Spec => []IInv
  BY InitHolds, Step, PTL DEF Spec

\* Objects, rows, requests and workers keep their types, for any number of them.
THEOREM TypeCorrect == Spec => []TypeOK
  BY IInvHolds, PTL DEF IInv

\* What is available, or may still be restored, has a checked object, for any
\* number of uploads, requests and workers: nobody deletes it, however claims
\* lapse and requests and workers stop half way (upload-session.service.ts,
\* result-import.service.ts, lifecycle.job.ts).
THEOREM AvailableCorrect == Spec => []AvailableIsStored
<1>1. IInv => AvailableIsStored
  <2> SUFFICES ASSUME IInv, NEW k \in Keys, Wanted(k), k \notin exposed
               PROVE  objects[k] = "good"
    BY DEF AvailableIsStored, Wanted
  <2>1. CASE k \in Uploads
    BY <2>1 DEF IInv, UploadInv
  <2>2. CASE k \in Calls
    BY <2>2, NoneAssumption DEF IInv, ImportedInv, Wanted, Restorable, Statuses
  <2> QED
    BY <2>1, <2>2 DEF Keys
<1> QED
  BY <1>1, IInvHolds, PTL

\* An asset whose deletion can no longer be undone never comes back, whoever
\* completes, restores, schedules or claims (prisma-asset-lifecycle.repository.ts).
THEOREM GoneForGood == Spec => [][\A k \in Keys : Gone(k) => Gone(k)']_vars
<1>1. IInv /\ [Next]_vars => [\A k \in Keys : Gone(k) => Gone(k)']_vars
  <2> SUFFICES ASSUME IInv, Next, NEW k \in Keys, Gone(k)
               PROVE  Gone(k)'
    OBVIOUS
  <2>1. ASSUME NEW c \in Calls, Request(c)
        PROVE  Gone(k)'
    <3>1. CASE CompletePending(c) \/ ClaimTerminal(c)
      <4>1. Upload(c) = k => uploads[k] # "PENDING"
        BY NoneAssumption DEF IInv, TypeOK, UploadInv, ImportedInv, Gone, Keys,
           Statuses, Upload
      <4> QED
        BY <3>1, <4>1 DEF CompletePending, ClaimTerminal, IInv, TypeOK, Gone
    <3>2. CASE PersistImported(c)
      <4>1. k # c
        BY NoneAssumption DEF IInv, ImportedInv, Gone, Statuses
      <4> QED
        BY <3>2, <4>1 DEF PersistImported, IInv, TypeOK, Gone
    <3> QED
      BY <2>1, <3>1, <3>2
      DEF Request, FindSession, Inspect, Discard, ReserveImport, CopyResult, VerifyResult,
          ScheduleCleanup, FailAndScheduleCleanup, Gone, rows
  <2>2. ASSUME NEW w \in Workers, Job(w)
        PROVE  Gone(k)'
    <3>1. CASE ScheduleExpiredTemporary(w)
      BY <3>1 DEF ScheduleExpiredTemporary, Gone
    <3>2. CASE ClaimDeletions(w)
      BY <3>2, ClaimType DEF ClaimDeletions, IInv, TypeOK, Gone, Claimable
    <3>3. CASE SettleDeletion(w)
      BY <3>3, SettledDeletion DEF SettleDeletion, Gone
    <3> QED
      BY <2>2, <3>1, <3>2, <3>3
      DEF Job, RecoverImportOrphans, ClaimCleanups, DeleteObject, SettleCleanup, Finish,
          Gone, rows
  <2>3. ASSUME NEW u \in Uploads, CreateUpload(u) \/ PutObject(u) \/ SessionExpires(u)
                                  \/ RequestDeletion(u) \/ RestoreDeletion(u)
        PROVE  Gone(k)'
    <3>1. CASE CreateUpload(u) \/ RequestDeletion(u) \/ RestoreDeletion(u)
      <4>1. k # u
        BY <3>1, NoneAssumption
        DEF IInv, UploadInv, Gone, CreateUpload, RequestDeletion, RestoreDeletion,
            Restorable,
            Statuses
      <4> QED
        BY <3>1, <4>1
        DEF IInv, TypeOK, Gone, CreateUpload, RequestDeletion, RestoreDeletion
    <3> QED
      BY <2>3, <3>1 DEF PutObject, SessionExpires, Gone, rows
  <2>4. ASSUME NEW j \in Keys, Ages(j)
        PROVE  Gone(k)'
    <3>1. CASE DeletionFallsDue(j) \/ DeletionLapses(j)
      <4>1. deletion[j] \in Rows
        BY <3>1 DEF IInv, TypeOK, DeletionFallsDue, DeletionLapses
      <4>2. deletion' = [deletion EXCEPT ![j] = [deletion[j] EXCEPT !.due = TRUE]]
            \/ deletion' = [deletion EXCEPT ![j] = [deletion[j] EXCEPT !.lapsed = TRUE]]
        BY <3>1 DEF DeletionFallsDue, DeletionLapses
      <4>3. deletion'[k] = deletion[k] \/ deletion'[k].due = TRUE
            \/ (k = j /\ deletion'[k].due = deletion[k].due)
        BY <4>1, <4>2 DEF IInv, TypeOK, Rows
      <4> QED
        BY <3>1, <4>3 DEF Gone, DeletionFallsDue, DeletionLapses
    <3> QED
      BY <2>4, <3>1 DEF Ages, RetentionEnds, CleanupFallsDue, CleanupLapses, Gone
  <2>5. CASE ImportAges
    BY <2>5 DEF ImportAges, Gone
  <2> QED
    BY <2>1, <2>2, <2>3, <2>4, <2>5 DEF Next
<1> QED
  BY <1>1, IInvHolds, PTL DEF Spec
=============================================================================
