----------------------------- MODULE Publication -----------------------------
(***************************************************************************)
(* Versioned publication (services/operations-service): administrators     *)
(* draft, publish and retire the versions of a subject, several at a time; *)
(* buyers capture the terms of a recharge package, banners are placed in a *)
(* slot.                                                                   *)
(*                                                                         *)
(* A behaviour follows one subject: a recharge package, a content entry    *)
(* (system settings and feature flags have the same life, without the      *)
(* rollback) or a slot of banners.  A transaction runs READ COMMITTED and  *)
(* is two steps, its reads and its writes: the first write that another    *)
(* transaction could contend for locks its row, so that the writes take    *)
(* effect together.  Unique indexes are part of the writes.                *)
(*                                                                         *)
(* Terms stand for everything a version says.  A revision belongs to one   *)
(* set of terms, so that a request only remembers revisions of what it has *)
(* read.  Validity windows, which hide a version from lists, the           *)
(* validation of values and the outbox events, inserted by the same        *)
(* transactions, are left out.  Versions are taken to be created with the  *)
(* id that the application gave them (see CreateDraft).                    *)
(***************************************************************************)
EXTENDS Integers, Sequences

CONSTANTS
    Calls,          \* concurrent requests
    Terms,          \* what a version may say
    MaxVersions,    \* bound on the versions of the subject
    MaxEdits,       \* bound on the updates of a draft
    Banners,        \* published contents that may be placed in the slot
    MaxMoves,       \* bound on the changes of the slot
    None

VARIABLES
    kind,       \* what the subject is
    versions,   \* its versions; versions[n] has version number n
    purchase,   \* the RechargePackagePurchaseSnapshot of a purchase, or None
    placed,     \* placed[b]: sortOrder of banner b in the slot, or None
    slot,       \* BannerSlotRevision of the slot
    calls       \* calls[c]: what request c is doing

vars == <<kind, versions, purchase, placed, slot, calls>>

-----------------------------------------------------------------------------
\* id: the version or banner; seen: the revision its author has in view, or
\* the number of versions read; terms: what to write, or what is in view;
\* base: what was read as published; order: where to put banners.
Idle == [op |-> "none", at |-> "idle", id |-> None, seen |-> None, terms |-> None,
         base |-> None, order |-> None]

Goes(c, s) == calls' = [calls EXCEPT ![c] = s]

At(c, op, place) == calls[c].op = op /\ calls[c].at = place

Published == {n \in DOMAIN versions : versions[n].status = "PUBLISHED"}

\* currentPublishedId.
Current == IF Published = {} THEN None ELSE CHOOSE n \in Published : TRUE

Draft(terms, base) ==
    [status |-> "DRAFT", revision |-> 0, base |-> base, terms |-> terms]

\* The version in the request is still the one it has read (persistVersioned).
Unchanged(c, status) ==
    LET v == versions[calls[c].id] IN v.revision = calls[c].seen /\ v.status = status

Becomes(n, status) ==
    [versions EXCEPT ![n].status = status, ![n].revision = @ + 1]

-----------------------------------------------------------------------------
(* A request names the version and the revision its author has in view.    *)

Asks(c, s) ==
    /\ calls[c] = Idle
    /\ Goes(c, [s EXCEPT !.at = "load"])
    /\ UNCHANGED <<kind, versions, purchase, placed, slot>>

AskPublish(c, n) == Asks(c, [Idle EXCEPT !.op = "publish", !.id = n,
                        !.seen = versions[n].revision, !.terms = versions[n].terms])

AskRetire(c, n) == Asks(c, [Idle EXCEPT !.op = "retire", !.id = n,
                                        !.seen = versions[n].revision])

AskUpdate(c, n, terms) ==
    /\ versions[n].revision < MaxEdits
    /\ Asks(c, [Idle EXCEPT !.op = "update", !.id = n,
                            !.seen = versions[n].revision, !.terms = terms])

\* A further draft of a package follows a version that was published.
AskDraft(c, terms) ==
    /\ kind # "slot" /\ Len(versions) < MaxVersions
    /\ kind = "package" => \E n \in DOMAIN versions : versions[n].status # "DRAFT"
    /\ Asks(c, [Idle EXCEPT !.op = "draft", !.terms = terms])

\* rollbackContent first reads a version that was published once.
AskRollback(c, n) ==
    /\ kind = "content" /\ versions[n].status # "DRAFT" /\ Len(versions) < MaxVersions
    /\ Asks(c, [Idle EXCEPT !.op = "rollback", !.terms = versions[n].terms])

AskPurchase(c, n) ==
    kind = "package" /\ Asks(c, [Idle EXCEPT !.op = "purchase", !.id = n])

AskPlace(c, b, order) ==
    /\ kind = "slot" /\ slot < MaxMoves
    /\ Asks(c, [Idle EXCEPT !.op = "place", !.id = b, !.seen = slot, !.order = order])

AskReorder(c, order) ==
    /\ kind = "slot" /\ slot < MaxMoves
    /\ Asks(c, [Idle EXCEPT !.op = "reorder", !.seen = slot, !.order = order])

-----------------------------------------------------------------------------
(* The reads of a transaction and the decisions taken on them.             *)

\* guardDraft.
Editable(c) == Unchanged(c, "DRAFT")

\* Mutant: the draft replaces whatever is published.
Based_Any(c) == TRUE

\* guardPublicationBase: the draft was made from what is published now.
Based(c) == versions[calls[c].id].base = Current

OnSale(c) == versions[calls[c].id].status = "PUBLISHED"

Allowed(c) ==
    CASE calls[c].op \in {"draft", "rollback"} -> TRUE
      [] calls[c].op = "update"   -> Editable(c)
      [] calls[c].op = "publish"  -> Editable(c) /\ Based(c)
      [] calls[c].op = "retire"   -> Unchanged(c, "PUBLISHED")
      [] calls[c].op = "purchase" -> purchase = None /\ OnSale(c)
      [] calls[c].op = "place"    -> /\ slot = calls[c].seen
                                     /\ \A b \in Banners : placed[b] # calls[c].order
      [] calls[c].op = "reorder"  -> /\ slot = calls[c].seen
                                     /\ \A b \in Banners :
                                            (placed[b] = None) = (calls[c].order[b] = None)

\* What the transaction has read and its writes rely on.
Reads(c) ==
    CASE calls[c].op \in {"draft", "rollback"} ->
             [calls[c] EXCEPT !.at = "commit", !.seen = Len(versions), !.base = Current]
      [] calls[c].op = "publish" -> [calls[c] EXCEPT !.at = "commit", !.base = Current]
      [] calls[c].op = "purchase" ->
             [calls[c] EXCEPT !.at = "commit", !.terms = versions[calls[c].id].terms]
      [] OTHER -> [calls[c] EXCEPT !.at = "commit"]

Load(c) ==
    /\ calls[c].at = "load"
    /\ Goes(c, IF Allowed(c) THEN Reads(c) ELSE Idle)
    /\ UNCHANGED <<kind, versions, purchase, placed, slot>>

-----------------------------------------------------------------------------
(* The writes.  A request whose rows were changed meanwhile fails.         *)

\* A rollback goes on to publish the draft it has created, as revision 0.
\* persistVersioned creates the row from mutableData, without the id that the
\* schema has no default for: there the insertion fails, and the request ends by
\* Fail.  Here it may succeed too, as it does with a row that has its id.
CreateDraft(c) ==
    /\ calls[c].op \in {"draft", "rollback"} /\ calls[c].at = "commit"
    /\ Len(versions) < MaxVersions
    /\ Len(versions) = calls[c].seen            \* unique (subject, version)
    /\ versions' = Append(versions, Draft(calls[c].terms, calls[c].base))
    /\ Goes(c, IF calls[c].op = "draft" THEN Idle
               ELSE [Idle EXCEPT !.op = "publish", !.at = "load", !.id = Len(versions'),
                                 !.seen = 0, !.terms = calls[c].terms])
    /\ UNCHANGED <<kind, purchase, placed, slot>>

UpdateDraft(c) ==
    /\ At(c, "update", "commit") /\ Editable(c)
    /\ versions' = [versions EXCEPT ![calls[c].id].terms = calls[c].terms,
                                    ![calls[c].id].revision = @ + 1]
    /\ Goes(c, Idle)
    /\ UNCHANGED <<kind, purchase, placed, slot>>

\* Retires what the transaction has read as published; had anything else been
\* published since, the unique index of published versions would refuse.
Publish(c) ==
    /\ At(c, "publish", "commit") /\ Editable(c)
    /\ Current = calls[c].base
    /\ versions' = [n \in DOMAIN versions |->
           IF n = calls[c].id THEN Becomes(n, "PUBLISHED")[n]
           ELSE IF n = calls[c].base THEN Becomes(n, "RETIRED")[n] ELSE versions[n]]
    /\ Goes(c, Idle)
    /\ UNCHANGED <<kind, purchase, placed, slot>>

Retire(c) ==
    /\ At(c, "retire", "commit") /\ Unchanged(c, "PUBLISHED")
    /\ versions' = Becomes(calls[c].id, "RETIRED")
    /\ Goes(c, Idle)
    /\ UNCHANGED <<kind, purchase, placed, slot>>

\* The purchase id is the primary key: the same purchase is captured once.
CapturePackagePurchase(c) ==
    /\ At(c, "purchase", "commit") /\ purchase = None
    /\ purchase' = [version |-> calls[c].id, terms |-> calls[c].terms]
    /\ Goes(c, Idle)
    /\ UNCHANGED <<kind, versions, placed, slot>>

\* Mutant: the placements are written whatever has happened to the slot.
SlotUnchanged_Ignored(c) == TRUE

\* persistSlotRevisions: the revision of the slot is the one read.
SlotUnchanged(c) == slot = calls[c].seen

PlaceBanner(c) ==
    /\ At(c, "place", "commit") /\ SlotUnchanged(c)
    /\ placed[calls[c].id] = None               \* unique (slot, version)
    /\ placed' = [placed EXCEPT ![calls[c].id] = calls[c].order]
    /\ slot' = slot + 1
    /\ Goes(c, Idle)
    /\ UNCHANGED <<kind, versions, purchase>>

ReorderBanners(c) ==
    /\ At(c, "reorder", "commit") /\ SlotUnchanged(c)
    /\ placed' = calls[c].order
    /\ slot' = slot + 1
    /\ Goes(c, Idle)
    /\ UNCHANGED <<kind, versions, purchase>>

\* A conflict, a failing database, or the request dies; the rows of a
\* publication are written in the order they were read, which the query leaves
\* open, so that it may also conflict with the version it is about to retire.
Fail(c) ==
    /\ calls[c].at \in {"load", "commit"}
    /\ Goes(c, Idle)
    /\ UNCHANGED <<kind, versions, purchase, placed, slot>>

-----------------------------------------------------------------------------
Init ==
    /\ kind \in {"package", "content", "slot"}
    \* createPackageDraft creates a package with its first version.
    /\ IF kind = "package" THEN \E t \in Terms : versions = <<Draft(t, None)>>
       ELSE versions = <<>>
    /\ purchase = None
    /\ placed = [b \in Banners |-> None]
    /\ slot = 0
    /\ calls = [c \in Calls |-> Idle]

Positions == 0..MaxMoves

\* Positions, from 0 on, for the banners in view.
Orders == LET B == {b \in Banners : placed[b] # None} IN
    {o \in [Banners -> Positions \cup {None}] :
        /\ \A b \in Banners : (o[b] = None) = (b \notin B)
        /\ \A a, b \in B : o[a] = o[b] => a = b
        /\ \A b \in B, p \in Positions : p < o[b] => \E a \in B : o[a] = p}

Request(c) ==
    \/ \E n \in DOMAIN versions : \/ AskPublish(c, n) \/ AskRetire(c, n)
                                  \/ AskRollback(c, n) \/ AskPurchase(c, n)
    \/ \E n \in DOMAIN versions, t \in Terms : AskUpdate(c, n, t)
    \/ \E t \in Terms : AskDraft(c, t)
    \/ \E b \in Banners, p \in Positions : AskPlace(c, b, p)
    \/ \E order \in Orders : AskReorder(c, order)

Commit(c) ==
    \/ CreateDraft(c) \/ UpdateDraft(c) \/ Publish(c) \/ Retire(c)
    \/ CapturePackagePurchase(c) \/ PlaceBanner(c) \/ ReorderBanners(c)

Next == \E c \in Calls : Request(c) \/ Load(c) \/ Commit(c) \/ Fail(c)

Spec == Init /\ [][Next]_vars

-----------------------------------------------------------------------------
\* A version is published only in the place of the one its draft was made
\* from, and says what its publisher had in view: whatever other
\* administrators edit, publish, retire or roll back in between, nobody's
\* publication is overwritten unseen (publishPackage, rollbackContent).
PublishedAsReviewed ==
    [][\A n \in DOMAIN versions :
           versions[n].status = "DRAFT" /\ versions'[n].status = "PUBLISHED"
           => /\ versions[n].base = Current
              /\ \E c \in Calls : /\ calls[c].op = "publish" /\ calls[c].id = n
                                  /\ calls[c].terms = versions'[n].terms]_vars

\* Two banners of a slot never have the same position, although no index
\* forbids it (placeBanner, reorderBanners).
BannersDistinct ==
    \A a, b \in Banners : placed[a] = placed[b] => a = b \/ placed[a] = None
=============================================================================
