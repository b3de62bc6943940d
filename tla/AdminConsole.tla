---------------------------- MODULE AdminConsole ----------------------------
(***************************************************************************)
(* How the operations of administrators reach the backend                  *)
(* (apps/admin-web): a form shows a resource in some version and draws an  *)
(* intent id, the idempotency key of what it submits; a server action of   *)
(* the web server checks the form, for most operations against the         *)
(* resource as it is now, and calls the backend, which may execute a call  *)
(* that the web server has given up.                                       *)
(*                                                                         *)
(* One form of one administrator: what the others do is to change the      *)
(* version of its resource.  An operation is a record of what its form and *)
(* its action do to keep a decision from taking effect twice, or from      *)
(* being another one than it looked.                                       *)
(* Permissions, and the fields themselves, only refuse a form and are left *)
(* out.  A preview that comes with the page is as old as its version.      *)
(*                                                                         *)
(* The backend is not in the repository.  It is taken to answer a key that *)
(* it knows as it did the first time, whatever else the call says, and to  *)
(* refuse a call that expects another version.                             *)
(***************************************************************************)
EXTENDS Integers, FiniteSets

CONSTANTS
    Contents,       \* what can be entered in the form
    MaxVersion,     \* bounds: versions of the resource, ids that are drawn after
    MaxIds,         \* the first, and calls that are under way
    MaxCalls,
    None

-----------------------------------------------------------------------------
(* The operations.                                                         *)

\* A form that comes with the page: its intent is drawn as it is rendered.
\* Every form draws its first.
Rendered ==
    [rendered |-> TRUE,
     rereads |-> TRUE,      \* the action compares with the resource as it is
     versioned |-> TRUE,    \* the backend is told the version that was shown
     preview |-> "none",    \* what becomes of a preview when the form is edited
     renews |-> {},         \* when a form draws another intent
     live |-> FALSE,        \* the form can be edited while it waits
     matches |-> FALSE,     \* the receipt must tell the content
     blocks |-> FALSE]      \* nothing more is submitted after a success

\* A form of the browser: its intent is drawn anew whenever it is edited.
Edited == [Rendered EXCEPT !.rendered = FALSE, !.renews = {"edit"}]

ContentDraft == Rendered
ContentValidation == Rendered
ContentPublication == Rendered
TicketMessage == Rendered
TicketTransition == Rendered
RoleUpdate == Rendered
AdminUpdate == Rendered
SystemMutation == Rendered
OrderOperation == Rendered
CompensationRequest == Rendered
CompensationApproval == Rendered
InvoiceTransition == Rendered
PricingRollback == Rendered
RoutingPublish == Rendered
RoutingRollback == Rendered

QueueLimits == [Rendered EXCEPT !.matches = TRUE]

AuditExport == [Rendered EXCEPT !.versioned = FALSE]

RoutingSave == [Rendered EXCEPT !.rereads = FALSE]

\* Its intent stays until it succeeds, whichever operation is chosen.
TaskOperation == [Edited EXCEPT !.matches = TRUE, !.renews = {"success"}]

PricingSave == [Edited EXCEPT !.rereads = FALSE, !.live = TRUE, !.renews = {"submit"}]

\* An edit removes the preview, and the answer to an earlier one brings it back.
PricingPublish ==
    [Edited EXCEPT !.rereads = FALSE, !.preview = "removed", !.renews = {"preview"}]

\* Nothing can be edited while the preview is awaited.
AdjustmentApproval == [Edited EXCEPT !.preview = "locked"]

\* Mutant: each submission draws an intent.
AdjustmentRequest_Anew ==
    [Edited EXCEPT !.rereads = FALSE, !.versioned = FALSE, !.preview = "locked",
                   !.renews = {"edit", "submit"}, !.blocks = TRUE]

AdjustmentRequest ==
    [Edited EXCEPT !.rereads = FALSE, !.versioned = FALSE, !.preview = "locked",
                   !.blocks = TRUE]

StatusChange == [Edited EXCEPT !.rereads = FALSE, !.versioned = FALSE, !.blocks = TRUE]

CsvExport == StatusChange

ProviderCommand == Edited
ProviderEdit == Edited
ProviderCreate == [Edited EXCEPT !.rereads = FALSE, !.versioned = FALSE]

CapabilitySave == [Edited EXCEPT !.live = TRUE]
CapabilityRollback == [Edited EXCEPT !.blocks = TRUE]

\* The answer to an earlier validation is ignored.
CapabilityPublish == [Edited EXCEPT !.preview = "guarded", !.blocks = TRUE]

Operations ==
    {ContentDraft, ContentValidation, ContentPublication, TicketMessage, TicketTransition,
     RoleUpdate, AdminUpdate, SystemMutation, OrderOperation, CompensationRequest,
     CompensationApproval, InvoiceTransition, PricingRollback, RoutingPublish,
     RoutingRollback, QueueLimits, AuditExport, RoutingSave, TaskOperation, PricingSave,
     PricingPublish, AdjustmentApproval, AdjustmentRequest, StatusChange, CsvExport,
     ProviderCommand, ProviderEdit, ProviderCreate, CapabilitySave, CapabilityRollback,
     CapabilityPublish}

-----------------------------------------------------------------------------
VARIABLES
    kind,       \* the operation
    version,    \* of the resource, at the backend
    effects,    \* what took effect, by key: the backend's receipts
    form,       \* the form
    calls,      \* what is under way between the form and the backend
    drawn       \* ids drawn so far

vars == <<kind, version, effects, form, calls, drawn>>

\* A decision is a content, entered for a version; its id is drawn with it.
Form(id, shown, content) ==
    [at |-> "open", shown |-> shown, content |-> content, preview |-> None, asked |-> None,
     intent |-> id, decision |-> id]

Drawn == drawn + 1

Draw == drawn < MaxIds /\ drawn' = Drawn

\* The intent of the form after `moment', which may draw a new one.
IntentAt(moment) == IF moment \in kind.renews THEN Drawn ELSE form.intent

Draws(moment) == IF moment \in kind.renews THEN Draw ELSE UNCHANGED drawn

Open == form.at = "open" \/ (form.at = "accepted" /\ ~kind.blocks)

-----------------------------------------------------------------------------
(* The form.                                                               *)

Edit ==
    /\ Open \/ (form.at = "asks" /\ kind.preview # "locked") \/ (form.at = "waits" /\ kind.live)
    /\ Draw
    /\ \E content \in Contents \ {form.content} :
          form' = [form EXCEPT !.at = IF @ = "accepted" THEN "open" ELSE @,
                               !.content = content, !.preview = None,
                               !.decision = Drawn, !.intent = IntentAt("edit")]
    /\ UNCHANGED <<kind, version, effects, calls>>

AskPreview ==
    /\ kind.preview # "none" /\ Open
    /\ form' = [form EXCEPT !.at = "asks",
                            !.asked = [content |-> form.content, decision |-> form.decision]]
    /\ UNCHANGED <<kind, version, effects, calls, drawn>>

Expected == kind.preview # "guarded" \/ form.asked.decision = form.decision

PreviewAnswered ==
    /\ form.at = "asks"
    /\ \/ /\ Expected
          /\ Draws("preview")
          /\ form' = [form EXCEPT !.at = "open", !.preview = form.asked.content, !.asked = None,
                                  !.intent = IntentAt("preview")]
       \/ /\ form' = [form EXCEPT !.at = "open", !.asked = None]
          /\ UNCHANGED drawn
    /\ UNCHANGED <<kind, version, effects, calls>>

\* An operation that was previewed is that of the preview.
Submitted == IF kind.preview = "none" THEN form.content ELSE form.preview

Submit ==
    /\ Open /\ Submitted # None
    /\ Cardinality(calls) < MaxCalls
    /\ Draws("submit")
    /\ calls' = calls \cup
          {[decision |-> form.decision, intent |-> IntentAt("submit"), content |-> Submitted,
            shown |-> form.content, basis |-> form.shown,
            step |-> IF kind.rereads THEN "checks" ELSE "executes", awaited |-> TRUE]}
    /\ form' = [form EXCEPT !.at = "waits", !.intent = IntentAt("submit")]
    /\ UNCHANGED <<kind, version, effects>>

\* The page is loaded again: also when the resource changes under a dialog that
\* is closed by that.
Reload ==
    /\ Draw
    /\ form' = Form(Drawn, version, form.content)
    /\ calls' = {[c EXCEPT !.awaited = FALSE] : c \in calls}
    /\ UNCHANGED <<kind, version, effects>>

-----------------------------------------------------------------------------
(* A call: the server action, and the backend.                             *)

Opens(c) == form' = [form EXCEPT !.at = IF c.awaited THEN "open" ELSE @]

\* The action refuses, or the backend does, or the call never gets there.
Refuse(c) ==
    /\ Opens(c)
    /\ calls' = calls \ {c}
    /\ UNCHANGED <<kind, version, effects, drawn>>

Current(c) == version = c.basis

Check(c) ==
    /\ c.step = "checks" /\ Current(c)
    /\ calls' = (calls \ {c}) \cup {[c EXCEPT !.step = "executes"]}
    /\ UNCHANGED <<kind, version, effects, form, drawn>>

\* The deadline passes, or the connection breaks, and the call goes on.
GiveUp(c) ==
    /\ c.step = "executes" /\ c.awaited
    /\ Opens(c)
    /\ calls' = (calls \ {c}) \cup {[c EXCEPT !.awaited = FALSE]}
    /\ UNCHANGED <<kind, version, effects, drawn>>

Known(c) == {e \in effects : e.intent = c.intent}

Effect(c) ==
    [intent |-> c.intent, decision |-> c.decision, basis |-> c.basis, content |-> c.content,
     shown |-> c.shown]

\* The receipt r reaches the form, which accepts it.
Accepts(c, r) ==
    /\ c.awaited
    /\ kind.matches => r.content = c.content
    /\ Draws("success")
    /\ form' = [form EXCEPT !.at = "accepted", !.preview = None, !.intent = IntentAt("success")]

\* It does not, or the receipt is not the one of the operation.
Misses(c) == Opens(c) /\ UNCHANGED drawn

Execute(c) ==
    /\ c.step = "executes" /\ Known(c) = {}
    /\ kind.versioned => Current(c)
    /\ version < MaxVersion /\ version' = version + 1
    /\ effects' = effects \cup {Effect(c)}
    /\ calls' = calls \ {c}
    /\ Accepts(c, Effect(c)) \/ Misses(c)
    /\ UNCHANGED kind

Repeat(c) ==
    /\ c.step = "executes"
    /\ \E r \in Known(c) : Accepts(c, r) \/ Misses(c)
    /\ calls' = calls \ {c}
    /\ UNCHANGED <<kind, version, effects>>

ChangeElsewhere ==
    /\ version < MaxVersion /\ version' = version + 1
    /\ UNCHANGED <<kind, effects, form, calls, drawn>>

-----------------------------------------------------------------------------
Init ==
    /\ kind \in Operations
    /\ version = 1
    /\ effects = {}
    /\ \E content \in Contents : form = Form(0, 1, content)
    /\ calls = {}
    /\ drawn = 0

Next ==
    \/ Edit \/ AskPreview \/ PreviewAnswered \/ Submit \/ Reload
    \/ \E c \in calls : Refuse(c) \/ Check(c) \/ GiveUp(c) \/ Execute(c) \/ Repeat(c)
    \/ ChangeElsewhere

Spec == Init /\ [][Next]_vars

-----------------------------------------------------------------------------
\* A decision takes effect once, whoever repeats it after an answer was lost or
\* late, and however often: for its intent was kept, or its version is past.
OnceEach == \A d, e \in effects : d.decision = e.decision => d = e

\* What took effect is what the form showed.  The publication of prices is the
\* exception (requestPreview).
AsShown == kind.preview # "removed" => \A e \in effects : e.content = e.shown

\* What a form says was executed was, as it was entered for what was shown: a
\* receipt of another content with the same key is not taken for it.  A form that
\* comes with the page says nothing, and one that is edited while it waits says it
\* of what was submitted.
AcceptedIsDone ==
    ~kind.rendered /\ ~kind.live /\ form.at = "accepted" =>
        \E e \in effects : e.basis = form.shown /\ e.shown = form.content

\* The three of them.
DecisionsHold == OnceEach /\ AsShown /\ AcceptedIsDone
=============================================================================
