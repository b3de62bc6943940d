------------------------------- MODULE IamRoles -------------------------------
(***************************************************************************)
(* The roles of administrators (services/iam-service):                     *)
(* prisma-iam-administration.repository.ts, and disableAdminAccess of      *)
(* prisma-admin-auth.repository.ts.  Every operation is one transaction:   *)
(* it takes its advisory locks, reads under READ COMMITTED what it decides *)
(* by, and writes at the end; so transactions whose locks are disjoint     *)
(* interleave between the two.                                             *)
(*                                                                         *)
(* A refusal changes nothing but the audit log, which is left out, and so  *)
(* does the authorization before the transaction, which only refuses.      *)
(***************************************************************************)
EXTENDS Integers, FiniteSets

CONSTANTS
    Admins,
    Roles,          \* roles that may be created; an id is used once
    Super,          \* the protected role
    Others,         \* permissions besides the two of this module
    Contents,       \* what roles may be made to grant
    Requests,       \* requests that may be handled at a time
    MaxVersion,     \* bound on the versions of a role
    None

VARIABLES
    enabled,        \* the administrators with status ACTIVE
    bootstrapped,   \* the protected role exists
    roles,          \* roles[r]: the role, once it is created
    held,           \* adminRole: the roles administrators hold
    open            \* open[i]: the transaction of a request, once it decided

vars == <<enabled, bootstrapped, roles, held, open>>

-----------------------------------------------------------------------------
RolesWrite == "iam:roles:write"

AdminsWrite == "iam:admins:write"

Permissions == {RolesWrite, AdminsWrite} \cup Others

\* ASSIGNED is covered as OWN is.
Scopes == {"ALL", "OWN"}

NoContent == [keys |-> {}, scope |-> "OWN"]

Unborn == [at |-> "unborn", version |-> 0, content |-> NoContent]

Live(r) == roles[r].at = "live"

Supers == {a \in enabled : <<a, Super>> \in held}

scopeCovers(scope, desired) == scope \in {"ALL", desired}

Gives(content, key, scope) == key \in content.keys /\ scopeCovers(content.scope, scope)

\* actorCan; `except' holds the role that is being changed.
actorCan(a, key, scope, except) ==
    /\ a \in enabled
    /\ \/ <<a, Super>> \in held
       \/ \E r \in Roles \ except : <<a, r>> \in held /\ Gives(roles[r].content, key, scope)

actorCanGrant(a, content, except) ==
    \A key \in content.keys : actorCan(a, key, content.scope, except)

-----------------------------------------------------------------------------
(* The operations.  A field that an operation does not use is None.        *)

Inputs ==
    [op : {"bootstrap", "disableAccess"}, actor : {None}, admin : Admins, role : {None},
     content : {None}]
    \cup [op : {"disable"}, actor : Admins, admin : Admins, role : {None}, content : {None}]
    \cup [op : {"assign", "revoke"}, actor : Admins, admin : Admins, role : Roles \cup {Super},
          content : {None}]
    \cup [op : {"delete"}, actor : Admins, admin : {None}, role : Roles, content : {None}]
    \cup [op : {"create", "update"}, actor : Admins, admin : {None}, role : Roles,
          content : Contents]

\* What is asked of the constants.
Bounds ==
    /\ Contents \subseteq [keys : SUBSET Permissions, scope : Scopes]
    /\ Super \notin Roles /\ None \notin Inputs \cup Admins

\* Mutant: the rows an operation writes are locked, not the graph.
Locks_Rows(t) ==
    ({t.actor, t.admin, t.role} \ {None})
    \cup (IF t.op \in {"create", "update", "delete"} THEN {} ELSE {"super-admin"})

\* The keys of acquireLocks.
Locks(t) ==
    {"authorization-graph"} \cup ({t.actor, t.admin, t.role} \ {None})
    \cup (IF t.op \in {"create", "update", "delete"} THEN {} ELSE {"super-admin"})

\* Mutant: super administrators are counted whether they are active or not.
LastSuper_Assigned(a) ==
    a \in Supers /\ Cardinality({b \in Admins : <<b, Super>> \in held}) <= 1

\* The administrator is the only active super administrator.
LastSuper(a) == a \in Supers /\ Cardinality(Supers) <= 1

MayBootstrap(t) ==
    /\ t.op = "bootstrap"
    /\ ~bootstrapped /\ t.admin \in enabled

MayCreate(t) ==
    /\ t.op = "create"
    /\ actorCan(t.actor, RolesWrite, "ALL", {})
    /\ roles[t.role].at = "unborn"
    /\ actorCanGrant(t.actor, t.content, {})

\* The actor's own hold on the role does not count.
MayUpdate(t) ==
    /\ t.op = "update"
    /\ Live(t.role) /\ roles[t.role].version < MaxVersion
    /\ actorCan(t.actor, RolesWrite, "ALL", {t.role})
    /\ actorCanGrant(t.actor, t.content, {t.role})

MayDelete(t) ==
    /\ t.op = "delete"
    /\ Live(t.role)
    /\ actorCan(t.actor, RolesWrite, "ALL", {t.role})
    /\ \A a \in Admins : <<a, t.role>> \notin held

MayAssign(t) ==
    /\ t.op = "assign"
    /\ actorCan(t.actor, AdminsWrite, "ALL", {})
    /\ t.admin \in enabled
    /\ <<t.admin, t.role>> \notin held
    /\ IF t.role = Super
       THEN bootstrapped /\ t.actor \in Supers
       ELSE Live(t.role) /\ actorCanGrant(t.actor, roles[t.role].content, {})

MayRevoke(t) ==
    /\ t.op = "revoke"
    /\ actorCan(t.actor, AdminsWrite, "ALL", {})
    /\ <<t.admin, t.role>> \in held
    /\ t.role = Super => t.actor \in Supers /\ ~LastSuper(t.admin)

MayDisable(t) ==
    /\ \/ t.op = "disable" /\ actorCan(t.actor, AdminsWrite, "ALL", {})
       \/ t.op = "disableAccess"
    /\ ~LastSuper(t.admin)

Allowed(t) ==
    \/ MayBootstrap(t) \/ MayCreate(t) \/ MayUpdate(t) \/ MayDelete(t)
    \/ MayAssign(t) \/ MayRevoke(t) \/ MayDisable(t)

-----------------------------------------------------------------------------
Begin(i) ==
    /\ open[i] = None
    /\ \E t \in Inputs :
          /\ \A j \in Requests : open[j] # None => Locks(open[j]) \cap Locks(t) = {}
          /\ Allowed(t)
          /\ open' = [open EXCEPT ![i] = t]
    /\ UNCHANGED <<enabled, bootstrapped, roles, held>>

\* The transaction times out, or its process dies.
Rollback(i) ==
    /\ open[i] # None
    /\ open' = [open EXCEPT ![i] = None]
    /\ UNCHANGED <<enabled, bootstrapped, roles, held>>

Commits(i, ops) ==
    /\ open[i] # None /\ open[i].op \in ops
    /\ open' = [open EXCEPT ![i] = None]

bootstrapSuperAdmin(i) ==
    /\ Commits(i, {"bootstrap"})
    /\ bootstrapped' = TRUE
    /\ held' = held \cup {<<open[i].admin, Super>>}
    /\ UNCHANGED <<enabled, roles>>

\* createRole, and updateRole.
WriteRole(i) ==
    /\ Commits(i, {"create", "update"})
    /\ roles' = [roles EXCEPT ![open[i].role] =
                    [at |-> "live", version |-> @.version + 1, content |-> open[i].content]]
    /\ UNCHANGED <<enabled, bootstrapped, held>>

deleteRole(i) ==
    /\ Commits(i, {"delete"})
    /\ roles' = [roles EXCEPT ![open[i].role] = [@ EXCEPT !.at = "deleted", !.content = NoContent]]
    /\ UNCHANGED <<enabled, bootstrapped, held>>

assignRole(i) ==
    /\ Commits(i, {"assign"})
    /\ held' = held \cup {<<open[i].admin, open[i].role>>}
    /\ UNCHANGED <<enabled, bootstrapped, roles>>

revokeRole(i) ==
    /\ Commits(i, {"revoke"})
    /\ held' = held \ {<<open[i].admin, open[i].role>>}
    /\ UNCHANGED <<enabled, bootstrapped, roles>>

\* disableAdmin, and disableAdminAccess; the sessions are in AdminSignIn.
disableAdmin(i) ==
    /\ Commits(i, {"disable", "disableAccess"})
    /\ enabled' = enabled \ {open[i].admin}
    /\ UNCHANGED <<bootstrapped, roles, held>>

-----------------------------------------------------------------------------
Init ==
    /\ enabled = Admins
    /\ bootstrapped = FALSE
    /\ roles = [r \in Roles |-> Unborn]
    /\ held = {}
    /\ open = [i \in Requests |-> None]

Next ==
    \E i \in Requests :
        \/ Begin(i) \/ Rollback(i)
        \/ bootstrapSuperAdmin(i) \/ WriteRole(i) \/ deleteRole(i)
        \/ assignRole(i) \/ revokeRole(i) \/ disableAdmin(i)

Spec == Init /\ [][Next]_vars

-----------------------------------------------------------------------------
RoleRecords ==
    [at : {"unborn", "live", "deleted"}, version : Nat,
     content : Contents \cup {NoContent}]

\* Types.
TypeOK ==
    /\ enabled \subseteq Admins
    /\ bootstrapped \in BOOLEAN
    /\ roles \in [Roles -> RoleRecords]
    /\ held \subseteq Admins \X (Roles \cup {Super})
    /\ open \in [Requests -> Inputs \cup {None}]

\* Once there is a super administrator there always is an active one, whoever
\* is disabled or loses the role at the same time (LAST_SUPER_ADMIN_PROTECTED).
SuperAdminStays == bootstrapped => Supers # {}

\* What an administrator may do.
Right(a, key, scope) == actorCan(a, key, scope, {})

\* Nobody comes to a right that is not given by one who has it himself at that
\* moment, although rights were looked at earlier and change at the same time
\* (CAPABILITY_CEILING_EXCEEDED, 'iam:authorization-graph').
WithinCeiling ==
    [][ bootstrapped =>
        \A a \in Admins, key \in Permissions, scope \in Scopes :
            Right(a, key, scope)' /\ ~Right(a, key, scope) =>
                \E i \in Requests : /\ open[i] # None /\ open'[i] = None
                                    /\ open[i].actor \in Admins
                                    /\ Right(open[i].actor, key, scope) ]_vars
=============================================================================
