-------------------------- MODULE MCServices_proofs --------------------------
(***************************************************************************)
(* What holds of the services of MCServices for all values of their        *)
(* constants.  A service takes its own steps or rests, so that each is     *)
(* proved about by itself.                                                 *)
(***************************************************************************)
EXTENDS MCServices, FiniteSetTheorems, SequenceTheorems,
        WellFoundedInduction, TLAPS

-----------------------------------------------------------------------------
(* The administrators and their roles (IamRoles).                          *)

\* Transactions exclude each other, by the lock of the authorization graph;
\* so what a transaction has decided by still stands when it commits.
Exclusive == \A i, j \in Requests : open[i] # None /\ open[j] # None => i = j

Standing == \A i \in Requests : open[i] # None => Allowed(open[i])

RolesInv == TypeOK /\ Exclusive /\ Standing /\ SuperAdminStays

\* A commit, or a rollback, of the only transaction.
Ends(i) == open[i] # None /\ open' = [open EXCEPT ![i] = None]

-----------------------------------------------------------------------------
LEMMA NoneOpen ==
  ASSUME TypeOK, Exclusive, NEW i \in Requests, Ends(i)
  PROVE  /\ open' \in [Requests -> Inputs \cup {None}]
         /\ \A j \in Requests : open'[j] = None
  BY DEF TypeOK, Exclusive, Ends

\* If an administrator is not the last super administrator, there is another.
LEMMA AnotherSuper ==
  ASSUME Supers # {}, NEW a, ~LastSuper(a)
  PROVE  Supers \ {a} # {}
<1> SUFFICES ASSUME Supers = {a} PROVE FALSE
  OBVIOUS
<1>1. Cardinality(Supers) = 1
  BY FS_Singleton
<1> QED
  BY <1>1 DEF LastSuper

\* What may be done is decided by the rows alone.
LEMMA AllowedKept ==
  ASSUME NEW t, UNCHANGED <<enabled, bootstrapped, roles, held>>
  PROVE  Allowed(t) <=> Allowed(t)'
<1>1. ASSUME NEW a, NEW key, NEW scope, NEW except
      PROVE  actorCan(a, key, scope, except)' <=> actorCan(a, key, scope, except)
  BY DEF actorCan
<1>2. ASSUME NEW a, NEW content, NEW except
      PROVE  actorCanGrant(a, content, except)' <=> actorCanGrant(a, content, except)
  BY <1>1 DEF actorCanGrant
<1>3. Supers' = Supers
  BY DEF Supers
<1>4. MayBootstrap(t)' <=> MayBootstrap(t)
  BY DEF MayBootstrap
<1>5. MayCreate(t)' <=> MayCreate(t)
  BY <1>1, <1>2 DEF MayCreate
<1>6. MayUpdate(t)' <=> MayUpdate(t)
  BY <1>1, <1>2 DEF MayUpdate, Live
<1>7. MayDelete(t)' <=> MayDelete(t)
  BY <1>1 DEF MayDelete, Live
<1>8. MayAssign(t)' <=> MayAssign(t)
  BY <1>1, <1>2, <1>3 DEF MayAssign, Live
<1>9. MayRevoke(t)' <=> MayRevoke(t)
  BY <1>1, <1>2, <1>3 DEF MayRevoke, LastSuper
<1>10. MayDisable(t)' <=> MayDisable(t)
  BY <1>1, <1>3 DEF MayDisable, LastSuper
<1> QED
  BY <1>4, <1>5, <1>6, <1>7, <1>8, <1>9, <1>10 DEF Allowed

LEMMA RolesInit == ASSUME Bounds PROVE Init => RolesInv
<1> SUFFICES ASSUME Init PROVE RolesInv
  OBVIOUS
<1>1. Unborn \in RoleRecords
  BY DEF Bounds, Unborn, RoleRecords
<1>2. TypeOK
  BY <1>1 DEF Init, TypeOK
<1>3. Exclusive /\ Standing /\ SuperAdminStays
  BY DEF Init, Exclusive, Standing, SuperAdminStays
<1> QED
  BY <1>2, <1>3 DEF RolesInv

LEMMA BeginRequestKeeps ==
  ASSUME Bounds, RolesInv, NEW i \in Requests, Begin(i)
  PROVE  RolesInv'
<1> PICK t \in Inputs :
        /\ \A j \in Requests : open[j] # None => Locks(open[j]) \cap Locks(t) = {}
        /\ Allowed(t)
        /\ open' = [open EXCEPT ![i] = t]
  BY DEF Begin
<1>1. UNCHANGED <<enabled, bootstrapped, roles, held>>
  BY DEF Begin
<1>2. \A j \in Requests : open[j] = None
  BY DEF Locks
<1>3. open' \in [Requests -> Inputs \cup {None}] /\ open'[i] = t
      /\ \A j \in Requests : j # i => open'[j] = None
  BY <1>2 DEF RolesInv, TypeOK
<1>4. TypeOK'
  BY <1>1, <1>3 DEF RolesInv, TypeOK
<1>5. Exclusive'
  BY <1>3 DEF Exclusive
<1>6. Allowed(t)'
  BY <1>1, AllowedKept
<1>7. Standing'
  BY <1>3, <1>6 DEF Standing
<1>8. SuperAdminStays'
  BY <1>1 DEF RolesInv, SuperAdminStays, Supers
<1> QED
  BY <1>4, <1>5, <1>7, <1>8 DEF RolesInv

\* What is left to show of a step that ends the only transaction.
LEMMA EndKeeps ==
  ASSUME RolesInv, NEW i \in Requests, Ends(i),
         enabled' \subseteq Admins, bootstrapped' \in BOOLEAN,
         roles' \in [Roles -> RoleRecords],
         held' \subseteq Admins \X (Roles \cup {Super}),
         SuperAdminStays'
  PROVE  RolesInv'
<1>1. TypeOK'
  BY NoneOpen DEF RolesInv, TypeOK
<1>2. Exclusive' /\ Standing'
  BY NoneOpen DEF RolesInv, Exclusive, Standing
<1> QED
  BY <1>1, <1>2 DEF RolesInv

LEMMA RollbackKeeps ==
  ASSUME RolesInv, NEW i \in Requests, Rollback(i)
  PROVE  RolesInv'
<1>1. Ends(i) /\ UNCHANGED <<enabled, bootstrapped, roles, held>>
  BY DEF Rollback, Ends
<1>2. SuperAdminStays'
  BY <1>1 DEF RolesInv, SuperAdminStays, Supers
<1> QED
  BY <1>1, <1>2, EndKeeps DEF RolesInv, TypeOK

LEMMA BootstrapKeeps ==
  ASSUME Bounds, RolesInv, NEW i \in Requests, bootstrapSuperAdmin(i)
  PROVE  RolesInv'
<1>1. Ends(i) /\ UNCHANGED <<enabled, roles>>
  BY DEF bootstrapSuperAdmin, Commits, Ends
<1>2. Allowed(open[i]) /\ open[i].op = "bootstrap"
  BY DEF bootstrapSuperAdmin, Commits, RolesInv, Standing
<1>3. open[i].admin \in enabled
  BY <1>2 DEF Allowed, MayBootstrap, MayCreate, MayUpdate, MayDelete, MayAssign, MayRevoke,
              MayDisable
<1>4. held' = held \cup {<<open[i].admin, Super>>} /\ bootstrapped' = TRUE
  BY DEF bootstrapSuperAdmin
<1>5. SuperAdminStays'
  BY <1>1, <1>3, <1>4 DEF SuperAdminStays, Supers
<1>6. enabled' \subseteq Admins /\ held' \subseteq Admins \X (Roles \cup {Super})
      /\ roles' \in [Roles -> RoleRecords] /\ bootstrapped' \in BOOLEAN
  BY <1>1, <1>3, <1>4 DEF RolesInv, TypeOK
<1> QED
  BY <1>1, <1>5, <1>6, EndKeeps

LEMMA WriteKeeps ==
  ASSUME Bounds, RolesInv, NEW i \in Requests, WriteRole(i)
  PROVE  RolesInv'
<1>1. Ends(i) /\ UNCHANGED <<enabled, bootstrapped, held>>
  BY DEF WriteRole, Commits, Ends
<1>2. Allowed(open[i]) /\ open[i].op \in {"create", "update"} /\ open[i] \in Inputs
  BY DEF WriteRole, Commits, RolesInv, Standing, TypeOK
<1> PICK t \in Inputs : t = open[i]
  BY <1>2
<1>3. t.role \in Roles /\ t.content \in Contents
  BY <1>2 DEF Inputs
<1>4. roles[t.role].version + 1 \in Nat
  BY <1>3 DEF RolesInv, TypeOK, RoleRecords
<1> DEFINE R == [at |-> "live", version |-> roles[t.role].version + 1, content |-> t.content]
<1>5. R \in RoleRecords
  BY <1>3, <1>4 DEF RoleRecords
<1>6. roles' = [roles EXCEPT ![t.role] = R]
  BY DEF WriteRole
<1> HIDE DEF R
<1>7. roles' \in [Roles -> RoleRecords]
  BY <1>5, <1>6 DEF RolesInv, TypeOK
<1>8. SuperAdminStays'
  BY <1>1 DEF RolesInv, SuperAdminStays, Supers
<1> QED
  BY <1>1, <1>7, <1>8, EndKeeps DEF RolesInv, TypeOK

LEMMA DeleteKeeps ==
  ASSUME Bounds, RolesInv, NEW i \in Requests, deleteRole(i)
  PROVE  RolesInv'
<1>1. Ends(i) /\ UNCHANGED <<enabled, bootstrapped, held>>
  BY DEF deleteRole, Commits, Ends
<1>2. open[i] \in Inputs /\ open[i].op = "delete"
  BY DEF deleteRole, Commits, RolesInv, TypeOK
<1> PICK t \in Inputs : t = open[i]
  BY <1>2
<1>3. t.role \in Roles
  BY <1>2 DEF Inputs
<1> DEFINE R == [roles[t.role] EXCEPT !.at = "deleted", !.content = NoContent]
<1>4. R \in RoleRecords
  <2>1. roles[t.role] \in RoleRecords
    BY <1>3 DEF RolesInv, TypeOK
  <2> QED
    BY <2>1 DEF RoleRecords
<1>5. roles' = [roles EXCEPT ![t.role] = R]
  BY DEF deleteRole
<1> HIDE DEF R
<1>6. roles' \in [Roles -> RoleRecords]
  BY <1>4, <1>5 DEF RolesInv, TypeOK
<1>7. SuperAdminStays'
  BY <1>1 DEF RolesInv, SuperAdminStays, Supers
<1> QED
  BY <1>1, <1>6, <1>7, EndKeeps DEF RolesInv, TypeOK

LEMMA AssignKeeps ==
  ASSUME Bounds, RolesInv, NEW i \in Requests, assignRole(i)
  PROVE  RolesInv'
<1>1. Ends(i) /\ UNCHANGED <<enabled, bootstrapped, roles>>
  BY DEF assignRole, Commits, Ends
<1>2. open[i] \in Inputs /\ open[i].op = "assign"
  BY DEF assignRole, Commits, RolesInv, TypeOK
<1> PICK t \in Inputs : t = open[i]
  BY <1>2
<1>3. t.admin \in Admins /\ t.role \in Roles \cup {Super}
  BY <1>2 DEF Inputs
<1>4. held' = held \cup {<<t.admin, t.role>>}
  BY DEF assignRole
<1>5. SuperAdminStays'
  BY <1>1, <1>4 DEF RolesInv, SuperAdminStays, Supers
<1>6. held' \subseteq Admins \X (Roles \cup {Super})
  BY <1>3, <1>4 DEF RolesInv, TypeOK
<1> QED
  BY <1>1, <1>5, <1>6, EndKeeps DEF RolesInv, TypeOK

LEMMA RevokeRoleKeeps ==
  ASSUME Bounds, RolesInv, NEW i \in Requests, revokeRole(i)
  PROVE  RolesInv'
<1>1. Ends(i) /\ UNCHANGED <<enabled, bootstrapped, roles>>
  BY DEF revokeRole, Commits, Ends
<1>2. open[i].op = "revoke" /\ Allowed(open[i])
  BY DEF revokeRole, Commits, RolesInv, Standing
<1> PICK t : t = open[i]
  OBVIOUS
<1>3. held' = held \ {<<t.admin, t.role>>}
  BY DEF revokeRole
<1>4. t.role = Super => ~LastSuper(t.admin)
  BY <1>2 DEF Allowed, MayBootstrap, MayCreate, MayUpdate, MayDelete, MayAssign, MayRevoke,
              MayDisable
<1>5. SuperAdminStays'
  <2> SUFFICES ASSUME bootstrapped' PROVE Supers' # {}
    BY DEF SuperAdminStays
  <2>1. Supers # {}
    BY <1>1 DEF RolesInv, SuperAdminStays
  <2>2. t.role # Super => Supers' = Supers
    BY <1>1, <1>3 DEF Supers
  <2>3. t.role = Super => Supers' = Supers \ {t.admin}
    BY <1>1, <1>3 DEF Supers
  <2> QED
    BY <1>4, <2>1, <2>2, <2>3, AnotherSuper
<1>6. held' \subseteq Admins \X (Roles \cup {Super})
  BY <1>3 DEF RolesInv, TypeOK
<1> QED
  BY <1>1, <1>5, <1>6, EndKeeps DEF RolesInv, TypeOK

LEMMA DisableAdminKeeps ==
  ASSUME Bounds, RolesInv, NEW i \in Requests, disableAdmin(i)
  PROVE  RolesInv'
<1>1. Ends(i) /\ UNCHANGED <<bootstrapped, roles, held>>
  BY DEF disableAdmin, Commits, Ends
<1>2. open[i].op \in {"disable", "disableAccess"} /\ Allowed(open[i])
  BY DEF disableAdmin, Commits, RolesInv, Standing
<1> PICK t : t = open[i]
  OBVIOUS
<1>3. enabled' = enabled \ {t.admin}
  BY DEF disableAdmin
<1>4. ~LastSuper(t.admin)
  BY <1>2 DEF Allowed, MayBootstrap, MayCreate, MayUpdate, MayDelete, MayAssign, MayRevoke,
              MayDisable
<1>5. SuperAdminStays'
  <2> SUFFICES ASSUME bootstrapped' PROVE Supers' # {}
    BY DEF SuperAdminStays
  <2>1. Supers # {}
    BY <1>1 DEF RolesInv, SuperAdminStays
  <2>2. Supers' = Supers \ {t.admin}
    BY <1>1, <1>3 DEF Supers
  <2> QED
    BY <1>4, <2>1, <2>2, AnotherSuper
<1> QED
  BY <1>1, <1>3, <1>5, EndKeeps DEF RolesInv, TypeOK

LEMMA RolesInvHolds == ASSUME Bounds PROVE Spec => []RolesInv
<1>1. Init => RolesInv
  BY RolesInit
<1>2. RolesInv /\ [Next]_vars => RolesInv'
  <2> SUFFICES ASSUME RolesInv, [Next]_vars PROVE RolesInv'
    OBVIOUS
  <2>1. CASE UNCHANGED vars
    <3>1. TypeOK' /\ Exclusive' /\ SuperAdminStays'
      BY <2>1 DEF vars, RolesInv, TypeOK, Exclusive, SuperAdminStays, Supers
    <3>2. ASSUME NEW i \in Requests, open'[i] # None PROVE Allowed(open[i])'
      <4> PICK t : t = open[i]
        OBVIOUS
      <4>1. Allowed(t)
        BY <2>1, <3>2 DEF vars, RolesInv, Standing
      <4>2. Allowed(t)'
        BY <2>1, <4>1, AllowedKept DEF vars
      <4> QED
        BY <2>1, <4>2 DEF vars
    <3> QED
      BY <3>1, <3>2 DEF RolesInv, Standing
  <2>2. CASE Next
    BY <2>2, BeginRequestKeeps, RollbackKeeps, BootstrapKeeps, WriteKeeps, DeleteKeeps, AssignKeeps,
       RevokeRoleKeeps, DisableAdminKeeps DEF Next
  <2> QED
    BY <2>1, <2>2
<1> QED
  BY <1>1, <1>2, PTL DEF Spec

-----------------------------------------------------------------------------
\* Every variable keeps its type.
THEOREM RolesTypeCorrect == ASSUME Bounds PROVE Spec => []TypeOK
<1>1. RolesInv => TypeOK
  BY DEF RolesInv
<1> QED
  BY <1>1, RolesInvHolds, PTL

\* From the bootstrap on there is an active super administrator: two requests
\* never take the last two of them away together.
THEOREM SuperAdminRemains == ASSUME Bounds PROVE Spec => []SuperAdminStays
<1>1. RolesInv => SuperAdminStays
  BY DEF RolesInv
<1> QED
  BY <1>1, RolesInvHolds, PTL

-----------------------------------------------------------------------------
(* The ceiling.                                                            *)

\* One who covers a scope covers what it covers.
LEMMA CoversOn ==
  ASSUME NEW a, NEW key, NEW scope, NEW desired, NEW except,
         actorCan(a, key, scope, except), scopeCovers(scope, desired)
  PROVE  Right(a, key, desired)
  BY DEF Right, actorCan, Gives, scopeCovers

\* Who gains a right gains it from the actor of a transaction that commits.
Lawful ==
    \A a \in Admins, key \in Permissions, scope \in Scopes :
        Right(a, key, scope)' /\ ~Right(a, key, scope) =>
            \E i \in Requests : /\ open[i] # None /\ open'[i] = None
                                /\ open[i].actor \in Admins
                                /\ Right(open[i].actor, key, scope)

LEMMA NothingGained ==
  ASSUME enabled' \subseteq enabled, held' \subseteq held, UNCHANGED roles
  PROVE  Lawful
  BY DEF Lawful, Right, actorCan

LEMMA WriteIsLawful ==
  ASSUME RolesInv, NEW i \in Requests, WriteRole(i)
  PROVE  Lawful
<1>1. Ends(i) /\ UNCHANGED <<enabled, bootstrapped, held>>
  BY DEF WriteRole, Commits, Ends
<1>2. Allowed(open[i]) /\ open[i].op \in {"create", "update"} /\ open[i] \in Inputs
  BY DEF WriteRole, Commits, RolesInv, Standing, TypeOK
<1> PICK t \in Inputs : t = open[i]
  BY <1>2
<1>3. t.role \in Roles /\ t.actor \in Admins
  BY <1>2 DEF Inputs
<1>4. PICK except : actorCanGrant(t.actor, t.content, except)
  BY <1>2 DEF Allowed, MayBootstrap, MayCreate, MayUpdate, MayDelete, MayAssign, MayRevoke,
              MayDisable
<1>5. \A r \in Roles \ {t.role} : roles'[r] = roles[r]
  BY DEF WriteRole, RolesInv, TypeOK
<1>6. roles'[t.role].content = t.content
  BY <1>3 DEF WriteRole, RolesInv, TypeOK
<1> SUFFICES ASSUME NEW a \in Admins, NEW key \in Permissions, NEW scope \in Scopes,
                    Right(a, key, scope)', ~Right(a, key, scope)
             PROVE  Right(t.actor, key, scope)
  BY <1>1, <1>3, NoneOpen DEF Lawful, RolesInv, Ends
<1>7. Gives(t.content, key, scope)
  BY <1>1, <1>5, <1>6 DEF Right, actorCan
<1>8. actorCan(t.actor, key, t.content.scope, except) /\ scopeCovers(t.content.scope, scope)
  BY <1>4, <1>7 DEF actorCanGrant, Gives
<1> QED
  BY <1>8, CoversOn

LEMMA DeleteIsLawful ==
  ASSUME RolesInv, NEW i \in Requests, deleteRole(i)
  PROVE  Lawful
<1>1. UNCHANGED <<enabled, held>>
  BY DEF deleteRole
<1>2. \A r \in Roles : roles'[r].content.keys \subseteq {} \/ roles'[r] = roles[r]
  BY DEF deleteRole, RolesInv, TypeOK, NoContent, RoleRecords
<1> QED
  BY <1>1, <1>2 DEF Lawful, Right, actorCan, Gives

LEMMA AssignIsLawful ==
  ASSUME RolesInv, NEW i \in Requests, assignRole(i)
  PROVE  Lawful
<1>1. Ends(i) /\ UNCHANGED <<enabled, bootstrapped, roles>>
  BY DEF assignRole, Commits, Ends
<1>2. Allowed(open[i]) /\ open[i].op = "assign" /\ open[i] \in Inputs
  BY DEF assignRole, Commits, RolesInv, Standing, TypeOK
<1> PICK t \in Inputs : t = open[i]
  BY <1>2
<1>3. t.actor \in Admins
  BY <1>2 DEF Inputs
<1>4. IF t.role = Super THEN t.actor \in Supers
      ELSE actorCanGrant(t.actor, roles[t.role].content, {})
  BY <1>2 DEF Allowed, MayBootstrap, MayCreate, MayUpdate, MayDelete, MayAssign, MayRevoke,
              MayDisable
<1>5. held' = held \cup {<<t.admin, t.role>>}
  BY DEF assignRole
<1> SUFFICES ASSUME NEW a \in Admins, NEW key \in Permissions, NEW scope \in Scopes,
                    Right(a, key, scope)', ~Right(a, key, scope)
             PROVE  Right(t.actor, key, scope)
  BY <1>1, <1>3, NoneOpen DEF Lawful, RolesInv, Ends
<1>6. CASE t.role = Super
  BY <1>4, <1>6 DEF Right, actorCan, Supers
<1>7. CASE t.role # Super
  <2>1. Gives(roles[t.role].content, key, scope)
    BY <1>1, <1>5, <1>7 DEF Right, actorCan
  <2>2. /\ actorCan(t.actor, key, roles[t.role].content.scope, {})
        /\ scopeCovers(roles[t.role].content.scope, scope)
    BY <1>4, <1>7, <2>1 DEF actorCanGrant, Gives
  <2> QED
    BY <2>2, CoversOn
<1> QED
  BY <1>6, <1>7

LEMMA StepIsLawful ==
  ASSUME RolesInv, Next, bootstrapped
  PROVE  Lawful
<1> PICK i \in Requests :
        \/ Begin(i) \/ Rollback(i)
        \/ bootstrapSuperAdmin(i) \/ WriteRole(i) \/ deleteRole(i)
        \/ assignRole(i) \/ revokeRole(i) \/ disableAdmin(i)
  BY DEF Next
<1>1. CASE Begin(i) \/ Rollback(i)
  BY <1>1, NothingGained DEF Begin, Rollback
<1>2. CASE bootstrapSuperAdmin(i)
  BY <1>2 DEF bootstrapSuperAdmin, Commits, RolesInv, Standing, Allowed, MayBootstrap, MayCreate,
              MayUpdate, MayDelete, MayAssign, MayRevoke, MayDisable
<1>3. CASE revokeRole(i) \/ disableAdmin(i)
  BY <1>3, NothingGained DEF revokeRole, disableAdmin
<1> QED
  BY <1>1, <1>2, <1>3, WriteIsLawful, DeleteIsLawful, AssignIsLawful

\* Nobody gains a right but from one who has it at that moment.
THEOREM CeilingKept == ASSUME Bounds PROVE Spec => WithinCeiling
<1>1. RolesInv /\ [Next]_vars => [bootstrapped => Lawful]_vars
  BY StepIsLawful
<1>2. [bootstrapped => Lawful]_vars =>
        [ bootstrapped =>
            \A a \in Admins, key \in Permissions, scope \in Scopes :
                Right(a, key, scope)' /\ ~Right(a, key, scope) =>
                    \E i \in Requests : /\ open[i] # None /\ open'[i] = None
                                        /\ open[i].actor \in Admins
                                        /\ Right(open[i].actor, key, scope) ]_vars
  BY DEF Lawful
<1> QED
  BY <1>1, <1>2, RolesInvHolds, PTL DEF Spec, WithinCeiling

-----------------------------------------------------------------------------
LEMMA OneServiceSteps ==
    ASSUME [ServicesNext]_serviceVars
    PROVE  /\ [Users!Next]_userVars
           /\ [SignIn!Next]_adminVars
           /\ [Cms!Next]_cmsVars
           /\ [Reports!Next]_reportVars
           /\ [Sms!Next]_smsVars
           /\ [Circuit!Next]_circuitVars
<1> QED
  BY DEF ServicesNext, serviceVars

-----------------------------------------------------------------------------
(* The sessions of a user, and what they may change (UserAccounts).        *)

UserPlaces == {"idle", "find", "create", "done", "begin", "verify", "write", "failed"}

UserRequests == [at : UserPlaces, phone : Phones \cup {None}, verified : Phones \cup {None},
                 tries : Nat, proved : SUBSET Phones]

UsersType ==
    /\ user \in [phone : Phones, active : BOOLEAN]
    /\ sessions \in [SessionIds -> Users!SessionRows \cup {None}]
    /\ known \subseteq Users!Rows
    /\ codes \subseteq Phones
    /\ lock \in Logins \cup {None}
    /\ requests \in [Logins -> UserRequests]

\* The founder of a family stays, so that no later session founds it again.
FamiliesFounded == \A i \in Users!Rows : sessions[i].family \in Users!Rows

\* An operation is between its first statement and its commit while it holds
\* the lock of the user.
UserLocked == \A r \in Logins : requests[r].at \in {"verify", "write"} => lock = r

\* What was verified was verified together with the phone asked for.
Proves(r) ==
    requests[r].verified # None =>
        {requests[r].verified} \cup ({requests[r].phone} \ {None}) \subseteq requests[r].proved

UserProofs ==
    \A r \in Logins :
        /\ Proves(r)
        /\ requests[r].at = "write" => requests[r].verified = user.phone

UsersInv ==
    /\ UsersType
    /\ FamiliesFounded
    /\ RevokedStaysDead
    /\ UserLocked
    /\ UserProofs

LEMMA SessionRow ==
    ASSUME UsersType, NEW i \in Users!Rows
    PROVE  i \in SessionIds /\ sessions[i] \in Users!SessionRows
<1> QED
  BY DEF UsersType, Users!Rows

LEMMA NewSession ==
    ASSUME NEW f \in SessionIds
    PROVE  /\ Users!Session(f) \in Users!SessionRows /\ Users!Session(f) # None
           /\ Users!Session(f).family = f /\ ~Users!Session(f).consumed
           /\ ~Users!Session(f).revoked
<1>1. Users!Session(f) \in Users!SessionRows
  BY DEF Users!Session, Users!SessionRows
<1> QED
  BY <1>1, UsersAssumption DEF Users!Session, Users!Distinct

\* The family of a session is revoked as a whole.
LEMMA RevokedFamily ==
    ASSUME UsersInv, NEW ids, ids \subseteq Users!Rows,
           \A i \in ids : Users!Family(i) \subseteq ids,
           sessions' = Users!Revoked(ids),
           user'.active = user.active \/ ids = Users!Rows
    PROVE  /\ sessions' \in [SessionIds -> Users!SessionRows \cup {None}]
           /\ Users!Rows' = Users!Rows
           /\ FamiliesFounded' /\ RevokedStaysDead'
<1>1. \A j \in SessionIds :
          sessions'[j] = IF j \in ids THEN [sessions[j] EXCEPT !.revoked = TRUE] ELSE sessions[j]
  BY DEF Users!Revoked
<1>2. \A j \in ids :
          /\ sessions'[j] \in Users!SessionRows /\ sessions'[j] # None
          /\ sessions'[j].family = sessions[j].family
          /\ sessions'[j].consumed = sessions[j].consumed /\ sessions'[j].revoked = TRUE
  <2> SUFFICES ASSUME NEW j \in ids
               PROVE  /\ sessions'[j] \in Users!SessionRows /\ sessions'[j] # None
                      /\ sessions'[j].family = sessions[j].family
                      /\ sessions'[j].consumed = sessions[j].consumed /\ sessions'[j].revoked = TRUE
    OBVIOUS
  <2>1. sessions'[j] = [sessions[j] EXCEPT !.revoked = TRUE] /\ sessions[j] \in Users!SessionRows
    BY <1>1, SessionRow DEF UsersInv
  <2>2. sessions'[j] \in Users!SessionRows
    BY <2>1 DEF Users!SessionRows
  <2> QED
    BY <2>1, <2>2, UsersAssumption DEF Users!SessionRows, Users!Distinct
<1>3. sessions' \in [SessionIds -> Users!SessionRows \cup {None}]
  <2>1. \A j \in SessionIds : sessions'[j] \in Users!SessionRows \cup {None}
    BY <1>1, <1>2 DEF UsersInv, UsersType
  <2>2. sessions' = [j \in SessionIds |-> sessions'[j]]
    BY DEF Users!Revoked
  <2> QED
    BY <2>1, <2>2
<1>4. Users!Rows' = Users!Rows
  BY <1>1, <1>2 DEF Users!Rows
<1>5. \A j \in Users!Rows :
          /\ sessions'[j].family = sessions[j].family
          /\ sessions'[j].consumed = sessions[j].consumed
          /\ (sessions'[j].revoked <=> sessions[j].revoked \/ j \in ids)
  <2> SUFFICES ASSUME NEW j \in Users!Rows
               PROVE  /\ sessions'[j].family = sessions[j].family
                      /\ sessions'[j].consumed = sessions[j].consumed
                      /\ (sessions'[j].revoked <=> sessions[j].revoked \/ j \in ids)
    OBVIOUS
  <2>1. CASE j \in ids
    BY <1>2, <2>1
  <2>2. CASE j \notin ids
    BY <1>1, <2>2, SessionRow DEF UsersInv
  <2> QED
    BY <2>1, <2>2
<1>6. FamiliesFounded'
  BY <1>4, <1>5 DEF UsersInv, FamiliesFounded
<1>7. RevokedStaysDead'
  BY <1>4, <1>5 DEF UsersInv, RevokedStaysDead, Users!RevokedStaysDead, Users!Family
<1> QED
  BY <1>3, <1>4, <1>6, <1>7

\* A session is added: a founder, or the successor of one that was not used.
LEMMA AddedSession ==
    ASSUME UsersInv, NEW new \in Users!Free, NEW f \in SessionIds, UNCHANGED user, user.active,
           sessions'[new] = Users!Session(f),
           sessions' \in [SessionIds -> Users!SessionRows \cup {None}],
           \/ f = new /\ \A j \in SessionIds \ {new} : sessions'[j] = sessions[j]
           \/ \E i \in Users!Rows :
                 /\ f = sessions[i].family /\ ~sessions[i].consumed /\ ~sessions[i].revoked
                 /\ sessions'[i] # None /\ sessions'[i].consumed = TRUE
                 /\ sessions'[i].family = f /\ sessions'[i].revoked = sessions[i].revoked
                 /\ \A j \in SessionIds \ {i, new} : sessions'[j] = sessions[j]
    PROVE  /\ Users!Rows' = Users!Rows \cup {new}
           /\ FamiliesFounded' /\ RevokedStaysDead'
<1>1. new \in SessionIds /\ new \notin Users!Rows
  BY DEF Users!Free
<1>2. Users!Rows \subseteq SessionIds
  BY DEF Users!Rows
<1>3. /\ sessions'[new] # None /\ sessions'[new].family = f
      /\ ~sessions'[new].consumed /\ ~sessions'[new].revoked
  BY NewSession
<1>4. Users!Rows' = Users!Rows \cup {new}
  BY <1>1, <1>2, <1>3 DEF Users!Rows
<1>5. CASE f = new /\ \A j \in SessionIds \ {new} : sessions'[j] = sessions[j]
  <2>1. \A j \in Users!Rows : sessions'[j] = sessions[j] /\ sessions[j].family # new
    BY <1>1, <1>2, <1>5 DEF UsersInv, FamiliesFounded
  <2>2. FamiliesFounded'
    BY <1>3, <1>4, <1>5, <2>1 DEF UsersInv, FamiliesFounded
  <2>3. RevokedStaysDead'
    BY <1>1, <1>3, <1>4, <1>5, <2>1
    DEF UsersInv, RevokedStaysDead, Users!RevokedStaysDead, Users!Family
  <2> QED
    BY <1>4, <2>2, <2>3
<1>6. CASE \E i \in Users!Rows :
              /\ f = sessions[i].family /\ ~sessions[i].consumed /\ ~sessions[i].revoked
              /\ sessions'[i] # None /\ sessions'[i].consumed = TRUE
              /\ sessions'[i].family = f /\ sessions'[i].revoked = sessions[i].revoked
              /\ \A j \in SessionIds \ {i, new} : sessions'[j] = sessions[j]
  <2>1. PICK i \in Users!Rows :
              /\ f = sessions[i].family /\ ~sessions[i].consumed /\ ~sessions[i].revoked
              /\ sessions'[i] # None /\ sessions'[i].consumed = TRUE
              /\ sessions'[i].family = f /\ sessions'[i].revoked = sessions[i].revoked
              /\ \A j \in SessionIds \ {i, new} : sessions'[j] = sessions[j]
    BY <1>6
  <2>2. \A j \in Users!Rows :
            /\ sessions'[j].family = sessions[j].family
            /\ sessions'[j].revoked = sessions[j].revoked
            /\ j # i => sessions'[j].consumed = sessions[j].consumed
    BY <1>1, <1>2, <2>1
  <2>3. FamiliesFounded'
    BY <1>3, <1>4, <2>1, <2>2 DEF UsersInv, FamiliesFounded
  <2>4. \A j \in Users!Rows : sessions[j].family = f => ~sessions[j].revoked
                                  /\ (j # i => sessions[j].consumed)
    BY <2>1 DEF UsersInv, RevokedStaysDead, Users!RevokedStaysDead, Users!Family
  <2>5. RevokedStaysDead'
    BY <1>1, <1>3, <1>4, <2>1, <2>2, <2>4
    DEF UsersInv, RevokedStaysDead, Users!RevokedStaysDead, Users!Family
  <2> QED
    BY <1>4, <2>3, <2>5
<1> QED
  BY <1>5, <1>6

UserSessionsOK ==
    /\ sessions \in [SessionIds -> Users!SessionRows \cup {None}]
    /\ known \subseteq Users!Rows
    /\ FamiliesFounded
    /\ RevokedStaysDead

LEMMA UserSessionsRest ==
    ASSUME UsersInv, UNCHANGED <<sessions, known>>, user'.active = user.active
    PROVE  UserSessionsOK'
<1> QED
  BY DEF UsersInv, UsersType, UserSessionsOK, FamiliesFounded, RevokedStaysDead,
         Users!RevokedStaysDead, Users!Family, Users!Rows

LEMMA CreateSessionKeeps ==
    ASSUME UsersInv, NEW r \in Logins, Users!CreateSession(r)
    PROVE  UserSessionsOK'
<1>1. CASE user.active /\ \E new \in Users!Free :
              /\ sessions' = [sessions EXCEPT ![new] = Users!Session(new)]
              /\ Users!Answer(new)
  <2>1. PICK new \in Users!Free : /\ sessions' = [sessions EXCEPT ![new] = Users!Session(new)]
                                  /\ Users!Answer(new)
    BY <1>1
  <2>2. new \in SessionIds /\ UNCHANGED user
    BY DEF Users!Free, Users!CreateSession
  <2>3. sessions' \in [SessionIds -> Users!SessionRows \cup {None}]
        /\ sessions'[new] = Users!Session(new)
        /\ \A j \in SessionIds \ {new} : sessions'[j] = sessions[j]
    BY <2>1, <2>2, NewSession DEF UsersInv, UsersType
  <2>4. Users!Rows' = Users!Rows \cup {new} /\ FamiliesFounded' /\ RevokedStaysDead'
    BY <1>1, <2>2, <2>3, AddedSession
  <2> QED
    BY <2>1, <2>3, <2>4 DEF UserSessionsOK, UsersInv, UsersType, Users!Answer
<1>2. CASE UNCHANGED <<sessions, known>>
  BY <1>2, UserSessionsRest DEF Users!CreateSession
<1> QED
  BY <1>1, <1>2 DEF Users!CreateSession

LEMMA RotateKeeps ==
    ASSUME UsersInv, NEW i \in SessionIds, Users!Rotate(i)
    PROVE  UserSessionsOK'
<1>1. PICK new \in Users!Free :
          /\ sessions' = [sessions EXCEPT ![i].consumed = TRUE,
                                          ![new] = Users!Session(sessions[i].family)]
          /\ Users!Answer(new)
  BY DEF Users!Rotate
<1>2. i \in Users!Rows /\ new \in SessionIds /\ new # i /\ UNCHANGED user
  BY DEF UsersInv, UsersType, Users!Rotate, Users!Free
<1>3. sessions[i] \in Users!SessionRows /\ sessions[i].family \in SessionIds
  BY <1>2, SessionRow DEF UsersInv, Users!SessionRows
<1>4. PICK s : s = [sessions[i] EXCEPT !.consumed = TRUE]
  OBVIOUS
<1>5. s \in Users!SessionRows /\ s # None
  <2>1. s \in Users!SessionRows
    BY <1>3, <1>4 DEF Users!SessionRows
  <2> QED
    BY <2>1, UsersAssumption DEF Users!Distinct
<1>6. s.consumed = TRUE /\ s.family = sessions[i].family /\ s.revoked = sessions[i].revoked
  BY <1>3, <1>4 DEF Users!SessionRows
<1>7. sessions' = [[sessions EXCEPT ![i] = s] EXCEPT ![new] = Users!Session(sessions[i].family)]
  BY <1>1, <1>2, <1>4 DEF UsersInv, UsersType
<1>8. /\ sessions' \in [SessionIds -> Users!SessionRows \cup {None}]
      /\ sessions'[i] = s /\ sessions'[new] = Users!Session(sessions[i].family)
      /\ \A j \in SessionIds \ {i, new} : sessions'[j] = sessions[j]
  BY <1>2, <1>3, <1>5, <1>7, NewSession DEF UsersInv, UsersType
<1>9. ~sessions[i].consumed /\ ~sessions[i].revoked /\ user.active
  BY DEF Users!Rotate, Users!Usable
<1>10. Users!Rows' = Users!Rows \cup {new} /\ FamiliesFounded' /\ RevokedStaysDead'
  <2> DEFINE f == sessions[i].family
  <2>1. f = sessions[i].family /\ ~sessions[i].consumed /\ ~sessions[i].revoked
        /\ sessions'[i] # None /\ sessions'[i].consumed = TRUE
        /\ sessions'[i].family = f /\ sessions'[i].revoked = sessions[i].revoked
        /\ \A j \in SessionIds \ {i, new} : sessions'[j] = sessions[j]
    BY <1>5, <1>6, <1>8, <1>9
  <2>2. f \in SessionIds /\ sessions'[new] = Users!Session(f)
    BY <1>3, <1>8
  <2> HIDE DEF f
  <2> QED
    BY <1>2, <1>8, <1>9, <2>1, <2>2, AddedSession
<1> QED
  BY <1>1, <1>8, <1>10 DEF UserSessionsOK, UsersInv, UsersType, Users!Answer

LEMMA RevokeKeeps ==
    ASSUME UsersInv, NEW i \in Users!Rows, sessions' = Users!Revoked(Users!Family(i)),
           UNCHANGED <<user, known>>
    PROVE  UserSessionsOK'
<1>1. Users!Family(i) \subseteq Users!Rows
      /\ \A j \in Users!Family(i) : Users!Family(j) \subseteq Users!Family(i)
  BY DEF Users!Family
<1>2. PICK ids : ids = Users!Family(i)
  OBVIOUS
<1> QED
  BY <1>1, <1>2, RevokedFamily DEF UserSessionsOK, UsersInv, UsersType

LEMMA UserCommitKeeps ==
    ASSUME UsersInv, NEW r \in Logins, Users!Commit(r)
    PROVE  UserSessionsOK'
<1>1. CASE requests[r].phone = None
  <2>1. sessions' = Users!Revoked(Users!Rows) /\ UNCHANGED known
    BY <1>1 DEF Users!Commit
  <2>2. \A j \in Users!Rows : Users!Family(j) \subseteq Users!Rows
    BY DEF Users!Family
  <2>3. PICK ids : ids = Users!Rows
    OBVIOUS
  <2> QED
    BY <2>1, <2>2, <2>3, RevokedFamily DEF UserSessionsOK, UsersInv, UsersType
<1>2. CASE requests[r].phone # None
  <2>1. UNCHANGED <<sessions, known>> /\ user'.active = user.active
    BY <1>2 DEF Users!Commit, UsersInv, UsersType
  <2> QED
    BY <2>1, UserSessionsRest
<1> QED
  BY <1>1, <1>2

LEMMA SessionExpiresKeeps ==
    ASSUME UsersInv, NEW i \in SessionIds, Users!SessionExpires(i)
    PROVE  UserSessionsOK'
<1>1. i \in Users!Rows /\ sessions' = [sessions EXCEPT ![i].expired = TRUE] /\ UNCHANGED <<user, known>>
  BY DEF Users!SessionExpires
<1>2. PICK s : s = [sessions[i] EXCEPT !.expired = TRUE]
  OBVIOUS
<1>3. s \in Users!SessionRows /\ s.family = sessions[i].family
      /\ s.consumed = sessions[i].consumed /\ s.revoked = sessions[i].revoked
  BY <1>1, <1>2, SessionRow DEF UsersInv, Users!SessionRows
<1>4. s # None
  BY <1>3, UsersAssumption DEF Users!Distinct
<1>5. sessions' = [sessions EXCEPT ![i] = s]
  BY <1>1, <1>2
<1>6. /\ sessions' \in [SessionIds -> Users!SessionRows \cup {None}]
      /\ Users!Rows' = Users!Rows
  BY <1>1, <1>3, <1>4, <1>5 DEF UsersInv, UsersType, Users!Rows
<1>7. \A j \in Users!Rows : sessions'[j].family = sessions[j].family
          /\ sessions'[j].consumed = sessions[j].consumed
          /\ sessions'[j].revoked = sessions[j].revoked
  BY <1>3, <1>5, SessionRow DEF UsersInv, UsersType
<1>8. FamiliesFounded'
  BY <1>6, <1>7 DEF UsersInv, FamiliesFounded
<1>9. RevokedStaysDead'
  BY <1>1, <1>6, <1>7 DEF UsersInv, RevokedStaysDead, Users!RevokedStaysDead, Users!Family
<1> QED
  BY <1>1, <1>6, <1>8, <1>9 DEF UserSessionsOK, UsersInv, UsersType

UserRequestsOK ==
    /\ user \in [phone : Phones, active : BOOLEAN]
    /\ codes \subseteq Phones
    /\ lock \in Logins \cup {None}
    /\ requests \in [Logins -> UserRequests]
    /\ UserLocked
    /\ UserProofs

LEMMA UserRequestsRest ==
    ASSUME UsersInv, UNCHANGED <<user, lock, requests>>, codes' \subseteq Phones
    PROVE  UserRequestsOK'
<1> QED
  BY DEF UsersInv, UsersType, UserRequestsOK, UserLocked, UserProofs, Proves

\* One request moves; what it has to show is what its own row says.
LEMMA UserRequestMoves ==
    ASSUME UsersInv, NEW r \in Logins, NEW q \in UserRequests,
           requests' = [requests EXCEPT ![r] = q],
           lock' \in Logins \cup {None}, codes' \subseteq Phones,
           user' \in [phone : Phones, active : BOOLEAN],
           user'.phone = user.phone \/ lock = r,
           lock' = lock \/ lock = None \/ lock = r,
           q.at \in {"verify", "write"} => lock' = r,
           q.verified # None => {q.verified} \cup ({q.phone} \ {None}) \subseteq q.proved,
           q.at = "write" => q.verified = user'.phone
    PROVE  UserRequestsOK'
<1>1. /\ requests' \in [Logins -> UserRequests] /\ requests'[r] = q
      /\ \A o \in Logins \ {r} : requests'[o] = requests[o]
  BY DEF UsersInv, UsersType
<1>2. None \notin Logins
  BY UsersAssumption DEF Users!Distinct
<1>3. UserLocked'
  BY <1>1, <1>2 DEF UsersInv, UserLocked
<1>4. UserProofs'
  <2>1. ASSUME NEW o \in Logins, o # r
        PROVE  Proves(o)' /\ (requests'[o].at = "write" => requests'[o].verified = user'.phone)
    <3>1. requests'[o] = requests[o] /\ Proves(o)
          /\ (requests[o].at = "write" => requests[o].verified = user.phone /\ lock = o)
      BY <1>1, <2>1 DEF UsersInv, UserLocked, UserProofs
    <3> QED
      BY <2>1, <3>1 DEF Proves
  <2>2. Proves(r)' /\ (requests'[r].at = "write" => requests'[r].verified = user'.phone)
    BY <1>1 DEF Proves
  <2> QED
    BY <2>1, <2>2 DEF UserProofs
<1> QED
  BY <1>1, <1>3, <1>4 DEF UserRequestsOK

\* A request goes on, or ends, and keeps what it has proved.
LEMMA UserGoes ==
    ASSUME UsersInv, NEW r \in Logins, NEW place \in UserPlaces, Users!Goes(r, place),
           UNCHANGED codes, user' \in [phone : Phones, active : BOOLEAN],
           user'.phone = user.phone \/ lock = r,
           lock' \in {lock, None}, lock' = lock \/ lock = r,
           place \notin {"verify", "write"}
    PROVE  UserRequestsOK'
<1>1. PICK q : q = [requests[r] EXCEPT !.at = place]
  OBVIOUS
<1>2. requests[r] \in UserRequests
  BY DEF UsersInv, UsersType
<1>3. q \in UserRequests /\ q.at = place /\ q.verified = requests[r].verified
      /\ q.phone = requests[r].phone /\ q.proved = requests[r].proved
  BY <1>1, <1>2 DEF UserRequests
<1>4. requests' = [requests EXCEPT ![r] = q]
  BY <1>1 DEF Users!Goes
<1>5. lock' \in Logins \cup {None} /\ codes' \subseteq Phones
  BY DEF UsersInv, UsersType
<1>6. Proves(r)
  BY DEF UsersInv, UserProofs
<1> QED
  BY <1>3, <1>4, <1>5, <1>6, UserRequestMoves DEF Proves

LEMMA StartKeeps ==
    ASSUME UsersInv, NEW r \in Logins,
           (\E p \in Phones : Users!Login(r, p)) \/ Users!Start(r)
    PROVE  UserRequestsOK'
<1>1. PICK p \in Phones \cup {None}, place \in {"find", "begin"} :
          \/ requests' = [requests EXCEPT ![r] = [Users!Idle EXCEPT !.at = place, !.phone = p]]
          \/ requests' = [requests EXCEPT ![r].at = "begin", ![r].verified = None,
                                          ![r].tries = 0, ![r].proved = {}]
  BY DEF Users!Login, Users!Start
<1>2. codes' \subseteq Phones /\ UNCHANGED <<user, lock>>
      /\ lock \in Logins \cup {None} /\ user \in [phone : Phones, active : BOOLEAN]
  BY DEF Users!Login, Users!Start, UsersInv, UsersType
<1>3. CASE requests' = [requests EXCEPT ![r] = [Users!Idle EXCEPT !.at = place, !.phone = p]]
  <2>1. PICK q : q = [Users!Idle EXCEPT !.at = place, !.phone = p]
    OBVIOUS
  <2>2. q \in UserRequests /\ q.at \in {"find", "begin"} /\ q.verified = None
    BY <2>1 DEF Users!Idle, UserRequests, UserPlaces
  <2> QED
    BY <1>2, <1>3, <2>1, <2>2, UserRequestMoves
<1>4. CASE requests' = [requests EXCEPT ![r].at = "begin", ![r].verified = None,
                                        ![r].tries = 0, ![r].proved = {}]
  <2>1. PICK q : q = [requests[r] EXCEPT !.at = "begin", !.verified = None,
                                         !.tries = 0, !.proved = {}]
    OBVIOUS
  <2>2. requests[r] \in UserRequests
    BY DEF UsersInv, UsersType
  <2>3. q \in UserRequests /\ q.at = "begin" /\ q.verified = None
    BY <2>1, <2>2 DEF UserRequests, UserPlaces
  <2>4. requests' = [requests EXCEPT ![r] = q]
    BY <1>4, <2>1
  <2> QED
    BY <1>2, <2>3, <2>4, UserRequestMoves
<1> QED
  BY <1>1, <1>3, <1>4

LEMMA BeginKeeps ==
    ASSUME UsersInv, NEW r \in Logins, Users!Begin(r)
    PROVE  UserRequestsOK'
<1>1. CASE Users!Goes(r, "done") /\ UNCHANGED lock
  BY <1>1, UserGoes DEF Users!Begin, UserPlaces, UsersInv, UsersType
<1>2. CASE /\ lock' = r
           /\ requests' = [requests EXCEPT ![r].at = "verify", ![r].tries = @ + 1]
  <2>1. PICK q : q = [requests[r] EXCEPT !.at = "verify", !.tries = @ + 1]
    OBVIOUS
  <2>2. requests[r] \in UserRequests /\ Proves(r)
    BY DEF UsersInv, UsersType, UserProofs
  <2>3. requests[r].tries + 1 \in Nat
    BY <2>2 DEF UserRequests
  <2>4. q \in UserRequests /\ q.at = "verify" /\ q.verified = requests[r].verified
        /\ q.phone = requests[r].phone /\ q.proved = requests[r].proved
    BY <2>1, <2>2, <2>3 DEF UserRequests, UserPlaces
  <2>5. requests' = [requests EXCEPT ![r] = q]
    BY <1>2, <2>1
  <2>6. UNCHANGED <<user, codes>> /\ codes \subseteq Phones
        /\ user \in [phone : Phones, active : BOOLEAN] /\ lock = None
    BY DEF Users!Begin, UsersInv, UsersType
  <2> QED
    BY <1>2, <2>2, <2>4, <2>5, <2>6, UserRequestMoves DEF Proves
<1> QED
  BY <1>1, <1>2 DEF Users!Begin

LEMMA VerifyKeeps ==
    ASSUME UsersInv, NEW r \in Logins, Users!VerifyCodes(r)
    PROVE  UserRequestsOK'
<1>1. lock = r /\ UNCHANGED user /\ user \in [phone : Phones, active : BOOLEAN]
      /\ codes' \subseteq Phones /\ codes \subseteq Phones
  BY DEF Users!VerifyCodes, Users!At, UsersInv, UsersType, UserLocked
<1>2. PICK good \in SUBSET (Users!NeededBy(r) \cap codes) :
          IF good = Users!NeededBy(r)
          THEN /\ requests' = [requests EXCEPT ![r].at = "write", ![r].proved = good,
                                               ![r].verified = user.phone]
               /\ UNCHANGED lock
          ELSE Users!Goes(r, "failed") /\ lock' = None
  BY DEF Users!VerifyCodes
<1>3. requests[r] \in UserRequests /\ Proves(r)
  BY DEF UsersInv, UsersType, UserProofs
<1>4. CASE good = Users!NeededBy(r)
  <2>1. PICK q : q = [requests[r] EXCEPT !.at = "write", !.proved = good, !.verified = user.phone]
    OBVIOUS
  <2>2. q \in UserRequests /\ q.at = "write" /\ q.verified = user.phone
        /\ q.phone = requests[r].phone /\ q.proved = good
    BY <1>1, <1>3, <2>1 DEF UserRequests, UserPlaces
  <2>3. {user.phone} \cup ({q.phone} \ {None}) \subseteq good
    BY <1>4, <2>2 DEF Users!NeededBy
  <2>4. requests' = [requests EXCEPT ![r] = q] /\ lock' = lock
    BY <1>2, <1>4, <2>1
  <2> QED
    BY <1>1, <2>2, <2>3, <2>4, UserRequestMoves
<1>5. CASE good # Users!NeededBy(r)
  <2>1. PICK q : q = [requests[r] EXCEPT !.at = "failed"]
    OBVIOUS
  <2>2. q \in UserRequests /\ q.at = "failed" /\ q.verified = requests[r].verified
        /\ q.phone = requests[r].phone /\ q.proved = requests[r].proved
    BY <1>3, <2>1 DEF UserRequests, UserPlaces
  <2>3. requests' = [requests EXCEPT ![r] = q] /\ lock' = None
    BY <1>2, <1>5, <2>1 DEF Users!Goes
  <2> QED
    BY <1>1, <1>3, <2>2, <2>3, UserRequestMoves DEF Proves
<1> QED
  BY <1>4, <1>5

LEMMA RecheckKeeps ==
    ASSUME UsersInv, NEW r \in Logins, Users!Recheck(r)
    PROVE  UserRequestsOK'
<1>1. lock = r /\ UNCHANGED <<user, codes>> /\ user \in [phone : Phones, active : BOOLEAN]
      /\ codes \subseteq Phones
  BY DEF Users!Recheck, Users!At, UsersInv, UsersType, UserLocked
<1>2. CASE ~Users!StillProves(r)
  BY <1>1, <1>2, UserGoes DEF Users!Recheck, UserPlaces
<1>3. CASE Users!StillProves(r)
  <2>1. PICK q : q = [requests[r] EXCEPT !.at = "write"]
    OBVIOUS
  <2>2. requests[r] \in UserRequests /\ Proves(r) /\ requests[r].verified = user.phone
    BY <1>3 DEF UsersInv, UsersType, UserProofs, Users!StillProves
  <2>3. q \in UserRequests /\ q.at = "write" /\ q.verified = requests[r].verified
        /\ q.phone = requests[r].phone /\ q.proved = requests[r].proved
    BY <2>1, <2>2 DEF UserRequests, UserPlaces
  <2>4. requests' = [requests EXCEPT ![r] = q] /\ lock' = lock
    BY <1>3, <2>1 DEF Users!Recheck, Users!Goes
  <2> QED
    BY <1>1, <2>2, <2>3, <2>4, UserRequestMoves DEF Proves
<1> QED
  BY <1>2, <1>3

LEMMA UserEndsKeeps ==
    ASSUME UsersInv, NEW r \in Logins,
           Users!Commit(r) \/ Users!Rollback(r) \/ Users!Fail(r)
    PROVE  UserRequestsOK'
<1>1. lock = r /\ lock' = None /\ UNCHANGED codes
  BY DEF Users!Commit, Users!Rollback, Users!Fail, Users!At, UsersInv, UserLocked
<1>2. PICK place \in {"done", "failed", "begin"} : Users!Goes(r, place)
  BY DEF Users!Commit, Users!Rollback, Users!Fail
<1>3. user' \in [phone : Phones, active : BOOLEAN]
  <2>1. requests[r].phone \in Phones \cup {None}
    BY DEF UsersInv, UsersType, UserRequests
  <2> QED
    BY <2>1 DEF Users!Commit, Users!Rollback, Users!Fail, UsersInv, UsersType
<1> QED
  BY <1>1, <1>2, <1>3, UserGoes DEF UserPlaces

LEMMA UsersStep ==
    ASSUME UsersInv, [Users!Next]_userVars
    PROVE  UsersInv'
<1>1. CASE UNCHANGED userVars
  BY <1>1, UserSessionsRest, UserRequestsRest
  DEF userVars, UserSessionsOK, UserRequestsOK, UsersInv, UsersType
<1>2. ASSUME NEW p \in Phones, Users!IssueCode(p) \/ Users!CodeEnds(p)
      PROVE  UsersInv'
  <2>1. UNCHANGED <<user, sessions, known, lock, requests>> /\ codes' \subseteq Phones
    BY <1>2 DEF Users!IssueCode, Users!CodeEnds, UsersInv, UsersType
  <2> QED
    BY <2>1, UserSessionsRest, UserRequestsRest
    DEF UserSessionsOK, UserRequestsOK, UsersInv, UsersType
<1>3. ASSUME NEW i \in SessionIds,
             Users!Rotate(i) \/ Users!ReuseDetected(i) \/ Users!Revoke(i) \/ Users!SessionExpires(i)
      PROVE  UsersInv'
  <2>1. UNCHANGED <<user, lock, requests, codes>>
    BY <1>3 DEF Users!Rotate, Users!ReuseDetected, Users!Revoke, Users!SessionExpires
  <2>2. UserRequestsOK'
    BY <2>1, UserRequestsRest DEF UsersInv, UsersType
  <2>3. UserSessionsOK'
    <3>1. CASE Users!ReuseDetected(i) \/ Users!Revoke(i)
      <4>1. i \in Users!Rows
        BY <3>1 DEF Users!ReuseDetected, Users!Revoke, UsersInv, UsersType
      <4> QED
        BY <3>1, <4>1, RevokeKeeps DEF Users!ReuseDetected, Users!Revoke
    <3> QED
      BY <1>3, <3>1, RotateKeeps, SessionExpiresKeeps
  <2> QED
    BY <2>2, <2>3 DEF UserSessionsOK, UserRequestsOK, UsersInv, UsersType
<1>4. ASSUME NEW r \in Logins, Users!Serve(r)
      PROVE  UsersInv'
  <2>1. UserSessionsOK'
    <3>1. CASE Users!CreateSession(r)
      BY <3>1, CreateSessionKeeps
    <3>2. CASE Users!Commit(r)
      BY <3>2, UserCommitKeeps
    <3>3. CASE UNCHANGED <<user, sessions, known>>
      BY <3>3, UserSessionsRest
    <3> QED
      BY <1>4, <3>1, <3>2, <3>3
      DEF Users!Serve, Users!Login, Users!FindUser, Users!Start, Users!Begin, Users!VerifyCodes,
          Users!Recheck, Users!Rollback, Users!Fail
  <2>2. UserRequestsOK'
    <3>1. CASE Users!FindUser(r) \/ Users!CreateSession(r)
      <4>1. UNCHANGED <<user, codes, lock>> /\ user \in [phone : Phones, active : BOOLEAN]
        BY <3>1 DEF Users!FindUser, Users!CreateSession, UsersInv, UsersType
      <4>2. PICK place \in {"create", "done"} : Users!Goes(r, place)
        BY <3>1 DEF Users!FindUser, Users!CreateSession
      <4> QED
        BY <4>1, <4>2, UserGoes DEF UserPlaces
    <3> QED
      BY <1>4, <3>1, StartKeeps, BeginKeeps, VerifyKeeps, RecheckKeeps, UserEndsKeeps
      DEF Users!Serve
  <2> QED
    BY <2>1, <2>2 DEF UserSessionsOK, UserRequestsOK, UsersInv, UsersType
<1> QED
  BY <1>1, <1>2, <1>3, <1>4 DEF Users!Next

LEMMA UsersInit == Users!Init => UsersInv
<1> SUFFICES ASSUME Users!Init PROVE UsersInv
  OBVIOUS
<1>1. Users!Rows = {}
  BY DEF Users!Init, Users!Rows
<1>2. UsersType
  <2>1. Users!Idle \in UserRequests
    BY DEF Users!Idle, UserRequests, UserPlaces
  <2>2. PICK p \in Phones : user = [phone |-> p, active |-> TRUE]
    BY DEF Users!Init
  <2> QED
    BY <1>1, <2>1, <2>2 DEF Users!Init, UsersType
<1>3. RevokedStaysDead /\ FamiliesFounded
  BY <1>1 DEF RevokedStaysDead, Users!RevokedStaysDead, FamiliesFounded
<1>4. UserLocked /\ UserProofs
  BY DEF Users!Init, Users!Idle, UserLocked, UserProofs, Proves
<1> QED
  BY <1>2, <1>3, <1>4 DEF UsersInv

LEMMA UsersInvHolds == ServicesSpec => []UsersInv
<1>1. ServicesInit => UsersInv
  BY UsersInit DEF ServicesInit
<1>2. UsersInv /\ [ServicesNext]_serviceVars => UsersInv'
  BY UsersStep, OneServiceSteps
<1> QED
  BY <1>1, <1>2, PTL DEF ServicesSpec

\* Whatever refreshes, logouts, reuses and closings of the account race, and for
\* any number of sessions and requests, a revoked family has no live session, a
\* token has one successor, and a closed account has no session
\* (prisma-session.repository.ts, identity-account.service.ts).
THEOREM RevokedAreDead == ServicesSpec => []RevokedStaysDead
<1>1. UsersInv => RevokedStaysDead
  BY DEF UsersInv
<1> QED
  BY <1>1, UsersInvHolds, PTL

\* For any number of operations, attempts and phones, a phone changes and an
\* account closes only by a request that has proved the phone the user has at
\* that moment, and the new one (identity-account.service.ts).
THEOREM ChangesAreProved == ServicesSpec => ChangeIsProved
<1>1. ASSUME UsersInv, [Users!Next]_userVars, user' # user
      PROVE  \E r \in Logins : {user.phone, user'.phone} \subseteq requests[r].proved
  <2>1. PICK r \in Logins : Users!Commit(r)
    BY <1>1
    DEF userVars, Users!Next, Users!IssueCode, Users!CodeEnds, Users!Rotate, Users!ReuseDetected,
        Users!Revoke, Users!SessionExpires, Users!Serve, Users!Login, Users!FindUser,
        Users!CreateSession, Users!Start, Users!Begin, Users!VerifyCodes, Users!Recheck,
        Users!Rollback, Users!Fail
  <2>2. /\ requests[r].verified = user.phone /\ Proves(r)
        /\ user \in [phone : Phones, active : BOOLEAN] /\ user.phone # None
    BY <1>1, <2>1, UsersAssumption
    DEF UsersInv, UsersType, UserProofs, Users!Commit, Users!At, Users!Distinct
  <2>3. user'.phone = user.phone \/ (requests[r].phone # None /\ user'.phone = requests[r].phone)
    BY <2>1, <2>2 DEF Users!Commit
  <2>4. /\ user.phone \in requests[r].proved
        /\ requests[r].phone # None => requests[r].phone \in requests[r].proved
    BY <2>2 DEF Proves
  <2>5. user'.phone \in requests[r].proved
    BY <2>3, <2>4
  <2> QED
    BY <2>4, <2>5
<1>2. UsersInv /\ [ServicesNext]_serviceVars
          => [user' # user => \E r \in Logins : {user.phone, user'.phone} \subseteq requests[r].proved]_(Users!vars)
  BY <1>1, OneServiceSteps DEF userVars, Users!vars
<1> QED
  BY <1>2, UsersInvHolds, PTL DEF ServicesSpec, ChangeIsProved, Users!ChangeIsProved


-----------------------------------------------------------------------------
(* The versions of a subject, and the banners of a slot (Publication).     *)

VersionRows ==
    [status : {"DRAFT", "PUBLISHED", "RETIRED"}, revision : Nat,
     base : Nat \cup {None}, terms : Terms]

CmsOps == {"none", "publish", "retire", "update", "draft", "rollback", "purchase",
           "place", "reorder"}

CmsCalls ==
    [op : CmsOps, at : {"idle", "load", "commit"}, id : Nat \cup Banners \cup {None},
     seen : Nat \cup {None}, terms : Terms \cup {None}, base : Nat \cup {None},
     order : Cms!Positions \cup {None} \cup [Banners -> Cms!Positions \cup {None}]]

CmsType ==
    /\ versions \in Seq(VersionRows)
    /\ placed \in [Banners -> Cms!Positions \cup {None}]
    /\ slot \in Nat
    /\ calls \in [Editors -> CmsCalls]

\* What a request says of versions: of those there are, and in terms there are.
SaysTerms(c) ==
    calls[c].op \in {"update", "draft", "rollback"} => calls[c].terms \in Terms

NamesVersion(c) ==
    calls[c].op \in {"publish", "retire", "update", "purchase"} => calls[c].id \in DOMAIN versions

\* As long as the version has the revision its publisher has in view, it says
\* what the publisher has in view; and the draft is based on what was read as
\* published.
Reviewed(c) ==
    calls[c].op = "publish" =>
        LET v == versions[calls[c].id]
        IN  /\ calls[c].seen \in Nat /\ calls[c].seen <= v.revision
            /\ v.revision = calls[c].seen => v.terms = calls[c].terms
            /\ calls[c].at = "commit" => v.base = calls[c].base

CallsReviewed ==
    \A c \in Editors : SaysTerms(c) /\ NamesVersion(c) /\ Reviewed(c)

\* As long as the slot has the revision read, the position is free.
PositionFree(c) ==
    calls[c].op \in {"place", "reorder"} =>
        /\ calls[c].seen \in Nat /\ calls[c].seen <= slot
        /\ calls[c].op = "place" /\ calls[c].at = "commit" /\ calls[c].seen = slot =>
               \A b \in Banners : placed[b] # calls[c].order
        /\ calls[c].op = "place" => calls[c].order \in Cms!Positions
        /\ calls[c].op = "reorder" =>
               /\ calls[c].order \in [Banners -> Cms!Positions \cup {None}]
               /\ \A a, b \in Banners :
                      calls[c].order[a] = calls[c].order[b] => a = b \/ calls[c].order[a] = None

PositionsFree == \A c \in Editors : PositionFree(c)

CmsInv ==
    /\ CmsType
    /\ CallsReviewed
    /\ PositionsFree
    /\ BannersDistinct

LEMMA CmsIdle == Cms!Idle \in CmsCalls /\ Cms!Idle.op = "none" /\ Cms!Idle.at = "idle"
<1> QED
  BY DEF Cms!Idle, CmsCalls, CmsOps

LEMMA VersionRow ==
    ASSUME NEW v \in Seq(VersionRows), NEW n \in DOMAIN v
    PROVE  /\ n \in Nat /\ v[n] \in VersionRows
           /\ v[n].revision \in Nat /\ v[n].terms \in Terms
           /\ v[n].base \in Nat \cup {None}
<1>1. n \in Nat /\ v[n] \in VersionRows
  OBVIOUS
<1> QED
  BY <1>1 DEF VersionRows

\* One request goes on; the versions only gain what is newer.
LEMMA VersionsMove ==
    ASSUME CmsInv, NEW c \in Editors, NEW q \in CmsCalls, calls' = [calls EXCEPT ![c] = q],
           UNCHANGED <<placed, slot>>, versions' \in Seq(VersionRows),
           \A n \in DOMAIN versions :
               /\ n \in DOMAIN versions'
               /\ versions'[n].base = versions[n].base
               /\ versions[n].revision <= versions'[n].revision
               /\ versions'[n].revision = versions[n].revision
                      => versions'[n].terms = versions[n].terms,
           SaysTerms(c)', NamesVersion(c)', Reviewed(c)', PositionFree(c)'
    PROVE  CmsInv'
<1>1. /\ calls' \in [Editors -> CmsCalls]
      /\ \A d \in Editors \ {c} : calls'[d] = calls[d]
  BY DEF CmsInv, CmsType
<1>2. CmsType' /\ BannersDistinct'
  BY <1>1 DEF CmsInv, CmsType, BannersDistinct, Cms!BannersDistinct
<1>3. ASSUME NEW d \in Editors \ {c}
      PROVE  SaysTerms(d)' /\ NamesVersion(d)' /\ Reviewed(d)' /\ PositionFree(d)'
  <2>1. SaysTerms(d) /\ NamesVersion(d) /\ Reviewed(d) /\ PositionFree(d)
    BY DEF CmsInv, CallsReviewed, PositionsFree
  <2>2. SaysTerms(d)' /\ NamesVersion(d)' /\ PositionFree(d)'
    BY <1>1, <2>1 DEF SaysTerms, NamesVersion, PositionFree
  <2>3. Reviewed(d)'
    <3>1. SUFFICES ASSUME calls[d].op = "publish"
                   PROVE  Reviewed(d)'
      BY <1>1 DEF Reviewed
    <3>2. calls[d].id \in DOMAIN versions /\ calls[d].id \in DOMAIN versions'
      BY <2>1, <3>1 DEF NamesVersion
    <3>3. versions[calls[d].id].revision \in Nat /\ versions'[calls[d].id].revision \in Nat
      BY <3>2, VersionRow DEF CmsInv, CmsType
    <3> QED
      BY <1>1, <2>1, <3>1, <3>2, <3>3 DEF Reviewed
  <2> QED
    BY <2>2, <2>3
<1>4. CallsReviewed' /\ PositionsFree'
  BY <1>3 DEF CallsReviewed, PositionsFree
<1> QED
  BY <1>2, <1>4 DEF CmsInv

\* The versions stay as they are.
LEMMA CmsGoes ==
    ASSUME CmsInv, NEW c \in Editors, NEW q \in CmsCalls, calls' = [calls EXCEPT ![c] = q],
           UNCHANGED <<versions, placed, slot>>,
           SaysTerms(c)', NamesVersion(c)', Reviewed(c)', PositionFree(c)'
    PROVE  CmsInv'
<1>1. versions' \in Seq(VersionRows)
  BY DEF CmsInv, CmsType
<1>2. \A n \in DOMAIN versions : versions[n].revision \in Nat
  BY VersionRow DEF CmsInv, CmsType
<1>3. \A n \in DOMAIN versions :
          /\ n \in DOMAIN versions'
          /\ versions'[n].base = versions[n].base
          /\ versions[n].revision <= versions'[n].revision
          /\ versions'[n].terms = versions[n].terms
  BY <1>2
<1> QED
  BY <1>1, <1>3, VersionsMove

\* A request ends.
LEMMA CmsEnds ==
    ASSUME NEW c \in Editors, CmsInv, Cms!Goes(c, Cms!Idle)
    PROVE  /\ calls' = [calls EXCEPT ![c] = Cms!Idle] /\ calls'[c] = Cms!Idle
           /\ SaysTerms(c)' /\ NamesVersion(c)' /\ Reviewed(c)' /\ PositionFree(c)'
<1>1. calls' = [calls EXCEPT ![c] = Cms!Idle] /\ calls'[c] = Cms!Idle
  BY DEF Cms!Goes, CmsInv, CmsType
<1> QED
  BY <1>1, CmsIdle DEF SaysTerms, NamesVersion, Reviewed, PositionFree

\* The slot moves on: nobody else has it in view as it is now.
LEMMA SlotMoves ==
    ASSUME CmsInv, NEW c \in Editors, Cms!Goes(c, Cms!Idle), UNCHANGED versions,
           slot' = slot + 1, placed' \in [Banners -> Cms!Positions \cup {None}], BannersDistinct'
    PROVE  CmsInv'
<1>1. /\ calls' \in [Editors -> CmsCalls]
      /\ \A d \in Editors \ {c} : calls'[d] = calls[d]
  BY CmsIdle DEF CmsInv, CmsType, Cms!Goes
<1>2. CmsType'
  BY <1>1 DEF CmsInv, CmsType
<1>3. ASSUME NEW d \in Editors \ {c}
      PROVE  SaysTerms(d)' /\ NamesVersion(d)' /\ Reviewed(d)' /\ PositionFree(d)'
  <2>1. SaysTerms(d) /\ NamesVersion(d) /\ Reviewed(d) /\ PositionFree(d)
    BY DEF CmsInv, CallsReviewed, PositionsFree
  <2>2. SaysTerms(d)' /\ NamesVersion(d)' /\ Reviewed(d)'
    BY <1>1, <2>1 DEF SaysTerms, NamesVersion, Reviewed
  <2>3. PositionFree(d)'
    BY <1>1, <2>1 DEF PositionFree, CmsInv, CmsType
  <2> QED
    BY <2>2, <2>3
<1>4. CallsReviewed' /\ PositionsFree'
  BY <1>3, CmsEnds DEF CallsReviewed, PositionsFree
<1> QED
  BY <1>2, <1>4 DEF CmsInv

LEMMA RequestKeeps ==
    ASSUME CmsInv, NEW c \in Editors, Cms!Request(c)
    PROVE  CmsInv'
<1>1. UNCHANGED <<versions, placed, slot>>
  BY DEF Cms!Request, Cms!AskPublish, Cms!AskRetire, Cms!AskUpdate, Cms!AskDraft, Cms!AskRollback,
         Cms!AskPurchase, Cms!AskPlace, Cms!AskReorder, Cms!Asks
<1>2. \A n \in DOMAIN versions : n \in Nat /\ versions[n] \in VersionRows
  BY DEF CmsInv, CmsType
<1>3. ASSUME NEW q \in CmsCalls, q.at = "load", Cms!Goes(c, q),
             q.op \in {"update", "draft", "rollback"} => q.terms \in Terms,
             q.op \in {"publish", "retire", "update", "purchase"} => q.id \in DOMAIN versions,
             q.op = "publish" => /\ q.seen = versions[q.id].revision
                                 /\ q.terms = versions[q.id].terms,
             q.op \in {"place", "reorder"} => q.seen = slot,
             q.op = "place" => q.order \in Cms!Positions,
             q.op = "reorder" =>
                 /\ q.order \in [Banners -> Cms!Positions \cup {None}]
                 /\ \A a, b \in Banners : q.order[a] = q.order[b] => a = b \/ q.order[a] = None
      PROVE  CmsInv'
  <2>1. calls' = [calls EXCEPT ![c] = q] /\ calls'[c] = q
    BY <1>3 DEF Cms!Goes, CmsInv, CmsType
  <2>2. SaysTerms(c)' /\ NamesVersion(c)'
    BY <1>1, <1>3, <2>1 DEF SaysTerms, NamesVersion
  <2>3. Reviewed(c)'
    BY <1>1, <1>2, <1>3, <2>1 DEF Reviewed, VersionRows
  <2>4. PositionFree(c)'
    <3>1. slot \in Nat
      BY DEF CmsInv, CmsType
    <3> QED
      BY <1>1, <1>3, <2>1, <3>1 DEF PositionFree
  <2> QED
    BY <1>1, <2>1, <2>2, <2>3, <2>4, CmsGoes
<1>4. ASSUME NEW n \in DOMAIN versions, Cms!AskPublish(c, n)
      PROVE  CmsInv'
  <2>1. PICK q : q = [Cms!Idle EXCEPT !.op = "publish", !.id = n, !.at = "load",
                          !.seen = versions[n].revision, !.terms = versions[n].terms]
    OBVIOUS
  <2>2. q \in CmsCalls /\ q.at = "load" /\ q.op = "publish" /\ q.id = n
        /\ q.seen = versions[n].revision /\ q.terms = versions[n].terms
    BY <1>2, <2>1 DEF Cms!Idle, CmsCalls, CmsOps, VersionRows
  <2>3. Cms!Goes(c, q)
    BY <1>4, <2>1 DEF Cms!AskPublish, Cms!Asks, Cms!Idle
  <2> QED
    BY <1>3, <2>2, <2>3
<1>5. ASSUME NEW n \in DOMAIN versions, Cms!AskRetire(c, n)
      PROVE  CmsInv'
  <2>1. PICK q : q = [Cms!Idle EXCEPT !.op = "retire", !.id = n, !.at = "load",
                          !.seen = versions[n].revision]
    OBVIOUS
  <2>2. q \in CmsCalls /\ q.at = "load" /\ q.op = "retire" /\ q.id = n
    BY <1>2, <2>1 DEF Cms!Idle, CmsCalls, CmsOps, VersionRows
  <2>3. Cms!Goes(c, q)
    BY <1>5, <2>1 DEF Cms!AskRetire, Cms!Asks, Cms!Idle
  <2> QED
    BY <1>3, <2>2, <2>3
<1>6. ASSUME NEW n \in DOMAIN versions, Cms!AskRollback(c, n)
      PROVE  CmsInv'
  <2>1. PICK q : q = [Cms!Idle EXCEPT !.op = "rollback", !.at = "load",
                          !.terms = versions[n].terms]
    OBVIOUS
  <2>2. q \in CmsCalls /\ q.at = "load" /\ q.op = "rollback" /\ q.terms \in Terms
    BY <1>2, <2>1 DEF Cms!Idle, CmsCalls, CmsOps, VersionRows
  <2>3. Cms!Goes(c, q)
    BY <1>6, <2>1 DEF Cms!AskRollback, Cms!Asks, Cms!Idle
  <2> QED
    BY <1>3, <2>2, <2>3
<1>7. ASSUME NEW n \in DOMAIN versions, Cms!AskPurchase(c, n)
      PROVE  CmsInv'
  <2>1. PICK q : q = [Cms!Idle EXCEPT !.op = "purchase", !.id = n, !.at = "load"]
    OBVIOUS
  <2>2. q \in CmsCalls /\ q.at = "load" /\ q.op = "purchase" /\ q.id = n
    BY <1>2, <2>1 DEF Cms!Idle, CmsCalls, CmsOps
  <2>3. Cms!Goes(c, q)
    BY <1>7, <2>1 DEF Cms!AskPurchase, Cms!Asks, Cms!Idle
  <2> QED
    BY <1>3, <2>2, <2>3
<1>8. ASSUME NEW n \in DOMAIN versions, NEW t \in Terms, Cms!AskUpdate(c, n, t)
      PROVE  CmsInv'
  <2>1. PICK q : q = [Cms!Idle EXCEPT !.op = "update", !.id = n, !.at = "load",
                          !.seen = versions[n].revision, !.terms = t]
    OBVIOUS
  <2>2. q \in CmsCalls /\ q.at = "load" /\ q.op = "update" /\ q.id = n /\ q.terms = t
    BY <1>2, <2>1 DEF Cms!Idle, CmsCalls, CmsOps, VersionRows
  <2>3. Cms!Goes(c, q)
    BY <1>8, <2>1 DEF Cms!AskUpdate, Cms!Asks, Cms!Idle
  <2> QED
    BY <1>3, <2>2, <2>3
<1>9. ASSUME NEW t \in Terms, Cms!AskDraft(c, t)
      PROVE  CmsInv'
  <2>1. PICK q : q = [Cms!Idle EXCEPT !.op = "draft", !.at = "load", !.terms = t]
    OBVIOUS
  <2>2. q \in CmsCalls /\ q.at = "load" /\ q.op = "draft" /\ q.terms = t
    BY <2>1 DEF Cms!Idle, CmsCalls, CmsOps
  <2>3. Cms!Goes(c, q)
    BY <1>9, <2>1 DEF Cms!AskDraft, Cms!Asks, Cms!Idle
  <2> QED
    BY <1>3, <2>2, <2>3
<1>10. ASSUME NEW b \in Banners, NEW p \in Cms!Positions, Cms!AskPlace(c, b, p)
       PROVE  CmsInv'
  <2>1. PICK q : q = [Cms!Idle EXCEPT !.op = "place", !.id = b, !.at = "load",
                          !.seen = slot, !.order = p]
    OBVIOUS
  <2>2. slot \in Nat
    BY DEF CmsInv, CmsType
  <2>3. q \in CmsCalls /\ q.at = "load" /\ q.op = "place" /\ q.seen = slot /\ q.order = p
    BY <2>1, <2>2 DEF Cms!Idle, CmsCalls, CmsOps
  <2>4. Cms!Goes(c, q)
    BY <1>10, <2>1 DEF Cms!AskPlace, Cms!Asks, Cms!Idle
  <2> QED
    BY <1>3, <2>3, <2>4
<1>11. ASSUME NEW order \in Cms!Orders, Cms!AskReorder(c, order)
       PROVE  CmsInv'
  <2>1. PICK q : q = [Cms!Idle EXCEPT !.op = "reorder", !.at = "load",
                          !.seen = slot, !.order = order]
    OBVIOUS
  <2>2. slot \in Nat
    BY DEF CmsInv, CmsType
  <2>3. /\ order \in [Banners -> Cms!Positions \cup {None}]
        /\ \A a, b \in Banners : order[a] = order[b] => a = b \/ order[a] = None
    BY DEF Cms!Orders
  <2>4. q \in CmsCalls /\ q.at = "load" /\ q.op = "reorder" /\ q.seen = slot /\ q.order = order
    BY <2>1, <2>2, <2>3 DEF Cms!Idle, CmsCalls, CmsOps
  <2>5. Cms!Goes(c, q)
    BY <1>11, <2>1 DEF Cms!AskReorder, Cms!Asks, Cms!Idle
  <2> QED
    BY <1>3, <2>3, <2>4, <2>5
<1>12. CASE \E n \in DOMAIN versions :
                Cms!AskPublish(c, n) \/ Cms!AskRetire(c, n) \/ Cms!AskRollback(c, n)
                    \/ Cms!AskPurchase(c, n)
  BY <1>4, <1>5, <1>6, <1>7, <1>12
<1>13. CASE \E n \in DOMAIN versions, t \in Terms : Cms!AskUpdate(c, n, t)
  BY <1>8, <1>13
<1>14. CASE \E t \in Terms : Cms!AskDraft(c, t)
  BY <1>9, <1>14
<1>15. CASE \E b \in Banners, p \in Cms!Positions : Cms!AskPlace(c, b, p)
  BY <1>10, <1>15
<1>16. CASE \E order \in Cms!Orders : Cms!AskReorder(c, order)
  BY <1>11, <1>16
<1> QED
  BY <1>12, <1>13, <1>14, <1>15, <1>16 DEF Cms!Request

LEMMA LoadKeeps ==
    ASSUME CmsInv, NEW c \in Editors, Cms!Load(c)
    PROVE  CmsInv'
<1>1. CASE Cms!Goes(c, Cms!Idle)
  BY <1>1, CmsEnds, CmsIdle, CmsGoes DEF Cms!Load
<1>2. CASE Cms!Allowed(c) /\ Cms!Goes(c, Cms!Reads(c))
  <2>1. calls[c] \in CmsCalls /\ SaysTerms(c) /\ NamesVersion(c) /\ Reviewed(c) /\ PositionFree(c)
    BY DEF CmsInv, CmsType, CallsReviewed, PositionsFree
  <2>2. Len(versions) \in Nat /\ (Cms!Current = None \/ Cms!Current \in Nat)
    BY DEF CmsInv, CmsType, Cms!Current, Cms!Published
  <2>3. PICK q : q = Cms!Reads(c)
    OBVIOUS
  <2>4. /\ q \in CmsCalls /\ q.op = calls[c].op /\ q.at = "commit"
        /\ q.id = calls[c].id /\ q.order = calls[c].order
        /\ q.op \notin {"draft", "rollback"} => q.seen = calls[c].seen
        /\ q.op # "purchase" => q.terms = calls[c].terms
        /\ q.op = "publish" => q.base = Cms!Current
    <3>1. calls[c].op = "purchase" => versions[calls[c].id].terms \in Terms
      BY <2>1, VersionRow DEF CmsInv, CmsType, NamesVersion
    <3>2. CASE calls[c].op \in {"draft", "rollback"}
      <4>1. q = [calls[c] EXCEPT !.at = "commit", !.seen = Len(versions), !.base = Cms!Current]
        BY <2>3, <3>2 DEF Cms!Reads
      <4> QED
        BY <2>1, <2>2, <3>2, <4>1 DEF CmsCalls
    <3>3. CASE calls[c].op = "publish"
      <4>1. q = [calls[c] EXCEPT !.at = "commit", !.base = Cms!Current]
        BY <2>3, <3>3 DEF Cms!Reads
      <4> QED
        BY <2>1, <2>2, <3>3, <4>1 DEF CmsCalls
    <3>4. CASE calls[c].op = "purchase"
      BY <2>1, <2>3, <3>1, <3>4 DEF Cms!Reads, CmsCalls, CmsOps
    <3>5. CASE calls[c].op \notin {"draft", "rollback", "publish", "purchase"}
      BY <2>1, <2>3, <3>5 DEF Cms!Reads, CmsCalls, CmsOps
    <3> QED
      BY <3>2, <3>3, <3>4, <3>5
  <2>5. calls' = [calls EXCEPT ![c] = q] /\ calls'[c] = q /\ UNCHANGED <<versions, placed, slot>>
    BY <1>2, <2>3 DEF Cms!Load, Cms!Goes, CmsInv, CmsType
  <2>6. SaysTerms(c)' /\ NamesVersion(c)'
    BY <2>1, <2>4, <2>5 DEF SaysTerms, NamesVersion
  <2>7. Reviewed(c)'
    <3>1. q.op = "publish" => versions[q.id].base = Cms!Current
      BY <1>2, <2>4 DEF Cms!Allowed, Cms!Based
    <3> QED
      BY <2>1, <2>4, <2>5, <3>1 DEF Reviewed
  <2>8. PositionFree(c)'
    <3>1. q.op = "place" => \A b \in Banners : placed[b] # calls[c].order
      BY <1>2, <2>4 DEF Cms!Allowed
    <3> QED
      BY <2>1, <2>4, <2>5, <3>1 DEF PositionFree
  <2> QED
    BY <2>4, <2>5, <2>6, <2>7, <2>8, CmsGoes
<1> QED
  BY <1>1, <1>2 DEF Cms!Load

\* What is written to one version, and what that leaves alone.
LEMMA Written ==
    ASSUME CmsInv, NEW n \in DOMAIN versions, NEW row \in VersionRows,
           versions' = [versions EXCEPT ![n] = row],
           row.base = versions[n].base, row.revision = versions[n].revision + 1
    PROVE  /\ versions' \in Seq(VersionRows)
           /\ \A m \in DOMAIN versions :
                  /\ m \in DOMAIN versions'
                  /\ versions'[m].base = versions[m].base
                  /\ versions[m].revision <= versions'[m].revision
                  /\ versions'[m].revision = versions[m].revision
                         => versions'[m].terms = versions[m].terms
<1>1. /\ versions \in Seq(VersionRows)
      /\ \A m \in DOMAIN versions : versions[m].revision \in Nat
  BY VersionRow DEF CmsInv, CmsType
<1> QED
  BY <1>1

LEMMA Rewritten ==
    ASSUME CmsInv, NEW n \in DOMAIN versions, NEW status \in {"PUBLISHED", "RETIRED"}
    PROVE  LET row == Cms!Becomes(n, status)[n]
           IN  /\ row \in VersionRows
               /\ Cms!Becomes(n, status) = [versions EXCEPT ![n] = row]
               /\ row.status = status /\ row.terms = versions[n].terms
               /\ row.base = versions[n].base /\ row.revision = versions[n].revision + 1
<1>1. versions \in Seq(VersionRows) /\ versions[n] \in VersionRows
      /\ versions[n].revision + 1 \in Nat
  BY VersionRow DEF CmsInv, CmsType
<1>2. PICK row : row = [versions[n] EXCEPT !.status = status, !.revision = @ + 1]
  OBVIOUS
<1>3. /\ row \in VersionRows /\ row.status = status /\ row.terms = versions[n].terms
      /\ row.base = versions[n].base /\ row.revision = versions[n].revision + 1
  BY <1>1, <1>2 DEF VersionRows
<1>4. Cms!Becomes(n, status) = [versions EXCEPT ![n] = row] /\ Cms!Becomes(n, status)[n] = row
  BY <1>1, <1>2 DEF Cms!Becomes
<1> QED
  BY <1>3, <1>4

LEMMA CreateDraftKeeps ==
    ASSUME CmsInv, NEW c \in Editors, Cms!CreateDraft(c)
    PROVE  CmsInv'
<1>1. /\ calls[c] \in CmsCalls /\ calls[c].terms \in Terms
      /\ versions \in Seq(VersionRows) /\ Len(versions) \in Nat
      /\ UNCHANGED <<placed, slot>>
  BY DEF CmsInv, CmsType, CallsReviewed, SaysTerms, Cms!CreateDraft
<1>2. PICK row : row = Cms!Draft(calls[c].terms, calls[c].base)
  OBVIOUS
<1>3. row \in VersionRows /\ row.terms = calls[c].terms /\ row.base = calls[c].base
      /\ row.revision = 0
  BY <1>1, <1>2 DEF Cms!Draft, VersionRows, CmsCalls
<1>4. versions' = Append(versions, row)
  BY <1>2 DEF Cms!CreateDraft
<1>5. /\ versions' \in Seq(VersionRows) /\ Len(versions') = Len(versions) + 1
      /\ Len(versions') \in Nat /\ versions'[Len(versions')] = row /\ Len(versions') \in DOMAIN versions'
      /\ \A n \in DOMAIN versions : n \in DOMAIN versions' /\ versions'[n] = versions[n]
  BY <1>1, <1>3, <1>4
<1>6. \A n \in DOMAIN versions : versions[n].revision <= versions'[n].revision
  <2>1. \A n \in DOMAIN versions : versions[n].revision \in Nat
    BY <1>1, VersionRow
  <2> QED
    BY <1>5, <2>1
<1>7. CASE Cms!Goes(c, Cms!Idle)
  BY <1>1, <1>5, <1>6, <1>7, CmsEnds, CmsIdle, VersionsMove
<1>8. CASE Cms!Goes(c, [Cms!Idle EXCEPT !.op = "publish", !.at = "load", !.id = Len(versions'),
                                        !.seen = 0, !.terms = calls[c].terms])
  <2>1. PICK q : q = [Cms!Idle EXCEPT !.op = "publish", !.at = "load", !.id = Len(versions'),
                                      !.seen = 0, !.terms = calls[c].terms]
    OBVIOUS
  <2>2. q \in CmsCalls /\ q.op = "publish" /\ q.at = "load" /\ q.id = Len(versions')
        /\ q.seen = 0 /\ q.terms = calls[c].terms
    BY <1>1, <1>5, <2>1 DEF Cms!Idle, CmsCalls, CmsOps
  <2>3. calls' = [calls EXCEPT ![c] = q] /\ calls'[c] = q
    BY <1>8, <2>1 DEF Cms!Goes, CmsInv, CmsType
  <2>4. SaysTerms(c)' /\ NamesVersion(c)' /\ Reviewed(c)' /\ PositionFree(c)'
    BY <1>3, <1>5, <2>2, <2>3 DEF SaysTerms, NamesVersion, Reviewed, PositionFree
  <2> QED
    BY <1>1, <1>5, <1>6, <2>2, <2>3, <2>4, VersionsMove
<1> QED
  BY <1>7, <1>8 DEF Cms!CreateDraft

LEMMA UpdateDraftKeeps ==
    ASSUME CmsInv, NEW c \in Editors, Cms!UpdateDraft(c) \/ Cms!Retire(c)
    PROVE  CmsInv'
<1>1. PICK n : n = calls[c].id
  OBVIOUS
<1>2. /\ n \in DOMAIN versions /\ versions[n] \in VersionRows /\ versions[n].revision + 1 \in Nat
      /\ calls[c].op = "update" => calls[c].terms \in Terms
  BY <1>1, VersionRow
  DEF CmsInv, CmsType, CallsReviewed, NamesVersion, SaysTerms, Cms!UpdateDraft, Cms!Retire, Cms!At
<1>3. Cms!Goes(c, Cms!Idle) /\ UNCHANGED <<placed, slot>>
  BY DEF Cms!UpdateDraft, Cms!Retire
<1>4. PICK row \in VersionRows : /\ versions' = [versions EXCEPT ![n] = row]
                                 /\ row.base = versions[n].base
                                 /\ row.revision = versions[n].revision + 1
  <2>1. CASE Cms!UpdateDraft(c)
    <3>1. PICK row : row = [versions[n] EXCEPT !.terms = calls[c].terms, !.revision = @ + 1]
      OBVIOUS
    <3>2. row \in VersionRows /\ row.base = versions[n].base
          /\ row.revision = versions[n].revision + 1
      BY <1>2, <2>1, <3>1 DEF VersionRows, Cms!UpdateDraft, Cms!At
    <3> QED
      BY <1>1, <2>1, <3>1, <3>2 DEF Cms!UpdateDraft
  <2>2. CASE Cms!Retire(c)
    <3>1. PICK row : row = Cms!Becomes(n, "RETIRED")[n]
      OBVIOUS
    <3>2. /\ row \in VersionRows /\ Cms!Becomes(n, "RETIRED") = [versions EXCEPT ![n] = row]
          /\ row.base = versions[n].base /\ row.revision = versions[n].revision + 1
      BY <1>2, <3>1, Rewritten
    <3> QED
      BY <1>1, <2>2, <3>2 DEF Cms!Retire
  <2> QED
    BY <2>1, <2>2
<1> QED
  BY <1>2, <1>3, <1>4, Written, CmsEnds, CmsIdle, VersionsMove

LEMMA PublishKeeps ==
    ASSUME CmsInv, NEW c \in Editors, Cms!Publish(c)
    PROVE  CmsInv'
<1>1. PICK n, base : n = calls[c].id /\ base = calls[c].base
  OBVIOUS
<1>2. /\ n \in DOMAIN versions /\ versions \in Seq(VersionRows)
      /\ base = None \/ base \in DOMAIN versions
  BY <1>1
  DEF CmsInv, CmsType, CallsReviewed, NamesVersion, Cms!Publish, Cms!At, Cms!Current, Cms!Published
<1>3. versions' = [m \in DOMAIN versions |->
          IF m = n THEN Cms!Becomes(n, "PUBLISHED")[n]
          ELSE IF m = base THEN Cms!Becomes(base, "RETIRED")[m] ELSE versions[m]]
  BY <1>1 DEF Cms!Publish
<1>4. \A m \in DOMAIN versions :
          /\ versions'[m] \in VersionRows
          /\ versions'[m].base = versions[m].base
          /\ versions'[m].terms = versions[m].terms
          /\ versions[m].revision <= versions'[m].revision
  <2> SUFFICES ASSUME NEW m \in DOMAIN versions
               PROVE  /\ versions'[m] \in VersionRows
                      /\ versions'[m].base = versions[m].base
                      /\ versions'[m].terms = versions[m].terms
                      /\ versions[m].revision <= versions'[m].revision
    OBVIOUS
  <2>1. versions[m] \in VersionRows /\ versions[m].revision \in Nat
    BY <1>2, VersionRow
  <2>2. CASE m = n
    BY <1>2, <1>3, <2>1, <2>2, Rewritten
  <2>3. CASE m # n /\ m = base
    BY <1>2, <1>3, <2>1, <2>3, Rewritten
  <2>4. CASE m # n /\ m # base
    BY <1>3, <2>1, <2>4
  <2> QED
    BY <2>2, <2>3, <2>4
<1>5. versions' \in Seq(VersionRows) /\ DOMAIN versions' = DOMAIN versions
  BY <1>2, <1>3, <1>4
<1>6. Cms!Goes(c, Cms!Idle) /\ UNCHANGED <<placed, slot>>
  BY DEF Cms!Publish
<1> QED
  BY <1>4, <1>5, <1>6, CmsEnds, CmsIdle, VersionsMove

LEMMA SlotKeeps ==
    ASSUME CmsInv, NEW c \in Editors, Cms!PlaceBanner(c) \/ Cms!ReorderBanners(c)
    PROVE  CmsInv'
<1>1. /\ Cms!Goes(c, Cms!Idle) /\ UNCHANGED versions /\ slot' = slot + 1
      /\ slot = calls[c].seen
  BY DEF Cms!PlaceBanner, Cms!ReorderBanners, Cms!SlotUnchanged
<1>2. PositionFree(c) /\ placed \in [Banners -> Cms!Positions \cup {None}]
  BY DEF CmsInv, CmsType, PositionsFree
<1>3. CASE Cms!PlaceBanner(c)
  <2>1. /\ placed' = [placed EXCEPT ![calls[c].id] = calls[c].order]
        /\ \A b \in Banners : placed[b] # calls[c].order
    BY <1>1, <1>2, <1>3 DEF Cms!PlaceBanner, Cms!At, PositionFree
  <2>2. calls[c].order \in Cms!Positions \cup {None}
    BY <1>2, <1>3 DEF PositionFree, Cms!PlaceBanner, Cms!At
  <2>3. BannersDistinct'
    BY <1>2, <2>1 DEF CmsInv, BannersDistinct, Cms!BannersDistinct
  <2> QED
    BY <1>1, <1>2, <2>1, <2>2, <2>3, SlotMoves
<1>4. CASE Cms!ReorderBanners(c)
  <2>1. placed' = calls[c].order
    BY <1>4 DEF Cms!ReorderBanners
  <2>2. placed' \in [Banners -> Cms!Positions \cup {None}] /\ BannersDistinct'
    BY <1>2, <1>4, <2>1
    DEF Cms!ReorderBanners, Cms!At, PositionFree, BannersDistinct, Cms!BannersDistinct
  <2> QED
    BY <1>1, <2>2, SlotMoves
<1> QED
  BY <1>3, <1>4

LEMMA CmsStep ==
    ASSUME CmsInv, [Cms!Next]_cmsVars
    PROVE  CmsInv'
<1>1. CASE UNCHANGED cmsVars
  BY <1>1
  DEF cmsVars, CmsInv, CmsType, CallsReviewed, SaysTerms, NamesVersion, Reviewed, PositionsFree,
      PositionFree, BannersDistinct, Cms!BannersDistinct
<1>2. ASSUME NEW c \in Editors, Cms!CapturePackagePurchase(c) \/ Cms!Fail(c)
      PROVE  CmsInv'
  <2>1. Cms!Goes(c, Cms!Idle) /\ UNCHANGED <<versions, placed, slot>>
    BY <1>2 DEF Cms!CapturePackagePurchase, Cms!Fail
  <2> QED
    BY <2>1, CmsEnds, CmsIdle, CmsGoes
<1> QED
  BY <1>1, <1>2, RequestKeeps, LoadKeeps, CreateDraftKeeps, UpdateDraftKeeps, PublishKeeps, SlotKeeps
  DEF Cms!Next, Cms!Commit

LEMMA CmsStart == Cms!Init => CmsInv
<1> SUFFICES ASSUME Cms!Init PROVE CmsInv
  OBVIOUS
<1>1. versions \in Seq(VersionRows)
  <2>1. \A t \in Terms : Cms!Draft(t, None) \in VersionRows
    BY DEF Cms!Draft, VersionRows
  <2>2. versions = <<>> \/ \E t \in Terms : versions = <<Cms!Draft(t, None)>>
    BY DEF Cms!Init
  <2>3. CASE versions = <<>>
    BY <2>3
  <2>4. ASSUME NEW row \in VersionRows, versions = <<row>>
        PROVE  versions \in Seq(VersionRows)
    BY <2>4
  <2> QED
    BY <2>1, <2>2, <2>3, <2>4
<1>2. CmsType
  BY <1>1, CmsIdle DEF Cms!Init, CmsType
<1>3. CallsReviewed /\ PositionsFree
  BY CmsIdle
  DEF Cms!Init, CallsReviewed, SaysTerms, NamesVersion, Reviewed, PositionsFree, PositionFree
<1>4. BannersDistinct
  BY DEF Cms!Init, BannersDistinct, Cms!BannersDistinct
<1> QED
  BY <1>2, <1>3, <1>4 DEF CmsInv

LEMMA CmsInvHolds == ServicesSpec => []CmsInv
<1>1. ServicesInit => CmsInv
  BY CmsStart DEF ServicesInit
<1>2. CmsInv /\ [ServicesNext]_serviceVars => CmsInv'
  BY CmsStep, OneServiceSteps
<1> QED
  BY <1>1, <1>2, PTL DEF ServicesSpec

\* For any number of administrators, banners and moves, the banners of a slot
\* have positions of their own, though none of the requests holds a lock while
\* it decides: the revision of the slot vouches for the position that was found
\* free (publication.service.ts, placeBanner, reorderBanners).
THEOREM BannersStandApart == ServicesSpec => []BannersDistinct
<1>1. CmsInv => BannersDistinct
  BY DEF CmsInv
<1> QED
  BY <1>1, CmsInvHolds, PTL

\* Only a publication turns a draft into a published version.
LEMMA OnlyPublish ==
    ASSUME CmsInv, [Cms!Next]_cmsVars, NEW n \in DOMAIN versions,
           versions[n].status = "DRAFT", versions'[n].status = "PUBLISHED"
    PROVE  \E c \in Editors : Cms!Publish(c) /\ calls[c].id = n
<1>1. versions \in Seq(VersionRows) /\ versions[n] \in VersionRows
  BY VersionRow DEF CmsInv, CmsType
<1>2. versions' # versions
  OBVIOUS
<1>3. PICK c \in Editors :
          Cms!CreateDraft(c) \/ Cms!UpdateDraft(c) \/ Cms!Publish(c) \/ Cms!Retire(c)
  BY <1>2
  DEF cmsVars, Cms!Next, Cms!Request, Cms!AskPublish, Cms!AskRetire, Cms!AskUpdate, Cms!AskDraft,
      Cms!AskRollback, Cms!AskPurchase, Cms!AskPlace, Cms!AskReorder, Cms!Asks, Cms!Load,
      Cms!Commit, Cms!CapturePackagePurchase, Cms!PlaceBanner, Cms!ReorderBanners, Cms!Fail
<1>4. ~Cms!CreateDraft(c)
  BY <1>1 DEF Cms!CreateDraft
<1>5. ~Cms!UpdateDraft(c)
  <2>1. PICK m, row : m = calls[c].id /\ row = [versions[m] EXCEPT !.terms = calls[c].terms,
                                                                   !.revision = @ + 1]
    OBVIOUS
  <2>2. Cms!UpdateDraft(c) => versions' = [versions EXCEPT ![m] = row]
    BY <2>1 DEF Cms!UpdateDraft
  <2>3. n = m => row.status = versions[n].status
    BY <1>1, <2>1 DEF VersionRows
  <2> QED
    BY <1>1, <2>2, <2>3
<1>6. ~Cms!Retire(c)
  <2>1. SUFFICES ASSUME Cms!Retire(c) PROVE FALSE
    OBVIOUS
  <2>2. calls[c].id \in DOMAIN versions
    BY <2>1 DEF CmsInv, CallsReviewed, NamesVersion, Cms!Retire, Cms!At
  <2>3. PICK row \in VersionRows :
            versions' = [versions EXCEPT ![calls[c].id] = row] /\ row.status = "RETIRED"
    BY <2>1, <2>2, Rewritten DEF Cms!Retire
  <2> QED
    BY <1>1, <2>3
<1>7. Cms!Publish(c)
  BY <1>3, <1>4, <1>5, <1>6
<1>8. calls[c].id = n
  <2>1. SUFFICES ASSUME calls[c].id # n PROVE FALSE
    OBVIOUS
  <2>2. n = calls[c].base
    BY <1>7, <2>1 DEF Cms!Publish
  <2>3. versions'[n] = Cms!Becomes(n, "RETIRED")[n]
    BY <1>7, <2>1, <2>2 DEF Cms!Publish
  <2> QED
    BY <2>3, Rewritten
<1> QED
  BY <1>7, <1>8

\* For any number of administrators, versions and terms, a draft is published
\* only in the place of the version it was made from, and says what a request
\* to publish it had in view (publication.service.ts, publishPackage,
\* rollbackContent).
THEOREM ReviewedIsPublished == ServicesSpec => PublishedAsReviewed
<1> DEFINE AsReviewed ==
      \A n \in DOMAIN versions :
           versions[n].status = "DRAFT" /\ versions'[n].status = "PUBLISHED"
           => /\ versions[n].base = Cms!Current
              /\ \E c \in Editors : /\ calls[c].op = "publish" /\ calls[c].id = n
                                    /\ calls[c].terms = versions'[n].terms
<1>1. ASSUME CmsInv, [Cms!Next]_cmsVars
      PROVE  AsReviewed
  <2> SUFFICES ASSUME NEW n \in DOMAIN versions,
                      versions[n].status = "DRAFT", versions'[n].status = "PUBLISHED"
               PROVE  /\ versions[n].base = Cms!Current
                      /\ \E c \in Editors : /\ calls[c].op = "publish" /\ calls[c].id = n
                                            /\ calls[c].terms = versions'[n].terms
    OBVIOUS
  <2>1. PICK c \in Editors : Cms!Publish(c) /\ calls[c].id = n
    BY <1>1, OnlyPublish
  <2>2. /\ calls[c].op = "publish" /\ calls[c].at = "commit"
        /\ versions[n].revision = calls[c].seen /\ Cms!Current = calls[c].base
    BY <2>1 DEF Cms!Publish, Cms!At, Cms!Editable, Cms!Unchanged
  <2>3. Reviewed(c)
    BY <1>1 DEF CmsInv, CallsReviewed
  <2>4. versions'[n].terms = versions[n].terms
    <3>1. versions'[n] = Cms!Becomes(n, "PUBLISHED")[n]
      BY <2>1 DEF Cms!Publish
    <3> QED
      BY <1>1, <3>1, Rewritten
  <2> QED
    BY <2>1, <2>2, <2>3, <2>4 DEF Reviewed
<1>2. CmsInv /\ [ServicesNext]_serviceVars => [AsReviewed]_(Cms!vars)
  BY <1>1, OneServiceSteps DEF cmsVars, Cms!vars
<1> QED
  BY <1>2, CmsInvHolds, PTL DEF ServicesSpec, PublishedAsReviewed, Cms!PublishedAsReviewed

-----------------------------------------------------------------------------
(* What a report counts (Reporting).                                       *)

Reported == Reports!Range(Source)

ReportRows == [processed : SUBSET Reported, reversed : SUBSET Facts, counted : [Facts -> Int]]

RebuildRows == [version : Nat, events : Seq(Reported), next : Nat]

ReportsType ==
    /\ happened \in 0..Len(Source)
    /\ current \in DOMAIN projections
    /\ DOMAIN projections \subseteq Nat
    /\ projections = [v \in DOMAIN projections |-> projections[v]]
    /\ \A v \in DOMAIN projections : projections[v] \in ReportRows
    /\ rebuilds \in [Rebuilds -> RebuildRows]

\* There is a latest version.
VersionsBounded == \E k \in Nat : \A v \in DOMAIN projections : v <= k

\* A version has taken back what a compensation it processed tells it to, all
\* of it processed before, and counts the rest once.
Counts(row) ==
    /\ row.reversed = {f \in Facts : \E e \in row.processed \ Facts : Target(e) = f}
    /\ row.reversed \subseteq row.processed
    /\ \A f \in Facts : row.counted[f] = IF f \in row.processed \ row.reversed THEN 1 ELSE 0

VersionsCount == \A v \in DOMAIN projections : Counts(projections[v])

Running(r) == rebuilds[r] # Reports!NoRebuild

\* A rebuild has a version of its own, which is not read, and has counted the
\* events it has passed.
RebuildsApart ==
    \A r \in Rebuilds : Running(r) =>
        /\ rebuilds[r].version \in DOMAIN projections \ {current}
        /\ rebuilds[r].next \in 1..Len(rebuilds[r].events) + 1
        /\ \A i \in 1..rebuilds[r].next - 1 :
               rebuilds[r].events[i] \in projections[rebuilds[r].version].processed
        /\ \A s \in Rebuilds \ {r} : Running(s) => rebuilds[s].version # rebuilds[r].version

AckedCounted == acked \subseteq projections[current].processed \cup missed

ReportsInv ==
    /\ ReportsType
    /\ VersionsBounded
    /\ VersionsCount
    /\ RebuildsApart
    /\ AckedCounted

LEMMA LeastNatural ==
    ASSUME NEW T, T \subseteq Nat, T # {}
    PROVE  \E x \in T : \A y \in T : x <= y
<1>1. PICK x \in T : \A y \in T : ~(<<y, x>> \in OpToRel(<, Nat))
  <2>1. \E x \in T : \A y \in T : ~(<<y, x>> \in OpToRel(<, Nat))
    BY NatLessThanWellFounded, WFMin
  <2> QED
    BY <2>1
<1>2. \A y \in T : ~(y < x)
  BY <1>1 DEF OpToRel
<1> QED
  BY <1>2

\* The latest version is one.
LEMMA LatestVersion ==
    ASSUME ReportsInv
    PROVE  Reports!Latest \in DOMAIN projections /\ \A v \in DOMAIN projections : v <= Reports!Latest
<1> DEFINE T == {k \in Nat : \A v \in DOMAIN projections : v <= k}
<1>1. T \subseteq Nat /\ T # {} /\ DOMAIN projections \subseteq Nat /\ current \in DOMAIN projections
  BY DEF ReportsInv, ReportsType, VersionsBounded
<1>2. PICK k \in T : \A j \in T : k <= j
  BY <1>1, LeastNatural
<1>3. k \in DOMAIN projections
  <2>1. SUFFICES ASSUME k \notin DOMAIN projections PROVE FALSE
    OBVIOUS
  <2>2. k # 0
    BY <1>1, <2>1
  <2>3. k - 1 \in T
    BY <1>1, <2>1, <2>2
  <2> QED
    BY <1>2, <2>3
<1> QED
  BY <1>3 DEF Reports!Latest

\* Processing an event leaves a version that counts.
LEMMA HandledCounts ==
    ASSUME NEW row \in ReportRows, Counts(row), NEW e \in Reported, Reports!Handles(row, e)
    PROVE  /\ Reports!Handled(row, e) \in ReportRows
           /\ Counts(Reports!Handled(row, e))
           /\ Reports!Handled(row, e).processed = row.processed \cup {e}
<1> DEFINE new == Reports!Handled(row, e)
<1>1. /\ row.processed \subseteq Reported /\ row.reversed \subseteq Facts
      /\ row.counted \in [Facts -> Int]
      /\ row = [processed |-> row.processed, reversed |-> row.reversed, counted |-> row.counted]
  BY DEF ReportRows
<1>2. CASE e \in row.processed
  BY <1>2 DEF Reports!Handled
<1>3. CASE e \notin row.processed /\ e \in Facts
  <2>1. PICK counted : counted = [row.counted EXCEPT ![e] = @ + 1]
    OBVIOUS
  <2>2. new = [processed |-> row.processed \cup {e}, reversed |-> row.reversed,
               counted |-> counted]
    BY <1>1, <1>3, <2>1 DEF Reports!Handled, Reports!Apply
  <2>3. e \notin row.reversed /\ row.counted[e] = 0
    BY <1>3 DEF Counts
  <2>4. counted \in [Facts -> Int] /\ counted[e] = 1
        /\ \A f \in Facts \ {e} : counted[f] = row.counted[f]
    BY <1>1, <1>3, <2>1, <2>3
  <2>5. new \in ReportRows /\ new.processed = row.processed \cup {e}
    BY <1>1, <2>2, <2>4 DEF ReportRows
  <2>6. Counts(new)
    BY <1>1, <1>3, <2>2, <2>3, <2>4 DEF Counts
  <2> QED
    BY <2>5, <2>6
<1>4. CASE e \notin row.processed /\ e \notin Facts /\ Target(e) \in Facts \ row.reversed
  <2>1. PICK counted : counted = [row.counted EXCEPT ![Target(e)] = @ - 1]
    OBVIOUS
  <2>2. new = [processed |-> row.processed \cup {e}, reversed |-> row.reversed \cup {Target(e)},
               counted |-> counted]
    BY <1>4, <2>1 DEF Reports!Handled, Reports!Compensate
  <2>3. Target(e) \in row.processed
    BY <1>4 DEF Reports!Handles
  <2>4. row.counted[Target(e)] = 1
    BY <1>4, <2>3 DEF Counts
  <2>5. counted \in [Facts -> Int] /\ counted[Target(e)] = 0
        /\ \A f \in Facts \ {Target(e)} : counted[f] = row.counted[f]
    BY <1>1, <1>4, <2>1, <2>4
  <2>6. new \in ReportRows /\ new.processed = row.processed \cup {e}
    BY <1>1, <1>4, <2>2, <2>5 DEF ReportRows
  <2>7. Counts(new)
    BY <1>1, <1>4, <2>2, <2>3, <2>5 DEF Counts
  <2> QED
    BY <2>6, <2>7
<1>5. CASE e \notin row.processed /\ e \notin Facts /\ Target(e) \notin Facts \ row.reversed
  <2>1. new = [processed |-> row.processed \cup {e}, reversed |-> row.reversed,
               counted |-> row.counted]
    BY <1>1, <1>5 DEF Reports!Handled, Reports!Compensate
  <2>2. new \in ReportRows /\ new.processed = row.processed \cup {e}
    BY <1>1, <2>1 DEF ReportRows
  <2>3. Counts(new)
    BY <1>1, <1>5, <2>1 DEF Counts
  <2> QED
    BY <2>2, <2>3
<1> QED
  BY <1>2, <1>3, <1>4, <1>5

\* A version processes an event; a rebuild may go on by it.
LEMMA VersionHandles ==
    ASSUME ReportsInv, NEW v \in DOMAIN projections, NEW e \in Reported,
           Reports!Handles(projections[v], e),
           projections' = [projections EXCEPT ![v] = Reports!Handled(@, e)],
           UNCHANGED <<happened, current>>
    PROVE  /\ DOMAIN projections' = DOMAIN projections
           /\ \A u \in DOMAIN projections \ {v} : projections'[u] = projections[u]
           /\ projections'[v].processed = projections[v].processed \cup {e}
           /\ \A u \in DOMAIN projections : projections[u].processed \subseteq projections'[u].processed
           /\ projections' = [u \in DOMAIN projections' |-> projections'[u]]
           /\ \A u \in DOMAIN projections' : projections'[u] \in ReportRows
           /\ VersionsBounded' /\ VersionsCount'
<1>1. projections[v] \in ReportRows /\ Counts(projections[v])
  BY DEF ReportsInv, ReportsType, VersionsCount
<1>2. PICK row : row = Reports!Handled(projections[v], e)
  OBVIOUS
<1>3. row \in ReportRows /\ Counts(row) /\ row.processed = projections[v].processed \cup {e}
  BY <1>1, <1>2, HandledCounts
<1>4. projections' = [projections EXCEPT ![v] = row]
  BY <1>2
<1>5. /\ DOMAIN projections' = DOMAIN projections /\ projections'[v] = row
      /\ \A u \in DOMAIN projections \ {v} : projections'[u] = projections[u]
      /\ projections' = [u \in DOMAIN projections' |-> projections'[u]]
  BY <1>4
<1>6. \A u \in DOMAIN projections' : projections'[u] \in ReportRows
  BY <1>3, <1>5 DEF ReportsInv, ReportsType
<1>7. VersionsBounded'
  BY <1>5 DEF ReportsInv, VersionsBounded
<1>8. VersionsCount'
  BY <1>3, <1>5 DEF ReportsInv, VersionsCount, Counts
<1> QED
  BY <1>3, <1>5, <1>6, <1>7, <1>8

\* The source is a list of what may be reported.
LEMMA SourceListed ==
    /\ Source \in Seq(Reported) /\ Len(Source) \in Nat
    /\ \A i \in 1..Len(Source) : Source[i] \in Reported
<1>1. Source \in Seq(Reported)
  BY ReportsAssumption DEF Reports!Listed, Reported
<1> QED
  BY <1>1

LEMMA HappenKeeps ==
    ASSUME ReportsInv, Reports!Happen
    PROVE  ReportsInv'
<1>1. happened' \in 0..Len(Source)
  BY SourceListed DEF Reports!Happen, ReportsInv, ReportsType
<1> QED
  BY <1>1
  DEF Reports!Happen, ReportsInv, ReportsType, VersionsBounded, VersionsCount, Counts, RebuildsApart,
      Running, AckedCounted

LEMMA HandleKeeps ==
    ASSUME ReportsInv, NEW e \in Reported, Reports!Handle(e)
    PROVE  ReportsInv'
<1>1. /\ current \in DOMAIN projections /\ UNCHANGED <<happened, current, rebuilds, missed>>
      /\ Reports!Handles(projections[current], e)
      /\ projections' = [projections EXCEPT ![current] = Reports!Handled(@, e)]
      /\ acked' = acked \cup {e}
  BY DEF Reports!Handle, ReportsInv, ReportsType
<1>2. /\ DOMAIN projections' = DOMAIN projections
      /\ \A u \in DOMAIN projections \ {current} : projections'[u] = projections[u]
      /\ projections'[current].processed = projections[current].processed \cup {e}
      /\ projections' = [u \in DOMAIN projections' |-> projections'[u]]
      /\ \A u \in DOMAIN projections' : projections'[u] \in ReportRows
      /\ VersionsBounded' /\ VersionsCount'
  BY <1>1, VersionHandles
<1>3. ReportsType'
  BY <1>1, <1>2 DEF ReportsInv, ReportsType
<1>4. RebuildsApart'
  <2>1. \A r \in Rebuilds : Running(r)' <=> Running(r)
    BY <1>1 DEF Running
  <2> QED
    BY <1>1, <1>2, <2>1 DEF ReportsInv, RebuildsApart
<1>5. AckedCounted'
  BY <1>1, <1>2 DEF ReportsInv, AckedCounted
<1> QED
  BY <1>2, <1>3, <1>4, <1>5 DEF ReportsInv

LEMMA NoRebuildRow == Reports!NoRebuild \in RebuildRows
<1> QED
  BY DEF Reports!NoRebuild, RebuildRows

LEMMA RebuildKeeps ==
    ASSUME ReportsInv, NEW r \in Rebuilds, Reports!Rebuild(r)
    PROVE  ReportsInv'
<1>1. PICK v : v = Reports!Latest + 1
  OBVIOUS
<1>2. v \in Nat /\ v \notin DOMAIN projections /\ \A u \in DOMAIN projections : u < v
  BY <1>1, LatestVersion DEF ReportsInv, ReportsType
<1>3. PICK from \in {1, 2}, to \in 1..happened :
          rebuilds' = [rebuilds EXCEPT ![r] = [version |-> v, next |-> 1,
                                               events |-> SubSeq(Source, from, to)]]
  BY <1>1 DEF Reports!Rebuild
<1>4. SubSeq(Source, from, to) \in Seq(Reported) /\ Len(SubSeq(Source, from, to)) \in Nat
  <2>1. to \in Nat /\ to <= Len(Source)
    BY SourceListed DEF ReportsInv, ReportsType
  <2>2. SubSeq(Source, from, to) \in Seq(Reported)
    BY <2>1, SourceListed, SubSeqProperties
  <2> QED
    BY <2>2
<1>5. PICK row : row = [version |-> v, next |-> 1, events |-> SubSeq(Source, from, to)]
  OBVIOUS
<1>6. row \in RebuildRows /\ row.version = v /\ row.next = 1 /\ Len(row.events) \in Nat
  BY <1>2, <1>4, <1>5 DEF RebuildRows
<1>7. /\ rebuilds' \in [Rebuilds -> RebuildRows] /\ rebuilds'[r] = row
      /\ \A s \in Rebuilds \ {r} : rebuilds'[s] = rebuilds[s]
  BY <1>3, <1>5, <1>6 DEF ReportsInv, ReportsType
<1>8. /\ projections' = [u \in DOMAIN projections \cup {v} |->
                            IF u = v THEN Reports!Empty ELSE projections[u]]
      /\ UNCHANGED <<happened, current, acked, missed>>
  BY <1>1 DEF Reports!Rebuild
<1>9. /\ DOMAIN projections' = DOMAIN projections \cup {v} /\ projections'[v] = Reports!Empty
      /\ \A u \in DOMAIN projections : projections'[u] = projections[u]
      /\ projections' = [u \in DOMAIN projections' |-> projections'[u]]
  BY <1>2, <1>8
<1>10. Reports!Empty \in ReportRows /\ Counts(Reports!Empty)
  BY DEF Reports!Empty, ReportRows, Counts
<1>11. ReportsType'
  BY <1>2, <1>7, <1>8, <1>9, <1>10 DEF ReportsInv, ReportsType
<1>12. VersionsBounded' /\ VersionsCount'
  <2>1. VersionsBounded'
    <3>1. \A u \in DOMAIN projections' : u <= v
      BY <1>2, <1>9 DEF ReportsInv, ReportsType
    <3> QED
      BY <1>2, <3>1 DEF VersionsBounded
  <2> QED
    BY <1>9, <1>10, <2>1 DEF ReportsInv, VersionsCount, Counts
<1>13. RebuildsApart'
  <2> SUFFICES ASSUME NEW s \in Rebuilds, Running(s)'
               PROVE  /\ rebuilds'[s].version \in DOMAIN projections' \ {current'}
                      /\ rebuilds'[s].next \in 1..Len(rebuilds'[s].events) + 1
                      /\ \A i \in 1..rebuilds'[s].next - 1 :
                             rebuilds'[s].events[i] \in projections'[rebuilds'[s].version].processed
                      /\ \A o \in Rebuilds \ {s} :
                             Running(o)' => rebuilds'[o].version # rebuilds'[s].version
    BY DEF RebuildsApart
  <2>1. \A o \in Rebuilds \ {r} : Running(o)' => Running(o) /\ rebuilds'[o].version \in DOMAIN projections
    BY <1>7 DEF ReportsInv, RebuildsApart, Running
  <2>2. current \in DOMAIN projections
    BY DEF ReportsInv, ReportsType
  <2>3. CASE s = r
    BY <1>2, <1>6, <1>7, <1>8, <1>9, <2>1, <2>2, <2>3
  <2>4. CASE s # r
    BY <1>2, <1>6, <1>7, <1>8, <1>9, <2>1, <2>4 DEF ReportsInv, RebuildsApart
  <2> QED
    BY <2>3, <2>4
<1>14. AckedCounted'
  BY <1>8, <1>9 DEF ReportsInv, ReportsType, AckedCounted
<1> QED
  BY <1>11, <1>12, <1>13, <1>14 DEF ReportsInv

LEMMA RebuildEventKeeps ==
    ASSUME ReportsInv, NEW r \in Rebuilds, Reports!RebuildEvent(r)
    PROVE  ReportsInv'
<1>1. PICK v, e, n : /\ v = rebuilds[r].version /\ e = Reports!NextEvent(r)
                     /\ n = rebuilds[r].next
  OBVIOUS
<1>2. /\ rebuilds[r] \in RebuildRows /\ Running(r)
      /\ v \in DOMAIN projections \ {current}
      /\ n \in 1..Len(rebuilds[r].events) /\ rebuilds[r].events[n] = e
      /\ Len(rebuilds[r].events) \in Nat
  <2>1. rebuilds[r] \in RebuildRows /\ Running(r)
    BY DEF ReportsInv, ReportsType, Running, Reports!RebuildEvent
  <2>2. rebuilds[r].events \in Seq(Reported)
    BY <2>1 DEF RebuildRows
  <2> QED
    BY <1>1, <2>1, <2>2
    DEF ReportsInv, RebuildsApart, Reports!RebuildEvent, Reports!Left, Reports!NextEvent
<1>3. e \in Reported
  <2>1. rebuilds[r].events \in Seq(Reported)
    BY <1>2 DEF RebuildRows
  <2> QED
    BY <1>2, <2>1
<1>4. /\ UNCHANGED <<happened, current, acked, missed>>
      /\ Reports!Handles(projections[v], e)
      /\ projections' = [projections EXCEPT ![v] = Reports!Handled(@, e)]
      /\ rebuilds' = [rebuilds EXCEPT ![r].next = @ + 1]
  BY <1>1 DEF Reports!RebuildEvent, Reports!Building
<1>5. /\ DOMAIN projections' = DOMAIN projections
      /\ \A u \in DOMAIN projections \ {v} : projections'[u] = projections[u]
      /\ projections'[v].processed = projections[v].processed \cup {e}
      /\ projections' = [u \in DOMAIN projections' |-> projections'[u]]
      /\ \A u \in DOMAIN projections' : projections'[u] \in ReportRows
      /\ VersionsBounded' /\ VersionsCount'
  BY <1>2, <1>3, <1>4, VersionHandles
<1>6. PICK row : row = [rebuilds[r] EXCEPT !.next = @ + 1]
  OBVIOUS
<1>7. /\ row \in RebuildRows /\ row.version = v /\ row.events = rebuilds[r].events
      /\ row.next = n + 1
  BY <1>1, <1>2, <1>6 DEF RebuildRows
<1>8. /\ rebuilds' \in [Rebuilds -> RebuildRows] /\ rebuilds'[r] = row
      /\ \A s \in Rebuilds \ {r} : rebuilds'[s] = rebuilds[s]
  BY <1>4, <1>6, <1>7 DEF ReportsInv, ReportsType
<1>9. ReportsType'
  BY <1>4, <1>5, <1>8 DEF ReportsInv, ReportsType
<1>10. RebuildsApart'
  <2> SUFFICES ASSUME NEW s \in Rebuilds, Running(s)'
               PROVE  /\ rebuilds'[s].version \in DOMAIN projections' \ {current'}
                      /\ rebuilds'[s].next \in 1..Len(rebuilds'[s].events) + 1
                      /\ \A i \in 1..rebuilds'[s].next - 1 :
                             rebuilds'[s].events[i] \in projections'[rebuilds'[s].version].processed
                      /\ \A o \in Rebuilds \ {s} :
                             Running(o)' => rebuilds'[o].version # rebuilds'[s].version
    BY DEF RebuildsApart
  <2>1. \A o \in Rebuilds : /\ Running(o)' => Running(o)
                            /\ rebuilds'[o].version = rebuilds[o].version
                            /\ rebuilds'[o].events = rebuilds[o].events
    BY <1>1, <1>2, <1>7, <1>8 DEF Running
  <2>2. CASE s = r
    <3>1. \A i \in 1..n - 1 : rebuilds[r].events[i] \in projections[v].processed
      BY <1>1, <1>2 DEF ReportsInv, RebuildsApart
    <3>2. \A i \in 1..n : rebuilds[r].events[i] \in projections'[v].processed
      BY <1>2, <1>5, <3>1
    <3> QED
      BY <1>1, <1>2, <1>4, <1>5, <1>7, <1>8, <2>1, <2>2, <3>2 DEF ReportsInv, RebuildsApart
  <2>3. CASE s # r
    BY <1>1, <1>2, <1>4, <1>5, <1>7, <1>8, <2>1, <2>3 DEF ReportsInv, RebuildsApart
  <2> QED
    BY <2>2, <2>3
<1>11. AckedCounted'
  BY <1>2, <1>4, <1>5 DEF ReportsInv, ReportsType, AckedCounted
<1> QED
  BY <1>5, <1>9, <1>10, <1>11 DEF ReportsInv

\* A rebuild has counted all its events when none is left.
LEMMA FinishRebuildKeeps ==
    ASSUME ReportsInv, NEW r \in Rebuilds, Reports!FinishRebuild(r)
    PROVE  ReportsInv'
<1>1. PICK v : v = rebuilds[r].version
  OBVIOUS
<1>2. /\ rebuilds[r] \in RebuildRows /\ Running(r) /\ v \in DOMAIN projections \ {current}
      /\ rebuilds[r].events \in Seq(Reported)
      /\ \A i \in 1..Len(rebuilds[r].events) : rebuilds[r].events[i] \in projections[v].processed
  <2>1. rebuilds[r] \in RebuildRows /\ Running(r)
    BY DEF ReportsInv, ReportsType, Running, Reports!FinishRebuild
  <2>2. rebuilds[r].events \in Seq(Reported) /\ rebuilds[r].next \in Nat
    BY <2>1 DEF RebuildRows
  <2>3. rebuilds[r].next = Len(rebuilds[r].events) + 1
    BY <2>1, <2>2
    DEF ReportsInv, RebuildsApart, Reports!FinishRebuild, Reports!Complete, Reports!Left
  <2> QED
    BY <1>1, <2>1, <2>2, <2>3 DEF ReportsInv, RebuildsApart
<1>3. /\ UNCHANGED <<happened, projections, acked>> /\ current' = v
      /\ missed' = missed \cup (acked \ Reports!Range(rebuilds[r].events))
      /\ rebuilds' = [rebuilds EXCEPT ![r] = Reports!NoRebuild]
  BY <1>1 DEF Reports!FinishRebuild
<1>4. /\ rebuilds' \in [Rebuilds -> RebuildRows] /\ rebuilds'[r] = Reports!NoRebuild
      /\ \A s \in Rebuilds \ {r} : rebuilds'[s] = rebuilds[s]
  BY <1>3, NoRebuildRow DEF ReportsInv, ReportsType
<1>5. ReportsType' /\ VersionsBounded' /\ VersionsCount'
  BY <1>2, <1>3, <1>4 DEF ReportsInv, ReportsType, VersionsBounded, VersionsCount, Counts
<1>6. RebuildsApart'
  <2>1. \A o \in Rebuilds : Running(o)' => o # r /\ Running(o)
    BY <1>4 DEF Running
  <2> QED
    BY <1>1, <1>2, <1>3, <1>4, <2>1 DEF ReportsInv, RebuildsApart
<1>7. AckedCounted'
  <2>1. Reports!Range(rebuilds[r].events) \subseteq projections[v].processed
    BY <1>2 DEF Reports!Range
  <2> QED
    BY <1>3, <2>1 DEF AckedCounted
<1> QED
  BY <1>5, <1>6, <1>7 DEF ReportsInv

LEMMA FailRebuildKeeps ==
    ASSUME ReportsInv, NEW r \in Rebuilds, Reports!FailRebuild(r)
    PROVE  ReportsInv'
<1>1. PICK v : v = rebuilds[r].version
  OBVIOUS
<1>2. Running(r) /\ v \in DOMAIN projections \ {current}
  BY <1>1 DEF ReportsInv, RebuildsApart, Running, Reports!FailRebuild
<1>3. /\ UNCHANGED <<happened, current, acked, missed>>
      /\ projections' = [u \in DOMAIN projections \ {v} |-> projections[u]]
      /\ rebuilds' = [rebuilds EXCEPT ![r] = Reports!NoRebuild]
  BY <1>1 DEF Reports!FailRebuild
<1>4. /\ rebuilds' \in [Rebuilds -> RebuildRows] /\ rebuilds'[r] = Reports!NoRebuild
      /\ \A s \in Rebuilds \ {r} : rebuilds'[s] = rebuilds[s]
  BY <1>3, NoRebuildRow DEF ReportsInv, ReportsType
<1>5. /\ DOMAIN projections' = DOMAIN projections \ {v}
      /\ \A u \in DOMAIN projections' : projections'[u] = projections[u]
      /\ projections' = [u \in DOMAIN projections' |-> projections'[u]]
  BY <1>3
<1>6. ReportsType' /\ VersionsBounded' /\ VersionsCount'
  BY <1>2, <1>3, <1>4, <1>5
  DEF ReportsInv, ReportsType, VersionsBounded, VersionsCount, Counts
<1>7. RebuildsApart'
  <2>1. \A o \in Rebuilds : Running(o)' => o # r /\ Running(o)
    BY <1>4 DEF Running
  <2> QED
    BY <1>1, <1>2, <1>3, <1>4, <1>5, <2>1 DEF ReportsInv, RebuildsApart
<1>8. AckedCounted'
  BY <1>2, <1>3, <1>5 DEF ReportsInv, ReportsType, AckedCounted
<1> QED
  BY <1>6, <1>7, <1>8 DEF ReportsInv

LEMMA ReportsStep ==
    ASSUME ReportsInv, [Reports!Next]_reportVars
    PROVE  ReportsInv'
<1>1. CASE UNCHANGED reportVars
  BY <1>1
  DEF reportVars, ReportsInv, ReportsType, VersionsBounded, VersionsCount, Counts, RebuildsApart,
      Running, AckedCounted
<1>2. ASSUME NEW e \in Reports!Range(Source), Reports!Handle(e)
      PROVE  ReportsInv'
  BY <1>2, HandleKeeps DEF Reported
<1> QED
  BY <1>1, <1>2, HappenKeeps, RebuildKeeps, RebuildEventKeeps, FinishRebuildKeeps, FailRebuildKeeps
  DEF Reports!Next

LEMMA ReportsStart == Reports!Init => ReportsInv
<1> SUFFICES ASSUME Reports!Init PROVE ReportsInv
  OBVIOUS
<1>1. /\ happened = 0 /\ current = 1 /\ acked = {}
      /\ DOMAIN projections = {1} /\ projections[1] = Reports!Empty
      /\ projections = [v \in DOMAIN projections |-> projections[v]]
      /\ rebuilds = [r \in Rebuilds |-> Reports!NoRebuild]
  BY DEF Reports!Init
<1>2. Reports!Empty \in ReportRows /\ Counts(Reports!Empty)
  BY DEF Reports!Empty, ReportRows, Counts
<1>3. ReportsType
  BY <1>1, <1>2, NoRebuildRow, SourceListed DEF ReportsType
<1> QED
  BY <1>1, <1>2, <1>3
  DEF ReportsInv, VersionsBounded, VersionsCount, Counts, RebuildsApart, Running, AckedCounted

LEMMA ReportsInvHolds == ServicesSpec => []ReportsInv
<1>1. ServicesInit => ReportsInv
  BY ReportsStart DEF ServicesInit
<1>2. ReportsInv /\ [ServicesNext]_serviceVars => ReportsInv'
  BY ReportsStep, OneServiceSteps
<1> QED
  BY <1>1, <1>2, PTL DEF ServicesSpec

\* Whatever events there are, and whatever they take back, in whatever order and
\* however often they come, and however many rebuilds end meanwhile: what is
\* read counts each fact once, or not at all when it was taken back, and has
\* processed whatever was acknowledged but for what a rebuild was not given
\* (projector.ts, handle, rebuild).
THEOREM ReportsAreTrue == ServicesSpec => []ReportsCount
<1>1. ReportsInv => ReportsCount
  <2> SUFFICES ASSUME ReportsInv PROVE ReportsCount
    OBVIOUS
  <2>1. Counts(projections[current]) /\ AckedCounted
    BY DEF ReportsInv, ReportsType, VersionsCount
  <2> QED
    BY <2>1 DEF Counts, AckedCounted, ReportsCount, Reports!ReportsCount
<1> QED
  BY <1>1, ReportsInvHolds, PTL

-----------------------------------------------------------------------------
(* The sessions of an administrator (AdminSignIn).                         *)

CodeRows == [generation : Nat, consumed : BOOLEAN, reserved : SignIn!Sessions \cup {None}]

SignInType ==
    /\ active \in BOOLEAN
    /\ step \in Nat
    /\ code \in CodeRows
    /\ challenge \in [SignIn!Challenges -> SignIn!ChallengeRows \cup {None}]
    /\ session \in [SignIn!Sessions -> SignIn!SessionRows \cup {None}]
    /\ issuing \subseteq SignIn!Rows

Made == {c \in SignIn!Challenges : challenge[c] # None}

Active(s) == session[s].status = "ACTIVE"

\* What brought a session to life is used up.
MfaUsed(s) ==
    /\ session[s].from \in Made /\ session[s].family = s /\ session[s].factor \in Nat
    /\ Active(s) =>
           /\ challenge[session[s].from].consumed
           /\ session[s].kind = "TOTP" => session[s].factor <= step
           /\ session[s].kind = "RECOVERY" =>
                  /\ session[s].factor <= code.generation
                  /\ session[s].factor = code.generation => code.consumed

\* A refresh comes after a session that lived, in the family of a sign-in that
\* lived.
RefreshUsed(s) ==
    LET f == session[s].family
    IN  /\ session[s].from \in SignIn!Rows /\ Active(session[s].from)
        /\ f = session[session[s].from].family
        /\ f \in SignIn!Rows /\ Active(f) /\ ~SignIn!Refreshed(f)
        /\ Active(s) => session[session[s].from].consumed

RowsUsed ==
    \A s \in SignIn!Rows : IF SignIn!Refreshed(s) THEN RefreshUsed(s) ELSE MfaUsed(s)

\* The code is reserved for a sign-in with the code of its own generation.
CodeReserved ==
    code.reserved # None =>
        /\ code.reserved \in SignIn!Rows
        /\ session[code.reserved].factor = code.generation

RenewalsPast == \A t \in renewals : t \in Nat /\ t <= step

SignInInv ==
    /\ SignInType
    /\ RowsUsed
    /\ CodeReserved
    /\ RenewalsPast
    /\ SessionsEarned

LEMMA SignInRow ==
    ASSUME SignInType, NEW s \in SignIn!Rows
    PROVE  s \in SignIn!Sessions /\ s \in Nat /\ session[s] \in SignIn!SessionRows
<1>1. s \in SignIn!Sessions /\ session[s] \in SignIn!SessionRows
  BY DEF SignInType, SignIn!Rows
<1>2. MaxSessions \in Nat
  BY SignInAssumption DEF SignIn!Distinct
<1> QED
  BY <1>1, <1>2 DEF SignIn!Sessions

LEMMA RowIsSome ==
    ASSUME NEW row, row \in SignIn!SessionRows \/ row \in SignIn!ChallengeRows
    PROVE  row # None
<1> QED
  BY SignInAssumption DEF SignIn!Distinct

\* The rows stay, but for some that are revoked or cancelled, and for time; what
\* was used up stays used up.
LEMMA RowsRest ==
    ASSUME SignInInv,
           session' \in [SignIn!Sessions -> SignIn!SessionRows \cup {None}],
           SignIn!Rows' = SignIn!Rows, Made \subseteq Made',
           \A s \in SignIn!Rows :
               /\ session'[s].kind = session[s].kind /\ session'[s].from = session[s].from
               /\ session'[s].factor = session[s].factor /\ session'[s].family = session[s].family
               /\ session'[s].consumed = session[s].consumed
               /\ Active(s)' <=> Active(s),
           \A c \in Made : challenge[c].consumed => challenge'[c].consumed,
           step' \in Nat, step <= step', code'.generation \in Nat,
           \/ code.generation < code'.generation
           \/ code'.generation = code.generation /\ (code.consumed => code'.consumed),
           \A t \in renewals' : t \in Nat /\ t <= step' /\ (t \in renewals \/ step < t),
           ~active' => \A s \in SignIn!Rows : session'[s].revoked,
           \A s, n \in SignIn!Rows :
               Active(s) /\ Active(n) /\ session[s].family = session[n].family
                   => (session'[s].revoked => session'[n].revoked)
    PROVE  RowsUsed' /\ RenewalsPast' /\ SessionsEarned'
<1>1. RenewalsPast'
  BY DEF RenewalsPast
<1>2. SignIn!Activated' = SignIn!Activated
  BY DEF SignIn!Activated, Active
<1>3. ASSUME NEW s \in SignIn!Rows, ~SignIn!Refreshed(s)
      PROVE  MfaUsed(s)'
  <2>1. MfaUsed(s)
    BY <1>3 DEF SignInInv, RowsUsed
  <2>2. step \in Nat /\ code.generation \in Nat
    BY DEF SignInInv, SignInType, CodeRows
  <2> QED
    BY <1>3, <2>1, <2>2 DEF MfaUsed
<1>4. ASSUME NEW s \in SignIn!Rows, SignIn!Refreshed(s)
      PROVE  RefreshUsed(s)'
  <2>1. RefreshUsed(s)
    BY <1>4 DEF SignInInv, RowsUsed
  <2> QED
    BY <1>4, <2>1 DEF RefreshUsed, SignIn!Refreshed
<1>5. RowsUsed'
  <2>1. \A s \in SignIn!Rows : SignIn!Refreshed(s)' <=> SignIn!Refreshed(s)
    BY DEF SignIn!Refreshed
  <2> QED
    BY <1>3, <1>4, <2>1 DEF RowsUsed
<1>6. SignIn!EarnedOnce'
  <2>1. ASSUME NEW s \in SignIn!Activated, session[s].kind = "TOTP"
        PROVE  session[s].factor \notin renewals'
    <3>1. s \in SignIn!Rows /\ Active(s) /\ MfaUsed(s)
      BY <2>1 DEF SignIn!Activated, Active, SignInInv, RowsUsed, SignIn!Refreshed
    <3>2. session[s].factor \in Nat /\ session[s].factor <= step /\ step \in Nat
      BY <2>1, <3>1 DEF MfaUsed, SignInInv, SignInType
    <3>3. session[s].factor \notin renewals
      BY <2>1 DEF SignInInv, SessionsEarned, SignIn!SessionsEarned, SignIn!EarnedOnce
    <3> QED
      BY <3>2, <3>3
  <2> QED
    BY <1>2, <2>1
    DEF SignInInv, SessionsEarned, SignIn!SessionsEarned, SignIn!EarnedOnce, SignIn!Activated,
        SignIn!Refreshed
<1>7. SignIn!RevokedStaysOut'
  BY <1>2
  DEF SignInInv, SessionsEarned, SignIn!SessionsEarned, SignIn!RevokedStaysOut, SignIn!Activated,
      Active
<1> QED
  BY <1>1, <1>5, <1>6, <1>7 DEF SessionsEarned, SignIn!SessionsEarned

\* No session is cancelled or revoked.
LEMMA SessionsRest ==
    ASSUME SignInInv, UNCHANGED <<active, session>>, Made \subseteq Made',
           \A c \in Made : challenge[c].consumed => challenge'[c].consumed,
           step' \in Nat, step <= step', code'.generation \in Nat,
           \/ code.generation < code'.generation
           \/ code'.generation = code.generation /\ (code.consumed => code'.consumed),
           \A t \in renewals' : t \in Nat /\ t <= step' /\ (t \in renewals \/ step < t)
    PROVE  RowsUsed' /\ RenewalsPast' /\ SessionsEarned'
<1>1. session' \in [SignIn!Sessions -> SignIn!SessionRows \cup {None}] /\ SignIn!Rows' = SignIn!Rows
  BY DEF SignInInv, SignInType, SignIn!Rows
<1>2. ~active => \A s \in SignIn!Rows : session[s].revoked
  BY DEF SignInInv, SessionsEarned, SignIn!SessionsEarned, SignIn!RevokedStaysOut
<1>3. \A s, n \in SignIn!Rows :
          Active(s) /\ Active(n) /\ session[s].family = session[n].family
              => (session[s].revoked => session[n].revoked)
  BY DEF SignInInv, SessionsEarned, SignIn!SessionsEarned, SignIn!RevokedStaysOut, SignIn!Activated,
         Active
<1>4. \A s \in SignIn!Rows : Active(s)' <=> Active(s)
  BY DEF Active
<1> QED
  BY <1>1, <1>2, <1>3, <1>4, RowsRest

LEMMA FreedCode ==
    ASSUME SignInType, NEW ids
    PROVE  LET row == SignIn!Freed(code, ids)
           IN  /\ row \in CodeRows /\ row.generation = code.generation
               /\ row.consumed = code.consumed /\ row.reserved \in {code.reserved, None}
<1>1. PICK row : row = [code EXCEPT !.reserved = None]
  OBVIOUS
<1>2. code \in CodeRows
  BY DEF SignInType
<1>3. row \in CodeRows /\ row.generation = code.generation
      /\ row.consumed = code.consumed /\ row.reserved = None
  BY <1>1, <1>2 DEF CodeRows
<1>4. SignIn!Freed(code, ids) = row \/ SignIn!Freed(code, ids) = code
  BY <1>1 DEF SignIn!Freed
<1> QED
  BY <1>2, <1>3, <1>4

LEMMA FreedChallenges ==
    ASSUME SignInType, NEW ids,
           challenge' = [c \in SignIn!Challenges |-> SignIn!Freed(challenge[c], ids)]
    PROVE  /\ challenge' \in [SignIn!Challenges -> SignIn!ChallengeRows \cup {None}]
           /\ Made' = Made
           /\ \A c \in Made : challenge'[c].consumed = challenge[c].consumed
<1>1. ASSUME NEW c \in SignIn!Challenges
      PROVE  /\ challenge'[c] \in SignIn!ChallengeRows \cup {None}
             /\ challenge'[c] = None <=> challenge[c] = None
             /\ challenge[c] # None => challenge'[c].consumed = challenge[c].consumed
  <2>1. challenge'[c] = SignIn!Freed(challenge[c], ids)
        /\ challenge[c] \in SignIn!ChallengeRows \cup {None}
    BY DEF SignInType
  <2>2. CASE challenge'[c] = challenge[c]
    BY <2>1, <2>2
  <2>3. CASE challenge[c] # None /\ challenge'[c] = [challenge[c] EXCEPT !.reserved = None]
    <3>1. challenge'[c] \in SignIn!ChallengeRows
          /\ challenge'[c].consumed = challenge[c].consumed
      BY <2>1, <2>3 DEF SignIn!ChallengeRows
    <3> QED
      BY <2>3, <3>1, RowIsSome
  <2> QED
    BY <2>1, <2>2, <2>3 DEF SignIn!Freed
<1> QED
  BY <1>1 DEF Made

\* Sessions that are pending are cancelled, and what they reserved is free.
LEMMA CancelledRow ==
    ASSUME SignInType, NEW s \in SignIn!Rows
    PROVE  LET row == SignIn!Cancelled(s)
           IN  /\ row \in SignIn!SessionRows /\ row # None
               /\ row.kind = session[s].kind /\ row.from = session[s].from
               /\ row.factor = session[s].factor /\ row.family = session[s].family
               /\ row.consumed = session[s].consumed
               /\ row.status = "CANCELLED" /\ row.revoked = TRUE
<1>1. session[s] \in SignIn!SessionRows
  BY SignInRow
<1>2. PICK row : row = SignIn!Cancelled(s)
  OBVIOUS
<1>3. row = [session[s] EXCEPT !.status = "CANCELLED", !.revoked = TRUE]
  BY <1>2 DEF SignIn!Cancelled
<1>4. /\ row \in SignIn!SessionRows
      /\ row.kind = session[s].kind /\ row.from = session[s].from
      /\ row.factor = session[s].factor /\ row.family = session[s].family
      /\ row.consumed = session[s].consumed
      /\ row.status = "CANCELLED" /\ row.revoked = TRUE
  BY <1>1, <1>3 DEF SignIn!SessionRows
<1> QED
  BY <1>2, <1>4, RowIsSome

LEMMA CancelKeeps ==
    ASSUME SignInInv, NEW s \in SignIn!Rows, SignIn!IsPending(s), SignIn!CancelPending(s),
           UNCHANGED <<active, step, renewals>>, issuing' \subseteq issuing
    PROVE  SignInInv'
<1>1. SignInType
  BY DEF SignInInv
<1>2. PICK row : row = SignIn!Cancelled(s)
  OBVIOUS
<1>3. /\ row \in SignIn!SessionRows /\ row # None
      /\ row.kind = session[s].kind /\ row.from = session[s].from
      /\ row.factor = session[s].factor /\ row.family = session[s].family
      /\ row.consumed = session[s].consumed
      /\ row.status = "CANCELLED" /\ row.revoked = TRUE
  BY <1>1, <1>2, CancelledRow
<1>4. /\ session' \in [SignIn!Sessions -> SignIn!SessionRows \cup {None}]
      /\ session'[s] = row /\ \A n \in SignIn!Sessions \ {s} : session'[n] = session[n]
  BY <1>1, <1>2, <1>3 DEF SignIn!CancelPending, SignInType, SignIn!Rows
<1>5. SignIn!Rows' = SignIn!Rows /\ s \in SignIn!Sessions
  BY <1>3, <1>4 DEF SignIn!Rows
<1>6. \A n \in SignIn!Rows :
          /\ session'[n].kind = session[n].kind /\ session'[n].from = session[n].from
          /\ session'[n].factor = session[n].factor /\ session'[n].family = session[n].family
          /\ session'[n].consumed = session[n].consumed
          /\ Active(n)' <=> Active(n)
          /\ session[n].revoked => session'[n].revoked
          /\ Active(n) => session'[n].revoked = session[n].revoked
  <2>1. ~Active(s) /\ ~Active(s)'
    BY <1>3, <1>4 DEF SignIn!IsPending, Active
  <2>2. \A n \in SignIn!Rows \ {s} : session'[n] = session[n]
    BY <1>4 DEF SignIn!Rows
  <2> QED
    BY <1>3, <1>4, <2>1, <2>2 DEF Active
<1>7. /\ challenge' \in [SignIn!Challenges -> SignIn!ChallengeRows \cup {None}] /\ Made' = Made
      /\ \A c \in Made : challenge'[c].consumed = challenge[c].consumed
  BY <1>1, FreedChallenges DEF SignIn!CancelPending
<1>8. /\ code' \in CodeRows /\ code'.generation = code.generation
      /\ code'.consumed = code.consumed /\ code'.reserved \in {code.reserved, None}
  BY <1>1, FreedCode DEF SignIn!CancelPending
<1>9. step \in Nat /\ code.generation \in Nat /\ SignInType'
  BY <1>1, <1>4, <1>5, <1>7, <1>8 DEF SignInType, CodeRows
<1>10. ~active => \A n \in SignIn!Rows : session[n].revoked
  BY DEF SignInInv, SessionsEarned, SignIn!SessionsEarned, SignIn!RevokedStaysOut
<1>11. \A m, n \in SignIn!Rows :
           Active(m) /\ Active(n) /\ session[m].family = session[n].family
               => (session'[m].revoked => session'[n].revoked)
  BY <1>6
  DEF SignInInv, SessionsEarned, SignIn!SessionsEarned, SignIn!RevokedStaysOut, SignIn!Activated,
      Active
<1>12. RowsUsed' /\ RenewalsPast' /\ SessionsEarned'
  BY <1>4, <1>5, <1>6, <1>7, <1>8, <1>9, <1>10, <1>11, RowsRest DEF SignInInv, RenewalsPast
<1>13. CodeReserved'
  BY <1>5, <1>6, <1>8 DEF SignInInv, CodeReserved
<1> QED
  BY <1>9, <1>12, <1>13 DEF SignInInv

LEMMA CreateMfaChallengeKeeps ==
    ASSUME SignInInv, NEW c \in SignIn!Challenges, SignIn!CreateMfaChallenge(c)
    PROVE  SignInInv'
<1>1. SignIn!Unused \in SignIn!ChallengeRows /\ SignIn!Unused # None
  <2>1. SignIn!Unused \in SignIn!ChallengeRows
    BY DEF SignIn!Unused, SignIn!ChallengeRows
  <2> QED
    BY <2>1, RowIsSome
<1>2. /\ UNCHANGED <<active, step, code, session, issuing, renewals>>
      /\ challenge[c] = None /\ challenge' = [challenge EXCEPT ![c] = SignIn!Unused]
  BY DEF SignIn!CreateMfaChallenge
<1>3. SignInType' /\ Made \subseteq Made'
      /\ \A d \in Made : challenge[d].consumed => challenge'[d].consumed
  BY <1>1, <1>2 DEF SignInInv, SignInType, Made, SignIn!Rows
<1>4. step \in Nat /\ code.generation \in Nat
  BY DEF SignInInv, SignInType, CodeRows
<1>5. RowsUsed' /\ RenewalsPast' /\ SessionsEarned'
  BY <1>2, <1>3, <1>4, SessionsRest DEF SignInInv, RenewalsPast
<1>6. CodeReserved'
  BY <1>2 DEF SignInInv, CodeReserved, SignIn!Rows
<1> QED
  BY <1>3, <1>5, <1>6 DEF SignInInv

LEMMA ReplaceRecoveryCodesKeeps ==
    ASSUME SignInInv, NEW t \in Steps, SignIn!ReplaceRecoveryCodes(t)
    PROVE  SignInInv'
<1>1. /\ UNCHANGED <<active, challenge, session, issuing>>
      /\ step' = t /\ t > step /\ renewals' = renewals \cup {t}
      /\ code' = [generation |-> code.generation + 1, consumed |-> FALSE, reserved |-> None]
  BY DEF SignIn!ReplaceRecoveryCodes, SignIn!NewCode, SignIn!Fresh
<1>2. step \in Nat /\ code.generation \in Nat /\ t \in Nat
  BY SignInAssumption DEF SignInInv, SignInType, CodeRows, SignIn!Distinct
<1>3. code' \in CodeRows /\ code'.generation = code.generation + 1 /\ code'.reserved = None
  BY <1>1, <1>2 DEF CodeRows
<1>4. SignInType' /\ Made' = Made
  BY <1>1, <1>2, <1>3 DEF SignInInv, SignInType, Made, SignIn!Rows
<1>5. \A u \in renewals' : u \in Nat /\ u <= step' /\ (u \in renewals \/ step < u)
  BY <1>1, <1>2 DEF SignInInv, RenewalsPast
<1>6. RowsUsed' /\ RenewalsPast' /\ SessionsEarned'
  BY <1>1, <1>2, <1>3, <1>4, <1>5, SessionsRest
<1>7. CodeReserved'
  BY <1>3 DEF CodeReserved
<1> QED
  BY <1>4, <1>6, <1>7 DEF SignInInv

LEMMA IssuingRow ==
    ASSUME SignInInv, NEW s \in issuing
    PROVE  s \in SignIn!Rows
<1> QED
  BY DEF SignInInv, SignInType

\* A refused or released session is cancelled; one that lives is left alone.
LEMMA ReleaseKeeps ==
    ASSUME SignInInv, NEW s \in SignIn!Sessions,
           \/ SignIn!RefuseMfa(s) \/ SignIn!RefuseRotated(s) \/ SignIn!Release(s)
           \/ SignIn!CleanupExpiredPending(s)
    PROVE  SignInInv'
<1>1. s \in SignIn!Rows
  BY IssuingRow
  DEF SignIn!RefuseMfa, SignIn!RefuseRotated, SignIn!Release, SignIn!CleanupExpiredPending,
      SignIn!Finalizing
<1>2. UNCHANGED <<active, step, renewals>> /\ issuing' \subseteq issuing
  BY DEF SignIn!RefuseMfa, SignIn!RefuseRotated, SignIn!Release, SignIn!CleanupExpiredPending,
         SignIn!Answered
<1>3. CASE SignIn!IsPending(s) /\ SignIn!CancelPending(s)
  BY <1>1, <1>2, <1>3, CancelKeeps
<1>4. CASE UNCHANGED <<session, challenge, code>>
  <2>1. SignInType' /\ Made' = Made /\ CodeReserved'
    BY <1>2, <1>4 DEF SignInInv, SignInType, Made, SignIn!Rows, CodeReserved
  <2>2. step \in Nat /\ code.generation \in Nat
    BY DEF SignInInv, SignInType, CodeRows
  <2>3. RowsUsed' /\ RenewalsPast' /\ SessionsEarned'
    BY <1>2, <1>4, <2>1, <2>2, SessionsRest DEF SignInInv, RenewalsPast
  <2> QED
    BY <2>1, <2>3 DEF SignInInv
<1> QED
  BY <1>3, <1>4
  DEF SignIn!RefuseMfa, SignIn!RefuseRotated, SignIn!Release, SignIn!CleanupExpiredPending,
      SignIn!Finalizing

\* Sessions are revoked, a family as a whole.
LEMMA RevokeFamilyKeeps ==
    ASSUME SignInInv, NEW s \in SignIn!Sessions, SignIn!DetectReuse(s)
    PROVE  SignInInv'
<1>1. PICK ids : ids = SignIn!Family(s)
  OBVIOUS
<1>2. /\ UNCHANGED <<active, step, code, challenge, issuing, renewals>>
      /\ session' = [n \in SignIn!Sessions |->
                        IF n \in ids THEN [session[n] EXCEPT !.revoked = TRUE] ELSE session[n]]
      /\ ids = {n \in SignIn!Rows : session[n].family = session[s].family}
  BY <1>1 DEF SignIn!DetectReuse, SignIn!Revoked, SignIn!Family
<1>3. ASSUME NEW n \in SignIn!Rows
      PROVE  /\ session'[n] \in SignIn!SessionRows /\ session'[n] # None
             /\ session'[n].kind = session[n].kind /\ session'[n].from = session[n].from
             /\ session'[n].factor = session[n].factor /\ session'[n].family = session[n].family
             /\ session'[n].consumed = session[n].consumed
             /\ session'[n].status = session[n].status
             /\ session'[n].revoked <=> session[n].revoked \/ n \in ids
  <2>1. session[n] \in SignIn!SessionRows /\ session[n] # None /\ n \in SignIn!Sessions
    BY SignInRow, RowIsSome DEF SignInInv
  <2>2. CASE n \in ids
    <3>1. session'[n] = [session[n] EXCEPT !.revoked = TRUE]
      BY <1>2, <2>1, <2>2
    <3>2. /\ session'[n] \in SignIn!SessionRows
          /\ session'[n].kind = session[n].kind /\ session'[n].from = session[n].from
          /\ session'[n].factor = session[n].factor /\ session'[n].family = session[n].family
          /\ session'[n].consumed = session[n].consumed
          /\ session'[n].status = session[n].status /\ session'[n].revoked = TRUE
      BY <2>1, <3>1 DEF SignIn!SessionRows
    <3> QED
      BY <2>2, <3>2, RowIsSome
  <2>3. CASE n \notin ids
    <3>1. session'[n] = session[n]
      BY <1>2, <2>1, <2>3
    <3> QED
      BY <2>1, <2>3, <3>1
  <2> QED
    BY <2>2, <2>3
<1>4. /\ session' \in [SignIn!Sessions -> SignIn!SessionRows \cup {None}]
      /\ SignIn!Rows' = SignIn!Rows
  <2>1. \A n \in SignIn!Sessions \ SignIn!Rows : session'[n] = None
    BY <1>2 DEF SignIn!Rows
  <2>2. \A n \in SignIn!Sessions : session'[n] \in SignIn!SessionRows \cup {None}
    BY <1>3, <2>1
  <2> QED
    BY <1>2, <1>3, <2>1, <2>2 DEF SignIn!Rows
<1>5. SignInType' /\ Made' = Made
  BY <1>2, <1>4 DEF SignInInv, SignInType, Made
<1>6. CodeReserved'
  <2>1. CodeReserved /\ code' = code /\ SignIn!Rows' = SignIn!Rows
    BY <1>2, <1>4 DEF SignInInv
  <2>2. \A n \in SignIn!Rows : session'[n].factor = session[n].factor
    BY <1>3
  <2> QED
    BY <2>1, <2>2 DEF CodeReserved
<1>7. step \in Nat /\ code.generation \in Nat
  BY DEF SignInInv, SignInType, CodeRows
<1>8. ~active => \A n \in SignIn!Rows : session'[n].revoked
  <2>1. ~active => \A n \in SignIn!Rows : session[n].revoked
    BY DEF SignInInv, SessionsEarned, SignIn!SessionsEarned, SignIn!RevokedStaysOut
  <2> QED
    BY <1>3, <2>1
<1>9. \A m, n \in SignIn!Rows :
          Active(m) /\ Active(n) /\ session[m].family = session[n].family
              => (session'[m].revoked => session'[n].revoked)
  <2> SUFFICES ASSUME NEW m \in SignIn!Rows, NEW n \in SignIn!Rows, Active(m), Active(n),
                      session[m].family = session[n].family, session'[m].revoked
               PROVE  session'[n].revoked
    OBVIOUS
  <2>1. m \in SignIn!Activated /\ n \in SignIn!Activated
    BY DEF SignIn!Activated, Active
  <2>2. session[m].revoked => session[n].revoked
    BY <2>1 DEF SignInInv, SessionsEarned, SignIn!SessionsEarned, SignIn!RevokedStaysOut
  <2>3. m \in ids => n \in ids
    BY <1>2
  <2>4. /\ session'[m].revoked <=> session[m].revoked \/ m \in ids
        /\ session'[n].revoked <=> session[n].revoked \/ n \in ids
    BY <1>3
  <2> QED
    BY <2>2, <2>3, <2>4
<1>10. RowsUsed' /\ RenewalsPast' /\ SessionsEarned'
  <2>1. \A n \in SignIn!Rows :
            /\ session'[n].kind = session[n].kind /\ session'[n].from = session[n].from
            /\ session'[n].factor = session[n].factor /\ session'[n].family = session[n].family
            /\ session'[n].consumed = session[n].consumed
            /\ Active(n)' <=> Active(n)
    BY <1>3 DEF Active
  <2>2. Made \subseteq Made' /\ (\A c \in Made : challenge[c].consumed => challenge'[c].consumed)
    BY <1>2, <1>5
  <2>3. \A t \in renewals' : t \in Nat /\ t <= step' /\ (t \in renewals \/ step < t)
    BY <1>2 DEF SignInInv, RenewalsPast
  <2>4. step' \in Nat /\ step <= step' /\ code' = code /\ code'.generation \in Nat
    BY <1>2, <1>7
  <2>5. ~active' => \A n \in SignIn!Rows : session'[n].revoked
    BY <1>2, <1>8
  <2> QED
    BY <1>4, <1>9, <2>1, <2>2, <2>3, <2>4, <2>5, RowsRest
<1> QED
  BY <1>5, <1>6, <1>10 DEF SignInInv

LEMMA LapseKeeps ==
    ASSUME SignInInv, NEW s \in SignIn!Sessions, SignIn!Lapse(s)
    PROVE  SignInInv'
<1>1. /\ UNCHANGED <<active, step, code, challenge, issuing, renewals>> /\ s \in SignIn!Rows
      /\ session' = [session EXCEPT ![s].lapsed = TRUE]
  BY DEF SignIn!Lapse
<1>2. PICK row : row = [session[s] EXCEPT !.lapsed = TRUE]
  OBVIOUS
<1>3. session[s] \in SignIn!SessionRows
  BY <1>1, SignInRow DEF SignInInv
<1>4. /\ row \in SignIn!SessionRows
      /\ row.kind = session[s].kind /\ row.from = session[s].from
      /\ row.factor = session[s].factor /\ row.family = session[s].family
      /\ row.consumed = session[s].consumed /\ row.status = session[s].status
      /\ row.revoked = session[s].revoked
  BY <1>2, <1>3 DEF SignIn!SessionRows
<1>5. row # None
  BY <1>4, RowIsSome
<1>6. /\ session' \in [SignIn!Sessions -> SignIn!SessionRows \cup {None}]
      /\ session'[s] = row /\ \A n \in SignIn!Sessions \ {s} : session'[n] = session[n]
  BY <1>1, <1>2, <1>4 DEF SignInInv, SignInType
<1>7. SignIn!Rows' = SignIn!Rows
  BY <1>1, <1>5, <1>6 DEF SignIn!Rows
<1>8. \A n \in SignIn!Rows :
          /\ session'[n].kind = session[n].kind /\ session'[n].from = session[n].from
          /\ session'[n].factor = session[n].factor /\ session'[n].family = session[n].family
          /\ session'[n].consumed = session[n].consumed
          /\ session'[n].revoked = session[n].revoked
          /\ Active(n)' <=> Active(n)
  BY <1>4, <1>6 DEF SignIn!Rows, Active
<1>9. SignInType' /\ Made' = Made /\ CodeReserved'
  BY <1>1, <1>6, <1>7, <1>8 DEF SignInInv, SignInType, Made, CodeReserved
<1>10. step \in Nat /\ code.generation \in Nat
  BY DEF SignInInv, SignInType, CodeRows
<1>11. ~active => \A n \in SignIn!Rows : session[n].revoked
  BY DEF SignInInv, SessionsEarned, SignIn!SessionsEarned, SignIn!RevokedStaysOut
<1>12. \A m, n \in SignIn!Rows :
           Active(m) /\ Active(n) /\ session[m].family = session[n].family
               => (session'[m].revoked => session'[n].revoked)
  BY <1>8
  DEF SignInInv, SessionsEarned, SignIn!SessionsEarned, SignIn!RevokedStaysOut, SignIn!Activated,
      Active
<1>13. RowsUsed' /\ RenewalsPast' /\ SessionsEarned'
  BY <1>1, <1>6, <1>7, <1>8, <1>9, <1>10, <1>11, <1>12, RowsRest DEF SignInInv, RenewalsPast
<1> QED
  BY <1>9, <1>13 DEF SignInInv

LEMMA DisableKeeps ==
    ASSUME SignInInv, SignIn!Disable
    PROVE  SignInInv'
<1>1. PICK pending : pending = {s \in SignIn!Rows : SignIn!IsPending(s)}
  OBVIOUS
<1>2. /\ UNCHANGED <<step, issuing, renewals>> /\ active' = FALSE
      /\ challenge' = [c \in SignIn!Challenges |-> SignIn!Freed(challenge[c], pending)]
      /\ code' = SignIn!Freed(code, pending)
      /\ session' = [s \in SignIn!Sessions |->
             IF s \notin SignIn!Rows THEN None
             ELSE IF s \in pending THEN SignIn!Cancelled(s)
             ELSE [session[s] EXCEPT !.revoked = TRUE]]
  BY <1>1 DEF SignIn!Disable
<1>3. SignInType
  BY DEF SignInInv
<1>4. ASSUME NEW n \in SignIn!Rows
      PROVE  /\ session'[n] \in SignIn!SessionRows /\ session'[n] # None
             /\ session'[n].kind = session[n].kind /\ session'[n].from = session[n].from
             /\ session'[n].factor = session[n].factor /\ session'[n].family = session[n].family
             /\ session'[n].consumed = session[n].consumed
             /\ session'[n].revoked = TRUE
             /\ Active(n)' <=> Active(n)
  <2>1. session[n] \in SignIn!SessionRows /\ n \in SignIn!Sessions
    BY <1>3, SignInRow
  <2>2. CASE n \in pending
    <3>1. session'[n] = SignIn!Cancelled(n) /\ ~Active(n)
      BY <1>1, <1>2, <2>1, <2>2 DEF SignIn!IsPending, Active
    <3> QED
      BY <1>3, <3>1, CancelledRow DEF Active
  <2>3. CASE n \notin pending
    <3>1. session'[n] = [session[n] EXCEPT !.revoked = TRUE]
      BY <1>2, <2>1, <2>3
    <3>2. /\ session'[n] \in SignIn!SessionRows
          /\ session'[n].kind = session[n].kind /\ session'[n].from = session[n].from
          /\ session'[n].factor = session[n].factor /\ session'[n].family = session[n].family
          /\ session'[n].consumed = session[n].consumed
          /\ session'[n].status = session[n].status /\ session'[n].revoked = TRUE
      BY <2>1, <3>1 DEF SignIn!SessionRows
    <3> QED
      BY <3>2, RowIsSome DEF Active
  <2> QED
    BY <2>2, <2>3
<1>5. /\ session' \in [SignIn!Sessions -> SignIn!SessionRows \cup {None}]
      /\ SignIn!Rows' = SignIn!Rows
  <2>1. \A n \in SignIn!Sessions \ SignIn!Rows : session'[n] = None
    BY <1>2
  <2>2. \A n \in SignIn!Sessions : session'[n] \in SignIn!SessionRows \cup {None}
    BY <1>4, <2>1
  <2> QED
    BY <1>2, <1>4, <2>1, <2>2 DEF SignIn!Rows
<1>6. /\ challenge' \in [SignIn!Challenges -> SignIn!ChallengeRows \cup {None}] /\ Made' = Made
      /\ \A c \in Made : challenge'[c].consumed = challenge[c].consumed
  BY <1>2, <1>3, FreedChallenges
<1>7. /\ code' \in CodeRows /\ code'.generation = code.generation
      /\ code'.consumed = code.consumed /\ code'.reserved \in {code.reserved, None}
  BY <1>2, <1>3, FreedCode
<1>8. step \in Nat /\ code.generation \in Nat /\ SignInType'
  BY <1>2, <1>3, <1>5, <1>6, <1>7 DEF SignInType, CodeRows
<1>9. \A n \in SignIn!Rows :
          /\ session'[n].kind = session[n].kind /\ session'[n].from = session[n].from
          /\ session'[n].factor = session[n].factor /\ session'[n].family = session[n].family
          /\ session'[n].consumed = session[n].consumed
          /\ Active(n)' <=> Active(n)
  BY <1>4
<1>10. \A n \in SignIn!Rows : session'[n].revoked
  BY <1>4
<1>11. RowsUsed' /\ RenewalsPast' /\ SessionsEarned'
  <2>1. Made \subseteq Made' /\ (\A c \in Made : challenge[c].consumed => challenge'[c].consumed)
    BY <1>6
  <2>2. \A t \in renewals' : t \in Nat /\ t <= step' /\ (t \in renewals \/ step < t)
    BY <1>2 DEF SignInInv, RenewalsPast
  <2>3. step' \in Nat /\ step <= step' /\ code'.generation \in Nat
    BY <1>2, <1>7, <1>8
  <2>4. code'.generation = code.generation /\ (code.consumed => code'.consumed)
    BY <1>7
  <2> QED
    BY <1>5, <1>9, <1>10, <2>1, <2>2, <2>3, <2>4, RowsRest
<1>12. CodeReserved'
  BY <1>5, <1>7, <1>9 DEF SignInInv, CodeReserved
<1> QED
  BY <1>8, <1>11, <1>12 DEF SignInInv

\* A pending session is added: it earns nothing yet.
LEMMA PendingAdded ==
    ASSUME SignInInv, NEW s \in SignIn!Sessions \ SignIn!Rows, NEW row \in SignIn!SessionRows,
           session' = [session EXCEPT ![s] = row], row.status = "PENDING",
           active, UNCHANGED <<active, step, renewals>>, issuing' \subseteq issuing \cup {s},
           challenge' \in [SignIn!Challenges -> SignIn!ChallengeRows \cup {None}], Made' = Made,
           \A c \in Made : challenge'[c].consumed = challenge[c].consumed,
           code' \in CodeRows, code'.generation = code.generation,
           code'.consumed = code.consumed,
           code'.reserved = code.reserved \/ (code'.reserved = s /\ row.factor = code.generation),
           IF row.kind = "REFRESH"
           THEN row.from \in SignIn!Rows /\ Active(row.from) /\ row.family = session[row.from].family
           ELSE row.from \in Made /\ row.family = s /\ row.factor \in Nat
    PROVE  SignInInv'
<1>1. SignInType
  BY DEF SignInInv
<1>2. /\ session' \in [SignIn!Sessions -> SignIn!SessionRows \cup {None}]
      /\ session'[s] = row /\ \A n \in SignIn!Sessions \ {s} : session'[n] = session[n]
  BY <1>1 DEF SignInType
<1>3. SignIn!Rows' = SignIn!Rows \cup {s} /\ SignIn!Rows \subseteq SignIn!Sessions \ {s}
  BY <1>2, RowIsSome DEF SignIn!Rows
<1>4. SignInType'
  BY <1>1, <1>2, <1>3 DEF SignInType
<1>5. \A n \in SignIn!Rows : session'[n] = session[n] /\ (Active(n)' <=> Active(n))
  BY <1>2, <1>3 DEF Active
<1>6. SignIn!Activated' = SignIn!Activated
  BY <1>2, <1>3, <1>5 DEF SignIn!Activated
<1>7. ASSUME NEW n \in SignIn!Rows, SignIn!Refreshed(n)
      PROVE  RefreshUsed(n)'
  <2>1. RefreshUsed(n)
    BY <1>7 DEF SignInInv, RowsUsed
  <2> QED
    BY <1>3, <1>5, <2>1 DEF RefreshUsed, SignIn!Refreshed
<1>8. ASSUME NEW n \in SignIn!Rows, ~SignIn!Refreshed(n)
      PROVE  MfaUsed(n)'
  <2>1. MfaUsed(n)
    BY <1>8 DEF SignInInv, RowsUsed
  <2> QED
    BY <1>5, <2>1 DEF MfaUsed
<1>9. IF SignIn!Refreshed(s)' THEN RefreshUsed(s)' ELSE MfaUsed(s)'
  <2>1. ~Active(s)'
    BY <1>2 DEF Active
  <2>2. CASE row.kind = "REFRESH"
    <3>1. IF SignIn!Refreshed(row.from) THEN RefreshUsed(row.from) ELSE MfaUsed(row.from)
      BY <2>2 DEF SignInInv, RowsUsed
    <3>2. row.family \in SignIn!Rows /\ Active(row.family) /\ ~SignIn!Refreshed(row.family)
      BY <2>2, <3>1 DEF RefreshUsed, MfaUsed
    <3> QED
      BY <1>2, <1>3, <1>5, <2>1, <2>2, <3>2 DEF RefreshUsed, SignIn!Refreshed
  <2>3. CASE row.kind # "REFRESH"
    BY <1>2, <2>1, <2>3 DEF MfaUsed, SignIn!Refreshed
  <2> QED
    BY <2>2, <2>3
<1>10. RowsUsed'
  <2>1. \A n \in SignIn!Rows : SignIn!Refreshed(n)' <=> SignIn!Refreshed(n)
    BY <1>5 DEF SignIn!Refreshed
  <2> QED
    BY <1>3, <1>7, <1>8, <1>9, <2>1 DEF RowsUsed
<1>11. CodeReserved'
  BY <1>2, <1>3, <1>5 DEF SignInInv, CodeReserved
<1>12. SessionsEarned'
  <2>1. SignIn!EarnedOnce'
    BY <1>5, <1>6
    DEF SignInInv, SessionsEarned, SignIn!SessionsEarned, SignIn!EarnedOnce, SignIn!Activated,
        SignIn!Refreshed
  <2>2. SignIn!RevokedStaysOut'
    BY <1>5, <1>6
    DEF SignInInv, SessionsEarned, SignIn!SessionsEarned, SignIn!RevokedStaysOut, SignIn!Activated
  <2> QED
    BY <2>1, <2>2 DEF SessionsEarned, SignIn!SessionsEarned
<1> QED
  BY <1>4, <1>10, <1>11, <1>12 DEF SignInInv, RenewalsPast

LEMMA ReservingKeeps ==
    ASSUME SignInInv, NEW c \in SignIn!Challenges, NEW s \in SignIn!Sessions,
           \/ SignIn!CompleteRecoveryChallenge(c, s)
           \/ \E t \in Steps : SignIn!CompleteTotpChallenge(c, t, s)
    PROVE  SignInInv'
<1>1. PICK way \in {"TOTP", "RECOVERY"}, factor \in Nat :
          /\ SignIn!Reserve(c, s, way, factor)
          /\ \/ UNCHANGED code
             \/ code' = [code EXCEPT !.reserved = s] /\ factor = code.generation
  <2>1. code.generation \in Nat /\ Steps \subseteq Nat
    BY SignInAssumption DEF SignInInv, SignInType, CodeRows, SignIn!Distinct
  <2> QED
    BY <2>1 DEF SignIn!CompleteRecoveryChallenge, SignIn!CompleteTotpChallenge
<1>2. /\ active /\ UNCHANGED <<active, step, renewals>> /\ c \in Made
      /\ s \in SignIn!Sessions \ SignIn!Rows
  BY DEF SignIn!CompleteRecoveryChallenge, SignIn!CompleteTotpChallenge, SignIn!Usable, Made,
         SignIn!New
<1>3. PICK row : row = SignIn!Pending(way, c, factor, s)
  OBVIOUS
<1>4. /\ row \in SignIn!SessionRows /\ row.status = "PENDING" /\ row.kind # "REFRESH"
      /\ row.from = c /\ row.family = s /\ row.factor = factor
  BY <1>3 DEF SignIn!Pending, SignIn!SessionRows
<1>5. session' = [session EXCEPT ![s] = row] /\ issuing' \subseteq issuing \cup {s}
  BY <1>1, <1>3 DEF SignIn!Reserve
<1>6. /\ challenge' \in [SignIn!Challenges -> SignIn!ChallengeRows \cup {None}] /\ Made' = Made
      /\ \A d \in Made : challenge'[d].consumed = challenge[d].consumed
  <2>1. PICK new : new = [challenge[c] EXCEPT !.reserved = s]
    OBVIOUS
  <2>2. challenge[c] \in SignIn!ChallengeRows
    BY <1>2 DEF SignInInv, SignInType, Made
  <2>3. new \in SignIn!ChallengeRows /\ new.consumed = challenge[c].consumed
    BY <2>1, <2>2 DEF SignIn!ChallengeRows
  <2>4. new # None
    BY <2>3, RowIsSome
  <2>5. challenge' = [challenge EXCEPT ![c] = new]
    BY <1>1, <2>1 DEF SignIn!Reserve
  <2> QED
    BY <1>2, <2>3, <2>4, <2>5 DEF SignInInv, SignInType, Made
<1>7. /\ code' \in CodeRows /\ code'.generation = code.generation
      /\ code'.consumed = code.consumed
      /\ code'.reserved = code.reserved \/ (code'.reserved = s /\ factor = code.generation)
  <2>1. code \in CodeRows
    BY DEF SignInInv, SignInType
  <2> QED
    BY <1>1, <2>1 DEF CodeRows
<1> QED
  BY <1>2, <1>4, <1>5, <1>6, <1>7, PendingAdded

LEMMA RotateSessionKeeps ==
    ASSUME SignInInv, NEW s \in SignIn!Sessions, NEW n \in SignIn!Sessions,
           SignIn!RotateSession(s, n)
    PROVE  SignInInv'
<1>1. /\ s \in SignIn!Rows /\ n \in SignIn!Sessions \ SignIn!Rows /\ Active(s) /\ active
      /\ UNCHANGED <<active, step, code, challenge, renewals>> /\ issuing' \subseteq issuing \cup {n}
  BY DEF SignIn!RotateSession, SignIn!New, SignIn!Live, Active
<1>2. PICK row : row = SignIn!Pending("REFRESH", s, None, session[s].family)
  OBVIOUS
<1>3. session[s].family \in SignIn!Sessions
  BY <1>1, SignInRow DEF SignInInv, SignIn!SessionRows
<1>4. /\ row \in SignIn!SessionRows /\ row.status = "PENDING" /\ row.kind = "REFRESH"
      /\ row.from = s /\ row.family = session[s].family
  BY <1>2, <1>3 DEF SignIn!Pending, SignIn!SessionRows
<1>5. session' = [session EXCEPT ![n] = row]
  BY <1>2 DEF SignIn!RotateSession
<1>6. /\ challenge' \in [SignIn!Challenges -> SignIn!ChallengeRows \cup {None}] /\ Made' = Made
      /\ code' \in CodeRows
  BY <1>1 DEF SignInInv, SignInType, Made
<1> QED
  BY <1>1, <1>4, <1>5, <1>6, PendingAdded

LEMMA ActivatedRow ==
    ASSUME SignInType, NEW s \in SignIn!Rows
    PROVE  LET row == [session[s] EXCEPT !.status = "ACTIVE"]
           IN  /\ row \in SignIn!SessionRows /\ row # None
               /\ row.kind = session[s].kind /\ row.from = session[s].from
               /\ row.factor = session[s].factor /\ row.family = session[s].family
               /\ row.consumed = session[s].consumed /\ row.revoked = session[s].revoked
               /\ row.status = "ACTIVE"
<1>1. session[s] \in SignIn!SessionRows
  BY SignInRow
<1>2. PICK row : row = [session[s] EXCEPT !.status = "ACTIVE"]
  OBVIOUS
<1>3. /\ row \in SignIn!SessionRows
      /\ row.kind = session[s].kind /\ row.from = session[s].from
      /\ row.factor = session[s].factor /\ row.family = session[s].family
      /\ row.consumed = session[s].consumed /\ row.revoked = session[s].revoked
      /\ row.status = "ACTIVE"
  BY <1>1, <1>2 DEF SignIn!SessionRows
<1> QED
  BY <1>2, <1>3, RowIsSome

\* A sign-in comes to life by a challenge and a factor that were not used, and
\* uses them up.
LEMMA SignInActivates ==
    ASSUME SignInInv, NEW s \in SignIn!Rows, ~SignIn!Refreshed(s), SignIn!IsPending(s),
           active, ~session[s].revoked, ~challenge[session[s].from].consumed,
           SignIn!Activate(s), UNCHANGED <<active, renewals>>, issuing' \subseteq issuing,
           \/ /\ session[s].kind = "TOTP" /\ session[s].factor > step
              /\ step' = session[s].factor /\ UNCHANGED code
           \/ /\ session[s].kind = "RECOVERY" /\ code.reserved = s /\ ~code.consumed
              /\ code' = [code EXCEPT !.consumed = TRUE, !.reserved = None] /\ UNCHANGED step
    PROVE  SignInInv'
<1>1. SignInType /\ MfaUsed(s) /\ ~Active(s)
  BY DEF SignInInv, RowsUsed, SignIn!IsPending, Active
<1>2. PICK row : row = [session[s] EXCEPT !.status = "ACTIVE"]
  OBVIOUS
<1>3. /\ row \in SignIn!SessionRows /\ row # None
      /\ row.kind = session[s].kind /\ row.from = session[s].from
      /\ row.factor = session[s].factor /\ row.family = session[s].family
      /\ row.consumed = session[s].consumed /\ row.revoked = session[s].revoked
      /\ row.status = "ACTIVE"
  BY <1>1, <1>2, ActivatedRow
<1>4. /\ session' \in [SignIn!Sessions -> SignIn!SessionRows \cup {None}]
      /\ session'[s] = row /\ \A n \in SignIn!Sessions \ {s} : session'[n] = session[n]
  BY <1>1, <1>2, <1>3 DEF SignIn!Activate, SignInType, SignIn!Rows
<1>5. SignIn!Rows' = SignIn!Rows /\ s \in SignIn!Sessions
  BY <1>3, <1>4 DEF SignIn!Rows
<1>6. \A n \in SignIn!Rows :
          /\ session'[n].kind = session[n].kind /\ session'[n].from = session[n].from
          /\ session'[n].factor = session[n].factor /\ session'[n].family = session[n].family
          /\ session'[n].consumed = session[n].consumed
          /\ session'[n].revoked = session[n].revoked
          /\ Active(n)' <=> Active(n) \/ n = s
  <2>1. \A n \in SignIn!Rows \ {s} : session'[n] = session[n]
    BY <1>4 DEF SignIn!Rows
  <2> QED
    BY <1>3, <1>4, <2>1 DEF Active
<1>7. /\ challenge' \in [SignIn!Challenges -> SignIn!ChallengeRows \cup {None}] /\ Made' = Made
      /\ \A c \in Made : challenge'[c].consumed <=> challenge[c].consumed \/ c = session[s].from
  <2>1. PICK used : used = [consumed |-> TRUE, reserved |-> None]
    OBVIOUS
  <2>2. used \in SignIn!ChallengeRows /\ used.consumed
    BY <2>1 DEF SignIn!ChallengeRows
  <2>3. used # None
    BY <2>2, RowIsSome
  <2>4. challenge' = [challenge EXCEPT ![session[s].from] = used]
    BY <2>1 DEF SignIn!Activate
  <2> QED
    BY <1>1, <2>2, <2>3, <2>4 DEF SignInType, Made, MfaUsed
<1>8. /\ code' \in CodeRows /\ code'.generation = code.generation
      /\ code.consumed => code'.consumed
      /\ session[s].kind = "RECOVERY" => code'.consumed /\ session[s].factor = code.generation
      /\ code'.reserved \in {code.reserved, None}
  <2>1. code \in CodeRows
    BY <1>1 DEF SignInType
  <2>2. CASE session[s].kind = "RECOVERY"
    <3>1. code' = [code EXCEPT !.consumed = TRUE, !.reserved = None] /\ code.reserved = s
      BY <2>2
    <3>2. s # None
      BY <1>5, SignInAssumption DEF SignIn!Distinct
    <3> QED
      BY <2>1, <3>1, <3>2 DEF CodeRows, SignInInv, CodeReserved
  <2>3. CASE session[s].kind # "RECOVERY"
    BY <2>1, <2>3
  <2> QED
    BY <2>2, <2>3
<1>9. /\ step \in Nat /\ step' \in Nat /\ step <= step' /\ code.generation \in Nat
      /\ session[s].factor \in Nat
      /\ session[s].kind = "TOTP" => step < session[s].factor /\ step' = session[s].factor
  BY <1>1 DEF SignInType, CodeRows, MfaUsed
<1>10. SignInType'
  BY <1>1, <1>4, <1>5, <1>7, <1>8, <1>9 DEF SignInType
<1>11. CodeReserved' /\ RenewalsPast'
  BY <1>5, <1>6, <1>8, <1>9 DEF SignInInv, CodeReserved, RenewalsPast
<1>12. \A n \in SignIn!Rows : SignIn!Refreshed(n)' <=> SignIn!Refreshed(n)
  BY <1>6 DEF SignIn!Refreshed
<1>13. RowsUsed'
  <2>1. ASSUME NEW n \in SignIn!Rows, SignIn!Refreshed(n)
        PROVE  RefreshUsed(n)'
    <3>1. RefreshUsed(n) /\ n # s
      BY <2>1 DEF SignInInv, RowsUsed
    <3> QED
      BY <1>5, <1>6, <1>12, <3>1 DEF RefreshUsed
  <2>2. ASSUME NEW n \in SignIn!Rows, ~SignIn!Refreshed(n)
        PROVE  MfaUsed(n)'
    <3>1. MfaUsed(n)
      BY <2>2 DEF SignInInv, RowsUsed
    <3>2. CASE n = s
      BY <1>1, <1>3, <1>4, <1>6, <1>7, <1>8, <1>9, <3>2 DEF MfaUsed
    <3>3. CASE n # s
      BY <1>6, <1>7, <1>8, <1>9, <3>1, <3>3 DEF MfaUsed
    <3> QED
      BY <3>2, <3>3
  <2> QED
    BY <1>5, <1>12, <2>1, <2>2 DEF RowsUsed
<1>14. SignIn!Activated' = SignIn!Activated \cup {s} /\ s \notin SignIn!Activated
  BY <1>1, <1>5, <1>6 DEF SignIn!Activated, Active
<1>15. ASSUME NEW n \in SignIn!Activated
       PROVE  /\ ~SignIn!Refreshed(n) => session[n].from # session[s].from
              /\ session[n].kind = session[s].kind => session[n].factor # session[s].factor
              /\ session[n].family # session[s].family
  <2>1. n \in SignIn!Rows /\ Active(n) /\ n # s
    BY <1>14 DEF SignIn!Activated, Active
  <2>2. CASE SignIn!Refreshed(n)
    <3>1. RefreshUsed(n)
      BY <2>1, <2>2 DEF SignInInv, RowsUsed
    <3>2. session[n].family # s
      BY <1>1, <3>1 DEF RefreshUsed
    <3> QED
      BY <1>1, <2>2, <3>2 DEF MfaUsed, SignIn!Refreshed
  <2>3. CASE ~SignIn!Refreshed(n)
    <3>1. MfaUsed(n)
      BY <2>1, <2>3 DEF SignInInv, RowsUsed
    <3>2. session[n].from # session[s].from /\ session[n].family # session[s].family
      BY <1>1, <2>1, <3>1 DEF MfaUsed
    <3>3. CASE session[s].kind = "TOTP"
      BY <1>9, <2>1, <3>1, <3>2, <3>3 DEF MfaUsed
    <3>4. CASE session[s].kind = "RECOVERY"
      BY <1>8, <1>9, <2>1, <3>1, <3>2, <3>4 DEF MfaUsed
    <3> QED
      BY <3>2, <3>3, <3>4
  <2> QED
    BY <2>2, <2>3
<1>16. session[s].kind = "TOTP" => session[s].factor \notin renewals
  BY <1>9 DEF SignInInv, RenewalsPast
<1>17. SignIn!Activated \subseteq SignIn!Rows
  BY DEF SignIn!Activated
<1>18. SignIn!EarnedOnce'
  <2>1. \A m, n \in SignIn!Activated : m # n =>
            /\ SignIn!Refreshed(m) = SignIn!Refreshed(n) => session[m].from # session[n].from
            /\ session[m].kind = session[n].kind /\ ~SignIn!Refreshed(m) =>
                   session[m].factor # session[n].factor
    BY DEF SignInInv, SessionsEarned, SignIn!SessionsEarned, SignIn!EarnedOnce
  <2>2. \A n \in SignIn!Activated : session[n].kind = "TOTP" => session[n].factor \notin renewals
    BY DEF SignInInv, SessionsEarned, SignIn!SessionsEarned, SignIn!EarnedOnce
  <2>3. ASSUME NEW m \in SignIn!Activated', NEW n \in SignIn!Activated', m # n
        PROVE  /\ SignIn!Refreshed(m)' = SignIn!Refreshed(n)' => session'[m].from # session'[n].from
               /\ session'[m].kind = session'[n].kind /\ ~SignIn!Refreshed(m)' =>
                      session'[m].factor # session'[n].factor
    <3>1. m \in SignIn!Rows /\ n \in SignIn!Rows
      BY <1>14, <1>17
    <3>2. SUFFICES /\ SignIn!Refreshed(m) = SignIn!Refreshed(n) => session[m].from # session[n].from
                   /\ session[m].kind = session[n].kind /\ ~SignIn!Refreshed(m) =>
                          session[m].factor # session[n].factor
      BY <1>6, <3>1 DEF SignIn!Refreshed
    <3>3. CASE m = s
      BY <1>14, <1>15, <2>3, <3>3
    <3>4. CASE n = s
      BY <1>14, <1>15, <2>3, <3>4 DEF SignIn!Refreshed
    <3>5. CASE m # s /\ n # s
      BY <1>14, <2>1, <2>3, <3>5
    <3> QED
      BY <3>3, <3>4, <3>5
  <2>4. \A n \in SignIn!Activated' : session'[n].kind = "TOTP" => session'[n].factor \notin renewals'
    BY <1>6, <1>14, <1>16, <1>17, <2>2
  <2> QED
    BY <2>3, <2>4 DEF SignIn!EarnedOnce
<1>19. SignIn!RevokedStaysOut'
  BY <1>5, <1>6, <1>14, <1>15, <1>17
  DEF SignInInv, SessionsEarned, SignIn!SessionsEarned, SignIn!RevokedStaysOut
<1> QED
  BY <1>10, <1>11, <1>13, <1>18, <1>19 DEF SignInInv, SessionsEarned, SignIn!SessionsEarned

\* A refresh comes to life in the place of its predecessor, which is used up.
LEMMA RefreshActivates ==
    ASSUME SignInInv, NEW s \in SignIn!Sessions, SignIn!FinalizeRotated(s)
    PROVE  SignInInv'
<1>1. /\ s \in SignIn!Rows /\ SignIn!Refreshed(s) /\ ~Active(s) /\ SignInType /\ RefreshUsed(s)
      /\ active /\ ~session[s].revoked
      /\ UNCHANGED <<active, step, code, challenge, renewals>> /\ issuing' \subseteq issuing
  <2>1. s \in SignIn!Rows /\ SignIn!Refreshed(s)
    BY IssuingRow DEF SignIn!FinalizeRotated, SignIn!Finalizing, SignIn!Refreshed
  <2> QED
    BY <2>1
    DEF SignInInv, RowsUsed, SignIn!FinalizeRotated, SignIn!Finalizing, SignIn!IsPending, Active,
        SignIn!Replaceable, SignIn!Committed, SignIn!Answered
<1>2. PICK p : p = session[s].from
  OBVIOUS
<1>3. /\ p \in SignIn!Rows /\ Active(p) /\ p # s
      /\ session[p].family = session[s].family
      /\ ~session[p].consumed /\ ~session[p].revoked
  BY <1>1, <1>2 DEF RefreshUsed, SignIn!FinalizeRotated, SignIn!Replaceable, SignIn!Live, Active
<1>4. PICK row, old : /\ row = [session[s] EXCEPT !.status = "ACTIVE"]
                      /\ old = [session[p] EXCEPT !.consumed = TRUE]
  OBVIOUS
<1>5. /\ row \in SignIn!SessionRows /\ row # None
      /\ row.kind = session[s].kind /\ row.from = session[s].from
      /\ row.factor = session[s].factor /\ row.family = session[s].family
      /\ row.consumed = session[s].consumed /\ row.revoked = session[s].revoked
      /\ row.status = "ACTIVE"
  BY <1>1, <1>4, ActivatedRow
<1>6. /\ old \in SignIn!SessionRows
      /\ old.kind = session[p].kind /\ old.from = session[p].from
      /\ old.factor = session[p].factor /\ old.family = session[p].family
      /\ old.consumed = TRUE /\ old.revoked = session[p].revoked
      /\ old.status = session[p].status
  <2>1. session[p] \in SignIn!SessionRows
    BY <1>1, <1>3, SignInRow
  <2> QED
    BY <1>4, <2>1 DEF SignIn!SessionRows
<1>7. old # None
  BY <1>6, RowIsSome
<1>8. /\ session' \in [SignIn!Sessions -> SignIn!SessionRows \cup {None}]
      /\ session'[s] = row /\ session'[p] = old
      /\ \A n \in SignIn!Sessions \ {s, p} : session'[n] = session[n]
  <2>1. session' = [[session EXCEPT ![p] = old] EXCEPT ![s] = row]
    BY <1>2, <1>3, <1>4 DEF SignIn!FinalizeRotated
  <2>2. s \in SignIn!Sessions /\ p \in SignIn!Sessions
    BY <1>3 DEF SignIn!Rows
  <2> QED
    BY <1>1, <1>3, <1>5, <1>6, <2>1, <2>2 DEF SignInType
<1>9. SignIn!Rows' = SignIn!Rows
  BY <1>1, <1>3, <1>5, <1>7, <1>8 DEF SignIn!Rows
<1>10. \A n \in SignIn!Rows :
          /\ session'[n].kind = session[n].kind /\ session'[n].from = session[n].from
          /\ session'[n].factor = session[n].factor /\ session'[n].family = session[n].family
          /\ session'[n].consumed <=> session[n].consumed \/ n = p
          /\ session'[n].revoked = session[n].revoked
          /\ Active(n)' <=> Active(n) \/ n = s
  <2> SUFFICES ASSUME NEW n \in SignIn!Rows
               PROVE  /\ session'[n].kind = session[n].kind /\ session'[n].from = session[n].from
                      /\ session'[n].factor = session[n].factor
                      /\ session'[n].family = session[n].family
                      /\ session'[n].consumed <=> session[n].consumed \/ n = p
                      /\ session'[n].revoked = session[n].revoked
                      /\ Active(n)' <=> Active(n) \/ n = s
    OBVIOUS
  <2>1. CASE n = s
    BY <1>3, <1>5, <1>8, <2>1 DEF Active
  <2>2. CASE n = p
    BY <1>3, <1>6, <1>8, <2>2 DEF Active
  <2>3. CASE n \notin {s, p}
    BY <1>8, <2>3 DEF Active, SignIn!Rows
  <2> QED
    BY <2>1, <2>2, <2>3
<1>11. SignInType' /\ Made' = Made
  BY <1>1, <1>8, <1>9 DEF SignInType, Made
<1>12. CodeReserved' /\ RenewalsPast'
  BY <1>1, <1>9, <1>10 DEF SignInInv, CodeReserved, RenewalsPast
<1>13. \A n \in SignIn!Rows : SignIn!Refreshed(n)' <=> SignIn!Refreshed(n)
  BY <1>10 DEF SignIn!Refreshed
<1>14. RowsUsed'
  <2>1. ASSUME NEW n \in SignIn!Rows, SignIn!Refreshed(n)
        PROVE  RefreshUsed(n)'
    <3>1. RefreshUsed(n)
      BY <2>1 DEF SignInInv, RowsUsed
    <3>2. CASE n = s
      BY <1>1, <1>2, <1>3, <1>9, <1>10, <1>13, <3>1, <3>2 DEF RefreshUsed
    <3>3. CASE n # s
      BY <1>9, <1>10, <1>13, <3>1, <3>3 DEF RefreshUsed
    <3> QED
      BY <3>2, <3>3
  <2>2. ASSUME NEW n \in SignIn!Rows, ~SignIn!Refreshed(n)
        PROVE  MfaUsed(n)'
    <3>1. MfaUsed(n) /\ n # s
      BY <1>1, <2>2 DEF SignInInv, RowsUsed
    <3> QED
      BY <1>1, <1>10, <1>11, <3>1 DEF MfaUsed
  <2> QED
    BY <1>9, <1>13, <2>1, <2>2 DEF RowsUsed
<1>15. SignIn!Activated' = SignIn!Activated \cup {s} /\ s \notin SignIn!Activated
       /\ SignIn!Activated \subseteq SignIn!Rows /\ p \in SignIn!Activated
  BY <1>1, <1>3, <1>9, <1>10 DEF SignIn!Activated, Active
<1>16. ASSUME NEW n \in SignIn!Activated, SignIn!Refreshed(n)
       PROVE  session[n].from # session[s].from
  <2>1. RefreshUsed(n) /\ Active(n)
    BY <1>15, <1>16 DEF SignInInv, RowsUsed, SignIn!Activated, Active
  <2> QED
    BY <1>2, <1>3, <2>1 DEF RefreshUsed
<1>17. ASSUME NEW n \in SignIn!Activated, session[n].family = session[s].family
       PROVE  ~session[n].revoked /\ (n # p => session[n].consumed)
  BY <1>3, <1>15, <1>17
  DEF SignInInv, SessionsEarned, SignIn!SessionsEarned, SignIn!RevokedStaysOut
<1>18. SignIn!EarnedOnce'
  <2>1. \A m, n \in SignIn!Activated : m # n =>
            /\ SignIn!Refreshed(m) = SignIn!Refreshed(n) => session[m].from # session[n].from
            /\ session[m].kind = session[n].kind /\ ~SignIn!Refreshed(m) =>
                   session[m].factor # session[n].factor
    BY DEF SignInInv, SessionsEarned, SignIn!SessionsEarned, SignIn!EarnedOnce
  <2>2. \A n \in SignIn!Activated : session[n].kind = "TOTP" => session[n].factor \notin renewals
    BY DEF SignInInv, SessionsEarned, SignIn!SessionsEarned, SignIn!EarnedOnce
  <2>3. ASSUME NEW m \in SignIn!Activated', NEW n \in SignIn!Activated', m # n
        PROVE  /\ SignIn!Refreshed(m)' = SignIn!Refreshed(n)' => session'[m].from # session'[n].from
               /\ session'[m].kind = session'[n].kind /\ ~SignIn!Refreshed(m)' =>
                      session'[m].factor # session'[n].factor
    <3>1. m \in SignIn!Rows /\ n \in SignIn!Rows
      BY <1>1, <1>15
    <3>2. SUFFICES /\ SignIn!Refreshed(m) = SignIn!Refreshed(n) => session[m].from # session[n].from
                   /\ session[m].kind = session[n].kind /\ ~SignIn!Refreshed(m) =>
                          session[m].factor # session[n].factor
      BY <1>10, <3>1 DEF SignIn!Refreshed
    <3>3. CASE m = s
      BY <1>1, <1>15, <1>16, <2>3, <3>3 DEF SignIn!Refreshed
    <3>4. CASE n = s
      BY <1>1, <1>15, <1>16, <2>3, <3>4 DEF SignIn!Refreshed
    <3>5. CASE m # s /\ n # s
      BY <1>15, <2>1, <2>3, <3>5
    <3> QED
      BY <3>3, <3>4, <3>5
  <2>4. \A n \in SignIn!Activated' : session'[n].kind = "TOTP" => session'[n].factor \notin renewals'
    BY <1>1, <1>10, <1>15, <2>2 DEF SignIn!Refreshed
  <2> QED
    BY <2>3, <2>4 DEF SignIn!EarnedOnce
<1>19. SignIn!RevokedStaysOut'
  BY <1>1, <1>9, <1>10, <1>15, <1>17
  DEF SignInInv, SessionsEarned, SignIn!SessionsEarned, SignIn!RevokedStaysOut
<1> QED
  BY <1>11, <1>12, <1>14, <1>18, <1>19 DEF SignInInv, SessionsEarned, SignIn!SessionsEarned

LEMMA FinalizeKeeps ==
    ASSUME SignInInv, NEW s \in SignIn!Sessions, SignIn!FinalizeTotp(s) \/ SignIn!FinalizeRecovery(s)
    PROVE  SignInInv'
<1>1. s \in SignIn!Rows
  BY IssuingRow DEF SignIn!FinalizeTotp, SignIn!FinalizeRecovery, SignIn!Finalizing
<1>2. /\ ~SignIn!Refreshed(s) /\ SignIn!IsPending(s) /\ active /\ ~session[s].revoked
      /\ ~challenge[session[s].from].consumed /\ SignIn!Activate(s)
      /\ UNCHANGED <<active, renewals>> /\ issuing' \subseteq issuing
  BY DEF SignIn!FinalizeTotp, SignIn!FinalizeRecovery, SignIn!Finalizing, SignIn!Refreshed,
         SignIn!StillReserved, SignIn!Committed, SignIn!Answered
<1>3. \/ /\ session[s].kind = "TOTP" /\ session[s].factor > step
         /\ step' = session[s].factor /\ UNCHANGED code
      \/ /\ session[s].kind = "RECOVERY" /\ code.reserved = s /\ ~code.consumed
         /\ code' = [code EXCEPT !.consumed = TRUE, !.reserved = None] /\ UNCHANGED step
  BY DEF SignIn!FinalizeTotp, SignIn!FinalizeRecovery, SignIn!Finalizing, SignIn!Fresh
<1> QED
  BY <1>1, <1>2, <1>3, SignInActivates

LEMMA SignInStep ==
    ASSUME SignInInv, [SignIn!Next]_adminVars
    PROVE  SignInInv'
<1>1. CASE UNCHANGED adminVars
  <2>1. /\ UNCHANGED <<active, step, code, challenge, session, issuing, renewals>>
        /\ step \in Nat /\ code.generation \in Nat
    BY <1>1 DEF adminVars, SignInInv, SignInType, CodeRows
  <2>2. SignInType' /\ Made' = Made /\ CodeReserved'
    BY <2>1 DEF SignInInv, SignInType, Made, SignIn!Rows, CodeReserved
  <2>3. RowsUsed' /\ RenewalsPast' /\ SessionsEarned'
    BY <2>1, <2>2, SessionsRest DEF SignInInv, RenewalsPast
  <2> QED
    BY <2>2, <2>3 DEF SignInInv
<1> QED
  BY <1>1, CreateMfaChallengeKeeps, ReservingKeeps, ReplaceRecoveryCodesKeeps, ReleaseKeeps,
     FinalizeKeeps, RefreshActivates, RotateSessionKeeps, RevokeFamilyKeeps, LapseKeeps, DisableKeeps
  DEF SignIn!Next, SignIn!SignIn, SignIn!Finish

LEMMA SignInStart == SignIn!Init => SignInInv
<1> SUFFICES ASSUME SignIn!Init PROVE SignInInv
  OBVIOUS
<1>1. SignIn!Rows = {} /\ code \in CodeRows /\ code.reserved = None
  BY DEF SignIn!Init, SignIn!Rows, SignIn!NewCode, CodeRows
<1>2. SignIn!Activated = {}
  BY <1>1 DEF SignIn!Activated
<1> QED
  BY <1>1, <1>2
  DEF SignIn!Init, SignInInv, SignInType, RowsUsed, CodeReserved, RenewalsPast, SessionsEarned,
      SignIn!SessionsEarned, SignIn!EarnedOnce, SignIn!RevokedStaysOut

LEMMA SignInInvHolds == ServicesSpec => []SignInInv
<1>1. ServicesInit => SignInInv
  BY SignInStart DEF ServicesInit
<1>2. SignInInv /\ [ServicesNext]_serviceVars => SignInInv'
  BY SignInStep, OneServiceSteps
<1> QED
  BY <1>1, <1>2, PTL DEF ServicesSpec

\* For any number of challenges, sessions and time steps, and whatever requests
\* stall, lapse, are repeated or lose their answers: a challenge, a time step, a
\* recovery code and a refresh token bring at most one session to life, and
\* nothing half way outlives a disabled administrator or a detected reuse
\* (prisma-admin-auth.repository.ts, finalizeMfaSession, finalizeRotatedSession).
THEOREM SessionsAreEarned == ServicesSpec => []SessionsEarned
<1>1. SignInInv => SessionsEarned
  BY DEF SignInInv
<1> QED
  BY <1>1, SignInInvHolds, PTL

-----------------------------------------------------------------------------
(* The delivery of one SMS (Notifications).                                *)

WorkerPlaces == {"idle", "SEND", "RECONCILE", "sending", "accepted", "unknown", "rejected",
                 "PENDING", "FAILED", "DELIVERED"}

SmsType ==
    /\ sms \in Sms!Rows \cup {None}
    /\ attempt \in Loops \cup {None}
    /\ worker \in [Loops -> [at : WorkerPlaces, rejected : BOOLEAN]]
    /\ sends \subseteq Loops
    /\ provider \in [accepted : Nat, state : {None, "PENDING", "DELIVERED", "FAILED"}]

\* The worker is about to send.
Asks(w) == worker[w].at = "SEND"

\* No SMS was accepted, none is on its way and nobody is about to send one.
Untried == provider.accepted = 0 /\ sends = {} /\ \A w \in Loops : ~Asks(w)

\* The next claim may send.
Sendable ==
    \/ sms = None
    \/ /\ attempt = None /\ sms.receipt = None
       /\ sms.status \in {"PENDING", "RETRY_PENDING", "RECONCILING"}

\* The worker was told that its SMS is not accepted, and may say so.
Rejecting(w) == worker[w].at = "rejected" /\ Sms!Holds(w)

\* One SMS at most is accepted, on its way or about to be sent.
OneSms ==
    /\ provider.accepted <= 1
    /\ provider.accepted = 1 => sends = {} /\ \A w \in Loops : ~Asks(w)
    /\ \A v, w \in sends : v = w
    /\ sends # {} => \A w \in Loops : ~Asks(w)
    /\ \A v, w \in Loops : Asks(v) /\ Asks(w) => v = w

SmsInv ==
    /\ SmsType
    /\ OneSms
    /\ \A w \in Loops : worker[w].at # "idle" => sms # None
    /\ Sendable => Untried
    /\ \A w \in Loops : Rejecting(w) => Untried

LEMMA SmsNone ==
    /\ None \notin Loops /\ None \notin Sms!Receipts /\ None \notin Sms!Rows
    /\ MaxAttempts \in Nat
  BY SmsAssumption DEF Sms!Distinct

LEMMA SmsInit == Sms!Init => SmsInv
<1> SUFFICES ASSUME Sms!Init PROVE SmsInv
  OBVIOUS
<1>1. sms = None /\ attempt = None /\ sends = {} /\ provider = [accepted |-> 0, state |-> None]
      /\ worker = [w \in Loops |-> [at |-> "idle", rejected |-> FALSE]]
  BY DEF Sms!Init, Sms!Waiting, Sms!Idle
<1>2. SmsType
  BY <1>1 DEF SmsType, WorkerPlaces
<1>3. \A w \in Loops : worker[w].at = "idle"
  BY <1>1
<1>4. Untried
  BY <1>1, <1>3 DEF Untried, Asks
<1>5. OneSms
  BY <1>1, <1>3 DEF OneSms, Asks
<1> QED
  BY <1>2, <1>3, <1>4, <1>5 DEF SmsInv

\* A step that sends nothing.
LEMMA SendsNothing ==
    ASSUME SmsInv, SmsType',
           provider'.accepted = provider.accepted, sends' \subseteq sends,
           \A w \in Loops : Asks(w)' => Asks(w),
           \A w \in Loops : worker'[w].at # "idle" => sms' # None,
           Sendable' => Sendable \/ Untried,
           \A w \in Loops : Rejecting(w)' => Rejecting(w) \/ Untried'
    PROVE  SmsInv'
<1>1. Untried => Untried'
  BY DEF Untried
<1>2. OneSms'
  BY DEF SmsInv, OneSms
<1> QED
  BY <1>1, <1>2 DEF SmsInv

\* What a worker does leaves the others where they are.
LEMMA WorkerGoes ==
    ASSUME SmsInv, NEW w \in Loops, NEW place \in WorkerPlaces, Sms!Goes(w, place)
    PROVE  /\ worker' \in [Loops -> [at : WorkerPlaces, rejected : BOOLEAN]]
           /\ worker'[w].at = place
           /\ \A v \in Loops : v # w => worker'[v] = worker[v]
<1> PICK new : new = [Sms!Idle EXCEPT !.at = place]
  OBVIOUS
<1>1. new \in [at : WorkerPlaces, rejected : BOOLEAN] /\ new.at = place
  BY DEF Sms!Idle
<1>2. worker' = [worker EXCEPT ![w] = new]
  BY DEF Sms!Goes
<1> QED
  BY <1>1, <1>2 DEF SmsInv, SmsType

\* The steps of the consumer, of which one creates the row.
LEMMA ConsumeStep == ASSUME SmsInv, Sms!Consume PROVE SmsInv'
<1>1. /\ attempt' = attempt /\ worker' = worker /\ sends' = sends /\ provider' = provider
      /\ sms' = sms \/ (sms = None /\ sms' = Sms!NewSms)
  BY DEF Sms!Consume, Sms!Receive, Sms!AcceptEvent, Sms!Ack, Sms!Nack, Sms!DeadLetter, Sms!Redeliver
<1>2. Sms!NewSms \in Sms!Rows
  BY DEF Sms!NewSms, Sms!Rows, Sms!Statuses
<1>3. SmsType'
  BY <1>1, <1>2 DEF SmsInv, SmsType
<1>4. sms # None => sms' = sms
  BY <1>1
<1>5. \A w \in Loops : worker'[w].at # "idle" => sms' # None
  BY <1>1, <1>4 DEF SmsInv
<1>6. Sendable' => Sendable
  BY <1>1 DEF Sendable
<1>7. \A w \in Loops : Rejecting(w)' => Rejecting(w)
  BY <1>1, <1>4 DEF SmsInv, Rejecting, Sms!Holds
<1>8. \A w \in Loops : Asks(w)' => Asks(w)
  BY <1>1 DEF Asks
<1> QED
  BY <1>1, <1>3, <1>5, <1>6, <1>7, <1>8, SendsNothing

\* The row under a new claim.
LEMMA ClaimedRow ==
    ASSUME SmsInv, sms # None, NEW w \in Loops
    PROVE  /\ Sms!Claimed(w) \in Sms!Rows /\ Sms!Claimed(w).claim = w
           /\ Sms!Claimed(w).status = "RECONCILING" /\ Sms!Claimed(w).receipt = sms.receipt
<1>1. sms \in Sms!Rows
  BY DEF SmsInv, SmsType
<1> PICK base : base = [sms EXCEPT !.status = "RECONCILING", !.claim = w, !.lapsed = FALSE]
  OBVIOUS
<1>2. /\ base \in Sms!Rows /\ base.claim = w /\ base.status = "RECONCILING"
      /\ base.receipt = sms.receipt
  BY <1>1 DEF Sms!Rows, Sms!Statuses
<1>3. base.rechecks \in Nat /\ base.attempts \in Nat
  BY <1>2 DEF Sms!Rows
<1>4. Sms!AtMost(base.rechecks + 1) \in Nat /\ Sms!AtMost(base.attempts + 1) \in Nat
  BY <1>3, SmsNone DEF Sms!AtMost
<1> PICK looked : looked = [base EXCEPT !.rechecks = Sms!AtMost(base.rechecks + 1)]
  OBVIOUS
<1> PICK sent : sent = [base EXCEPT !.attempts = Sms!AtMost(base.attempts + 1)]
  OBVIOUS
<1>5. /\ looked \in Sms!Rows /\ looked.claim = w /\ looked.status = "RECONCILING"
      /\ looked.receipt = sms.receipt
  BY <1>2, <1>4 DEF Sms!Rows
<1>6. /\ sent \in Sms!Rows /\ sent.claim = w /\ sent.status = "RECONCILING"
      /\ sent.receipt = sms.receipt
  BY <1>2, <1>4 DEF Sms!Rows
<1>7. Sms!Claimed(w) = IF sms.status = "RECONCILING" THEN looked ELSE sent
  BY <1>1, <1>2 DEF Sms!Claimed, Sms!Rows
<1> QED
  BY <1>5, <1>6, <1>7

LEMMA ClaimSmsStep == ASSUME SmsInv, NEW w \in Loops, Sms!Claim(w) PROVE SmsInv'
<1>1. /\ worker[w].at = "idle" /\ sms # None /\ Sms!Claimable
      /\ sms' = Sms!Claimed(w) /\ attempt' = w /\ sends' = sends /\ provider' = provider
      /\ Sms!Goes(w, Sms!Mode)
  BY DEF Sms!Claim
<1>2. /\ sms' \in Sms!Rows /\ sms' # None /\ sms'.claim = w /\ sms'.status = "RECONCILING"
      /\ sms'.receipt = sms.receipt
  BY <1>1, ClaimedRow, SmsNone
<1> PICK place \in {"SEND", "RECONCILE"} :
        place = Sms!Mode
  BY DEF Sms!Mode
<1>3. place \in WorkerPlaces /\ Sms!Goes(w, place)
  BY <1>1 DEF WorkerPlaces
<1>4. /\ worker' \in [Loops -> [at : WorkerPlaces, rejected : BOOLEAN]]
      /\ worker'[w].at = place
      /\ \A v \in Loops : v # w => worker'[v] = worker[v]
  BY <1>3, WorkerGoes
<1>5. SmsType'
  BY <1>1, <1>2, <1>4 DEF SmsInv, SmsType
<1>6. ~Sendable'
  BY <1>1, <1>2, SmsNone DEF Sendable
<1>7. \A v \in Loops : ~Rejecting(v)'
  BY <1>2, <1>4 DEF Rejecting, Sms!Holds
<1>8. CASE place = "RECONCILE"
  <2>1. \A v \in Loops : Asks(v)' => Asks(v)
    BY <1>4, <1>8 DEF Asks
  <2> QED
    BY <1>1, <1>2, <1>5, <1>6, <1>7, <2>1, SendsNothing
<1>9. CASE place = "SEND"
  <2>1. Sendable
    BY <1>1, <1>9 DEF Sms!Mode, Sms!Claimable, Sendable
  <2>2. Untried
    BY <2>1 DEF SmsInv
  <2>3. \A v \in Loops : Asks(v)' => v = w
    BY <1>4, <2>2 DEF Untried, Asks
  <2>4. OneSms'
    BY <1>1, <2>2, <2>3 DEF OneSms, Untried
  <2> QED
    BY <1>2, <1>5, <1>6, <1>7, <2>4 DEF SmsInv
<1> QED
  BY <1>8, <1>9

LEMMA ClaimUnreadableStep ==
    ASSUME SmsInv, NEW w \in Loops, Sms!ClaimUnreadable(w) PROVE SmsInv'
<1> PICK claimed : claimed = Sms!Claimed(w)
  OBVIOUS
<1>1. /\ sms # None /\ attempt' = None /\ worker' = worker /\ sends' = sends /\ provider' = provider
      /\ sms' = [claimed EXCEPT !.status = "OPERATOR_REVIEW", !.claim = None]
  BY DEF Sms!ClaimUnreadable
<1>2. claimed \in Sms!Rows
  BY <1>1, ClaimedRow
<1>3. sms' \in Sms!Rows /\ sms'.status = "OPERATOR_REVIEW" /\ sms' # None
  BY <1>1, <1>2, SmsNone DEF Sms!Rows, Sms!Statuses
<1>4. SmsType'
  BY <1>1, <1>3 DEF SmsInv, SmsType
<1>5. ~Sendable' /\ (\A v \in Loops : ~Rejecting(v)' /\ (Asks(v)' => Asks(v)))
  BY <1>1, <1>3 DEF Sendable, Rejecting, Sms!Holds, Asks
<1> QED
  BY <1>1, <1>3, <1>4, <1>5, SendsNothing

\* A worker goes on, and the row stays.
LEMMA WorkerSteps ==
    ASSUME SmsInv, NEW w \in Loops, worker[w].at # "idle" \/ w \in sends,
           sms' = sms, attempt' = attempt,
           sends' \subseteq sends, provider' = provider,
           worker' \in [Loops -> [at : WorkerPlaces, rejected : BOOLEAN]],
           \A v \in Loops : v # w => worker'[v] = worker[v],
           worker'[w].at # "SEND",
           worker'[w].at # "idle" => sms # None,
           worker'[w].at = "rejected" => worker[w].at = "rejected" \/ Untried'
    PROVE  SmsInv'
<1>1. SmsType'
  BY DEF SmsInv, SmsType
<1>2. \A v \in Loops : Asks(v)' => Asks(v)
  BY DEF Asks
<1>3. \A v \in Loops : worker'[v].at # "idle" => sms' # None
  BY DEF SmsInv
<1>4. Sendable' => Sendable
  BY DEF Sendable
<1>5. \A v \in Loops : Rejecting(v)' => Rejecting(v) \/ Untried'
  BY DEF Rejecting, Sms!Holds
<1> QED
  BY <1>1, <1>2, <1>3, <1>4, <1>5, SendsNothing

LEMMA SendSmsStep == ASSUME SmsInv, NEW w \in Loops, Sms!Send(w) PROVE SmsInv'
<1>1. /\ Asks(w) /\ sends' = sends \cup {w} /\ sms' = sms /\ attempt' = attempt
      /\ provider' = provider /\ Sms!Goes(w, "sending")
  BY DEF Sms!Send, Asks
<1>2. /\ worker' \in [Loops -> [at : WorkerPlaces, rejected : BOOLEAN]]
      /\ worker'[w].at = "sending"
      /\ \A v \in Loops : v # w => worker'[v] = worker[v]
  BY <1>1, WorkerGoes DEF WorkerPlaces
<1>3. sends = {} /\ provider.accepted = 0 /\ sms # None /\ \A v \in Loops : Asks(v) => v = w
  BY <1>1 DEF SmsInv, OneSms, SmsType, Asks
<1>4. \A v \in Loops : ~Asks(v)'
  BY <1>2, <1>3 DEF Asks
<1>5. SmsType'
  BY <1>1, <1>2 DEF SmsInv, SmsType
<1>6. OneSms'
  BY <1>1, <1>3, <1>4 DEF OneSms
<1>7. ~Sendable'
  BY <1>1 DEF SmsInv, Sendable, Untried
<1>8. \A v \in Loops : ~Rejecting(v)'
  BY <1>1, <1>2 DEF SmsInv, Rejecting, Untried, Sms!Holds
<1>9. \A v \in Loops : worker'[v].at # "idle" => sms' # None
  BY <1>1, <1>3
<1> QED
  BY <1>5, <1>6, <1>7, <1>8, <1>9 DEF SmsInv

\* The request of a worker is answered.
LEMMA AcceptSmsStep == ASSUME SmsInv, NEW w \in Loops, Sms!Accept(w) PROVE SmsInv'
<1>1. /\ w \in sends /\ sends' = sends \ {w} /\ sms' = sms /\ attempt' = attempt
      /\ provider' = [accepted |-> provider.accepted + 1, state |-> "PENDING"]
      /\ IF worker[w].at = "sending"
         THEN Sms!Goes(w, "accepted") \/ Sms!Goes(w, "unknown")
         ELSE worker' = worker
  BY DEF Sms!Accept
<1>2. provider.accepted = 0 /\ sends' = {} /\ \A v \in Loops : ~Asks(v)
  BY <1>1 DEF SmsInv, OneSms, SmsType
<1>3. /\ worker' \in [Loops -> [at : WorkerPlaces, rejected : BOOLEAN]]
      /\ worker'[w].at \notin {"SEND", "rejected"} \/ worker'[w] = worker[w]
      /\ worker'[w].at # "idle" => worker[w].at # "idle"
      /\ \A v \in Loops : v # w => worker'[v] = worker[v]
  <2>1. CASE Sms!Goes(w, "accepted")
    BY <1>1, <2>1, WorkerGoes DEF WorkerPlaces
  <2>2. CASE Sms!Goes(w, "unknown")
    BY <1>1, <2>2, WorkerGoes DEF WorkerPlaces
  <2>3. CASE worker' = worker
    BY <2>3 DEF SmsInv, SmsType
  <2> QED
    BY <1>1, <2>1, <2>2, <2>3
<1>4. SmsType'
  BY <1>1, <1>2, <1>3 DEF SmsInv, SmsType
<1>5. OneSms'
  BY <1>1, <1>2, <1>3 DEF OneSms, Asks
<1>6. ~Sendable'
  BY <1>1 DEF SmsInv, Sendable, Untried
<1>7. \A v \in Loops : ~Rejecting(v)'
  <2>1. \A v \in Loops : ~Rejecting(v)
    BY <1>1 DEF SmsInv, Untried
  <2> QED
    BY <1>1, <1>3, <2>1 DEF Rejecting, Sms!Holds
<1>8. \A v \in Loops : worker'[v].at # "idle" => sms' # None
  BY <1>1, <1>3 DEF SmsInv
<1> QED
  BY <1>4, <1>5, <1>6, <1>7, <1>8 DEF SmsInv

LEMMA RejectSmsStep == ASSUME SmsInv, NEW w \in Loops, Sms!Reject(w) PROVE SmsInv'
<1>1. /\ w \in sends /\ sends' = sends \ {w} /\ sms' = sms /\ attempt' = attempt
      /\ provider' = provider
      /\ IF worker[w].at = "sending"
         THEN \/ \E permanent \in BOOLEAN :
                     worker' = [worker EXCEPT ![w] = [at |-> "rejected", rejected |-> permanent]]
              \/ Sms!Goes(w, "unknown")
         ELSE worker' = worker
  BY DEF Sms!Reject
<1>2. provider.accepted = 0 /\ sends' = {} /\ \A v \in Loops : ~Asks(v)
  BY <1>1 DEF SmsInv, OneSms, SmsType
<1>3. /\ worker' \in [Loops -> [at : WorkerPlaces, rejected : BOOLEAN]]
      /\ worker'[w].at # "SEND"
      /\ worker'[w].at # "idle" => worker[w].at # "idle"
      /\ \A v \in Loops : v # w => worker'[v] = worker[v]
  <2>1. CASE /\ worker[w].at = "sending"
             /\ \E permanent \in BOOLEAN :
                    worker' = [worker EXCEPT ![w] = [at |-> "rejected", rejected |-> permanent]]
    <3> PICK permanent \in BOOLEAN :
            worker' = [worker EXCEPT ![w] = [at |-> "rejected", rejected |-> permanent]]
      BY <2>1
    <3> PICK new : new = [at |-> "rejected", rejected |-> permanent]
      OBVIOUS
    <3>1. new \in [at : WorkerPlaces, rejected : BOOLEAN] /\ new.at = "rejected"
      BY DEF WorkerPlaces
    <3>2. worker' = [worker EXCEPT ![w] = new]
      OBVIOUS
    <3> QED
      BY <2>1, <3>1, <3>2 DEF SmsInv, SmsType
  <2>2. CASE worker[w].at = "sending" /\ Sms!Goes(w, "unknown")
    BY <2>2, WorkerGoes DEF WorkerPlaces
  <2>3. CASE worker' = worker
    BY <1>2, <2>3 DEF SmsInv, SmsType, Asks
  <2> QED
    BY <1>1, <2>1, <2>2, <2>3
<1>4. Untried'
  BY <1>1, <1>2, <1>3 DEF Untried, Asks
<1>5. worker'[w].at # "idle" => sms # None
  BY <1>3 DEF SmsInv
<1> QED
  BY <1>1, <1>3, <1>4, <1>5, WorkerSteps

LEMMA GiveUpSmsStep == ASSUME SmsInv, NEW w \in Loops, Sms!GiveUp(w) PROVE SmsInv'
<1>1. /\ worker[w].at = "sending" /\ Sms!Goes(w, "unknown") /\ sends' \subseteq sends
      /\ sms' = sms /\ attempt' = attempt /\ provider' = provider
  BY DEF Sms!GiveUp
<1>2. /\ worker' \in [Loops -> [at : WorkerPlaces, rejected : BOOLEAN]]
      /\ worker'[w].at = "unknown"
      /\ \A v \in Loops : v # w => worker'[v] = worker[v]
  BY <1>1, WorkerGoes DEF WorkerPlaces
<1>3. sms # None
  BY <1>1 DEF SmsInv
<1> QED
  BY <1>1, <1>2, <1>3, WorkerSteps

LEMMA RefuseLocallyStep == ASSUME SmsInv, NEW w \in Loops, Sms!RefuseLocally(w) PROVE SmsInv'
<1> PICK new : new = [at |-> "rejected", rejected |-> TRUE]
  OBVIOUS
<1>1. /\ Asks(w) /\ worker' = [worker EXCEPT ![w] = new]
      /\ sms' = sms /\ attempt' = attempt /\ provider' = provider /\ sends' = sends
  BY DEF Sms!RefuseLocally, Asks
<1>2. new \in [at : WorkerPlaces, rejected : BOOLEAN] /\ new.at = "rejected"
  BY DEF WorkerPlaces
<1>3. /\ worker' \in [Loops -> [at : WorkerPlaces, rejected : BOOLEAN]]
      /\ worker'[w].at = "rejected"
      /\ \A v \in Loops : v # w => worker'[v] = worker[v]
  BY <1>1, <1>2 DEF SmsInv, SmsType
<1>4. sends = {} /\ provider.accepted = 0 /\ sms # None /\ \A v \in Loops : Asks(v) => v = w
  <2>1. worker[w].at = "SEND" /\ OneSms /\ provider.accepted \in Nat
    BY <1>1 DEF Asks, SmsInv, SmsType
  <2>2. sends = {}
    BY <1>1, <2>1 DEF OneSms
  <2>3. provider.accepted = 0
    BY <1>1, <2>1 DEF OneSms
  <2>4. sms # None
    BY <2>1 DEF SmsInv
  <2>5. \A v \in Loops : Asks(v) => v = w
    BY <1>1 DEF SmsInv, OneSms
  <2> QED
    BY <2>2, <2>3, <2>4, <2>5
<1>5. Untried'
  BY <1>1, <1>3, <1>4 DEF Untried, Asks
<1>6. worker[w].at # "idle"
  BY <1>1 DEF Asks
<1> QED
  BY <1>1, <1>3, <1>4, <1>5, <1>6, WorkerSteps

LEMMA ReconcileStep == ASSUME SmsInv, NEW w \in Loops, Sms!Reconcile(w) PROVE SmsInv'
<1>1. /\ worker[w].at = "RECONCILE"
      /\ sms' = sms /\ attempt' = attempt /\ provider' = provider /\ sends' = sends
  BY DEF Sms!Reconcile
<1>2. PICK place \in {"PENDING", "FAILED", "DELIVERED"} : Sms!Goes(w, place)
  BY DEF Sms!Reconcile, SmsInv, SmsType
<1>3. place \in WorkerPlaces
  BY DEF WorkerPlaces
<1>4. /\ worker' \in [Loops -> [at : WorkerPlaces, rejected : BOOLEAN]]
      /\ worker'[w].at = place
      /\ \A v \in Loops : v # w => worker'[v] = worker[v]
  BY <1>2, <1>3, WorkerGoes
<1>5. sms # None
  BY <1>1 DEF SmsInv
<1> QED
  BY <1>1, <1>4, <1>5, WorkerSteps

LEMMA ToIdle ==
    ASSUME SmsInv, NEW w \in Loops, worker[w].at # "idle", Sms!Goes(w, "idle"),
           sms' = sms, attempt' = attempt, sends' = sends, provider' = provider
    PROVE  SmsInv'
<1>1. /\ worker' \in [Loops -> [at : WorkerPlaces, rejected : BOOLEAN]]
      /\ worker'[w].at = "idle"
      /\ \A v \in Loops : v # w => worker'[v] = worker[v]
  BY WorkerGoes DEF WorkerPlaces
<1> QED
  BY <1>1, WorkerSteps

\* The row after the outcome may be sent again only if nothing was accepted.
LEMMA OutcomeRow ==
    ASSUME SmsInv, sms # None, NEW w \in Loops, Sms!HasAnswer(w)
    PROVE  /\ Sms!Outcome(w) \in Sms!Rows /\ Sms!Outcome(w).claim = None
           /\ \/ Sms!Outcome(w).receipt # None
              \/ Sms!Outcome(w).status \in {"OPERATOR_REVIEW", "DELIVERED"}
              \/ worker[w].at = "rejected"
<1>1. sms \in Sms!Rows
  BY DEF SmsInv, SmsType
<1>2. ASSUME NEW status \in Sms!Statuses
      PROVE  /\ Sms!Released(status) \in Sms!Rows /\ Sms!Released(status).claim = None
             /\ Sms!Released(status).status = status
             /\ \A r \in Sms!Receipts :
                    /\ [Sms!Released(status) EXCEPT !.receipt = r] \in Sms!Rows
                    /\ [Sms!Released(status) EXCEPT !.receipt = r].claim = None
                    /\ [Sms!Released(status) EXCEPT !.receipt = r].receipt = r
  <2> PICK free : free = [sms EXCEPT !.status = status, !.claim = None, !.lapsed = FALSE]
    OBVIOUS
  <2>1. free \in Sms!Rows /\ free.claim = None /\ free.status = status
    BY <1>1 DEF Sms!Rows
  <2>2. Sms!Released(status) = free
    BY DEF Sms!Released
  <2>3. ASSUME NEW r \in Sms!Receipts
        PROVE  /\ [free EXCEPT !.receipt = r] \in Sms!Rows
               /\ [free EXCEPT !.receipt = r].claim = None
               /\ [free EXCEPT !.receipt = r].receipt = r
    BY <2>1 DEF Sms!Rows
  <2> QED
    BY <2>1, <2>2, <2>3
<1>3. /\ {"RECONCILING", "OPERATOR_REVIEW", "RETRY_PENDING", "DELIVERED"} \subseteq Sms!Statuses
      /\ {"ACCEPTED", "UNKNOWN_ACCEPTANCE", "PENDING", "DELIVERED"} \subseteq Sms!Receipts
  BY DEF Sms!Statuses, Sms!Receipts
<1>4. \A r \in Sms!Receipts : /\ Sms!Receipt(r) \in Sms!Rows /\ Sms!Receipt(r).claim = None
                              /\ Sms!Receipt(r).receipt = r /\ r # None
  BY <1>2, <1>3, SmsNone DEF Sms!Receipt
<1>5. CASE worker[w].at = "accepted"
  BY <1>3, <1>4, <1>5 DEF Sms!Outcome
<1>6. CASE worker[w].at = "unknown"
  BY <1>3, <1>4, <1>6 DEF Sms!Outcome
<1>7. CASE worker[w].at = "rejected"
  BY <1>2, <1>3, <1>7 DEF Sms!Outcome
<1>8. CASE worker[w].at = "PENDING"
  BY <1>2, <1>3, <1>4, <1>8 DEF Sms!Outcome
<1>9. CASE worker[w].at = "FAILED"
  BY <1>2, <1>3, <1>9 DEF Sms!Outcome
<1>10. CASE worker[w].at = "DELIVERED"
  <2>1. Sms!Outcome(w) = [Sms!Released("DELIVERED") EXCEPT !.receipt = "DELIVERED"]
    BY <1>10 DEF Sms!Outcome
  <2>2. "DELIVERED" # None
    BY <1>3, SmsNone
  <2> QED
    BY <1>2, <1>3, <1>10, <2>1, <2>2
<1> QED
  BY <1>5, <1>6, <1>7, <1>8, <1>9, <1>10 DEF Sms!HasAnswer

LEMMA SettleSmsStep == ASSUME SmsInv, NEW w \in Loops, Sms!Settle(w) PROVE SmsInv'
<1>1. /\ Sms!HasAnswer(w) /\ Sms!Holds(w) /\ sms' = Sms!Outcome(w) /\ attempt' = None
      /\ Sms!Goes(w, "idle") /\ sends' = sends /\ provider' = provider
  BY DEF Sms!Settle
<1>2. worker[w].at # "idle" /\ sms # None
  BY <1>1 DEF Sms!HasAnswer, SmsInv
<1>3. /\ sms' \in Sms!Rows /\ sms'.claim = None /\ sms' # None
      /\ \/ sms'.receipt # None
         \/ sms'.status \in {"OPERATOR_REVIEW", "DELIVERED"}
         \/ worker[w].at = "rejected"
  BY <1>1, <1>2, OutcomeRow, SmsNone
<1>4. /\ worker' \in [Loops -> [at : WorkerPlaces, rejected : BOOLEAN]]
      /\ worker'[w].at = "idle"
      /\ \A v \in Loops : v # w => worker'[v] = worker[v]
  BY <1>1, WorkerGoes DEF WorkerPlaces
<1>5. SmsType'
  BY <1>1, <1>3, <1>4 DEF SmsInv, SmsType
<1>6. \A v \in Loops : Asks(v)' => Asks(v)
  BY <1>4 DEF Asks
<1>7. Sendable' => Untried
  <2>1. worker[w].at = "rejected" => Untried
    BY <1>1 DEF SmsInv, Rejecting
  <2> QED
    BY <1>3, <2>1 DEF Sendable
<1>8. \A v \in Loops : ~Rejecting(v)'
  BY <1>3, SmsNone DEF Rejecting, Sms!Holds
<1> QED
  BY <1>1, <1>3, <1>5, <1>6, <1>7, <1>8, SendsNothing

LEMMA ReportStep == ASSUME SmsInv, Sms!Report PROVE SmsInv'
<1>1. /\ sms' = sms /\ attempt' = attempt /\ worker' = worker /\ sends' = sends
  BY DEF Sms!Report
<1>2. PICK state \in {"DELIVERED", "FAILED"} : provider' = [provider EXCEPT !.state = state]
  BY DEF Sms!Report
<1>3. provider' \in [accepted : Nat, state : {None, "PENDING", "DELIVERED", "FAILED"}]
      /\ provider'.accepted = provider.accepted
  BY <1>2 DEF SmsInv, SmsType
<1>4. SmsType'
  BY <1>1, <1>3 DEF SmsInv, SmsType
<1> QED
  BY <1>1, <1>3, <1>4, SendsNothing DEF SmsInv, Sendable, Rejecting, Sms!Holds, Asks

LEMMA SmsLeaseStep == ASSUME SmsInv, Sms!LeaseEnds PROVE SmsInv'
<1>1. /\ sms # None /\ sms' = [sms EXCEPT !.lapsed = TRUE]
      /\ attempt' = attempt /\ worker' = worker /\ sends' = sends /\ provider' = provider
  BY DEF Sms!LeaseEnds
<1>2. sms \in Sms!Rows
  BY <1>1 DEF SmsInv, SmsType
<1>3. /\ sms' \in Sms!Rows /\ sms' # None /\ sms'.status = sms.status /\ sms'.claim = sms.claim
      /\ sms'.receipt = sms.receipt
  BY <1>1, <1>2, SmsNone DEF Sms!Rows
<1>4. SmsType'
  BY <1>1, <1>3 DEF SmsInv, SmsType
<1>5. Sendable' => Sendable
  BY <1>1, <1>3 DEF Sendable
<1>6. \A w \in Loops : (Rejecting(w)' => Rejecting(w)) /\ (Asks(w)' => Asks(w))
  BY <1>1, <1>3 DEF Rejecting, Sms!Holds, Asks
<1> QED
  BY <1>1, <1>3, <1>4, <1>5, <1>6, SendsNothing

LEMMA SmsStep == ASSUME SmsInv, [Sms!Next]_smsVars PROVE SmsInv'
<1>1. CASE UNCHANGED smsVars
  BY <1>1, SendsNothing
  DEF smsVars, SmsInv, SmsType, OneSms, Sendable, Untried, Rejecting, Sms!Holds, Asks
<1>2. ASSUME NEW w \in Loops, Sms!Work(w) PROVE SmsInv'
  <2>1. CASE Sms!SettleNothing(w)
    BY <2>1, ToIdle DEF Sms!SettleNothing, Sms!HasAnswer
  <2> QED
    BY <1>2, <2>1, ClaimSmsStep, ClaimUnreadableStep, SendSmsStep, RefuseLocallyStep,
       GiveUpSmsStep, ReconcileStep, SettleSmsStep
    DEF Sms!Work
<1>3. ASSUME NEW w \in Loops, Sms!Stop(w) PROVE SmsInv'
  BY <1>3, ToIdle DEF Sms!Stop
<1> QED
  BY <1>1, <1>2, <1>3, ConsumeStep, AcceptSmsStep, RejectSmsStep, ReportStep, SmsLeaseStep
  DEF Sms!Next

LEMMA SmsInvHolds == ServicesSpec => []SmsInv
<1>1. ServicesInit => SmsInv
  BY SmsInit DEF ServicesInit
<1>2. SmsInv /\ [ServicesNext]_serviceVars => SmsInv'
  BY OneServiceSteps, SmsStep
<1> QED
  BY <1>1, <1>2, PTL DEF ServicesSpec

\* For any number of workers, attempts and redeliveries, and whenever requests
\* reach the provider: one SMS is accepted for an event at most
\* (notification.consumer.ts, runOnce).
THEOREM SmsIsSentOnce == ServicesSpec => []SmsOnce
<1>1. SmsInv => SmsOnce
  BY DEF SmsInv, OneSms, SmsOnce, Sms!SmsOnce
<1> QED
  BY <1>1, SmsInvHolds, PTL

-----------------------------------------------------------------------------
(* The circuit of one provider and model (ProviderCircuit).                *)

CircuitStates == [status : {"CLOSED", "OPEN", "HALF_OPEN"}, over : BOOLEAN,
                  probe : Callers \cup {None}, lapsed : BOOLEAN]

PermitRows == [stage : {"idle", "calling", "answered"},
               permit : {None, "ALLOW", "HALF_OPEN_PROBE"},
               outcome : {None, "SUCCESS", "QUALIFYING_FAILURE", "AUTH_FAILURE"}]

CircuitType ==
    /\ circuit \in CircuitStates
    /\ permits \in [Callers -> PermitRows]
    /\ overtaken \subseteq Callers

\* The probe that a half-open circuit waits for was not overtaken.
CircuitInv ==
    /\ CircuitType
    /\ circuit.status = "HALF_OPEN" => circuit.probe \in Callers \ overtaken

LEMMA CircuitInit == Circuit!Init => CircuitInv
<1> SUFFICES ASSUME Circuit!Init PROVE CircuitInv
  OBVIOUS
<1>1. /\ circuit = [status |-> "CLOSED", over |-> FALSE, probe |-> None, lapsed |-> FALSE]
      /\ permits = [c \in Callers |-> [stage |-> "idle", permit |-> None, outcome |-> None]]
      /\ overtaken = {}
  BY DEF Circuit!Init, Circuit!Closed, Circuit!NoCall
<1> QED
  BY <1>1 DEF CircuitInv, CircuitType, CircuitStates, PermitRows

\* The rows that a step writes.
LEMMA CircuitRows ==
    /\ Circuit!Closed.status = "CLOSED" /\ Circuit!Open.status = "OPEN"
    /\ {Circuit!Closed, Circuit!Open} \subseteq CircuitStates
    /\ \A c \in Callers :
           /\ Circuit!HalfOpen(c) \in CircuitStates
           /\ Circuit!HalfOpen(c).status = "HALF_OPEN" /\ Circuit!HalfOpen(c).probe = c
<1> PICK closed : closed = [status |-> "CLOSED", over |-> FALSE, probe |-> None, lapsed |-> FALSE]
  OBVIOUS
<1>1. closed \in CircuitStates /\ closed.status = "CLOSED"
  BY DEF CircuitStates
<1>2. Circuit!Closed = closed
  BY DEF Circuit!Closed
<1> QED
  BY <1>1, <1>2 DEF Circuit!Open, Circuit!HalfOpen, CircuitStates

\* What a caller does leaves the calls of the others as they are.
LEMMA PermitsStayTyped ==
    ASSUME CircuitInv, NEW c \in Callers, NEW new \in PermitRows,
           permits' = [permits EXCEPT ![c] = new]
    PROVE  permits' \in [Callers -> PermitRows] /\ permits'[c] = new
  BY DEF CircuitInv, CircuitType

LEMMA NoCallTyped == Circuit!NoCall \in PermitRows /\ Circuit!NoCall.permit = None
<1> PICK none : none = [stage |-> "idle", permit |-> None, outcome |-> None]
  OBVIOUS
<1>1. none \in PermitRows /\ none.permit = None
  BY DEF PermitRows
<1> QED
  BY <1>1 DEF Circuit!NoCall

LEMMA CallingTyped ==
    ASSUME NEW p \in {"ALLOW", "HALF_OPEN_PROBE"} PROVE Circuit!Calling(p) \in PermitRows
<1> PICK call : call = [stage |-> "calling", permit |-> p, outcome |-> None]
  OBVIOUS
<1>1. call \in PermitRows
  BY DEF PermitRows
<1> QED
  BY <1>1 DEF Circuit!Calling

\* A step after which the circuit is as before, or is no longer half open.
LEMMA CircuitStays ==
    ASSUME CircuitInv, permits' \in [Callers -> PermitRows], overtaken' = overtaken,
           circuit' \in {circuit, Circuit!Closed, Circuit!Open}
    PROVE  CircuitInv'
<1>1. CircuitType'
  BY CircuitRows DEF CircuitInv, CircuitType
<1>2. circuit'.status = "HALF_OPEN" => circuit' = circuit
  BY CircuitRows
<1> QED
  BY <1>1, <1>2 DEF CircuitInv

LEMMA AcquireAllowedStep ==
    ASSUME CircuitInv, NEW c \in Callers, Circuit!AcquireAllowed(c) PROVE CircuitInv'
<1>1. /\ permits' = [permits EXCEPT ![c] = Circuit!Calling("ALLOW")]
      /\ circuit' = circuit /\ overtaken' = overtaken
  BY DEF Circuit!AcquireAllowed
<1>2. permits' \in [Callers -> PermitRows]
  BY <1>1, PermitsStayTyped, CallingTyped
<1> QED
  BY <1>1, <1>2, CircuitStays

LEMMA AcquireProbeStep ==
    ASSUME CircuitInv, NEW c \in Callers, Circuit!AcquireProbe(c) PROVE CircuitInv'
<1>1. /\ permits' = [permits EXCEPT ![c] = Circuit!Calling("HALF_OPEN_PROBE")]
      /\ circuit' = Circuit!HalfOpen(c)
      /\ overtaken' = (overtaken \cup Circuit!Probes) \ {c}
  BY DEF Circuit!AcquireProbe
<1>2. permits' \in [Callers -> PermitRows]
  BY <1>1, PermitsStayTyped, CallingTyped
<1>3. Circuit!Probes \subseteq Callers
  BY DEF Circuit!Probes
<1>4. CircuitType'
  BY <1>1, <1>2, <1>3, CircuitRows DEF CircuitInv, CircuitType
<1>5. circuit'.probe = c /\ c \notin overtaken'
  BY <1>1, CircuitRows
<1> QED
  BY <1>4, <1>5 DEF CircuitInv

LEMMA AnswerCallStep ==
    ASSUME CircuitInv, NEW c \in Callers, Circuit!Answer(c) PROVE CircuitInv'
<1> PICK outcome \in {"SUCCESS", "QUALIFYING_FAILURE", "AUTH_FAILURE"} :
        permits' = [permits EXCEPT ![c].stage = "answered", ![c].outcome = outcome]
  BY DEF Circuit!Answer
<1> PICK new : new = [permits[c] EXCEPT !.stage = "answered", !.outcome = outcome]
  OBVIOUS
<1>1. permits \in [Callers -> PermitRows]
  BY DEF CircuitInv, CircuitType
<1>2. new \in PermitRows
  BY <1>1 DEF PermitRows
<1>3. permits' = [permits EXCEPT ![c] = new]
  BY <1>1
<1>4. permits' \in [Callers -> PermitRows]
  BY <1>2, <1>3, PermitsStayTyped
<1> QED
  BY <1>4, CircuitStays DEF Circuit!Answer

\* The call of a caller is over.
LEMMA CallOver ==
    ASSUME CircuitInv, NEW c \in Callers, permits' = [permits EXCEPT ![c] = Circuit!NoCall]
    PROVE  permits' \in [Callers -> PermitRows] /\ permits'[c] = Circuit!NoCall
  BY PermitsStayTyped, NoCallTyped

LEMMA TripStep ==
    ASSUME CircuitInv, NEW c \in Callers, Circuit!Trip(c) PROVE CircuitInv'
<1>1. /\ circuit' = Circuit!Open /\ overtaken' = overtaken \cup Circuit!Probes
      /\ permits' \in [Callers -> PermitRows]
  BY CallOver DEF Circuit!Trip, Circuit!Over
<1>2. Circuit!Probes \subseteq Callers
  BY DEF Circuit!Probes
<1> QED
  BY <1>1, <1>2, CircuitRows DEF CircuitInv, CircuitType

\* Time passes for the circuit.
LEMMA DeadlineStep ==
    ASSUME CircuitInv, Circuit!OpenEnds \/ Circuit!LeaseEnds PROVE CircuitInv'
<1>1. /\ circuit' = [circuit EXCEPT !.over = TRUE] \/ circuit' = [circuit EXCEPT !.lapsed = TRUE]
      /\ permits' = permits /\ overtaken' = overtaken
  BY DEF Circuit!OpenEnds, Circuit!LeaseEnds
<1>2. /\ circuit' \in CircuitStates
      /\ circuit'.status = circuit.status /\ circuit'.probe = circuit.probe
  BY <1>1 DEF CircuitInv, CircuitType, CircuitStates
<1> QED
  BY <1>1, <1>2 DEF CircuitInv, CircuitType

\* A step of a caller that records an answer, or loses one.
LEMMA RecordStep ==
    ASSUME CircuitInv, NEW c \in Callers,
           \/ Circuit!RecordProbe(c) \/ Circuit!RefuseProbe(c) \/ Circuit!RecordAllowed(c)
           \/ Circuit!Lose(c)
    PROVE  CircuitInv'
<1>1. /\ circuit' \in {circuit, Circuit!Closed, Circuit!Open}
      /\ overtaken' = overtaken
      /\ permits' = [permits EXCEPT ![c] = Circuit!NoCall]
  BY DEF Circuit!RecordProbe, Circuit!RefuseProbe, Circuit!RecordAllowed, Circuit!Lose, Circuit!Over
<1> QED
  BY <1>1, CallOver, CircuitStays

LEMMA CircuitStep == ASSUME CircuitInv, [Circuit!Next]_circuitVars PROVE CircuitInv'
<1>1. CASE circuit' = circuit /\ permits' = permits /\ overtaken' = overtaken
  BY <1>1 DEF CircuitInv, CircuitType
<1> QED
  BY <1>1, AcquireAllowedStep, AcquireProbeStep, AnswerCallStep, TripStep, DeadlineStep, RecordStep
  DEF Circuit!Next, Circuit!Call, Circuit!WindowMoves, Circuit!ProviderTurns, circuitVars

LEMMA CircuitInvHolds == ServicesSpec => []CircuitInv
<1>1. ServicesInit => CircuitInv
  BY CircuitInit DEF ServicesInit
<1>2. CircuitInv /\ [ServicesNext]_serviceVars => CircuitInv'
  BY OneServiceSteps, CircuitStep
<1> QED
  BY <1>1, <1>2, PTL DEF ServicesSpec

\* The success that closes the circuit.
ClosesByProbe ==
    circuit.status # "CLOSED" /\ circuit'.status = "CLOSED" =>
        \E c \in Circuit!Probes \ overtaken :
            Circuit!Answered(c, {"SUCCESS"}) /\ permits'[c] = Circuit!NoCall

LEMMA RecordProbeCloses ==
    ASSUME CircuitInv, NEW c \in Callers, Circuit!RecordProbe(c) PROVE ClosesByProbe
<1>1. /\ permits[c].stage = "answered" /\ permits[c].permit = "HALF_OPEN_PROBE"
      /\ permits[c].outcome \in {"SUCCESS", "QUALIFYING_FAILURE"}
      /\ circuit.status = "HALF_OPEN" /\ circuit.probe = c
      /\ permits[c].outcome # "SUCCESS" => circuit' = Circuit!Open
      /\ permits' = [permits EXCEPT ![c] = Circuit!NoCall]
  BY DEF Circuit!RecordProbe, Circuit!Answered, Circuit!Reported, Circuit!CurrentProbe,
         Circuit!Over
<1>2. permits'[c] = Circuit!NoCall
  BY <1>1, CallOver
<1>3. c \in Circuit!Probes \ overtaken
  BY <1>1 DEF CircuitInv, Circuit!Probes
<1>4. circuit'.status = "CLOSED" => permits[c].outcome = "SUCCESS"
  BY <1>1, CircuitRows
<1> QED
  BY <1>1, <1>2, <1>3, <1>4 DEF ClosesByProbe, Circuit!Answered

\* No other step closes it.
LEMMA OthersDoNotClose ==
    ASSUME CircuitInv, NEW c \in Callers,
           \/ Circuit!AcquireAllowed(c) \/ Circuit!AcquireProbe(c) \/ Circuit!Answer(c)
           \/ Circuit!RefuseProbe(c) \/ Circuit!RecordAllowed(c) \/ Circuit!Trip(c)
           \/ Circuit!Lose(c)
    PROVE  ClosesByProbe
<1>1. circuit' \in {circuit, Circuit!HalfOpen(c), Circuit!Open}
  BY DEF Circuit!AcquireAllowed, Circuit!AcquireProbe, Circuit!Answer, Circuit!RefuseProbe,
         Circuit!RecordAllowed, Circuit!Trip, Circuit!Lose
<1> QED
  BY <1>1, CircuitRows DEF ClosesByProbe

LEMMA CircuitCloses == ASSUME CircuitInv, [Circuit!Next]_circuitVars PROVE ClosesByProbe
<1>1. CASE circuit' = circuit
  BY <1>1 DEF ClosesByProbe
<1>2. CASE Circuit!OpenEnds \/ Circuit!LeaseEnds
  <2>1. circuit'.status = circuit.status
    BY <1>2 DEF Circuit!OpenEnds, Circuit!LeaseEnds, CircuitInv, CircuitType, CircuitStates
  <2> QED
    BY <2>1 DEF ClosesByProbe
<1> QED
  BY <1>1, <1>2, RecordProbeCloses, OthersDoNotClose
  DEF Circuit!Next, Circuit!Call, Circuit!WindowMoves, Circuit!ProviderTurns, circuitVars

\* For any callers, sizes of the window and failures that trip the circuit:
\* it closes only by the success of a probe that nothing has overtaken
\* (circuit-breaker.ts, record).
THEOREM CircuitClosesByProbe == ServicesSpec => ClosedByCurrentProbe
<1>1. CircuitInv /\ [ServicesNext]_serviceVars => [ClosesByProbe]_(Circuit!vars)
  BY OneServiceSteps, CircuitCloses
<1>2. ServicesSpec => [][ClosesByProbe]_(Circuit!vars)
  BY <1>1, CircuitInvHolds, PTL DEF ServicesSpec
<1>3. ServicesSpec => Circuit!ClosedByCurrentProbe
  BY <1>2, PTL DEF ClosesByProbe, Circuit!ClosedByCurrentProbe
<1> QED
  BY <1>3, PTL DEF ClosedByCurrentProbe
=============================================================================
