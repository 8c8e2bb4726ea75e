------------------------------- MODULE Access -------------------------------
(***************************************************************************)
(* Who may administer the instance: the rows of users, with their legacy   *)
(* column is_admin, the rows of role_assignments and the identities behind *)
(* OIDC sign-ins.  Four writers share them: the user handlers, the role    *)
(* handlers, the group synchronisation of a sign-in and the boot.          *)
(*                                                                         *)
(* One action is one database statement, or the reads before it that no    *)
(* other statement can invalidate.  A request that fails half-way, or      *)
(* whose client goes away, leaves what it has written.                     *)
(***************************************************************************)
EXTENDS Integers, FiniteSets

CONSTANTS Users,     \* user ids; an id is never used again
          Subjects,  \* accounts at the identity provider
          Groups,    \* values of their group claim
          Roles, Scopes,
          Managers,  \* the roles that hold user.* and role.assign
          Reqs,      \* request slots
          NoUser, NoSubject,
          SkipDefaultAdmin,  \* is SKIP_DEFAULT_ADMIN set?
          MaxBegun   \* bound: requests and sign-ins begun

ASSUME AccessAssumption ==
    /\ {"super_admin", "operator"} \subseteq Roles
    /\ "super_admin" \in Managers /\ Managers \subseteq Roles
    /\ "global" \in Scopes
    /\ NoUser \notin Users
    /\ NoSubject \notin Subjects
    /\ SkipDefaultAdmin \in BOOLEAN
    /\ MaxBegun \in Nat

VARIABLES
    life,      \* of a user row: "absent", "present" or "deleted"
    is_admin,  \* its column
    assigned,  \* role_assignments by <<user, role, scope>>: its source, or "none"
    linked,    \* identities: the user behind a subject, or NoUser
    mappings,  \* oidc_group_mappings, as <<group, <<role, scope>> >>
    mode,
    todo,      \* users the boot has listed and not yet reconciled
    \* requests
    pc, actor, user,
    subject,
    groups,    \* the group claim of the sign-in
    desired,   \* what it entitles to
    held,      \* assignment rows read and not deleted since
    missing,   \* desired and not among the rows read
    \* observation only: nothing in the code reads these
    begun,
    thinned,   \* users that, since the boot, lost a role to more than a toggle
    earned     \* what the sign-ins of a user, the last or several at once, entitle to

tables  == <<life, is_admin, assigned, linked, mappings>>
locals  == <<actor, user, subject, groups, desired, held, missing>>
ghosts  == <<begun, thinned, earned>>
boot    == <<mode, todo>>
vars == <<life, is_admin, assigned, linked, mappings, mode, todo, pc, actor, user,
          subject, groups, desired, held, missing, begun, thinned, earned>>

Grants     == Roles \X Scopes
Rows       == Users \X Grants
SuperAdmin == <<"super_admin", "global">>
Operator   == <<"operator", "global">>

Operations == {"insert_user", "update_flag", "delete_user", "assign", "revoke_read",
               "change_mappings"}
Toggling   == {"grant_super", "drop_super", "grant_operator"}
Revoking   == {"revoke_count", "revoke_delete"}
Syncing    == {"current", "sync"}
SigningIn  == {"insert_jit", "insert_identity", "mappings"} \cup Syncing

TypeOK ==
    /\ life \in [Users -> {"absent", "present", "deleted"}]
    /\ is_admin \in [Users -> BOOLEAN]
    /\ assigned \in [Rows -> {"none", "manual", "oidc"}]
    /\ linked \in [Subjects -> Users \cup {NoUser}]
    /\ mappings \in SUBSET (Groups \X Grants)
    /\ mode \in {"seeding", "migrating", "serving"}
    /\ todo \in SUBSET Users
    /\ pc \in [Reqs -> Operations \cup Toggling \cup Revoking \cup SigningIn \cup {"idle"}]
    /\ actor \in [Reqs -> Users \cup {NoUser}]
    /\ user \in [Reqs -> Users \cup {NoUser}]
    /\ subject \in [Reqs -> Subjects \cup {NoSubject}]
    /\ groups \in [Reqs -> SUBSET Groups]
    /\ desired \in [Reqs -> SUBSET Grants]
    /\ held \in [Reqs -> SUBSET Grants]
    /\ missing \in [Reqs -> SUBSET Grants]
    /\ begun \in 0..MaxBegun
    /\ thinned \in SUBSET Users
    /\ earned \in [Users -> SUBSET Grants]

\* The first boot, with an empty database.
Init ==
    /\ life = [u \in Users |-> "absent"]
    /\ is_admin = [u \in Users |-> FALSE]
    /\ assigned = [x \in Rows |-> "none"]
    /\ linked = [s \in Subjects |-> NoUser]
    /\ mappings = {}
    /\ mode = "seeding"
    /\ todo = {}
    /\ pc = [r \in Reqs |-> "idle"]
    /\ actor = [r \in Reqs |-> NoUser]
    /\ user = [r \in Reqs |-> NoUser]
    /\ subject = [r \in Reqs |-> NoSubject]
    /\ groups = [r \in Reqs |-> {}]
    /\ desired = [r \in Reqs |-> {}]
    /\ held = [r \in Reqs |-> {}]
    /\ missing = [r \in Reqs |-> {}]
    /\ begun = 0
    /\ thinned = {}
    /\ earned = [u \in Users |-> {}]

-----------------------------------------------------------------------------
(* Helpers.                                                                *)

Present(u)   == u \in Users /\ life[u] = "present"
Has(u, g)    == assigned[<<u, g>>] # "none"
HasSuper(u)  == \E s \in Scopes : Has(u, <<"super_admin", s>>)
Roleless(u)  == \A g \in Grants : ~Has(u, g)
SuperRows    == {x \in Rows : x[2][1] = "super_admin" /\ assigned[x] # "none"}

\* AuthUser::require looks at global grants only.
MayAdminister(u) ==
    Present(u) /\ \E m \in Managers : Has(u, <<m, "global">>)

\* INSERT ... ON CONFLICT(user_id, role_id, scope) DO NOTHING
Insert(u, g) ==
    assigned' = [assigned EXCEPT ![<<u, g>>] = IF @ = "none" THEN "manual" ELSE @]

Forget_ByKey(u, gs) == held' = held
\* A row id is not used again: whoever held the id of a deleted row holds nothing.
Forget(u, gs) ==
    held' = [r \in Reqs |-> IF user[r] = u THEN held[r] \ gs ELSE held[r]]

Remove(u, gs) ==
    /\ assigned' = [x \in Rows |-> IF x[1] = u /\ x[2] \in gs THEN "none" ELSE assigned[x]]
    /\ Forget(u, gs)

\* The request ends, with an answer or an error.
Done(r) ==
    /\ pc' = [pc EXCEPT ![r] = "idle"]
    /\ actor' = [actor EXCEPT ![r] = NoUser]
    /\ user' = [user EXCEPT ![r] = NoUser]
    /\ subject' = [subject EXCEPT ![r] = NoSubject]
    /\ groups' = [groups EXCEPT ![r] = {}]
    /\ desired' = [desired EXCEPT ![r] = {}]
    /\ missing' = [missing EXCEPT ![r] = {}]

Rest(r) == Done(r) /\ held' = [held EXCEPT ![r] = {}]

Goto(r, label) == pc' = [pc EXCEPT ![r] = label]

\* A sign-in of u by another request is past its read of the mappings.
AnotherSyncs(r, u) == \E q \in Reqs \ {r} : user[q] = u /\ pc[q] \in Syncing

-----------------------------------------------------------------------------
(* Requests of administrators.  The extractor has read the grants of the   *)
(* actor when the handler starts; they are not read again.                 *)

Begin(r, a, op) ==
    /\ mode = "serving" /\ pc[r] = "idle" /\ begun < MaxBegun
    /\ begun' = begun + 1
    /\ MayAdminister(a)
    /\ Goto(r, op)
    /\ actor' = [actor EXCEPT ![r] = a]
    /\ UNCHANGED <<tables, boot, user, subject, groups, desired, held,
                   missing, thinned, earned>>

\* 400, 404 or 409: what the request names does not exist, or exists already.
Refuse(r) ==
    /\ pc[r] \in Operations
    /\ Rest(r)
    /\ UNCHANGED <<tables, boot, ghosts>>

InsertUser(r, u, admin) ==
    /\ pc[r] = "insert_user" /\ life[u] = "absent"
    /\ life' = [life EXCEPT ![u] = "present"]
    /\ is_admin' = [is_admin EXCEPT ![u] = admin]
    /\ user' = [user EXCEPT ![r] = u]
    /\ Goto(r, IF admin THEN "grant_super" ELSE "drop_super")
    /\ UNCHANGED <<assigned, linked, mappings, boot, actor, subject, groups, desired,
                   held, missing, ghosts>>

UpdateFlag(r, u, admin) ==
    /\ pc[r] = "update_flag" /\ Present(u)
    /\ is_admin' = [is_admin EXCEPT ![u] = admin]
    /\ user' = [user EXCEPT ![r] = u]
    /\ Goto(r, IF admin THEN "grant_super" ELSE "drop_super")
    /\ UNCHANGED <<life, assigned, linked, mappings, boot, actor, subject, groups,
                   desired, held, missing, ghosts>>

\* set_user_admin_status.  The foreign key refuses a user deleted meanwhile.
GrantSuper(r) ==
    /\ pc[r] = "grant_super"
    /\ IF Present(user[r]) THEN Insert(user[r], SuperAdmin) ELSE UNCHANGED assigned
    /\ Rest(r)
    /\ UNCHANGED <<life, is_admin, linked, mappings, boot, ghosts>>

DropSuper_AndReturn(r) ==
    /\ pc[r] = "drop_super"
    /\ Remove(user[r], {SuperAdmin})
    /\ Done(r)
    /\ UNCHANGED <<life, is_admin, linked, mappings, boot, ghosts>>
DropSuper(r) ==
    /\ pc[r] = "drop_super"
    /\ Remove(user[r], {SuperAdmin})
    /\ Goto(r, "grant_operator")
    /\ UNCHANGED <<life, is_admin, linked, mappings, boot, actor, user, subject,
                   groups, desired, missing, ghosts>>

GrantOperator(r) ==
    /\ pc[r] = "grant_operator"
    /\ IF Present(user[r]) THEN Insert(user[r], Operator) ELSE UNCHANGED assigned
    /\ Rest(r)
    /\ UNCHANGED <<life, is_admin, linked, mappings, boot, ghosts>>

\* ON DELETE CASCADE takes assignments and identities along.
DeleteUser(r, u) ==
    /\ pc[r] = "delete_user" /\ Present(u) /\ u # actor[r]
    /\ life' = [life EXCEPT ![u] = "deleted"]
    /\ is_admin' = [is_admin EXCEPT ![u] = FALSE]
    /\ linked' = [s \in Subjects |-> IF linked[s] = u THEN NoUser ELSE linked[s]]
    /\ Remove(u, Grants)
    /\ Done(r)
    /\ UNCHANGED <<mappings, boot, ghosts>>

AssignRole(r, u, g) ==
    /\ pc[r] = "assign" /\ Present(u)
    /\ Insert(u, g)
    /\ Rest(r)
    /\ UNCHANGED <<life, is_admin, linked, mappings, boot, ghosts>>

\* revoke_assignment reads the row, ...
RevokeRead(r, u, g) ==
    /\ pc[r] = "revoke_read" /\ Has(u, g)
    /\ user' = [user EXCEPT ![r] = u]
    /\ held' = [held EXCEPT ![r] = {g}]
    /\ Goto(r, IF g[1] = "super_admin" THEN "revoke_count" ELSE "revoke_delete")
    /\ UNCHANGED <<tables, boot, actor, subject, groups, desired, missing, ghosts>>

\* ... counts the SuperAdmin assignments, of any scope, ...
RevokeCount(r) ==
    /\ pc[r] = "revoke_count"
    /\ IF Cardinality(SuperRows) <= 1 \/ user[r] = actor[r]
       THEN Rest(r)
       ELSE /\ Goto(r, "revoke_delete")
            /\ UNCHANGED locals
    /\ UNCHANGED <<tables, boot, ghosts>>

\* ... and deletes the row.  users.is_admin stays.
RevokeDelete(r) ==
    /\ pc[r] = "revoke_delete"
    /\ Remove(user[r], held[r])
    /\ thinned' = thinned \cup {user[r]}
    /\ Done(r)
    /\ UNCHANGED <<life, is_admin, linked, mappings, boot, begun, earned>>

CreateMapping(r, m) ==
    /\ pc[r] = "change_mappings"
    /\ mappings' = mappings \cup {m}
    /\ Rest(r)
    /\ UNCHANGED <<life, is_admin, assigned, linked, boot, ghosts>>

DeleteMapping(r, m) ==
    /\ pc[r] = "change_mappings" /\ m \in mappings
    /\ mappings' = mappings \ {m}
    /\ Rest(r)
    /\ UNCHANGED <<life, is_admin, assigned, linked, boot, ghosts>>

-----------------------------------------------------------------------------
(* An OIDC sign-in, from the verified ID token on.                         *)

SignIn(r, s, gs) ==
    /\ mode = "serving" /\ pc[r] = "idle" /\ begun < MaxBegun
    /\ begun' = begun + 1
    /\ subject' = [subject EXCEPT ![r] = s]
    /\ groups' = [groups EXCEPT ![r] = gs]
    /\ user' = [user EXCEPT ![r] = linked[s]]
    /\ Goto(r, IF linked[s] = NoUser THEN "insert_jit" ELSE "mappings")
    /\ UNCHANGED <<tables, boot, actor, desired, held, missing, thinned, earned>>

\* An identity nobody has signed in with: the user first, ...
InsertJit(r, u) ==
    /\ pc[r] = "insert_jit" /\ life[u] = "absent"
    /\ life' = [life EXCEPT ![u] = "present"]
    /\ user' = [user EXCEPT ![r] = u]
    /\ thinned' = thinned \cup {u}
    /\ Goto(r, "insert_identity")
    /\ UNCHANGED <<is_admin, assigned, linked, mappings, boot, actor, subject,
                   groups, desired, held, missing, begun, earned>>

\* ... then the identity, unless another sign-in was faster or the user is gone.
InsertIdentity(r) ==
    LET s == subject[r] IN
    /\ pc[r] = "insert_identity"
    /\ IF linked[s] = NoUser /\ Present(user[r])
       THEN /\ linked' = [linked EXCEPT ![s] = user[r]]
            /\ Goto(r, "mappings")
            /\ UNCHANGED locals
       ELSE Rest(r) /\ UNCHANGED linked
    /\ UNCHANGED <<life, is_admin, assigned, mappings, boot, ghosts>>

\* sync_oidc_role_assignments: what the groups entitle to, ...
ReadMappings(r) ==
    LET u   == user[r]
        due == {g \in Grants : \E grp \in groups[r] : <<grp, g>> \in mappings}
    IN
    /\ pc[r] = "mappings"
    /\ desired' = [desired EXCEPT ![r] = due]
    /\ earned' = [earned EXCEPT ![u] = IF AnotherSyncs(r, u) THEN @ \cup due ELSE due]
    /\ Goto(r, "current")
    /\ UNCHANGED <<tables, boot, actor, user, subject, groups, held, missing,
                   begun, thinned>>

\* ... the rows of earlier sign-ins, ...
ReadCurrent_MappedOnly(r) ==
    LET current == {g \in Grants : /\ assigned[<<user[r], g>>] = "oidc"
                                   /\ \E m \in mappings : m[2] = g} IN
    /\ pc[r] = "current"
    /\ held' = [held EXCEPT ![r] = current]
    /\ missing' = [missing EXCEPT ![r] = desired[r] \ current]
    /\ Goto(r, "sync")
    /\ UNCHANGED <<tables, boot, actor, user, subject, groups, desired, ghosts>>
ReadCurrent(r) ==
    LET current == {g \in Grants : assigned[<<user[r], g>>] = "oidc"} IN
    /\ pc[r] = "current"
    /\ held' = [held EXCEPT ![r] = current]
    /\ missing' = [missing EXCEPT ![r] = desired[r] \ current]
    /\ Goto(r, "sync")
    /\ UNCHANGED <<tables, boot, actor, user, subject, groups, desired, ghosts>>

\* ... of which each that is not due is deleted, ...
SyncDelete(r, g) ==
    /\ pc[r] = "sync" /\ g \in held[r] \ desired[r]
    /\ Remove(user[r], {g})
    /\ thinned' = thinned \cup {user[r]}
    /\ UNCHANGED <<life, is_admin, linked, mappings, boot, pc, actor, user,
                   subject, groups, desired, missing, begun, earned>>

\* ... and each that is due and was not there is inserted, ON CONFLICT
\* DO UPDATE SET source = 'oidc'.
SyncInsert(r, g) ==
    /\ pc[r] = "sync" /\ held[r] \subseteq desired[r] /\ g \in missing[r]
    /\ IF Present(user[r])
       THEN /\ assigned' = [assigned EXCEPT ![<<user[r], g>>] = "oidc"]
            /\ missing' = [missing EXCEPT ![r] = @ \ {g}]
            /\ UNCHANGED <<pc, actor, user, subject, groups, desired, held>>
       ELSE Rest(r) /\ UNCHANGED assigned
    /\ UNCHANGED <<life, is_admin, linked, mappings, boot, ghosts>>

\* Last the column, and the session if the user is still there.
SyncFlag(r) ==
    LET u == user[r] IN
    /\ pc[r] = "sync" /\ held[r] \subseteq desired[r] /\ missing[r] = {}
    /\ is_admin' = IF Present(u) THEN [is_admin EXCEPT ![u] = Has(u, SuperAdmin)]
                                 ELSE is_admin
    /\ Rest(r)
    /\ UNCHANGED <<life, assigned, linked, mappings, boot, ghosts>>

-----------------------------------------------------------------------------
(* Faults and the boot.                                                    *)

\* A statement fails, or the client goes away and the handler is dropped.
Abort(r) ==
    /\ pc[r] # "idle"
    /\ thinned' = IF pc[r] \in Toggling THEN thinned \cup {user[r]} ELSE thinned
    /\ earned' = [u \in Users |->
                     IF user[r] = u /\ pc[r] \in Syncing THEN Grants ELSE earned[u]]
    /\ Rest(r)
    /\ UNCHANGED <<tables, boot, begun>>

Crash ==
    /\ mode' = "seeding" /\ todo' = {}
    /\ pc' = [r \in Reqs |-> "idle"]
    /\ actor' = [r \in Reqs |-> NoUser]
    /\ user' = [r \in Reqs |-> NoUser]
    /\ subject' = [r \in Reqs |-> NoSubject]
    /\ groups' = [r \in Reqs |-> {}]
    /\ desired' = [r \in Reqs |-> {}]
    /\ held' = [r \in Reqs |-> {}]
    /\ missing' = [r \in Reqs |-> {}]
    /\ thinned' = {}
    /\ earned' = [u \in Users |->
                     IF \E r \in Reqs : user[r] = u /\ pc[r] \in Syncing
                     THEN Grants ELSE earned[u]]
    /\ UNCHANGED <<tables, begun>>

\* ensure_admin: an empty table gets an `admin'.  The boot then lists the users.
EnsureAdmin(u) ==
    /\ mode = "seeding" /\ life[u] = "absent"
    /\ \A v \in Users : ~Present(v)
    /\ ~SkipDefaultAdmin
    /\ life' = [life EXCEPT ![u] = "present"]
    /\ is_admin' = [is_admin EXCEPT ![u] = TRUE]
    /\ mode' = "migrating" /\ todo' = {u}
    /\ UNCHANGED <<assigned, linked, mappings, pc, locals, ghosts>>

ListUsers ==
    /\ mode = "seeding"
    /\ SkipDefaultAdmin \/ \E u \in Users : Present(u)
    /\ mode' = "migrating" /\ todo' = {u \in Users : Present(u)}
    /\ UNCHANGED <<tables, pc, locals, ghosts>>

\* migrate_existing_users, for one of them.  The DELETE of
\* set_user_admin_status finds nothing when there is no assignment at all.
Reconcile_FlagOnly(u) ==
    /\ mode = "migrating" /\ u \in todo
    /\ IF is_admin[u] /\ ~HasSuper(u)
       THEN Insert(u, SuperAdmin)
       ELSE UNCHANGED assigned
    /\ todo' = todo \ {u}
    /\ UNCHANGED <<life, is_admin, linked, mappings, mode, pc, locals, ghosts>>
Reconcile(u) ==
    /\ mode = "migrating" /\ u \in todo
    /\ CASE is_admin[u] /\ ~HasSuper(u)  -> Insert(u, SuperAdmin)
         [] ~is_admin[u] /\ Roleless(u)  -> Insert(u, Operator)
         [] OTHER                        -> UNCHANGED assigned
    /\ todo' = todo \ {u}
    /\ UNCHANGED <<life, is_admin, linked, mappings, mode, pc, locals, ghosts>>

Serve ==
    /\ mode = "migrating" /\ todo = {}
    /\ mode' = "serving"
    /\ UNCHANGED <<tables, todo, pc, locals, ghosts>>

-----------------------------------------------------------------------------
Toggle(r) ==
    \/ \E u \in Users, admin \in BOOLEAN : InsertUser(r, u, admin) \/ UpdateFlag(r, u, admin)
    \/ GrantSuper(r) \/ DropSuper(r) \/ GrantOperator(r)

Administer(r) ==
    \/ \E a \in Users, op \in Operations : Begin(r, a, op)
    \/ Refuse(r)
    \/ Toggle(r)
    \/ \E u \in Users : DeleteUser(r, u)
    \/ \E u \in Users, g \in Grants : AssignRole(r, u, g) \/ RevokeRead(r, u, g)
    \/ RevokeCount(r) \/ RevokeDelete(r)
    \/ \E m \in Groups \X Grants : CreateMapping(r, m) \/ DeleteMapping(r, m)

Synchronise(r) ==
    \/ \E s \in Subjects, gs \in SUBSET Groups : SignIn(r, s, gs)
    \/ \E u \in Users : InsertJit(r, u)
    \/ InsertIdentity(r) \/ ReadMappings(r) \/ ReadCurrent(r)
    \/ \E g \in Grants : SyncDelete(r, g) \/ SyncInsert(r, g)
    \/ SyncFlag(r)

Boot ==
    \/ \E u \in Users : EnsureAdmin(u) \/ Reconcile(u)
    \/ ListUsers \/ Serve

Next ==
    \/ \E r \in Reqs : Administer(r) \/ Synchronise(r) \/ Abort(r)
    \/ Crash
    \/ Boot

Spec == Init /\ [][Next]_vars

-----------------------------------------------------------------------------
(* Properties.                                                             *)

\* Every boot, also one after a crash in the middle of anything, starts
\* serving with a role for every user and SuperAdmin for every flagged one
\* (migrate_existing_users).
BootHeals ==
    mode = "migrating" /\ todo = {} =>
        \A u \in Users : Present(u) =>
            /\ ~Roleless(u)
            /\ is_admin[u] => HasSuper(u)

\* Toggling users, by any number of requests at once, locks nobody out: who
\* is not being toggled and has not lost a role otherwise since the boot, has
\* one (the DELETE and INSERT of set_user_admin_status).
KeepsARole ==
    mode = "serving" =>
        \A u \in Users \ thinned :
            /\ Present(u)
            /\ \A r \in Reqs : user[r] = u => pc[r] \notin Toggling
            => ~Roleless(u)

\* When no sign-in of a user is under way, its rows from sign-ins are ones its
\* groups entitled it to, at the last sign-in or at one that overlapped it:
\* deletion, revocation and changed mappings in between notwithstanding
\* (sync_oidc_role_assignments).
OnlyEarned ==
    \A u \in Users :
        (\A r \in Reqs : user[r] = u => pc[r] \notin Syncing) =>
            \A g \in Grants : assigned[<<u, g>>] = "oidc" => g \in earned[u]

\* Whatever is in flight, nothing is granted to or linked with a user that is
\* not there: nobody signs in as, or inherits the roles of, a deleted user.
OnlyPresentHold ==
    \A u \in Users : ~Present(u) =>
        /\ Roleless(u)
        /\ \A s \in Subjects : linked[s] # u

\* A sign-in deletes what earlier sign-ins granted and never what was granted
\* by hand since it read the assignments, after a revocation even in the same
\* place: it deletes by row id (sync_oidc_role_assignments).
SyncSparesManual ==
    [][\A r \in Reqs, g \in Grants :
        SyncDelete(r, g) => assigned[<<user[r], g>>] # "manual"]_vars

=============================================================================
