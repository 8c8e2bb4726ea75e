---------------------------- MODULE AccessProofs ----------------------------
(***************************************************************************)
(* Proofs about Access, for any numbers of users, subjects, groups, roles, *)
(* scopes and requests, and without any bound on crashes.                  *)
(*                                                                         *)
(* A sign-in and a revocation delete what they have read statements ago.   *)
(* Each property is strengthened with what such a request still knows of   *)
(* the table; the layers build on each other.                              *)
(***************************************************************************)
EXTENDS Access, TLAPS

\* Requests run on a serving server only, know the user they work on, and
\* hold row ids only between the read and the deletion.
RequestsKnow ==
    \A r \in Reqs :
        /\ pc[r] # "idle" => mode = "serving"
        /\ pc[r] \in Toggling \cup Revoking \cup Syncing
                       \cup {"insert_identity", "mappings"} => user[r] \in Users
        /\ pc[r] \in {"insert_jit", "insert_identity"} => subject[r] \in Subjects
        /\ pc[r] \notin Revoking \cup {"sync"} => held[r] = {}

TypeInv == TypeOK /\ RequestsKnow

\* The boot lists users that are there; who is off the list is in order.
BootProceeds ==
    /\ mode # "migrating" => todo = {}
    /\ mode = "migrating" =>
           \A u \in Users : IF u \in todo THEN Present(u)
                            ELSE Present(u) => /\ ~Roleless(u)
                                               /\ is_admin[u] => HasSuper(u)

TableSound == OnlyPresentHold /\ BootProceeds

\* A row id that a sign-in read as an OIDC one and that still exists is one:
\* the source of a row changes towards `oidc' only.
HeldIsOidc ==
    \A r \in Reqs : pc[r] = "sync" =>
        \A g \in held[r] : assigned[<<user[r], g>>] = "oidc"

\* A row that nothing entitles to is about to be read, or has been, by a
\* sign-in that will delete it.
SyncPending ==
    /\ \A r \in Reqs :
           /\ pc[r] \in Syncing => desired[r] \subseteq earned[user[r]]
           /\ pc[r] = "sync" => missing[r] \subseteq desired[r]
    /\ \A u \in Users, g \in Grants :
           assigned[<<u, g>>] = "oidc" /\ g \notin earned[u] =>
               \E r \in Reqs : /\ user[r] = u
                               /\ \/ pc[r] = "current"
                                  \/ (pc[r] = "sync" /\ g \in held[r])

\* The two grants the code hands out by itself exist.
LEMMA SystemGrants == SuperAdmin \in Grants /\ Operator \in Grants
  BY AccessAssumption DEF SuperAdmin, Operator, Grants

\* A request that ends leaves the requests well typed.
LocalTypes ==
    /\ pc \in [Reqs -> Operations \cup Toggling \cup Revoking \cup SigningIn \cup {"idle"}]
    /\ actor \in [Reqs -> Users \cup {NoUser}]
    /\ user \in [Reqs -> Users \cup {NoUser}]
    /\ subject \in [Reqs -> Subjects \cup {NoSubject}]
    /\ groups \in [Reqs -> SUBSET Groups]
    /\ desired \in [Reqs -> SUBSET Grants]
    /\ held \in [Reqs -> SUBSET Grants]
    /\ missing \in [Reqs -> SUBSET Grants]

LEMMA RestTypes == ASSUME TypeOK, NEW r \in Reqs, Rest(r) PROVE LocalTypes'
  BY DEF TypeOK, LocalTypes, Rest, Done

\* What an INSERT ... DO NOTHING does to each assignment.
LEMMA InsertRow ==
    ASSUME TypeOK, NEW u \in Users, NEW g \in Grants, Insert(u, g)
    PROVE  \A v \in Users, h \in Grants :
               assigned'[<<v, h>>] = IF v = u /\ h = g /\ assigned[<<u, g>>] = "none"
                                     THEN "manual" ELSE assigned[<<v, h>>]
  BY DEF TypeOK, Rows, Insert

\* It creates rows by hand, and changes none.
Grows ==
    \A v \in Users, h \in Grants :
        /\ assigned[<<v, h>>] # "none" => assigned'[<<v, h>>] = assigned[<<v, h>>]
        /\ assigned'[<<v, h>>] \in {assigned[<<v, h>>], "manual"}

LEMMA InsertGrows ==
    ASSUME TypeOK, NEW u, NEW g \in Grants, u \in Users => Insert(u, g) \/ UNCHANGED assigned,
           u \notin Users => UNCHANGED assigned
    PROVE  Grows
<1>1. CASE UNCHANGED assigned
  BY <1>1 DEF Grows
<1>2. CASE u \in Users /\ Insert(u, g)
  BY <1>2, InsertRow DEF Grows
<1>. QED
  BY <1>1, <1>2

\* What the boot does to each assignment.
LEMMA ReconcileRows ==
    ASSUME TypeOK, NEW u \in Users, Reconcile(u)
    PROVE  \A v \in Users, h \in Grants :
               /\ v # u => assigned'[<<v, h>>] = assigned[<<v, h>>]
               /\ assigned[<<v, h>>] # "none" => assigned'[<<v, h>>] # "none"
               /\ assigned'[<<v, h>>] = "oidc" => assigned[<<v, h>>] = "oidc"
<1>1. CASE Insert(u, SuperAdmin)
  <2>1. \A v \in Users, h \in Grants :
            \/ assigned'[<<v, h>>] = assigned[<<v, h>>]
            \/ v = u /\ assigned[<<v, h>>] = "none" /\ assigned'[<<v, h>>] = "manual"
    BY <1>1, InsertRow, SystemGrants
  <2>. QED
    BY <2>1
<1>2. CASE Insert(u, Operator)
  <2>1. \A v \in Users, h \in Grants :
            \/ assigned'[<<v, h>>] = assigned[<<v, h>>]
            \/ v = u /\ assigned[<<v, h>>] = "none" /\ assigned'[<<v, h>>] = "manual"
    BY <1>2, InsertRow, SystemGrants
  <2>. QED
    BY <2>1
<1>3. CASE UNCHANGED assigned
  BY <1>3
<1>. QED
  BY <1>1, <1>2, <1>3 DEF Reconcile

\* The boot puts the users it has listed in order, one by one.
LEMMA ReconcileTable ==
    ASSUME TypeOK, TableSound, NEW u \in Users, Reconcile(u)
    PROVE  TableSound'
<1>1. /\ u \in todo /\ todo' = todo \ {u} /\ mode = "migrating"
      /\ UNCHANGED <<life, is_admin, linked, mode>>
  BY DEF Reconcile
<1>2. Present(u)
  BY <1>1 DEF TableSound, BootProceeds
<1>3. \A v \in Users, h \in Grants :
          /\ v # u => assigned'[<<v, h>>] = assigned[<<v, h>>]
          /\ assigned[<<v, h>>] # "none" => assigned'[<<v, h>>] # "none"
  BY ReconcileRows
<1>4. OnlyPresentHold'
  BY <1>1, <1>2, <1>3 DEF TableSound, OnlyPresentHold, Present, Roleless, Has
<1>5. ~Roleless(u)' /\ (is_admin[u] => HasSuper(u)')
  <2>1. CASE is_admin[u] /\ ~HasSuper(u)
    <3>1. Insert(u, SuperAdmin)
      BY <2>1 DEF Reconcile
    <3>2. assigned'[<<u, SuperAdmin>>] # "none"
      BY <3>1, InsertRow, SystemGrants
    <3>. QED
      BY <3>2, SystemGrants, AccessAssumption DEF Roleless, HasSuper, Has, SuperAdmin
  <2>2. CASE ~is_admin[u] /\ Roleless(u)
    <3>1. Insert(u, Operator)
      BY <2>2 DEF Reconcile
    <3>2. assigned'[<<u, Operator>>] # "none"
      BY <3>1, InsertRow, SystemGrants
    <3>. QED
      BY <2>2, <3>2, SystemGrants DEF Roleless, Has
  <2>3. CASE is_admin[u] /\ HasSuper(u)
    <3>1. UNCHANGED assigned
      BY <2>3 DEF Reconcile
    <3>2. \A s \in Scopes : <<"super_admin", s>> \in Grants
      BY AccessAssumption DEF Grants
    <3>. QED
      BY <2>3, <3>1, <3>2 DEF Roleless, HasSuper, Has
  <2>4. CASE ~is_admin[u] /\ ~Roleless(u)
    <3>1. UNCHANGED assigned
      BY <2>4 DEF Reconcile
    <3>. QED
      BY <2>4, <3>1 DEF Roleless, Has
  <2>. QED
    BY <2>1, <2>2, <2>3, <2>4 DEF TypeOK
<1>6. BootProceeds'
  <2>1. mode' = "migrating"
    BY <1>1
  <2>2. ASSUME NEW v \in Users, v \in todo' PROVE Present(v)'
    BY <1>1, <2>2 DEF TableSound, BootProceeds, Present
  <2>3. ASSUME NEW v \in Users, v \notin todo', Present(v)'
        PROVE  ~Roleless(v)' /\ (is_admin'[v] => HasSuper(v)')
    <3>1. CASE v = u
      BY <1>1, <1>5, <3>1
    <3>2. CASE v # u
      <4>1. v \notin todo /\ Present(v)
        BY <1>1, <2>3, <3>2 DEF Present
      <4>2. ~Roleless(v) /\ (is_admin[v] => HasSuper(v))
        BY <1>1, <4>1 DEF TableSound, BootProceeds
      <4>3. \A s \in Scopes : <<"super_admin", s>> \in Grants
        BY AccessAssumption DEF Grants
      <4>. QED
        BY <1>1, <1>3, <3>2, <4>2, <4>3 DEF Roleless, HasSuper, Has
    <3>. QED
      BY <3>1, <3>2
  <2>. QED
    BY <2>1, <2>2, <2>3 DEF BootProceeds
<1>. QED
  BY <1>4, <1>6 DEF TableSound

\* A user that KeepsARole speaks of.
Settled(v) ==
    /\ v \notin thinned /\ Present(v)
    /\ \A r \in Reqs : user[r] = v => pc[r] \notin Toggling

LEMMA RoleKeptOrGranted ==
    ASSUME KeepsARole, mode' = "serving" => mode = "serving",
           \A v \in Users : Settled(v)' =>
               \/ \E g \in Grants : Has(v, g)'
               \/ Settled(v) /\ \A g \in Grants : Has(v, g) => Has(v, g)'
    PROVE  KeepsARole'
<1>. SUFFICES ASSUME mode' = "serving", NEW v \in Users, Settled(v)'
              PROVE  ~Roleless(v)'
  BY DEF KeepsARole, Settled
<1>1. CASE \E g \in Grants : Has(v, g)'
  BY <1>1 DEF Roleless
<1>2. CASE Settled(v) /\ \A g \in Grants : Has(v, g) => Has(v, g)'
  <2>1. ~Roleless(v)
    BY <1>2 DEF KeepsARole, Settled
  <2>. QED
    BY <1>2, <2>1 DEF Roleless
<1>. QED
  BY <1>1, <1>2

LEMMA RoleKept ==
    ASSUME KeepsARole, mode' = "serving" => mode = "serving",
           \A v \in Users : Settled(v)' =>
               Settled(v) /\ \A g \in Grants : Has(v, g) => Has(v, g)'
    PROVE  KeepsARole'
  BY RoleKeptOrGranted

\* What the INSERT of a sign-in does to each assignment.
LEMMA SyncInsertRow ==
    ASSUME TypeOK, NEW r \in Reqs, NEW g \in Grants, SyncInsert(r, g)
    PROVE  \A v \in Users, h \in Grants :
               \/ assigned'[<<v, h>>] = assigned[<<v, h>>]
               \/ /\ assigned'[<<v, h>>] = "oidc"
                  /\ Present(user[r]) /\ v = user[r] /\ h = g
<1>1. CASE Present(user[r])
  <2>1. assigned' = [assigned EXCEPT ![<<user[r], g>>] = "oidc"] /\ user[r] \in Users
    BY <1>1 DEF SyncInsert, Present
  <2>. QED
    BY <1>1, <2>1 DEF TypeOK, Rows
<1>2. CASE ~Present(user[r])
  <2>1. UNCHANGED assigned
    BY <1>2 DEF SyncInsert
  <2>. QED
    BY <2>1
<1>. QED
  BY <1>1, <1>2

\* A step outside the synchronisations that makes no OIDC row.
LEMMA PendingKept ==
    ASSUME SyncPending, UNCHANGED earned,
           \A q \in Reqs : pc[q] \in Syncing \/ pc'[q] \in Syncing =>
               UNCHANGED <<pc[q], user[q], desired[q], held[q], missing[q]>>,
           \A v \in Users, h \in Grants :
               assigned'[<<v, h>>] = "oidc" => assigned[<<v, h>>] = "oidc"
    PROVE  SyncPending'
<1>1. ASSUME NEW q \in Reqs
      PROVE  /\ pc'[q] \in Syncing => desired'[q] \subseteq earned'[user'[q]]
             /\ pc'[q] = "sync" => missing'[q] \subseteq desired'[q]
  BY DEF SyncPending, Syncing
<1>2. ASSUME NEW v \in Users, NEW h \in Grants,
             assigned'[<<v, h>>] = "oidc", h \notin earned'[v]
      PROVE  \E q \in Reqs : /\ user'[q] = v
                             /\ \/ pc'[q] = "current"
                                \/ (pc'[q] = "sync" /\ h \in held'[q])
  <2>1. PICK q \in Reqs : /\ user[q] = v
                          /\ \/ pc[q] = "current"
                             \/ (pc[q] = "sync" /\ h \in held[q])
    BY <1>2 DEF SyncPending
  <2>. QED
    BY <2>1 DEF Syncing
<1>. QED
  BY <1>1, <1>2 DEF SyncPending

\* A sign-in that reads the mappings replaces what its user has earned, or
\* adds to it when another sign-in of the user is past that point.
LEMMA ReadMappingsPending ==
    ASSUME TypeInv, SyncPending, NEW r \in Reqs, ReadMappings(r)
    PROVE  SyncPending'
<1>. DEFINE u == user[r]
            due == {g \in Grants : \E grp \in groups[r] : <<grp, g>> \in mappings}
<1>1. pc[r] = "mappings" /\ u \in Users
  BY DEF ReadMappings, TypeInv, RequestsKnow
<1>2. /\ desired' = [desired EXCEPT ![r] = due]
      /\ earned' = [earned EXCEPT ![u] = IF AnotherSyncs(r, u) THEN @ \cup due ELSE due]
      /\ pc' = [pc EXCEPT ![r] = "current"]
      /\ UNCHANGED <<user, held, missing, assigned>>
  BY DEF ReadMappings, Goto, tables
<1>. HIDE DEF due
<1>3. /\ due \subseteq earned'[u]
      /\ \A v \in Users : v # u \/ AnotherSyncs(r, u) => earned[v] \subseteq earned'[v]
      /\ \A v \in Users : v # u => earned'[v] = earned[v]
  BY <1>1, <1>2 DEF TypeInv, TypeOK
<1>4. /\ pc'[r] = "current" /\ desired'[r] = due
      /\ \A q \in Reqs : q # r => UNCHANGED <<pc[q], desired[q]>>
  BY <1>2 DEF TypeInv, TypeOK
<1>5. ASSUME NEW q \in Reqs, pc'[q] \in Syncing
      PROVE  desired'[q] \subseteq earned'[user'[q]]
  <2>1. CASE q = r
    BY <1>2, <1>3, <1>4, <2>1
  <2>2. CASE q # r
    <3>1. pc[q] \in Syncing /\ UNCHANGED <<desired[q], user[q]>>
      BY <1>2, <1>4, <1>5, <2>2
    <3>2. desired[q] \subseteq earned[user[q]] /\ user[q] \in Users
      BY <3>1 DEF SyncPending, TypeInv, RequestsKnow
    <3>3. user[q] = u => AnotherSyncs(r, u)
      BY <2>2, <3>1 DEF AnotherSyncs
    <3>. QED
      BY <1>3, <3>1, <3>2, <3>3
  <2>. QED
    BY <2>1, <2>2
<1>6. ASSUME NEW q \in Reqs, pc'[q] = "sync"
      PROVE  missing'[q] \subseteq desired'[q]
  BY <1>2, <1>4, <1>6 DEF SyncPending
<1>7. ASSUME NEW v \in Users, NEW h \in Grants,
             assigned'[<<v, h>>] = "oidc", h \notin earned'[v]
      PROVE  \E q \in Reqs : /\ user'[q] = v
                             /\ \/ pc'[q] = "current"
                                \/ (pc'[q] = "sync" /\ h \in held'[q])
  <2>1. CASE v = u
    BY <1>2, <1>4, <2>1
  <2>2. CASE v # u
    <3>1. assigned[<<v, h>>] = "oidc" /\ h \notin earned[v]
      BY <1>2, <1>3, <1>7, <2>2
    <3>2. PICK q \in Reqs : /\ user[q] = v
                            /\ \/ pc[q] = "current"
                               \/ (pc[q] = "sync" /\ h \in held[q])
      BY <3>1 DEF SyncPending
    <3>. QED
      BY <1>2, <1>4, <2>2, <3>2
  <2>. QED
    BY <2>1, <2>2
<1>. QED
  BY <1>5, <1>6, <1>7 DEF SyncPending

\* The assignments keep their type when one is inserted.
LEMMA InsertType ==
    ASSUME TypeOK, NEW u \in Users, NEW g \in Grants, Insert(u, g)
    PROVE  assigned' \in [Rows -> {"none", "manual", "oidc"}]
  BY DEF Insert, TypeOK, Rows

LEMMA ReconcileType ==
    ASSUME TypeOK, NEW u \in Users, Reconcile(u)
    PROVE  assigned' \in [Rows -> {"none", "manual", "oidc"}]
<1>1. CASE UNCHANGED assigned
  BY <1>1 DEF TypeOK
<1>. QED
  BY <1>1, InsertType, SystemGrants DEF Reconcile

\* A step that leaves alone what TableSound speaks of.
LEMMA TableKept ==
    ASSUME TableSound, UNCHANGED <<life, is_admin, assigned, linked, mode, todo>>
    PROVE  TableSound'
  BY DEF TableSound, OnlyPresentHold, BootProceeds, Roleless, Has, HasSuper, Present

-----------------------------------------------------------------------------
(* Every step preserves each layer of the invariant.                        *)

\* Types, and what requests know, are preserved.
LEMMA TypeInvStep == TypeInv /\ [Next]_vars => TypeInv'
<1>. SUFFICES ASSUME TypeInv, [Next]_vars
             PROVE  TypeInv'
  OBVIOUS
<1>. USE AccessAssumption, SystemGrants
         DEF TypeInv, RequestsKnow, TypeOK, Rows, Toggling, Revoking, Syncing,
         tables, locals, ghosts, boot, Operations, SigningIn
<1>1. ASSUME NEW r \in Reqs, NEW a \in Users, NEW op \in Operations,
             Begin(r, a, op)
      PROVE  TypeInv'
  BY <1>1 DEF Begin, Goto
<1>2. ASSUME NEW r \in Reqs, Refuse(r) PROVE TypeInv'
  BY <1>2 DEF Refuse, Rest, Done
<1>3. ASSUME NEW r \in Reqs, NEW u \in Users, NEW admin \in BOOLEAN,
             InsertUser(r, u, admin)
      PROVE  TypeInv'
  BY <1>3 DEF InsertUser, Goto
<1>4. ASSUME NEW r \in Reqs, NEW u \in Users, NEW admin \in BOOLEAN,
             UpdateFlag(r, u, admin)
      PROVE  TypeInv'
  BY <1>4 DEF UpdateFlag, Goto
<1>5. ASSUME NEW r \in Reqs, GrantSuper(r) PROVE TypeInv'
  <2>1. assigned' \in [Rows -> {"none", "manual", "oidc"}]
    <3>1. CASE Present(user[r])
      BY <1>5, <3>1, InsertType DEF GrantSuper, Present
    <3>2. CASE ~Present(user[r])
      BY <1>5, <3>2 DEF GrantSuper
    <3>. QED
      BY <3>1, <3>2
  <2>2. LocalTypes'
    <3>1. Rest(r)
      BY <1>5 DEF GrantSuper
    <3>. QED
      BY <3>1, RestTypes
  <2>3. TypeOK'
    BY <1>5, <2>1, <2>2 DEF GrantSuper, LocalTypes
  <2>4. RequestsKnow'
    BY <1>5 DEF GrantSuper, Rest, Done
  <2>. QED
    BY <2>3, <2>4
<1>6. ASSUME NEW r \in Reqs, DropSuper(r) PROVE TypeInv'
  BY <1>6 DEF DropSuper, Remove, Forget, Goto
<1>7. ASSUME NEW r \in Reqs, GrantOperator(r) PROVE TypeInv'
  <2>1. assigned' \in [Rows -> {"none", "manual", "oidc"}]
    <3>1. CASE Present(user[r])
      BY <1>7, <3>1, InsertType DEF GrantOperator, Present
    <3>2. CASE ~Present(user[r])
      BY <1>7, <3>2 DEF GrantOperator
    <3>. QED
      BY <3>1, <3>2
  <2>2. LocalTypes'
    <3>1. Rest(r)
      BY <1>7 DEF GrantOperator
    <3>. QED
      BY <3>1, RestTypes
  <2>3. TypeOK'
    BY <1>7, <2>1, <2>2 DEF GrantOperator, LocalTypes
  <2>4. RequestsKnow'
    BY <1>7 DEF GrantOperator, Rest, Done
  <2>. QED
    BY <2>3, <2>4
<1>8. ASSUME NEW r \in Reqs, NEW u \in Users, DeleteUser(r, u) PROVE TypeInv'
  BY <1>8 DEF DeleteUser, Remove, Forget, Done
<1>9. ASSUME NEW r \in Reqs, NEW u \in Users, NEW g \in Grants,
             AssignRole(r, u, g)
      PROVE  TypeInv'
  BY <1>9 DEF AssignRole, Insert, Rest, Done
<1>10. ASSUME NEW r \in Reqs, NEW u \in Users, NEW g \in Grants,
             RevokeRead(r, u, g)
      PROVE  TypeInv'
  BY <1>10 DEF RevokeRead, Goto
<1>11. ASSUME NEW r \in Reqs, RevokeCount(r) PROVE TypeInv'
  <2>1. TypeOK'
    <3>1. CASE Cardinality(SuperRows) <= 1 \/ user[r] = actor[r]
      <4>1. Rest(r)
        BY <1>11, <3>1 DEF RevokeCount
      <4>2. LocalTypes'
        BY <4>1, RestTypes
      <4>. QED
        BY <1>11, <3>1, <4>2 DEF RevokeCount, LocalTypes
    <3>2. CASE ~(Cardinality(SuperRows) <= 1 \/ user[r] = actor[r])
      BY <1>11, <3>2 DEF RevokeCount, Goto, Rest, Done
    <3>. QED
      BY <3>1, <3>2
  <2>2. RequestsKnow'
    BY <1>11 DEF RevokeCount, Goto, Rest, Done
  <2>. QED
    BY <2>1, <2>2
<1>12. ASSUME NEW r \in Reqs, RevokeDelete(r) PROVE TypeInv'
  BY <1>12 DEF RevokeDelete, Remove, Forget, Done
<1>13. ASSUME NEW r \in Reqs, NEW m \in Groups \X Grants,
             CreateMapping(r, m)
      PROVE  TypeInv'
  BY <1>13 DEF CreateMapping, Rest, Done
<1>14. ASSUME NEW r \in Reqs, NEW m \in Groups \X Grants,
             DeleteMapping(r, m)
      PROVE  TypeInv'
  BY <1>14 DEF DeleteMapping, Rest, Done
<1>15. ASSUME NEW r \in Reqs, NEW s \in Subjects, NEW gs \in SUBSET Groups,
             SignIn(r, s, gs)
      PROVE  TypeInv'
  BY <1>15 DEF SignIn, Goto
<1>16. ASSUME NEW r \in Reqs, NEW u \in Users, InsertJit(r, u) PROVE TypeInv'
  BY <1>16 DEF InsertJit, Goto
<1>17. ASSUME NEW r \in Reqs, InsertIdentity(r) PROVE TypeInv'
  <2>1. TypeOK'
    <3>1. CASE linked[subject[r]] = NoUser /\ Present(user[r])
      BY <1>17, <3>1 DEF InsertIdentity, Goto, Rest, Done
    <3>2. CASE ~(linked[subject[r]] = NoUser /\ Present(user[r]))
      <4>1. Rest(r)
        BY <1>17, <3>2 DEF InsertIdentity
      <4>2. LocalTypes'
        BY <4>1, RestTypes
      <4>. QED
        BY <1>17, <3>2, <4>2 DEF InsertIdentity, LocalTypes
    <3>. QED
      BY <3>1, <3>2
  <2>2. RequestsKnow'
    BY <1>17 DEF InsertIdentity, Goto, Rest, Done
  <2>. QED
    BY <2>1, <2>2
<1>18. ASSUME NEW r \in Reqs, ReadMappings(r) PROVE TypeInv'
  BY <1>18 DEF ReadMappings, Goto, AnotherSyncs
<1>19. ASSUME NEW r \in Reqs, ReadCurrent(r) PROVE TypeInv'
  BY <1>19 DEF ReadCurrent, Goto
<1>20. ASSUME NEW r \in Reqs, NEW g \in Grants,
             SyncDelete(r, g)
      PROVE  TypeInv'
  BY <1>20 DEF SyncDelete, Remove, Forget
<1>21. ASSUME NEW r \in Reqs, NEW g \in Grants,
             SyncInsert(r, g)
      PROVE  TypeInv'
  <2>1. TypeOK'
    <3>1. CASE Present(user[r])
      <4>1. user[r] \in Users
        BY <3>1 DEF Present
      <4>2. /\ assigned' = [assigned EXCEPT ![<<user[r], g>>] = "oidc"]
            /\ missing' = [missing EXCEPT ![r] = missing[r] \ {g}]
        BY <1>21, <3>1 DEF SyncInsert
      <4>3. UNCHANGED <<pc, actor, user, subject, groups, desired, held>>
        BY <1>21, <3>1 DEF SyncInsert
      <4>4. assigned' \in [Rows -> {"none", "manual", "oidc"}]
        BY <4>1, <4>2
      <4>5. missing[r] \ {g} \in SUBSET Grants
        OBVIOUS
      <4>6. missing' \in [Reqs -> SUBSET Grants]
        BY <4>2, <4>5
      <4>. QED
        BY <1>21, <4>3, <4>4, <4>6 DEF SyncInsert
    <3>2. CASE ~(Present(user[r]))
      <4>1. Rest(r)
        BY <1>21, <3>2 DEF SyncInsert
      <4>2. LocalTypes'
        BY <4>1, RestTypes
      <4>. QED
        BY <1>21, <3>2, <4>2 DEF SyncInsert, LocalTypes
    <3>. QED
      BY <3>1, <3>2
  <2>2. RequestsKnow'
    BY <1>21 DEF SyncInsert, Rest, Done
  <2>. QED
    BY <2>1, <2>2
<1>22. ASSUME NEW r \in Reqs, SyncFlag(r) PROVE TypeInv'
  <2>1. is_admin' \in [Users -> BOOLEAN]
    <3>1. Has(user[r], SuperAdmin) \in BOOLEAN
      BY DEF Has
    <3>. QED
      BY <1>22, <3>1 DEF SyncFlag, Present
  <2>2. LocalTypes'
    <3>1. Rest(r)
      BY <1>22 DEF SyncFlag
    <3>. QED
      BY <3>1, RestTypes
  <2>3. TypeOK'
    BY <1>22, <2>1, <2>2 DEF SyncFlag, LocalTypes
  <2>4. RequestsKnow'
    BY <1>22 DEF SyncFlag, Rest, Done
  <2>. QED
    BY <2>3, <2>4
<1>23. ASSUME NEW r \in Reqs, Abort(r) PROVE TypeInv'
  BY <1>23 DEF Abort, Rest, Done
<1>24. CASE Crash
  BY <1>24 DEF Crash
<1>25. ASSUME NEW u \in Users, EnsureAdmin(u) PROVE TypeInv'
  BY <1>25 DEF EnsureAdmin
<1>26. CASE ListUsers
  BY <1>26 DEF ListUsers
<1>27. ASSUME NEW u \in Users, Reconcile(u) PROVE TypeInv'
  <2>1. TypeOK'
    BY <1>27, ReconcileType DEF Reconcile
  <2>2. RequestsKnow'
    BY <1>27 DEF Reconcile
  <2>. QED
    BY <2>1, <2>2
<1>28. CASE Serve
  BY <1>28 DEF Serve
<1>29. CASE UNCHANGED vars
  BY <1>29 DEF vars
<1>. HIDE DEF TypeInv
<1>. QED
  BY <1>1, <1>2, <1>3, <1>4, <1>5, <1>6, <1>7, <1>8, <1>9, <1>10, <1>11,
     <1>12, <1>13, <1>14, <1>15, <1>16, <1>17, <1>18, <1>19, <1>20, <1>21,
     <1>22, <1>23, <1>24, <1>25, <1>26, <1>27, <1>28, <1>29
     DEF Next, Administer, Toggle, Synchronise, Boot

\* Nothing hangs in the air, and the boot proceeds.
LEMMA TableStep ==
    TypeInv /\ TypeInv' /\ TableSound /\ [Next]_vars
      => TableSound'
<1>. SUFFICES ASSUME TypeInv, TypeInv', TableSound, [Next]_vars
             PROVE  TableSound'
  OBVIOUS
<1>. USE AccessAssumption, SystemGrants
         DEF TableSound, OnlyPresentHold, BootProceeds, Roleless, Present, Has,
         HasSuper, TypeInv, RequestsKnow, TypeOK, Rows, Toggling, Revoking,
         Syncing, tables, locals, ghosts, boot
<1>1. ASSUME NEW r \in Reqs, NEW a \in Users, NEW op \in Operations,
             Begin(r, a, op)
      PROVE  TableSound'
  BY <1>1 DEF Begin, Goto
<1>2. ASSUME NEW r \in Reqs, Refuse(r) PROVE TableSound'
  <2>1. UNCHANGED <<life, is_admin, assigned, linked, mode, todo>>
    BY <1>2 DEF Refuse
  <2>. QED
    BY <2>1, TableKept
<1>3. ASSUME NEW r \in Reqs, NEW u \in Users, NEW admin \in BOOLEAN,
             InsertUser(r, u, admin)
      PROVE  TableSound'
  BY <1>3 DEF InsertUser, Goto
<1>4. ASSUME NEW r \in Reqs, NEW u \in Users, NEW admin \in BOOLEAN,
             UpdateFlag(r, u, admin)
      PROVE  TableSound'
  BY <1>4 DEF UpdateFlag, Goto
<1>5. ASSUME NEW r \in Reqs, GrantSuper(r) PROVE TableSound'
  BY <1>5 DEF GrantSuper, Insert, Rest, Done
<1>6. ASSUME NEW r \in Reqs, DropSuper(r) PROVE TableSound'
  BY <1>6 DEF DropSuper, Remove, Forget, Goto
<1>7. ASSUME NEW r \in Reqs, GrantOperator(r) PROVE TableSound'
  BY <1>7 DEF GrantOperator, Insert, Rest, Done
<1>8. ASSUME NEW r \in Reqs, NEW u \in Users,
             DeleteUser(r, u)
      PROVE  TableSound'
  BY <1>8 DEF DeleteUser, Remove, Forget, Done
<1>9. ASSUME NEW r \in Reqs, NEW u \in Users, NEW g \in Grants,
             AssignRole(r, u, g)
      PROVE  TableSound'
  BY <1>9 DEF AssignRole, Insert, Rest, Done
<1>10. ASSUME NEW r \in Reqs, NEW u \in Users, NEW g \in Grants,
             RevokeRead(r, u, g)
      PROVE  TableSound'
  BY <1>10 DEF RevokeRead, Goto
<1>11. ASSUME NEW r \in Reqs, RevokeCount(r) PROVE TableSound'
  BY <1>11 DEF RevokeCount, Goto, Rest, Done
<1>12. ASSUME NEW r \in Reqs, RevokeDelete(r) PROVE TableSound'
  BY <1>12 DEF RevokeDelete, Remove, Forget, Done
<1>13. ASSUME NEW r \in Reqs, NEW m \in Groups \X Grants,
             CreateMapping(r, m)
      PROVE  TableSound'
  BY <1>13 DEF CreateMapping, Rest, Done
<1>14. ASSUME NEW r \in Reqs, NEW m \in Groups \X Grants,
             DeleteMapping(r, m)
      PROVE  TableSound'
  BY <1>14 DEF DeleteMapping, Rest, Done
<1>15. ASSUME NEW r \in Reqs, NEW s \in Subjects, NEW gs \in SUBSET Groups,
             SignIn(r, s, gs)
      PROVE  TableSound'
  BY <1>15 DEF SignIn, Goto
<1>16. ASSUME NEW r \in Reqs, NEW u \in Users,
             InsertJit(r, u)
      PROVE  TableSound'
  BY <1>16 DEF InsertJit, Goto
<1>17. ASSUME NEW r \in Reqs, InsertIdentity(r) PROVE TableSound'
  BY <1>17 DEF InsertIdentity, Goto, Rest, Done
<1>18. ASSUME NEW r \in Reqs, ReadMappings(r) PROVE TableSound'
  BY <1>18 DEF ReadMappings, Goto, AnotherSyncs
<1>19. ASSUME NEW r \in Reqs, ReadCurrent(r) PROVE TableSound'
  BY <1>19 DEF ReadCurrent, Goto
<1>20. ASSUME NEW r \in Reqs, NEW g \in Grants,
             SyncDelete(r, g)
      PROVE  TableSound'
  BY <1>20 DEF SyncDelete, Remove, Forget
<1>21. ASSUME NEW r \in Reqs, NEW g \in Grants,
             SyncInsert(r, g)
      PROVE  TableSound'
  BY <1>21 DEF SyncInsert, Rest, Done
<1>22. ASSUME NEW r \in Reqs, SyncFlag(r) PROVE TableSound'
  BY <1>22 DEF SyncFlag, Rest, Done
<1>23. ASSUME NEW r \in Reqs, Abort(r) PROVE TableSound'
  BY <1>23 DEF Abort, Rest, Done
<1>24. CASE Crash
  BY <1>24 DEF Crash
<1>25. ASSUME NEW u \in Users, EnsureAdmin(u) PROVE TableSound'
  BY <1>25 DEF EnsureAdmin
<1>26. CASE ListUsers
  BY <1>26 DEF ListUsers
<1>27. ASSUME NEW u \in Users, Reconcile(u) PROVE TableSound'
  BY <1>27, ReconcileTable
<1>28. CASE Serve
  BY <1>28 DEF Serve
<1>29. CASE UNCHANGED vars
  BY <1>29 DEF vars
<1>. HIDE DEF TableSound
<1>. QED
  BY <1>1, <1>2, <1>3, <1>4, <1>5, <1>6, <1>7, <1>8, <1>9, <1>10, <1>11,
     <1>12, <1>13, <1>14, <1>15, <1>16, <1>17, <1>18, <1>19, <1>20, <1>21,
     <1>22, <1>23, <1>24, <1>25, <1>26, <1>27, <1>28, <1>29
     DEF Next, Administer, Toggle, Synchronise, Boot

\* Nobody loses the last role to toggles.
LEMMA RoleStep ==
    TypeInv /\ TypeInv' /\ TableSound /\ TableSound' /\ KeepsARole /\ [Next]_vars
      => KeepsARole'
<1>. SUFFICES ASSUME TypeInv, TypeInv', TableSound, TableSound', KeepsARole, [Next]_vars
             PROVE  KeepsARole'
  OBVIOUS
<1>. USE AccessAssumption, SystemGrants
         DEF KeepsARole, TableSound, OnlyPresentHold, BootProceeds, Roleless,
         Present, Has, TypeInv, RequestsKnow, TypeOK, Rows, Toggling,
         Revoking, Syncing, tables, locals, ghosts, boot
<1>1. ASSUME NEW r \in Reqs, NEW a \in Users, NEW op \in Operations,
             Begin(r, a, op)
      PROVE  KeepsARole'
  BY <1>1 DEF Begin, Goto
<1>2. ASSUME NEW r \in Reqs, Refuse(r) PROVE KeepsARole'
  <2>1. ASSUME NEW v \in Users, Settled(v)'
        PROVE  Settled(v)
    <3>1. pc[r] \notin Toggling /\ UNCHANGED <<life, thinned>>
      BY <1>2 DEF Refuse, Operations
    <3>2. \A q \in Reqs : q # r => UNCHANGED <<pc[q], user[q]>>
      BY <1>2 DEF Refuse, Rest, Done
    <3>. QED
      BY <2>1, <3>1, <3>2 DEF Settled
  <2>2. ASSUME NEW v \in Users, Settled(v)', NEW h \in Grants, Has(v, h)
        PROVE  Has(v, h)'
    BY <1>2, <2>2 DEF Refuse, Rest, Done, Settled
  <2>3. mode' = "serving" => mode = "serving"
    BY <1>2 DEF Refuse
  <2>. QED
    BY <2>1, <2>2, <2>3, RoleKept
<1>3. ASSUME NEW r \in Reqs, NEW u \in Users, NEW admin \in BOOLEAN,
             InsertUser(r, u, admin)
      PROVE  KeepsARole'
  BY <1>3 DEF InsertUser, Goto
<1>4. ASSUME NEW r \in Reqs, NEW u \in Users, NEW admin \in BOOLEAN,
             UpdateFlag(r, u, admin)
      PROVE  KeepsARole'
  BY <1>4 DEF UpdateFlag, Goto
<1>5. ASSUME NEW r \in Reqs, GrantSuper(r) PROVE KeepsARole'
  <2>1. ASSUME NEW v \in Users, v # user[r], Settled(v)'
        PROVE  Settled(v)
    BY <1>5, <2>1 DEF GrantSuper, Rest, Done, Settled
  <2>2. ASSUME NEW v \in Users, NEW h \in Grants, Has(v, h)
        PROVE  Has(v, h)'
    BY <1>5, <2>2, InsertGrows DEF GrantSuper, Grows, Present
  <2>3. ASSUME NEW v \in Users, v = user[r], Settled(v)'
        PROVE  \E h \in Grants : Has(v, h)'
    <3>1. Present(v) /\ Insert(v, SuperAdmin)
      BY <1>5, <2>3 DEF GrantSuper, Settled
    <3>2. assigned'[<<v, SuperAdmin>>] # "none"
      BY <3>1, InsertRow
    <3>. QED
      BY <3>2
  <2>4. mode' = "serving" => mode = "serving"
    BY <1>5 DEF GrantSuper
  <2>. HIDE DEF Has, KeepsARole, TypeInv, TableSound
  <2>. QED
    BY <2>1, <2>2, <2>3, <2>4, RoleKeptOrGranted
<1>6. ASSUME NEW r \in Reqs, DropSuper(r) PROVE KeepsARole'
  <2>1. ASSUME NEW v \in Users, Settled(v)'
        PROVE  Settled(v)
    BY <1>6, <2>1 DEF DropSuper, Remove, Forget, Goto, Settled
  <2>2. ASSUME NEW v \in Users, Settled(v)', NEW h \in Grants, Has(v, h)
        PROVE  Has(v, h)'
    BY <1>6, <2>2 DEF DropSuper, Remove, Forget, Goto, Settled
  <2>3. mode' = "serving" => mode = "serving"
    BY <1>6 DEF DropSuper
  <2>. QED
    BY <2>1, <2>2, <2>3, RoleKept
<1>7. ASSUME NEW r \in Reqs, GrantOperator(r) PROVE KeepsARole'
  <2>1. ASSUME NEW v \in Users, v # user[r], Settled(v)'
        PROVE  Settled(v)
    BY <1>7, <2>1 DEF GrantOperator, Rest, Done, Settled
  <2>2. ASSUME NEW v \in Users, NEW h \in Grants, Has(v, h)
        PROVE  Has(v, h)'
    BY <1>7, <2>2, InsertGrows DEF GrantOperator, Grows, Present
  <2>3. ASSUME NEW v \in Users, v = user[r], Settled(v)'
        PROVE  \E h \in Grants : Has(v, h)'
    <3>1. Present(v) /\ Insert(v, Operator)
      BY <1>7, <2>3 DEF GrantOperator, Settled
    <3>2. assigned'[<<v, Operator>>] # "none"
      BY <3>1, InsertRow
    <3>. QED
      BY <3>2
  <2>4. mode' = "serving" => mode = "serving"
    BY <1>7 DEF GrantOperator
  <2>. HIDE DEF Has, KeepsARole, TypeInv, TableSound
  <2>. QED
    BY <2>1, <2>2, <2>3, <2>4, RoleKeptOrGranted
<1>8. ASSUME NEW r \in Reqs, NEW u \in Users,
             DeleteUser(r, u)
      PROVE  KeepsARole'
  <2>1. ASSUME NEW v \in Users, Settled(v)'
        PROVE  Settled(v)
    BY <1>8, <2>1 DEF DeleteUser, Remove, Forget, Done, Settled
  <2>2. ASSUME NEW v \in Users, Settled(v)', NEW h \in Grants, Has(v, h)
        PROVE  Has(v, h)'
    BY <1>8, <2>2 DEF DeleteUser, Remove, Forget, Done, Settled
  <2>3. mode' = "serving" => mode = "serving"
    BY <1>8 DEF DeleteUser
  <2>. QED
    BY <2>1, <2>2, <2>3, RoleKept
<1>9. ASSUME NEW r \in Reqs, NEW u \in Users, NEW g \in Grants,
             AssignRole(r, u, g)
      PROVE  KeepsARole'
  <2>1. ASSUME NEW v \in Users, Settled(v)'
        PROVE  Settled(v)
    BY <1>9, <2>1 DEF AssignRole, Insert, Rest, Done, Settled
  <2>2. ASSUME NEW v \in Users, Settled(v)', NEW h \in Grants, Has(v, h)
        PROVE  Has(v, h)'
    BY <1>9, <2>2 DEF AssignRole, Insert, Rest, Done, Settled
  <2>3. mode' = "serving" => mode = "serving"
    BY <1>9 DEF AssignRole
  <2>. QED
    BY <2>1, <2>2, <2>3, RoleKept
<1>10. ASSUME NEW r \in Reqs, NEW u \in Users, NEW g \in Grants,
             RevokeRead(r, u, g)
      PROVE  KeepsARole'
  <2>1. ASSUME NEW v \in Users, Settled(v)'
        PROVE  Settled(v)
    BY <1>10, <2>1 DEF RevokeRead, Goto, Settled
  <2>2. ASSUME NEW v \in Users, Settled(v)', NEW h \in Grants, Has(v, h)
        PROVE  Has(v, h)'
    BY <1>10, <2>2 DEF RevokeRead, Goto, Settled
  <2>3. mode' = "serving" => mode = "serving"
    BY <1>10 DEF RevokeRead
  <2>. QED
    BY <2>1, <2>2, <2>3, RoleKept
<1>11. ASSUME NEW r \in Reqs, RevokeCount(r) PROVE KeepsARole'
  BY <1>11 DEF RevokeCount, Goto, Rest, Done
<1>12. ASSUME NEW r \in Reqs, RevokeDelete(r) PROVE KeepsARole'
  <2>1. ASSUME NEW v \in Users, Settled(v)'
        PROVE  Settled(v)
    BY <1>12, <2>1 DEF RevokeDelete, Remove, Forget, Done, Settled
  <2>2. ASSUME NEW v \in Users, Settled(v)', NEW h \in Grants, Has(v, h)
        PROVE  Has(v, h)'
    BY <1>12, <2>2 DEF RevokeDelete, Remove, Forget, Done, Settled
  <2>3. mode' = "serving" => mode = "serving"
    BY <1>12 DEF RevokeDelete
  <2>. QED
    BY <2>1, <2>2, <2>3, RoleKept
<1>13. ASSUME NEW r \in Reqs, NEW m \in Groups \X Grants,
             CreateMapping(r, m)
      PROVE  KeepsARole'
  <2>1. ASSUME NEW v \in Users, Settled(v)'
        PROVE  Settled(v)
    BY <1>13, <2>1 DEF CreateMapping, Rest, Done, Settled
  <2>2. ASSUME NEW v \in Users, NEW h \in Grants, Has(v, h)
        PROVE  Has(v, h)'
    BY <1>13, <2>2 DEF CreateMapping
  <2>3. mode' = "serving" => mode = "serving"
    BY <1>13 DEF CreateMapping
  <2>. QED
    BY <2>1, <2>2, <2>3, RoleKept
<1>14. ASSUME NEW r \in Reqs, NEW m \in Groups \X Grants,
             DeleteMapping(r, m)
      PROVE  KeepsARole'
  <2>1. ASSUME NEW v \in Users, Settled(v)'
        PROVE  Settled(v)
    BY <1>14, <2>1 DEF DeleteMapping, Rest, Done, Settled
  <2>2. ASSUME NEW v \in Users, NEW h \in Grants, Has(v, h)
        PROVE  Has(v, h)'
    BY <1>14, <2>2 DEF DeleteMapping
  <2>3. mode' = "serving" => mode = "serving"
    BY <1>14 DEF DeleteMapping
  <2>. QED
    BY <2>1, <2>2, <2>3, RoleKept
<1>15. ASSUME NEW r \in Reqs, NEW s \in Subjects, NEW gs \in SUBSET Groups,
             SignIn(r, s, gs)
      PROVE  KeepsARole'
  <2>1. ASSUME NEW v \in Users, Settled(v)'
        PROVE  Settled(v)
    BY <1>15, <2>1 DEF SignIn, Goto, Settled
  <2>2. ASSUME NEW v \in Users, Settled(v)', NEW h \in Grants, Has(v, h)
        PROVE  Has(v, h)'
    BY <1>15, <2>2 DEF SignIn, Goto, Settled
  <2>3. mode' = "serving" => mode = "serving"
    BY <1>15 DEF SignIn
  <2>. QED
    BY <2>1, <2>2, <2>3, RoleKept
<1>16. ASSUME NEW r \in Reqs, NEW u \in Users,
             InsertJit(r, u)
      PROVE  KeepsARole'
  <2>1. ASSUME NEW v \in Users, Settled(v)'
        PROVE  Settled(v)
    BY <1>16, <2>1 DEF InsertJit, Goto, Settled
  <2>2. ASSUME NEW v \in Users, NEW h \in Grants, Has(v, h)
        PROVE  Has(v, h)'
    BY <1>16, <2>2 DEF InsertJit
  <2>3. mode' = "serving" => mode = "serving"
    BY <1>16 DEF InsertJit
  <2>. QED
    BY <2>1, <2>2, <2>3, RoleKept
<1>17. ASSUME NEW r \in Reqs, InsertIdentity(r) PROVE KeepsARole'
  BY <1>17 DEF InsertIdentity, Goto, Rest, Done
<1>18. ASSUME NEW r \in Reqs, ReadMappings(r) PROVE KeepsARole'
  BY <1>18 DEF ReadMappings, Goto, AnotherSyncs
<1>19. ASSUME NEW r \in Reqs, ReadCurrent(r) PROVE KeepsARole'
  BY <1>19 DEF ReadCurrent, Goto
<1>20. ASSUME NEW r \in Reqs, NEW g \in Grants,
             SyncDelete(r, g)
      PROVE  KeepsARole'
  <2>1. ASSUME NEW v \in Users, Settled(v)'
        PROVE  Settled(v)
    BY <1>20, <2>1 DEF SyncDelete, Remove, Forget, Settled
  <2>2. ASSUME NEW v \in Users, Settled(v)', NEW h \in Grants, Has(v, h)
        PROVE  Has(v, h)'
    BY <1>20, <2>2 DEF SyncDelete, Remove, Forget, Settled
  <2>3. mode' = "serving" => mode = "serving"
    BY <1>20 DEF SyncDelete
  <2>. QED
    BY <2>1, <2>2, <2>3, RoleKept
<1>21. ASSUME NEW r \in Reqs, NEW g \in Grants,
             SyncInsert(r, g)
      PROVE  KeepsARole'
  <2>1. ASSUME NEW v \in Users, Settled(v)'
        PROVE  Settled(v)
    BY <1>21, <2>1 DEF SyncInsert, Rest, Done, Settled
  <2>2. ASSUME NEW v \in Users, Settled(v)', NEW h \in Grants, Has(v, h)
        PROVE  Has(v, h)'
    BY <1>21, <2>2, SyncInsertRow
  <2>3. mode' = "serving" => mode = "serving"
    BY <1>21 DEF SyncInsert
  <2>. QED
    BY <2>1, <2>2, <2>3, RoleKept
<1>22. ASSUME NEW r \in Reqs, SyncFlag(r) PROVE KeepsARole'
  <2>1. ASSUME NEW v \in Users, Settled(v)'
        PROVE  Settled(v)
    BY <1>22, <2>1 DEF SyncFlag, Rest, Done, Settled
  <2>2. ASSUME NEW v \in Users, NEW h \in Grants, Has(v, h)
        PROVE  Has(v, h)'
    BY <1>22, <2>2 DEF SyncFlag
  <2>3. mode' = "serving" => mode = "serving"
    BY <1>22 DEF SyncFlag
  <2>. QED
    BY <2>1, <2>2, <2>3, RoleKept
<1>23. ASSUME NEW r \in Reqs, Abort(r) PROVE KeepsARole'
  <2>1. ASSUME NEW v \in Users, Settled(v)'
        PROVE  Settled(v)
    <3>1. /\ thinned \subseteq thinned' /\ UNCHANGED life
          /\ pc[r] \in Toggling => user[r] \in thinned'
      BY <1>23 DEF Abort
    <3>2. \A q \in Reqs : q # r => UNCHANGED <<pc[q], user[q]>>
      BY <1>23 DEF Abort, Rest, Done
    <3>. QED
      BY <2>1, <3>1, <3>2 DEF Settled
  <2>2. ASSUME NEW v \in Users, Settled(v)', NEW h \in Grants, Has(v, h)
        PROVE  Has(v, h)'
    BY <1>23, <2>2 DEF Abort, Rest, Done, Settled
  <2>3. mode' = "serving" => mode = "serving"
    BY <1>23 DEF Abort
  <2>. QED
    BY <2>1, <2>2, <2>3, RoleKept
<1>24. CASE Crash
  BY <1>24 DEF Crash
<1>25. ASSUME NEW u \in Users, EnsureAdmin(u) PROVE KeepsARole'
  BY <1>25 DEF EnsureAdmin
<1>26. CASE ListUsers
  BY <1>26 DEF ListUsers
<1>27. ASSUME NEW u \in Users, Reconcile(u) PROVE KeepsARole'
  BY <1>27 DEF Reconcile, Insert
<1>28. CASE Serve
  BY <1>28 DEF Serve
<1>29. CASE UNCHANGED vars
  BY <1>29 DEF vars
<1>. HIDE DEF KeepsARole
<1>. QED
  BY <1>1, <1>2, <1>3, <1>4, <1>5, <1>6, <1>7, <1>8, <1>9, <1>10, <1>11,
     <1>12, <1>13, <1>14, <1>15, <1>16, <1>17, <1>18, <1>19, <1>20, <1>21,
     <1>22, <1>23, <1>24, <1>25, <1>26, <1>27, <1>28, <1>29
     DEF Next, Administer, Toggle, Synchronise, Boot

\* What a sign-in holds stays an OIDC row.
LEMMA HeldStep ==
    TypeInv /\ TypeInv' /\ HeldIsOidc /\ [Next]_vars
      => HeldIsOidc'
<1>. SUFFICES ASSUME TypeInv, TypeInv', HeldIsOidc, [Next]_vars
             PROVE  HeldIsOidc'
  OBVIOUS
<1>. USE AccessAssumption, SystemGrants
         DEF HeldIsOidc, TypeInv, RequestsKnow, TypeOK, Rows, Toggling, Revoking,
         Syncing, tables, locals, ghosts, boot
<1>1. ASSUME NEW r \in Reqs, NEW a \in Users, NEW op \in Operations,
             Begin(r, a, op)
      PROVE  HeldIsOidc'
  BY <1>1 DEF Begin, Goto
<1>2. ASSUME NEW r \in Reqs, Refuse(r) PROVE HeldIsOidc'
  BY <1>2 DEF Refuse, Rest, Done
<1>3. ASSUME NEW r \in Reqs, NEW u \in Users, NEW admin \in BOOLEAN,
             InsertUser(r, u, admin)
      PROVE  HeldIsOidc'
  BY <1>3 DEF InsertUser, Goto
<1>4. ASSUME NEW r \in Reqs, NEW u \in Users, NEW admin \in BOOLEAN,
             UpdateFlag(r, u, admin)
      PROVE  HeldIsOidc'
  BY <1>4 DEF UpdateFlag, Goto
<1>5. ASSUME NEW r \in Reqs, GrantSuper(r) PROVE HeldIsOidc'
  <2>1. Grows
    BY <1>5, InsertGrows DEF GrantSuper, Present
  <2>2. \A q \in Reqs : pc'[q] = "sync" =>
            pc[q] = "sync" /\ UNCHANGED <<user[q], held[q]>>
    BY <1>5 DEF GrantSuper, Rest, Done
  <2>. QED
    BY <2>1, <2>2 DEF Grows
<1>6. ASSUME NEW r \in Reqs, DropSuper(r) PROVE HeldIsOidc'
  BY <1>6 DEF DropSuper, Remove, Forget, Goto
<1>7. ASSUME NEW r \in Reqs, GrantOperator(r) PROVE HeldIsOidc'
  <2>1. Grows
    BY <1>7, InsertGrows DEF GrantOperator, Present
  <2>2. \A q \in Reqs : pc'[q] = "sync" =>
            pc[q] = "sync" /\ UNCHANGED <<user[q], held[q]>>
    BY <1>7 DEF GrantOperator, Rest, Done
  <2>. QED
    BY <2>1, <2>2 DEF Grows
<1>8. ASSUME NEW r \in Reqs, NEW u \in Users,
             DeleteUser(r, u)
      PROVE  HeldIsOidc'
  BY <1>8 DEF DeleteUser, Remove, Forget, Done
<1>9. ASSUME NEW r \in Reqs, NEW u \in Users, NEW g \in Grants,
             AssignRole(r, u, g)
      PROVE  HeldIsOidc'
  BY <1>9 DEF AssignRole, Insert, Rest, Done
<1>10. ASSUME NEW r \in Reqs, NEW u \in Users, NEW g \in Grants,
             RevokeRead(r, u, g)
      PROVE  HeldIsOidc'
  BY <1>10 DEF RevokeRead, Goto
<1>11. ASSUME NEW r \in Reqs, RevokeCount(r) PROVE HeldIsOidc'
  BY <1>11 DEF RevokeCount, Goto, Rest, Done
<1>12. ASSUME NEW r \in Reqs, RevokeDelete(r) PROVE HeldIsOidc'
  BY <1>12 DEF RevokeDelete, Remove, Forget, Done
<1>13. ASSUME NEW r \in Reqs, NEW m \in Groups \X Grants,
             CreateMapping(r, m)
      PROVE  HeldIsOidc'
  BY <1>13 DEF CreateMapping, Rest, Done
<1>14. ASSUME NEW r \in Reqs, NEW m \in Groups \X Grants,
             DeleteMapping(r, m)
      PROVE  HeldIsOidc'
  BY <1>14 DEF DeleteMapping, Rest, Done
<1>15. ASSUME NEW r \in Reqs, NEW s \in Subjects, NEW gs \in SUBSET Groups,
             SignIn(r, s, gs)
      PROVE  HeldIsOidc'
  BY <1>15 DEF SignIn, Goto
<1>16. ASSUME NEW r \in Reqs, NEW u \in Users,
             InsertJit(r, u)
      PROVE  HeldIsOidc'
  BY <1>16 DEF InsertJit, Goto
<1>17. ASSUME NEW r \in Reqs, InsertIdentity(r) PROVE HeldIsOidc'
  BY <1>17 DEF InsertIdentity, Goto, Rest, Done
<1>18. ASSUME NEW r \in Reqs, ReadMappings(r) PROVE HeldIsOidc'
  BY <1>18 DEF ReadMappings, Goto, AnotherSyncs
<1>19. ASSUME NEW r \in Reqs, ReadCurrent(r) PROVE HeldIsOidc'
  BY <1>19 DEF ReadCurrent, Goto
<1>20. ASSUME NEW r \in Reqs, NEW g \in Grants,
             SyncDelete(r, g)
      PROVE  HeldIsOidc'
  BY <1>20 DEF SyncDelete, Remove, Forget
<1>21. ASSUME NEW r \in Reqs, NEW g \in Grants,
             SyncInsert(r, g)
      PROVE  HeldIsOidc'
  <2>1. \A v \in Users, h \in Grants :
            assigned[<<v, h>>] = "oidc" => assigned'[<<v, h>>] = "oidc"
    BY <1>21, SyncInsertRow
  <2>2. \A q \in Reqs : pc'[q] = "sync" =>
            pc[q] = "sync" /\ UNCHANGED <<user[q], held[q]>>
    BY <1>21 DEF SyncInsert, Rest, Done
  <2>. QED
    BY <2>1, <2>2
<1>22. ASSUME NEW r \in Reqs, SyncFlag(r) PROVE HeldIsOidc'
  BY <1>22 DEF SyncFlag, Rest, Done
<1>23. ASSUME NEW r \in Reqs, Abort(r) PROVE HeldIsOidc'
  BY <1>23 DEF Abort, Rest, Done
<1>24. CASE Crash
  BY <1>24 DEF Crash
<1>25. ASSUME NEW u \in Users, EnsureAdmin(u) PROVE HeldIsOidc'
  BY <1>25 DEF EnsureAdmin
<1>26. CASE ListUsers
  BY <1>26 DEF ListUsers
<1>27. ASSUME NEW u \in Users, Reconcile(u) PROVE HeldIsOidc'
  BY <1>27 DEF Reconcile, Insert
<1>28. CASE Serve
  BY <1>28 DEF Serve
<1>29. CASE UNCHANGED vars
  BY <1>29 DEF vars
<1>. HIDE DEF HeldIsOidc
<1>. QED
  BY <1>1, <1>2, <1>3, <1>4, <1>5, <1>6, <1>7, <1>8, <1>9, <1>10, <1>11,
     <1>12, <1>13, <1>14, <1>15, <1>16, <1>17, <1>18, <1>19, <1>20, <1>21,
     <1>22, <1>23, <1>24, <1>25, <1>26, <1>27, <1>28, <1>29
     DEF Next, Administer, Toggle, Synchronise, Boot

\* What nobody is entitled to stays marked for deletion.
LEMMA EarnedStep ==
    TypeInv /\ TypeInv' /\ TableSound' /\ SyncPending /\ [Next]_vars
      => SyncPending'
<1>. SUFFICES ASSUME TypeInv, TypeInv', TableSound', SyncPending, [Next]_vars
             PROVE  SyncPending'
  OBVIOUS
<1>. USE AccessAssumption, SystemGrants
         DEF SyncPending, TableSound, OnlyPresentHold, Roleless, Present, Has,
         TypeInv, RequestsKnow, TypeOK, Rows, Toggling, Revoking, Syncing,
         tables, locals, ghosts, boot
<1>1. ASSUME NEW r \in Reqs, NEW a \in Users, NEW op \in Operations,
             Begin(r, a, op)
      PROVE  SyncPending'
  <2>1. \A q \in Reqs : pc[q] \in Syncing \/ pc'[q] \in Syncing =>
            UNCHANGED <<pc[q], user[q], desired[q], held[q], missing[q]>>
    BY <1>1 DEF Begin, Goto, Operations
  <2>2. \A v \in Users, h \in Grants :
            assigned'[<<v, h>>] = "oidc" => assigned[<<v, h>>] = "oidc"
    BY <1>1 DEF Begin
  <2>3. UNCHANGED earned
    BY <1>1 DEF Begin
  <2>. QED
    BY <2>1, <2>2, <2>3, PendingKept
<1>2. ASSUME NEW r \in Reqs, Refuse(r) PROVE SyncPending'
  <2>1. \A q \in Reqs : pc[q] \in Syncing \/ pc'[q] \in Syncing =>
            UNCHANGED <<pc[q], user[q], desired[q], held[q], missing[q]>>
    BY <1>2 DEF Refuse, Rest, Done, Operations
  <2>2. \A v \in Users, h \in Grants :
            assigned'[<<v, h>>] = "oidc" => assigned[<<v, h>>] = "oidc"
    BY <1>2 DEF Refuse
  <2>3. UNCHANGED earned
    BY <1>2 DEF Refuse
  <2>. QED
    BY <2>1, <2>2, <2>3, PendingKept
<1>3. ASSUME NEW r \in Reqs, NEW u \in Users, NEW admin \in BOOLEAN,
             InsertUser(r, u, admin)
      PROVE  SyncPending'
  BY <1>3 DEF InsertUser, Goto
<1>4. ASSUME NEW r \in Reqs, NEW u \in Users, NEW admin \in BOOLEAN,
             UpdateFlag(r, u, admin)
      PROVE  SyncPending'
  BY <1>4 DEF UpdateFlag, Goto
<1>5. ASSUME NEW r \in Reqs, GrantSuper(r) PROVE SyncPending'
  <2>1. \A q \in Reqs : pc[q] \in Syncing \/ pc'[q] \in Syncing =>
            UNCHANGED <<pc[q], user[q], desired[q], held[q], missing[q]>>
    BY <1>5 DEF GrantSuper, Rest, Done
  <2>2. \A v \in Users, h \in Grants :
            assigned'[<<v, h>>] = "oidc" => assigned[<<v, h>>] = "oidc"
    BY <1>5, InsertGrows DEF GrantSuper, Grows, Present
  <2>3. UNCHANGED earned
    BY <1>5 DEF GrantSuper
  <2>. QED
    BY <2>1, <2>2, <2>3, PendingKept
<1>6. ASSUME NEW r \in Reqs, DropSuper(r) PROVE SyncPending'
  BY <1>6 DEF DropSuper, Remove, Forget, Goto
<1>7. ASSUME NEW r \in Reqs, GrantOperator(r) PROVE SyncPending'
  <2>1. \A q \in Reqs : pc[q] \in Syncing \/ pc'[q] \in Syncing =>
            UNCHANGED <<pc[q], user[q], desired[q], held[q], missing[q]>>
    BY <1>7 DEF GrantOperator, Rest, Done
  <2>2. \A v \in Users, h \in Grants :
            assigned'[<<v, h>>] = "oidc" => assigned[<<v, h>>] = "oidc"
    BY <1>7, InsertGrows DEF GrantOperator, Grows, Present
  <2>3. UNCHANGED earned
    BY <1>7 DEF GrantOperator
  <2>. QED
    BY <2>1, <2>2, <2>3, PendingKept
<1>8. ASSUME NEW r \in Reqs, NEW u \in Users,
             DeleteUser(r, u)
      PROVE  SyncPending'
  BY <1>8 DEF DeleteUser, Remove, Forget, Done
<1>9. ASSUME NEW r \in Reqs, NEW u \in Users, NEW g \in Grants,
             AssignRole(r, u, g)
      PROVE  SyncPending'
  BY <1>9 DEF AssignRole, Insert, Rest, Done
<1>10. ASSUME NEW r \in Reqs, NEW u \in Users, NEW g \in Grants,
             RevokeRead(r, u, g)
      PROVE  SyncPending'
  BY <1>10 DEF RevokeRead, Goto
<1>11. ASSUME NEW r \in Reqs, RevokeCount(r) PROVE SyncPending'
  <2>1. \A q \in Reqs : pc[q] \in Syncing \/ pc'[q] \in Syncing =>
            UNCHANGED <<pc[q], user[q], desired[q], held[q], missing[q]>>
    BY <1>11 DEF RevokeCount, Goto, Rest, Done
  <2>2. \A v \in Users, h \in Grants :
            assigned'[<<v, h>>] = "oidc" => assigned[<<v, h>>] = "oidc"
    BY <1>11 DEF RevokeCount
  <2>3. UNCHANGED earned
    BY <1>11 DEF RevokeCount
  <2>. QED
    BY <2>1, <2>2, <2>3, PendingKept
<1>12. ASSUME NEW r \in Reqs, RevokeDelete(r) PROVE SyncPending'
  BY <1>12 DEF RevokeDelete, Remove, Forget, Done
<1>13. ASSUME NEW r \in Reqs, NEW m \in Groups \X Grants,
             CreateMapping(r, m)
      PROVE  SyncPending'
  BY <1>13 DEF CreateMapping, Rest, Done
<1>14. ASSUME NEW r \in Reqs, NEW m \in Groups \X Grants,
             DeleteMapping(r, m)
      PROVE  SyncPending'
  BY <1>14 DEF DeleteMapping, Rest, Done
<1>15. ASSUME NEW r \in Reqs, NEW s \in Subjects, NEW gs \in SUBSET Groups,
             SignIn(r, s, gs)
      PROVE  SyncPending'
  BY <1>15 DEF SignIn, Goto
<1>16. ASSUME NEW r \in Reqs, NEW u \in Users,
             InsertJit(r, u)
      PROVE  SyncPending'
  BY <1>16 DEF InsertJit, Goto
<1>17. ASSUME NEW r \in Reqs, InsertIdentity(r) PROVE SyncPending'
  <2>1. \A q \in Reqs : pc[q] \in Syncing \/ pc'[q] \in Syncing =>
            UNCHANGED <<pc[q], user[q], desired[q], held[q], missing[q]>>
    BY <1>17 DEF InsertIdentity, Goto, Rest, Done
  <2>2. \A v \in Users, h \in Grants :
            assigned'[<<v, h>>] = "oidc" => assigned[<<v, h>>] = "oidc"
    BY <1>17 DEF InsertIdentity
  <2>3. UNCHANGED earned
    BY <1>17 DEF InsertIdentity
  <2>. QED
    BY <2>1, <2>2, <2>3, PendingKept
<1>18. ASSUME NEW r \in Reqs, ReadMappings(r) PROVE SyncPending'
  BY <1>18, ReadMappingsPending
<1>19. ASSUME NEW r \in Reqs, ReadCurrent(r) PROVE SyncPending'
  BY <1>19 DEF ReadCurrent, Goto
<1>20. ASSUME NEW r \in Reqs, NEW g \in Grants,
             SyncDelete(r, g)
      PROVE  SyncPending'
  BY <1>20 DEF SyncDelete, Remove, Forget
<1>21. ASSUME NEW r \in Reqs, NEW g \in Grants,
             SyncInsert(r, g)
      PROVE  SyncPending'
  <2>1. CASE Present(user[r])
    <3>1. \A q \in Reqs : UNCHANGED <<pc[q], user[q], desired[q], held[q]>>
      BY <1>21, <2>1 DEF SyncInsert
    <3>2. \A q \in Reqs : missing'[q] \subseteq missing[q]
      BY <1>21, <2>1 DEF SyncInsert
    <3>3. pc[r] = "sync" /\ g \in earned[user[r]] /\ UNCHANGED earned
      BY <1>21 DEF SyncInsert
    <3>4. \A v \in Users, h \in Grants :
              assigned'[<<v, h>>] = "oidc" =>
                  assigned[<<v, h>>] = "oidc" \/ h \in earned[v]
      BY <1>21, <3>3, SyncInsertRow
    <3>. QED
      BY <3>1, <3>2, <3>3, <3>4
  <2>2. CASE ~Present(user[r])
    <3>1. UNCHANGED <<assigned, earned, life>>
      BY <1>21, <2>2 DEF SyncInsert
    <3>2. \A h \in Grants : assigned[<<user[r], h>>] = "none"
      BY <2>2, <3>1, <1>21 DEF SyncInsert
    <3>3. pc'[r] = "idle" /\ \A q \in Reqs : q # r =>
              UNCHANGED <<pc[q], user[q], desired[q], held[q], missing[q]>>
      BY <1>21, <2>2 DEF SyncInsert, Rest, Done
    <3>. QED
      BY <3>1, <3>2, <3>3
  <2>. QED
    BY <2>1, <2>2
<1>22. ASSUME NEW r \in Reqs, SyncFlag(r) PROVE SyncPending'
  BY <1>22 DEF SyncFlag, Rest, Done
<1>23. ASSUME NEW r \in Reqs, Abort(r) PROVE SyncPending'
  BY <1>23 DEF Abort, Rest, Done
<1>24. CASE Crash
  BY <1>24 DEF Crash
<1>25. ASSUME NEW u \in Users, EnsureAdmin(u) PROVE SyncPending'
  BY <1>25 DEF EnsureAdmin
<1>26. CASE ListUsers
  BY <1>26 DEF ListUsers
<1>27. ASSUME NEW u \in Users, Reconcile(u) PROVE SyncPending'
  <2>1. \A q \in Reqs : pc[q] \in Syncing \/ pc'[q] \in Syncing =>
            UNCHANGED <<pc[q], user[q], desired[q], held[q], missing[q]>>
    BY <1>27 DEF Reconcile
  <2>2. \A v \in Users, h \in Grants :
            assigned'[<<v, h>>] = "oidc" => assigned[<<v, h>>] = "oidc"
    BY <1>27, ReconcileRows
  <2>3. UNCHANGED earned
    BY <1>27 DEF Reconcile
  <2>. QED
    BY <2>1, <2>2, <2>3, PendingKept
<1>28. CASE Serve
  BY <1>28 DEF Serve
<1>29. CASE UNCHANGED vars
  BY <1>29 DEF vars
<1>. HIDE DEF SyncPending
<1>. QED
  BY <1>1, <1>2, <1>3, <1>4, <1>5, <1>6, <1>7, <1>8, <1>9, <1>10, <1>11,
     <1>12, <1>13, <1>14, <1>15, <1>16, <1>17, <1>18, <1>19, <1>20, <1>21,
     <1>22, <1>23, <1>24, <1>25, <1>26, <1>27, <1>28, <1>29
     DEF Next, Administer, Toggle, Synchronise, Boot

-----------------------------------------------------------------------------
(* The theorems.                                                           *)

\* The types, and what requests know.
LEMMA TypeInvariant == Spec => []TypeInv
<1>1. ASSUME Init PROVE TypeInv
  <2>1. TypeOK
    BY <1>1, AccessAssumption DEF Init, TypeOK
  <2>2. RequestsKnow
    BY <1>1 DEF Init, RequestsKnow, Toggling, Revoking, Syncing
  <2>. QED
    BY <2>1, <2>2 DEF TypeInv
<1>. QED
  BY <1>1, TypeInvStep, PTL DEF Spec

\* Users, assignments, identities, the boot and the requests keep their types.
THEOREM AccessTypeCorrect == Spec => []TypeOK
<1>1. TypeInv => TypeOK
  BY DEF TypeInv
<1>. QED
  BY <1>1, TypeInvariant, PTL

\* The tables, between and during boots.
LEMMA TablesSound == Spec => []TableSound
<1>1. ASSUME Init PROVE TableSound
  <2>1. OnlyPresentHold
    BY <1>1, AccessAssumption DEF Init, OnlyPresentHold, Roleless, Has, Rows
  <2>2. BootProceeds
    BY <1>1 DEF Init, BootProceeds
  <2>. QED
    BY <2>1, <2>2 DEF TableSound
<1>2. TypeInv /\ TypeInv' /\ TableSound /\ [Next]_vars => TableSound'
  BY TableStep
<1>. QED
  BY <1>1, <1>2, TypeInvariant, PTL DEF Spec

\* Nothing is granted to or linked with a user that is not there.
THEOREM OnlyUsersHold == Spec => []OnlyPresentHold
<1>1. TableSound => OnlyPresentHold
  BY DEF TableSound
<1>. QED
  BY <1>1, TablesSound, PTL

\* Wherever the server stopped before, every boot ends with a role for every
\* user and SuperAdmin for every flagged one.
THEOREM EveryBootHeals == Spec => []BootHeals
<1>1. TableSound => BootHeals
  BY DEF TableSound, BootProceeds, BootHeals
<1>. QED
  BY <1>1, TablesSound, PTL

\* Toggles, any number of them on one user, lock nobody out.
THEOREM NobodyLockedOut == Spec => []KeepsARole
<1>1. Init => KeepsARole
  BY DEF Init, KeepsARole
<1>2. /\ TypeInv /\ TypeInv' /\ TableSound /\ TableSound'
      /\ KeepsARole /\ [Next]_vars
      => KeepsARole'
  BY RoleStep
<1>. QED
  BY <1>1, <1>2, TypeInvariant, TablesSound, PTL DEF Spec

\* What a sign-in holds is an OIDC row.
LEMMA HeldRows == Spec => []HeldIsOidc
<1>1. Init => HeldIsOidc
  BY DEF Init, HeldIsOidc
<1>. QED
  BY <1>1, HeldStep, TypeInvariant, PTL DEF Spec

\* No sign-in deletes a row that was granted by hand, not even one that took
\* the place of a row it had read.
THEOREM ManualRowsSpared == Spec => SyncSparesManual
<1>1. TypeInv /\ HeldIsOidc =>
        \A r \in Reqs, g \in Grants :
            SyncDelete(r, g) => assigned[<<user[r], g>>] # "manual"
  BY DEF HeldIsOidc, SyncDelete
<1>. QED
  BY <1>1, HeldRows, TypeInvariant, PTL DEF SyncSparesManual

\* When the sign-ins of a user are over, nothing is left of earlier ones that
\* the last, or those that overlapped it, did not entitle to.
THEOREM NothingUnearned == Spec => []OnlyEarned
<1>1. Init => SyncPending
  BY DEF Init, SyncPending, Rows, Syncing
<1>2. TypeInv /\ TypeInv' /\ TableSound' /\ SyncPending /\ [Next]_vars => SyncPending'
  BY EarnedStep
<1>3. SyncPending => OnlyEarned
  BY DEF SyncPending, OnlyEarned, Syncing
<1>. QED
  BY <1>1, <1>2, <1>3, TypeInvariant, TablesSound, PTL DEF Spec

=============================================================================
