------------------------ MODULE CertLifecycleProofs ------------------------
(***************************************************************************)
(* Proofs about CertLifecycle, for any numbers of rows, requests, issued   *)
(* certificates and faults.                                                *)
(*                                                                         *)
(* The safety properties are not inductive: each speaks of the table only, *)
(* and what the next write does to the table depends on what some process  *)
(* remembers.  The invariants below relate the two, in layers; each layer  *)
(* is inductive given the ones before it.                                  *)
(***************************************************************************)
EXTENDS CertLifecycle, TLAPS

\* A process past its first read knows a row; past StartIssuing a valid
\* algorithm; past Issued a certificate made with that algorithm.
Remembers ==
    \A p \in Procs :
        /\ pc[p] \in Owning \cup {"create_retry", "renew_claim"} => row[p] \in Certs
        /\ pc[p] \in {"issuing", "issued", "stored"} => algo[p] \in Algos
        /\ pc[p] \in {"issued", "stored"} =>
              cert[p] \in Issue /\ cert[p].algo = algo[p]

\* Every row a process or the snapshot knows has been inserted.
KnownRowsExist ==
    /\ \A p \in Procs : row[p] \in Certs => status[row[p]] # "absent"
    /\ \A t \in sweep.todo : status[t.c] # "absent"

\* The status of a row follows the phase of the issuance that owns it.
StatusFollowsOwner ==
    \A c \in Certs \ unclaimed, p \in Procs :
        Owns(p, c) /\ status[c] # "deleted" =>
            /\ pc[p] \in {"claimed", "start"} => status[c] = "pending"
            /\ pc[p] \in {"issuing", "issued", "stored"} => status[c] = "issuing"
            /\ pc[p] = "failing" => status[c] \in InFlight

\* The row's algorithm and material are those of the issuance that owns it.
RowFollowsOwner ==
    \A c \in Certs \ unclaimed, p \in Procs :
        Owns(p, c) /\ status[c] # "deleted" =>
            /\ pc[p] \in {"issuing", "issued", "stored"} => key_algo[c] = algo[p]
            /\ pc[p] = "stored" => material[c] = cert[p]

\* An issuance about to activate its row has stored key material in it.
StoredBeforeActive ==
    \A p \in Procs :
        pc[p] = "stored" /\ status[row[p]] # "deleted" =>
            material[row[p]] # NoMaterial

\* The rows whose alerts are counted; see AlertOncePerOutage.
Counted(c) == faults = 0 \/ c \notin unclaimed

\* No mail has gone out for a row that is active, or that the due pass has
\* yet to try or is trying; the snapshot names a row once.
AlertsPending ==
    /\ \A c \in Certs : Counted(c) /\ status[c] = "active" => alerts[c] = 0
    /\ sweep.pass = "due" =>
          /\ \A t \in sweep.todo : Counted(t.c) => alerts[t.c] = 0
          /\ pc[Sched] \in Owning =>
                /\ Counted(row[Sched]) => alerts[row[Sched]] = 0
                /\ \A t \in sweep.todo : t.c # row[Sched]
    /\ \A s, t \in sweep.todo : s.c = t.c => s = t

IInv ==
    /\ TypeOK /\ Remembers /\ KnownRowsExist
    /\ SingleIssuer /\ StatusFollowsOwner
    /\ RowFollowsOwner /\ RowDescribesMaterial
    /\ StoredBeforeActive /\ ActiveIsServable
    /\ InFlightHasIssuer
    /\ AlertsPending /\ AlertOncePerOutage

-----------------------------------------------------------------------------
(* Type correctness, and what processes remember.                          *)

TypeInv == TypeOK /\ Remembers

\* The type invariant and Remembers are preserved by every step.
LEMMA TypeInvStep == TypeInv /\ [Next]_vars => TypeInv'
<1>. SUFFICES ASSUME TypeInv, [Next]_vars PROVE TypeInv'
  OBVIOUS
<1>. USE CertLifecycleAssumption
     DEF TypeInv, TypeOK, Remembers, Procs, Statuses, InFlight, AlgoOpt, Issue,
         IssueOpt, Handling, Owning, Phases, Snapshot, Exists, SetColumn, Rest,
         tableVars, worldVars, procVars, obsVars
<1>1. ASSUME NEW r \in Reqs, NEW n \in Names, CreateBegin(r, n) PROVE TypeInv'
  BY <1>1 DEF CreateBegin
<1>2. ASSUME NEW r \in Reqs, CreateInFlight(r) PROVE TypeInv'
  BY <1>2 DEF CreateInFlight
<1>3. ASSUME NEW r \in Reqs, CreateFailed(r) PROVE TypeInv'
  BY <1>3 DEF CreateFailed, Matching
<1>4. ASSUME NEW r \in Reqs, CreateRetry(r) PROVE TypeInv'
  BY <1>4 DEF CreateRetry, NoteUnclaimed
<1>5. ASSUME NEW r \in Reqs, NEW c \in Certs, NEW auto \in BOOLEAN,
             NEW a \in AlgoOpt, CreateInsert(r, c, auto, a)
      PROVE  TypeInv'
  BY <1>5 DEF CreateInsert
<1>6. ASSUME NEW r \in Reqs, NEW c \in Certs, RenewFetch(r, c) PROVE TypeInv'
  BY <1>6 DEF RenewFetch
<1>7. ASSUME NEW r \in Reqs, NEW a \in AlgoOpt, RenewClaim(r, a) PROVE TypeInv'
  BY <1>7 DEF RenewClaim
<1>8. ASSUME NEW r \in Reqs, RenewConflict(r) PROVE TypeInv'
  BY <1>8 DEF RenewConflict
<1>9. ASSUME NEW c \in Certs, Delete(c) PROVE TypeInv'
  BY <1>9 DEF Delete
<1>10. ASSUME NEW c \in Certs, UpdateAutoRenew(c) PROVE TypeInv'
  BY <1>10 DEF UpdateAutoRenew
<1>11. ASSUME NEW r \in Reqs, HandlerEnds(r) PROVE TypeInv'
  BY <1>11 DEF HandlerEnds
<1>12. ASSUME NEW r \in Reqs, Spawn(r) PROVE TypeInv'
  BY <1>12 DEF Spawn
<1>13. ASSUME NEW p \in Procs, StartIssuing(p) PROVE TypeInv'
  BY <1>13 DEF StartIssuing, Resolve
<1>14. ASSUME NEW p \in Procs, Issued(p) PROVE TypeInv'
  BY <1>14 DEF Issued
<1>15. ASSUME NEW p \in Procs, StoreIssuedCert(p) PROVE TypeInv'
  BY <1>15 DEF StoreIssuedCert
<1>16. ASSUME NEW p \in Procs, Activate(p) PROVE TypeInv'
  BY <1>16 DEF Activate
<1>17. ASSUME NEW p \in Procs, StepFails(p) PROVE TypeInv'
  BY <1>17 DEF StepFails
<1>18. ASSUME NEW p \in Procs, MarkFailed(p) PROVE TypeInv'
  BY <1>18 DEF MarkFailed
<1>19. CASE SweepDue
  BY <1>19 DEF SweepDue, SnapshotOf
<1>20. CASE SweepRetry
  BY <1>20 DEF SweepRetry, SnapshotOf
<1>21. CASE SweepEnd
  BY <1>21 DEF SweepEnd
<1>22. ASSUME NEW t \in sweep.todo, RenewCert(t) PROVE TypeInv'
  BY <1>22 DEF RenewCert, PickNext, NoteUnclaimed
<1>23. ASSUME NEW r \in Reqs, DropHandler(r) PROVE TypeInv'
  BY <1>23 DEF DropHandler, Fault
<1>24. ASSUME NEW p \in Procs, MarkFailedLost(p) PROVE TypeInv'
  BY <1>24 DEF MarkFailedLost, Fault
<1>25. ASSUME NEW t \in sweep.todo, RenewCertUnmarked(t) PROVE TypeInv'
  BY <1>25 DEF RenewCertUnmarked, PickNext, Fault
<1>26. CASE SweepAborts
  BY <1>26 DEF SweepAborts, Fault
<1>27. CASE Crash
  BY <1>27 DEF Crash, Fault
<1>28. ASSUME NEW c \in Certs, Age(c) PROVE TypeInv'
  BY <1>28 DEF Age
<1>29. CASE UNCHANGED vars
  BY <1>29 DEF vars
<1>. HIDE DEF TypeInv, TypeOK, Remembers, Statuses, InFlight, Issue, IssueOpt,
         Handling, Owning, Phases, Snapshot, Exists, SetColumn, Rest,
         tableVars, worldVars, procVars, obsVars
<1>. QED
  BY <1>1, <1>2, <1>3, <1>4, <1>5, <1>6, <1>7, <1>8, <1>9, <1>10, <1>11, <1>12,
     <1>13, <1>14, <1>15, <1>16, <1>17, <1>18, <1>19, <1>20, <1>21, <1>22,
     <1>23, <1>24, <1>25, <1>26, <1>27, <1>28, <1>29
     DEF Next, Clients, Handler, RunIssuance, Scheduler, Faults

-----------------------------------------------------------------------------
(* Claims: who may write the status of a row.                              *)

ClaimInv == KnownRowsExist /\ SingleIssuer /\ StatusFollowsOwner

\* A step that makes a process an owner either finds the row at rest (the claim
\* of renew, the insert) or records it in `unclaimed`; a step of an owner moves
\* the row as its phase says.
LEMMA ClaimInvStep ==
    TypeInv /\ TypeInv' /\ ClaimInv /\ [Next]_vars
      => ClaimInv'
<1>. SUFFICES ASSUME TypeInv, TypeInv', ClaimInv, [Next]_vars
             PROVE  ClaimInv'
  OBVIOUS
<1>. USE CertLifecycleAssumption
         DEF TypeInv, TypeOK, Remembers, ClaimInv, KnownRowsExist, SingleIssuer,
         StatusFollowsOwner, Owns, Procs, InFlight, Handling, Owning, Phases,
         Snapshot, Exists, SetColumn, Rest, tableVars, worldVars, procVars,
         obsVars
<1>1. ASSUME NEW r \in Reqs, NEW n \in Names,
             CreateBegin(r, n)
      PROVE  ClaimInv'
  BY <1>1 DEF CreateBegin
<1>2. ASSUME NEW r \in Reqs,
             CreateInFlight(r) \/ CreateFailed(r) \/ RenewConflict(r)
             \/ HandlerEnds(r) \/ Spawn(r) \/ DropHandler(r)
      PROVE  ClaimInv'
  BY <1>2 DEF CreateInFlight, CreateFailed, Matching, RenewConflict, Claimable,
         HandlerEnds, Spawn, DropHandler, Fault
<1>3. ASSUME NEW r \in Reqs, CreateRetry(r) PROVE ClaimInv'
  BY <1>3 DEF CreateRetry, NoteUnclaimed, Owned
<1>4. ASSUME NEW r \in Reqs, NEW c \in Certs, NEW auto \in BOOLEAN, NEW a \in AlgoOpt,
             CreateInsert(r, c, auto, a)
      PROVE  ClaimInv'
  BY <1>4 DEF CreateInsert
<1>5. ASSUME NEW r \in Reqs, NEW c \in Certs, RenewFetch(r, c) PROVE ClaimInv'
  BY <1>5 DEF RenewFetch
<1>6. ASSUME NEW r \in Reqs, NEW a \in AlgoOpt,
             RenewClaim(r, a)
      PROVE  ClaimInv'
  BY <1>6 DEF RenewClaim, Claimable
<1>7. ASSUME NEW c \in Certs, Delete(c) PROVE ClaimInv'
  BY <1>7 DEF Delete
<1>8. ASSUME NEW c \in Certs,
             UpdateAutoRenew(c) \/ Age(c)
      PROVE  ClaimInv'
  BY <1>8 DEF UpdateAutoRenew, Age
<1>9. ASSUME NEW p \in Procs, StartIssuing(p) PROVE ClaimInv'
  BY <1>9 DEF StartIssuing, Resolve
<1>10. ASSUME NEW p \in Procs,
             Issued(p) \/ StoreIssuedCert(p) \/ StepFails(p)
      PROVE  ClaimInv'
  BY <1>10 DEF Issued, StoreIssuedCert, StepFails
<1>11. ASSUME NEW p \in Procs, Activate(p) PROVE ClaimInv'
  BY <1>11 DEF Activate
<1>12. ASSUME NEW p \in Procs,
             MarkFailed(p) \/ MarkFailedLost(p)
      PROVE  ClaimInv'
  BY <1>12 DEF MarkFailed, Notifies, MarkFailedLost, Fault
<1>13. CASE SweepDue \/ SweepRetry \/ SweepEnd \/ SweepAborts
  BY <1>13 DEF SweepDue, SnapshotOf, IsDue, SweepRetry, IsRetryable, SweepEnd,
         SweepAborts, Fault
<1>14. ASSUME NEW t \in sweep.todo,
             RenewCert(t) \/ RenewCertUnmarked(t)
      PROVE  ClaimInv'
  BY <1>14 DEF RenewCert, PickNext, NoteUnclaimed, Owned, RenewCertUnmarked, Fault
<1>15. CASE Crash
  BY <1>15 DEF Crash, Fault
<1>16. CASE UNCHANGED vars
  BY <1>16 DEF vars
<1>. HIDE DEF TypeInv, TypeOK, Remembers, ClaimInv, KnownRowsExist, SingleIssuer,
         StatusFollowsOwner, Owns, InFlight, Handling, Owning, Phases,
         Snapshot, Exists, SetColumn, Rest, tableVars, worldVars, procVars,
         obsVars
<1>. QED
  BY <1>1, <1>2, <1>3, <1>4, <1>5, <1>6, <1>7, <1>8, <1>9, <1>10, <1>11,
     <1>12, <1>13, <1>14, <1>15, <1>16
     DEF Next, Clients, Handler, RunIssuance, Scheduler, Faults

-----------------------------------------------------------------------------
(* What an active row says of its certificate.                             *)

RowInv == RowFollowsOwner /\ RowDescribesMaterial

\* Between StartIssuing and Activate only the row's one owner writes its
\* algorithm, material and expiry.
LEMMA RowInvStep ==
    TypeInv /\ TypeInv' /\ ClaimInv /\ ClaimInv' /\ RowInv /\ [Next]_vars
      => RowInv'
<1>. SUFFICES ASSUME TypeInv, TypeInv', ClaimInv, ClaimInv', RowInv, [Next]_vars
             PROVE  RowInv'
  OBVIOUS
<1>. USE CertLifecycleAssumption
         DEF TypeInv, TypeOK, Remembers, ClaimInv, KnownRowsExist, SingleIssuer,
         StatusFollowsOwner, RowInv, RowFollowsOwner, RowDescribesMaterial,
         Owns, Procs, InFlight, Handling, Owning, Phases, Snapshot, Exists,
         SetColumn, Rest, tableVars, worldVars, procVars, obsVars, AlgoOpt,
         Issue, IssueOpt
<1>1. ASSUME NEW r \in Reqs, NEW n \in Names, CreateBegin(r, n) PROVE RowInv'
  BY <1>1 DEF CreateBegin
<1>2. ASSUME NEW r \in Reqs,
             CreateInFlight(r) \/ CreateFailed(r) \/ RenewConflict(r)
             \/ HandlerEnds(r) \/ Spawn(r) \/ DropHandler(r)
      PROVE  RowInv'
  BY <1>2 DEF CreateInFlight, CreateFailed, Matching, RenewConflict, Claimable,
         HandlerEnds, Spawn, DropHandler, Fault
<1>3. ASSUME NEW r \in Reqs, CreateRetry(r) PROVE RowInv'
  BY <1>3 DEF CreateRetry, NoteUnclaimed, Owned
<1>4. ASSUME NEW r \in Reqs, NEW c \in Certs, NEW auto \in BOOLEAN, NEW a \in AlgoOpt,
             CreateInsert(r, c, auto, a)
      PROVE  RowInv'
  <2>1. RowFollowsOwner'
    BY <1>4 DEF CreateInsert
  <2>2. RowDescribesMaterial'
    BY <1>4 DEF CreateInsert
  <2>. QED
    BY <2>1, <2>2
<1>5. ASSUME NEW r \in Reqs, NEW c \in Certs, RenewFetch(r, c) PROVE RowInv'
  BY <1>5 DEF RenewFetch
<1>6. ASSUME NEW r \in Reqs, NEW a \in AlgoOpt, RenewClaim(r, a) PROVE RowInv'
  BY <1>6 DEF RenewClaim, Claimable
<1>7. ASSUME NEW c \in Certs, Delete(c) PROVE RowInv'
  BY <1>7 DEF Delete
<1>8. ASSUME NEW c \in Certs,
             UpdateAutoRenew(c) \/ Age(c)
      PROVE  RowInv'
  BY <1>8 DEF UpdateAutoRenew, Age
<1>9. ASSUME NEW p \in Procs, StartIssuing(p) PROVE RowInv'
  <2>1. RowFollowsOwner'
    BY <1>9 DEF StartIssuing, Resolve
  <2>2. RowDescribesMaterial'
    BY <1>9 DEF StartIssuing, Resolve
  <2>. QED
    BY <2>1, <2>2
<1>10. ASSUME NEW p \in Procs,
             Issued(p) \/ StoreIssuedCert(p) \/ StepFails(p)
      PROVE  RowInv'
  <2>1. RowFollowsOwner'
    BY <1>10 DEF Issued, StoreIssuedCert, StepFails
  <2>2. RowDescribesMaterial'
    BY <1>10 DEF Issued, StoreIssuedCert, StepFails
  <2>. QED
    BY <2>1, <2>2
<1>11. ASSUME NEW p \in Procs, Activate(p) PROVE RowInv'
  <2>1. RowFollowsOwner'
    BY <1>11 DEF Activate
  <2>2. RowDescribesMaterial'
    BY <1>11 DEF Activate
  <2>. QED
    BY <2>1, <2>2
<1>12. ASSUME NEW p \in Procs,
             MarkFailed(p) \/ MarkFailedLost(p)
      PROVE  RowInv'
  BY <1>12 DEF MarkFailed, Notifies, MarkFailedLost, Fault
<1>13. CASE SweepDue \/ SweepRetry \/ SweepEnd \/ SweepAborts
  BY <1>13 DEF SweepDue, SnapshotOf, IsDue, SweepRetry, IsRetryable, SweepEnd,
         SweepAborts, Fault
<1>14. ASSUME NEW t \in sweep.todo,
             RenewCert(t) \/ RenewCertUnmarked(t)
      PROVE  RowInv'
  BY <1>14 DEF RenewCert, PickNext, NoteUnclaimed, Owned, RenewCertUnmarked, Fault
<1>15. CASE Crash
  BY <1>15 DEF Crash, Fault
<1>16. CASE UNCHANGED vars
  BY <1>16 DEF vars
<1>. HIDE DEF TypeInv, TypeOK, Remembers, ClaimInv, KnownRowsExist, SingleIssuer,
         StatusFollowsOwner, RowInv, RowFollowsOwner, RowDescribesMaterial,
         Owns, InFlight, Handling, Owning, Phases, Snapshot, Exists,
         SetColumn, Rest, tableVars, worldVars, procVars, obsVars, AlgoOpt,
         Issue, IssueOpt
<1>. QED
  BY <1>1, <1>2, <1>3, <1>4, <1>5, <1>6, <1>7, <1>8, <1>9, <1>10, <1>11,
     <1>12, <1>13, <1>14, <1>15, <1>16
     DEF Next, Clients, Handler, RunIssuance, Scheduler, Faults

-----------------------------------------------------------------------------
(* The material is there before the row is active.                         *)

ServeInv == StoredBeforeActive /\ ActiveIsServable

\* Even with several owners: once stored, the material of a row that exists is
\* only ever replaced.
LEMMA ServeInvStep ==
    TypeInv /\ TypeInv' /\ KnownRowsExist /\ ServeInv /\ [Next]_vars
      => ServeInv'
<1>. SUFFICES ASSUME TypeInv, TypeInv', KnownRowsExist, ServeInv, [Next]_vars
             PROVE  ServeInv'
  OBVIOUS
<1>. USE CertLifecycleAssumption
         DEF TypeInv, TypeOK, Remembers, KnownRowsExist, ServeInv,
         StoredBeforeActive, ActiveIsServable, Owns, Procs, InFlight,
         Handling, Owning, Phases, Snapshot, Exists, SetColumn, Rest,
         tableVars, worldVars, procVars, obsVars, Issue, IssueOpt
<1>1. ASSUME NEW r \in Reqs, NEW n \in Names,
             CreateBegin(r, n)
      PROVE  ServeInv'
  BY <1>1 DEF CreateBegin
<1>2. ASSUME NEW r \in Reqs,
             CreateInFlight(r) \/ CreateFailed(r) \/ RenewConflict(r)
             \/ HandlerEnds(r) \/ Spawn(r) \/ DropHandler(r)
      PROVE  ServeInv'
  BY <1>2 DEF CreateInFlight, CreateFailed, Matching, RenewConflict, Claimable,
         HandlerEnds, Spawn, DropHandler, Fault
<1>3. ASSUME NEW r \in Reqs, CreateRetry(r) PROVE ServeInv'
  BY <1>3 DEF CreateRetry, NoteUnclaimed, Owned
<1>4. ASSUME NEW r \in Reqs, NEW c \in Certs, NEW auto \in BOOLEAN, NEW a \in AlgoOpt,
             CreateInsert(r, c, auto, a)
      PROVE  ServeInv'
  BY <1>4 DEF CreateInsert
<1>5. ASSUME NEW r \in Reqs, NEW c \in Certs, RenewFetch(r, c) PROVE ServeInv'
  BY <1>5 DEF RenewFetch
<1>6. ASSUME NEW r \in Reqs, NEW a \in AlgoOpt,
             RenewClaim(r, a)
      PROVE  ServeInv'
  BY <1>6 DEF RenewClaim, Claimable
<1>7. ASSUME NEW c \in Certs, Delete(c) PROVE ServeInv'
  BY <1>7 DEF Delete
<1>8. ASSUME NEW c \in Certs,
             UpdateAutoRenew(c) \/ Age(c)
      PROVE  ServeInv'
  BY <1>8 DEF UpdateAutoRenew, Age
<1>9. ASSUME NEW p \in Procs, StartIssuing(p) PROVE ServeInv'
  BY <1>9 DEF StartIssuing, Resolve
<1>10. ASSUME NEW p \in Procs,
             Issued(p) \/ StoreIssuedCert(p) \/ StepFails(p)
      PROVE  ServeInv'
  BY <1>10 DEF Issued, StoreIssuedCert, StepFails
<1>11. ASSUME NEW p \in Procs, Activate(p) PROVE ServeInv'
  BY <1>11 DEF Activate
<1>12. ASSUME NEW p \in Procs,
             MarkFailed(p) \/ MarkFailedLost(p)
      PROVE  ServeInv'
  BY <1>12 DEF MarkFailed, Notifies, MarkFailedLost, Fault
<1>13. CASE SweepDue \/ SweepRetry \/ SweepEnd \/ SweepAborts
  BY <1>13 DEF SweepDue, SnapshotOf, IsDue, SweepRetry, IsRetryable, SweepEnd,
         SweepAborts, Fault
<1>14. ASSUME NEW t \in sweep.todo,
             RenewCert(t) \/ RenewCertUnmarked(t)
      PROVE  ServeInv'
  BY <1>14 DEF RenewCert, PickNext, NoteUnclaimed, Owned, RenewCertUnmarked, Fault
<1>15. CASE Crash
  BY <1>15 DEF Crash, Fault
<1>16. CASE UNCHANGED vars
  BY <1>16 DEF vars
<1>. HIDE DEF TypeInv, TypeOK, Remembers, KnownRowsExist, ServeInv,
         StoredBeforeActive, ActiveIsServable, Owns, InFlight, Handling,
         Owning, Phases, Snapshot, Exists, SetColumn, Rest, tableVars,
         worldVars, procVars, obsVars, Issue, IssueOpt
<1>. QED
  BY <1>1, <1>2, <1>3, <1>4, <1>5, <1>6, <1>7, <1>8, <1>9, <1>10, <1>11,
     <1>12, <1>13, <1>14, <1>15, <1>16
     DEF Next, Clients, Handler, RunIssuance, Scheduler, Faults

-----------------------------------------------------------------------------
(* No row in flight without an owner.                                      *)

\* Whoever puts a row in flight owns it, and the last step of an owner settles
\* the row.
LEMMA InFlightHasIssuerStep ==
    TypeInv /\ TypeInv' /\ InFlightHasIssuer /\ [Next]_vars
      => InFlightHasIssuer'
<1>. SUFFICES ASSUME TypeInv, TypeInv', InFlightHasIssuer, [Next]_vars
             PROVE  InFlightHasIssuer'
  OBVIOUS
<1>. USE CertLifecycleAssumption
         DEF TypeInv, TypeOK, Remembers, InFlightHasIssuer, Owned, Owns, Procs,
         InFlight, Handling, Owning, Phases, Snapshot, Exists, SetColumn,
         Rest, tableVars, worldVars, procVars, obsVars
<1>1. ASSUME NEW r \in Reqs, NEW n \in Names,
             CreateBegin(r, n)
      PROVE  InFlightHasIssuer'
  BY <1>1 DEF CreateBegin
<1>2. ASSUME NEW r \in Reqs,
             CreateInFlight(r) \/ CreateFailed(r) \/ RenewConflict(r)
             \/ HandlerEnds(r) \/ Spawn(r) \/ DropHandler(r)
      PROVE  InFlightHasIssuer'
  BY <1>2 DEF CreateInFlight, CreateFailed, Matching, RenewConflict, Claimable,
         HandlerEnds, Spawn, DropHandler, Fault
<1>3. ASSUME NEW r \in Reqs, CreateRetry(r) PROVE InFlightHasIssuer'
  BY <1>3 DEF CreateRetry, NoteUnclaimed, Owned
<1>4. ASSUME NEW r \in Reqs, NEW c \in Certs, NEW auto \in BOOLEAN, NEW a \in AlgoOpt,
             CreateInsert(r, c, auto, a)
      PROVE  InFlightHasIssuer'
  BY <1>4 DEF CreateInsert
<1>5. ASSUME NEW r \in Reqs, NEW c \in Certs,
             RenewFetch(r, c)
      PROVE  InFlightHasIssuer'
  BY <1>5 DEF RenewFetch
<1>6. ASSUME NEW r \in Reqs, NEW a \in AlgoOpt,
             RenewClaim(r, a)
      PROVE  InFlightHasIssuer'
  BY <1>6 DEF RenewClaim, Claimable
<1>7. ASSUME NEW c \in Certs, Delete(c) PROVE InFlightHasIssuer'
  BY <1>7 DEF Delete
<1>8. ASSUME NEW c \in Certs,
             UpdateAutoRenew(c) \/ Age(c)
      PROVE  InFlightHasIssuer'
  BY <1>8 DEF UpdateAutoRenew, Age
<1>9. ASSUME NEW p \in Procs, StartIssuing(p) PROVE InFlightHasIssuer'
  BY <1>9 DEF StartIssuing, Resolve
<1>10. ASSUME NEW p \in Procs,
             Issued(p) \/ StoreIssuedCert(p) \/ StepFails(p)
      PROVE  InFlightHasIssuer'
  BY <1>10 DEF Issued, StoreIssuedCert, StepFails
<1>11. ASSUME NEW p \in Procs, Activate(p) PROVE InFlightHasIssuer'
  BY <1>11 DEF Activate
<1>12. ASSUME NEW p \in Procs,
             MarkFailed(p) \/ MarkFailedLost(p)
      PROVE  InFlightHasIssuer'
  BY <1>12 DEF MarkFailed, Notifies, MarkFailedLost, Fault
<1>13. CASE SweepDue \/ SweepRetry \/ SweepEnd \/ SweepAborts
  BY <1>13 DEF SweepDue, SnapshotOf, IsDue, SweepRetry, IsRetryable, SweepEnd,
         SweepAborts, Fault
<1>14. ASSUME NEW t \in sweep.todo,
             RenewCert(t) \/ RenewCertUnmarked(t)
      PROVE  InFlightHasIssuer'
  BY <1>14 DEF RenewCert, PickNext, NoteUnclaimed, Owned, RenewCertUnmarked, Fault
<1>15. CASE Crash
  BY <1>15 DEF Crash, Fault
<1>16. CASE UNCHANGED vars
  BY <1>16 DEF vars
<1>. HIDE DEF TypeInv, TypeOK, Remembers, InFlightHasIssuer, Owned, Owns, InFlight,
         Handling, Owning, Phases, Snapshot, Exists, SetColumn, Rest,
         tableVars, worldVars, procVars, obsVars
<1>. QED
  BY <1>1, <1>2, <1>3, <1>4, <1>5, <1>6, <1>7, <1>8, <1>9, <1>10, <1>11,
     <1>12, <1>13, <1>14, <1>15, <1>16
     DEF Next, Clients, Handler, RunIssuance, Scheduler, Faults

-----------------------------------------------------------------------------
(* Alerts.                                                                 *)

AlertInv == AlertsPending /\ AlertOncePerOutage

\* A mail goes out only for a row the due pass is trying, and that row leaves
\* the pass for good with it.
LEMMA AlertInvStep ==
    TypeInv /\ TypeInv' /\ ClaimInv /\ AlertInv /\ [Next]_vars
      => AlertInv'
<1>. SUFFICES ASSUME TypeInv, TypeInv', ClaimInv, AlertInv, [Next]_vars
             PROVE  AlertInv'
  OBVIOUS
<1>. USE CertLifecycleAssumption
         DEF TypeInv, TypeOK, Remembers, ClaimInv, KnownRowsExist, SingleIssuer,
         StatusFollowsOwner, AlertInv, AlertsPending, AlertOncePerOutage,
         Counted, Owns, Procs, InFlight, Handling, Owning, Phases, Snapshot,
         Exists, SetColumn, Rest, tableVars, worldVars, procVars, obsVars
<1>1. ASSUME NEW r \in Reqs, NEW n \in Names,
             CreateBegin(r, n)
      PROVE  AlertInv'
  BY <1>1 DEF CreateBegin
<1>2. ASSUME NEW r \in Reqs,
             CreateInFlight(r) \/ CreateFailed(r) \/ RenewConflict(r)
             \/ HandlerEnds(r) \/ Spawn(r) \/ DropHandler(r)
      PROVE  AlertInv'
  BY <1>2 DEF CreateInFlight, CreateFailed, Matching, RenewConflict, Claimable,
         HandlerEnds, Spawn, DropHandler, Fault
<1>3. ASSUME NEW r \in Reqs, CreateRetry(r) PROVE AlertInv'
  BY <1>3 DEF CreateRetry, NoteUnclaimed, Owned
<1>4. ASSUME NEW r \in Reqs, NEW c \in Certs, NEW auto \in BOOLEAN, NEW a \in AlgoOpt,
             CreateInsert(r, c, auto, a)
      PROVE  AlertInv'
  BY <1>4 DEF CreateInsert
<1>5. ASSUME NEW r \in Reqs, NEW c \in Certs, RenewFetch(r, c) PROVE AlertInv'
  BY <1>5 DEF RenewFetch
<1>6. ASSUME NEW r \in Reqs, NEW a \in AlgoOpt,
             RenewClaim(r, a)
      PROVE  AlertInv'
  BY <1>6 DEF RenewClaim, Claimable
<1>7. ASSUME NEW c \in Certs, Delete(c) PROVE AlertInv'
  BY <1>7 DEF Delete
<1>8. ASSUME NEW c \in Certs,
             UpdateAutoRenew(c) \/ Age(c)
      PROVE  AlertInv'
  BY <1>8 DEF UpdateAutoRenew, Age
<1>9. ASSUME NEW p \in Procs, StartIssuing(p) PROVE AlertInv'
  BY <1>9 DEF StartIssuing, Resolve
<1>10. ASSUME NEW p \in Procs,
             Issued(p) \/ StoreIssuedCert(p) \/ StepFails(p)
      PROVE  AlertInv'
  BY <1>10 DEF Issued, StoreIssuedCert, StepFails
<1>11. ASSUME NEW p \in Procs, Activate(p) PROVE AlertInv'
  BY <1>11 DEF Activate
<1>12. ASSUME NEW p \in Procs,
             MarkFailed(p) \/ MarkFailedLost(p)
      PROVE  AlertInv'
  BY <1>12 DEF MarkFailed, Notifies, MarkFailedLost, Fault
<1>13. CASE SweepDue \/ SweepRetry \/ SweepEnd \/ SweepAborts
  BY <1>13 DEF SweepDue, SnapshotOf, IsDue, SweepRetry, IsRetryable, SweepEnd,
         SweepAborts, Fault
<1>14. ASSUME NEW t \in sweep.todo,
             RenewCert(t) \/ RenewCertUnmarked(t)
      PROVE  AlertInv'
  BY <1>14 DEF RenewCert, PickNext, NoteUnclaimed, Owned, RenewCertUnmarked, Fault
<1>15. CASE Crash
  BY <1>15 DEF Crash, Fault
<1>16. CASE UNCHANGED vars
  BY <1>16 DEF vars
<1>. HIDE DEF TypeInv, TypeOK, Remembers, ClaimInv, KnownRowsExist, SingleIssuer,
         StatusFollowsOwner, AlertInv, AlertsPending, AlertOncePerOutage,
         Counted, Owns, InFlight, Handling, Owning, Phases, Snapshot, Exists,
         SetColumn, Rest, tableVars, worldVars, procVars, obsVars
<1>. QED
  BY <1>1, <1>2, <1>3, <1>4, <1>5, <1>6, <1>7, <1>8, <1>9, <1>10, <1>11,
     <1>12, <1>13, <1>14, <1>15, <1>16
     DEF Next, Clients, Handler, RunIssuance, Scheduler, Faults

-----------------------------------------------------------------------------
(* Deletion, and the pipeline, as statements about one step.              *)

\* A deleted row holds no key material.
DeletedIsEmpty ==
    \A c \in Certs : status[c] = "deleted" => material[c] = NoMaterial

\* No statement of the code touches a row that is no longer in the table.
LEMMA DeletedStaysStep ==
    TypeInv /\ DeletedIsEmpty /\ [Next]_vars
      => DeletedStays
<1>. SUFFICES ASSUME TypeInv, DeletedIsEmpty, [Next]_vars
             PROVE  DeletedStays
  OBVIOUS
<1>. USE CertLifecycleAssumption
         DEF TypeInv, TypeOK, Remembers, DeletedIsEmpty, DeletedStays, Owns,
         Procs, InFlight, Handling, Owning, Phases, Snapshot, Exists,
         SetColumn, Rest, tableVars, worldVars, procVars, obsVars
<1>1. ASSUME NEW r \in Reqs, NEW n \in Names,
             CreateBegin(r, n)
      PROVE  DeletedStays
  BY <1>1 DEF CreateBegin
<1>2. ASSUME NEW r \in Reqs,
             CreateInFlight(r) \/ CreateFailed(r) \/ RenewConflict(r)
             \/ HandlerEnds(r) \/ Spawn(r) \/ DropHandler(r)
      PROVE  DeletedStays
  BY <1>2 DEF CreateInFlight, CreateFailed, Matching, RenewConflict, Claimable,
         HandlerEnds, Spawn, DropHandler, Fault
<1>3. ASSUME NEW r \in Reqs, CreateRetry(r) PROVE DeletedStays
  BY <1>3 DEF CreateRetry, NoteUnclaimed, Owned
<1>4. ASSUME NEW r \in Reqs, NEW c \in Certs, NEW auto \in BOOLEAN, NEW a \in AlgoOpt,
             CreateInsert(r, c, auto, a)
      PROVE  DeletedStays
  BY <1>4 DEF CreateInsert
<1>5. ASSUME NEW r \in Reqs, NEW c \in Certs,
             RenewFetch(r, c)
      PROVE  DeletedStays
  BY <1>5 DEF RenewFetch
<1>6. ASSUME NEW r \in Reqs, NEW a \in AlgoOpt,
             RenewClaim(r, a)
      PROVE  DeletedStays
  BY <1>6 DEF RenewClaim, Claimable
<1>7. ASSUME NEW c \in Certs, Delete(c) PROVE DeletedStays
  BY <1>7 DEF Delete
<1>8. ASSUME NEW c \in Certs,
             UpdateAutoRenew(c) \/ Age(c)
      PROVE  DeletedStays
  BY <1>8 DEF UpdateAutoRenew, Age
<1>9. ASSUME NEW p \in Procs, StartIssuing(p) PROVE DeletedStays
  BY <1>9 DEF StartIssuing, Resolve
<1>10. ASSUME NEW p \in Procs,
             Issued(p) \/ StoreIssuedCert(p) \/ StepFails(p)
      PROVE  DeletedStays
  BY <1>10 DEF Issued, StoreIssuedCert, StepFails
<1>11. ASSUME NEW p \in Procs, Activate(p) PROVE DeletedStays
  BY <1>11 DEF Activate
<1>12. ASSUME NEW p \in Procs,
             MarkFailed(p) \/ MarkFailedLost(p)
      PROVE  DeletedStays
  BY <1>12 DEF MarkFailed, Notifies, MarkFailedLost, Fault
<1>13. CASE SweepDue \/ SweepRetry \/ SweepEnd \/ SweepAborts
  BY <1>13 DEF SweepDue, SnapshotOf, IsDue, SweepRetry, IsRetryable, SweepEnd,
         SweepAborts, Fault
<1>14. ASSUME NEW t \in sweep.todo,
             RenewCert(t) \/ RenewCertUnmarked(t)
      PROVE  DeletedStays
  BY <1>14 DEF RenewCert, PickNext, NoteUnclaimed, Owned, RenewCertUnmarked, Fault
<1>15. CASE Crash
  BY <1>15 DEF Crash, Fault
<1>16. CASE UNCHANGED vars
  BY <1>16 DEF vars
<1>. HIDE DEF TypeInv, TypeOK, Remembers, DeletedIsEmpty, DeletedStays, Owns,
         InFlight, Handling, Owning, Phases, Snapshot, Exists, SetColumn,
         Rest, tableVars, worldVars, procVars, obsVars
<1>. QED
  BY <1>1, <1>2, <1>3, <1>4, <1>5, <1>6, <1>7, <1>8, <1>9, <1>10, <1>11,
     <1>12, <1>13, <1>14, <1>15, <1>16
     DEF Next, Clients, Handler, RunIssuance, Scheduler, Faults

\* Deletion empties the row, and it stays empty.
LEMMA DeletedIsEmptyStep ==
    TypeInv /\ DeletedIsEmpty /\ [Next]_vars
      => DeletedIsEmpty'
<1>. SUFFICES ASSUME TypeInv, DeletedIsEmpty, [Next]_vars
             PROVE  DeletedIsEmpty'
  OBVIOUS
<1>. USE CertLifecycleAssumption
         DEF TypeInv, TypeOK, Remembers, DeletedIsEmpty, DeletedStays, Owns,
         Procs, InFlight, Handling, Owning, Phases, Snapshot, Exists,
         SetColumn, Rest, tableVars, worldVars, procVars, obsVars
<1>1. ASSUME NEW r \in Reqs, NEW n \in Names,
             CreateBegin(r, n)
      PROVE  DeletedIsEmpty'
  BY <1>1 DEF CreateBegin
<1>2. ASSUME NEW r \in Reqs,
             CreateInFlight(r) \/ CreateFailed(r) \/ RenewConflict(r)
             \/ HandlerEnds(r) \/ Spawn(r) \/ DropHandler(r)
      PROVE  DeletedIsEmpty'
  BY <1>2 DEF CreateInFlight, CreateFailed, Matching, RenewConflict, Claimable,
         HandlerEnds, Spawn, DropHandler, Fault
<1>3. ASSUME NEW r \in Reqs, CreateRetry(r) PROVE DeletedIsEmpty'
  BY <1>3 DEF CreateRetry, NoteUnclaimed, Owned
<1>4. ASSUME NEW r \in Reqs, NEW c \in Certs, NEW auto \in BOOLEAN, NEW a \in AlgoOpt,
             CreateInsert(r, c, auto, a)
      PROVE  DeletedIsEmpty'
  BY <1>4 DEF CreateInsert
<1>5. ASSUME NEW r \in Reqs, NEW c \in Certs,
             RenewFetch(r, c)
      PROVE  DeletedIsEmpty'
  BY <1>5 DEF RenewFetch
<1>6. ASSUME NEW r \in Reqs, NEW a \in AlgoOpt,
             RenewClaim(r, a)
      PROVE  DeletedIsEmpty'
  BY <1>6 DEF RenewClaim, Claimable
<1>7. ASSUME NEW c \in Certs, Delete(c) PROVE DeletedIsEmpty'
  BY <1>7 DEF Delete
<1>8. ASSUME NEW c \in Certs,
             UpdateAutoRenew(c) \/ Age(c)
      PROVE  DeletedIsEmpty'
  BY <1>8 DEF UpdateAutoRenew, Age
<1>9. ASSUME NEW p \in Procs, StartIssuing(p) PROVE DeletedIsEmpty'
  BY <1>9 DEF StartIssuing, Resolve
<1>10. ASSUME NEW p \in Procs,
             Issued(p) \/ StoreIssuedCert(p) \/ StepFails(p)
      PROVE  DeletedIsEmpty'
  BY <1>10 DEF Issued, StoreIssuedCert, StepFails
<1>11. ASSUME NEW p \in Procs, Activate(p) PROVE DeletedIsEmpty'
  BY <1>11 DEF Activate
<1>12. ASSUME NEW p \in Procs,
             MarkFailed(p) \/ MarkFailedLost(p)
      PROVE  DeletedIsEmpty'
  BY <1>12 DEF MarkFailed, Notifies, MarkFailedLost, Fault
<1>13. CASE SweepDue \/ SweepRetry \/ SweepEnd \/ SweepAborts
  BY <1>13 DEF SweepDue, SnapshotOf, IsDue, SweepRetry, IsRetryable, SweepEnd,
         SweepAborts, Fault
<1>14. ASSUME NEW t \in sweep.todo,
             RenewCert(t) \/ RenewCertUnmarked(t)
      PROVE  DeletedIsEmpty'
  BY <1>14 DEF RenewCert, PickNext, NoteUnclaimed, Owned, RenewCertUnmarked, Fault
<1>15. CASE Crash
  BY <1>15 DEF Crash, Fault
<1>16. CASE UNCHANGED vars
  BY <1>16 DEF vars
<1>. HIDE DEF TypeInv, TypeOK, Remembers, DeletedIsEmpty, DeletedStays, Owns,
         InFlight, Handling, Owning, Phases, Snapshot, Exists, SetColumn,
         Rest, tableVars, worldVars, procVars, obsVars
<1>. QED
  BY <1>1, <1>2, <1>3, <1>4, <1>5, <1>6, <1>7, <1>8, <1>9, <1>10, <1>11,
     <1>12, <1>13, <1>14, <1>15, <1>16
     DEF Next, Clients, Handler, RunIssuance, Scheduler, Faults

\* While a row is owned, and its owner is alone, only the owner moves it.
LEMMA MovesForwardStep == TypeInv /\ ClaimInv /\ [Next]_vars => MovesForward
<1>. SUFFICES ASSUME TypeInv, ClaimInv, [Next]_vars
             PROVE  MovesForward
  OBVIOUS
<1>. USE CertLifecycleAssumption
         DEF TypeInv, TypeOK, Remembers, ClaimInv, KnownRowsExist, SingleIssuer,
         StatusFollowsOwner, MovesForward, Owned, Owns, Procs, InFlight,
         Handling, Owning, Phases, Snapshot, Exists, SetColumn, Rest,
         tableVars, worldVars, procVars, obsVars
<1>1. ASSUME NEW r \in Reqs, NEW n \in Names,
             CreateBegin(r, n)
      PROVE  MovesForward
  BY <1>1 DEF CreateBegin
<1>2. ASSUME NEW r \in Reqs,
             CreateInFlight(r) \/ CreateFailed(r) \/ RenewConflict(r)
             \/ HandlerEnds(r) \/ Spawn(r) \/ DropHandler(r)
      PROVE  MovesForward
  BY <1>2 DEF CreateInFlight, CreateFailed, Matching, RenewConflict, Claimable,
         HandlerEnds, Spawn, DropHandler, Fault
<1>3. ASSUME NEW r \in Reqs, CreateRetry(r) PROVE MovesForward
  BY <1>3 DEF CreateRetry, NoteUnclaimed, Owned
<1>4. ASSUME NEW r \in Reqs, NEW c \in Certs, NEW auto \in BOOLEAN, NEW a \in AlgoOpt,
             CreateInsert(r, c, auto, a)
      PROVE  MovesForward
  BY <1>4 DEF CreateInsert
<1>5. ASSUME NEW r \in Reqs, NEW c \in Certs,
             RenewFetch(r, c)
      PROVE  MovesForward
  BY <1>5 DEF RenewFetch
<1>6. ASSUME NEW r \in Reqs, NEW a \in AlgoOpt,
             RenewClaim(r, a)
      PROVE  MovesForward
  BY <1>6 DEF RenewClaim, Claimable
<1>7. ASSUME NEW c \in Certs, Delete(c) PROVE MovesForward
  BY <1>7 DEF Delete
<1>8. ASSUME NEW c \in Certs,
             UpdateAutoRenew(c) \/ Age(c)
      PROVE  MovesForward
  BY <1>8 DEF UpdateAutoRenew, Age
<1>9. ASSUME NEW p \in Procs, StartIssuing(p) PROVE MovesForward
  BY <1>9 DEF StartIssuing, Resolve
<1>10. ASSUME NEW p \in Procs,
             Issued(p) \/ StoreIssuedCert(p) \/ StepFails(p)
      PROVE  MovesForward
  BY <1>10 DEF Issued, StoreIssuedCert, StepFails
<1>11. ASSUME NEW p \in Procs, Activate(p) PROVE MovesForward
  BY <1>11 DEF Activate
<1>12. ASSUME NEW p \in Procs,
             MarkFailed(p) \/ MarkFailedLost(p)
      PROVE  MovesForward
  BY <1>12 DEF MarkFailed, Notifies, MarkFailedLost, Fault
<1>13. CASE SweepDue \/ SweepRetry \/ SweepEnd \/ SweepAborts
  BY <1>13 DEF SweepDue, SnapshotOf, IsDue, SweepRetry, IsRetryable, SweepEnd,
         SweepAborts, Fault
<1>14. ASSUME NEW t \in sweep.todo,
             RenewCert(t) \/ RenewCertUnmarked(t)
      PROVE  MovesForward
  BY <1>14 DEF RenewCert, PickNext, NoteUnclaimed, Owned, RenewCertUnmarked, Fault
<1>15. CASE Crash
  BY <1>15 DEF Crash, Fault
<1>16. CASE UNCHANGED vars
  BY <1>16 DEF vars
<1>. HIDE DEF TypeInv, TypeOK, Remembers, ClaimInv, KnownRowsExist, SingleIssuer,
         StatusFollowsOwner, MovesForward, Owned, Owns, InFlight, Handling,
         Owning, Phases, Snapshot, Exists, SetColumn, Rest, tableVars,
         worldVars, procVars, obsVars
<1>. QED
  BY <1>1, <1>2, <1>3, <1>4, <1>5, <1>6, <1>7, <1>8, <1>9, <1>10, <1>11,
     <1>12, <1>13, <1>14, <1>15, <1>16
     DEF Next, Clients, Handler, RunIssuance, Scheduler, Faults

-----------------------------------------------------------------------------
(* The theorems.                                                           *)

\* Every variable keeps its type, and what a process remembers is what its
\* next step needs: a row, a valid algorithm, a certificate.
LEMMA TypeInvariant == Spec => []TypeInv
<1>1. Init => TypeInv
  BY CertLifecycleAssumption
     DEF Init, TypeInv, TypeOK, Remembers, Procs, Statuses, InFlight, AlgoOpt,
         IssueOpt, Handling, Owning, Phases, Snapshot
<1>. QED
  BY <1>1, TypeInvStep, PTL DEF Spec

\* The table, the processes, the sweep and the counters keep their types, for
\* any constants: no step indexes a row it does not know.
THEOREM TypeCorrect == Spec => []TypeOK
<1>1. TypeInv => TypeOK
  BY DEF TypeInv
<1>. QED
  BY <1>1, TypeInvariant, PTL

\* The statuses of rows follow the issuances that hold them.
LEMMA Claims == Spec => []ClaimInv
<1>1. Init => ClaimInv
  BY CertLifecycleAssumption
     DEF Init, ClaimInv, KnownRowsExist, SingleIssuer, StatusFollowsOwner, Owns,
         Owning, Procs
<1>. QED
  BY <1>1, ClaimInvStep, TypeInvariant, PTL DEF Spec

\* For any number of requests, a row no issuance was started on without a
\* claim never has two issuances working on it: the guarded UPDATE of the
\* renew handler is enough of a lock.
THEOREM OneIssuerPerClaimedRow == Spec => []SingleIssuer
<1>1. ClaimInv => SingleIssuer
  BY DEF ClaimInv
<1>. QED
  BY <1>1, Claims, PTL

\* Such a row, when active, shows the algorithm and the expiry of the
\* certificate it serves.
THEOREM RowsDescribeMaterial == Spec => []RowDescribesMaterial
<1>1. Init => RowInv
  BY DEF Init, RowInv, RowFollowsOwner, RowDescribesMaterial, Owns, Owning
<1>2. RowInv => RowDescribesMaterial
  BY DEF RowInv
<1>. QED
  BY <1>1, <1>2, RowInvStep, TypeInvariant, Claims, PTL DEF Spec

\* Any row, however many issuances fought over it, is active only with its key
\* material and its expiry in place.
THEOREM ActiveRowsServable == Spec => []ActiveIsServable
<1>1. Init => ServeInv
  BY DEF Init, ServeInv, StoredBeforeActive, ActiveIsServable
<1>2. ServeInv => ActiveIsServable
  BY DEF ServeInv
<1>3. ClaimInv => KnownRowsExist
  BY DEF ClaimInv
<1>. QED
  BY <1>1, <1>2, <1>3, ServeInvStep, TypeInvariant, Claims, PTL DEF Spec

\* As long as nothing has crashed, been dropped or been lost, every row in
\* flight has a process that will settle it.
THEOREM NoRowIsStranded == Spec => []InFlightHasIssuer
<1>1. Init => InFlightHasIssuer
  BY DEF Init, InFlightHasIssuer, InFlight
<1>. QED
  BY <1>1, InFlightHasIssuerStep, TypeInvariant, PTL DEF Spec

\* An outage is mailed at most once.
THEOREM OneAlertPerOutage == Spec => []AlertOncePerOutage
<1>1. Init => AlertInv
  BY DEF Init, AlertInv, AlertsPending, AlertOncePerOutage
<1>2. AlertInv => AlertOncePerOutage
  BY DEF AlertInv
<1>. QED
  BY <1>1, <1>2, AlertInvStep, TypeInvariant, Claims, PTL DEF Spec

\* A deleted row never comes back, nor does its key material.
THEOREM DeletedForGood == Spec => DeletionIsFinal
<1>1. Init => DeletedIsEmpty
  BY DEF Init, DeletedIsEmpty
<1>2. TypeInv /\ DeletedIsEmpty /\ [Next]_vars => [DeletedStays]_vars
  BY DeletedStaysStep
<1>. QED
  BY <1>1, <1>2, DeletedIsEmptyStep, TypeInvariant, PTL DEF Spec, DeletionIsFinal

\* While an issuance holds a row alone, the row only moves forward along the
\* documented pipeline.
THEOREM PipelineIsFollowed == Spec => StatusPipeline
<1>1. TypeInv /\ ClaimInv /\ [Next]_vars => [MovesForward]_vars
  BY MovesForwardStep
<1>. QED
  BY <1>1, TypeInvariant, Claims, PTL DEF Spec, StatusPipeline

-----------------------------------------------------------------------------
(* The refinement: CertLifecycle implements RowClaim.                      *)

\* What a step does to the lock of one row, and to those of the others.
Same(c) == Lock(c)' = Lock(c) /\ Holders(c)' = Holders(c)
Becomes(c, state, by) ==
    /\ Lock(c)' = state /\ Holders(c)' = by
    /\ \A d \in Certs \ {c} : Same(d)

Stays == \A c \in Certs : Same(c)
Takes(c, w) ==
    /\ Lock(c) \in {"absent", "settled", "stranded"}
    /\ \A d \in Certs : w \notin Holders(d)
    /\ Becomes(c, "held", {w})
Gives(c, w) == Holders(c) = {w} /\ Becomes(c, "settled", {})
Breaks(c) == Lock(c) \in {"settled", "held", "stranded"} /\ Becomes(c, "contested", {})
Removes(c) == Lock(c) \notin {"absent", "deleted"} /\ Becomes(c, "deleted", {})
Strands ==
    \A c \in Certs : \/ Same(c)
                     \/ Lock(c) = "held" /\ Lock(c)' = "stranded" /\ Holders(c)' = {}

Locks ==
    \/ Stays \/ Strands
    \/ \E c \in Certs : Breaks(c) \/ Removes(c) \/ \E w \in Procs : Takes(c, w) \/ Gives(c, w)

LEMMA ClaimStep == Locks => [Claim!Next]_(Claim!vars)
<1>. DEFINE dead == {c \in Certs : Lock(c) = "held" /\ Lock(c)' = "stranded"
                                   /\ Holders(c)' = {}}
<1>1. Stays => UNCHANGED Claim!vars
  BY DEF Stays, Same, Claim!vars
<1>2. ASSUME Strands PROVE Claim!Strand(dead)
  BY <1>2 DEF Strands, Same, Claim!Strand
<1>3. ASSUME NEW c \in Certs, Breaks(c) PROVE Claim!Contest(c)
  BY <1>3 DEF Breaks, Becomes, Same, Claim!Contest, Claim!Move
<1>4. ASSUME NEW c \in Certs, Removes(c) PROVE Claim!Delete(c)
  BY <1>4 DEF Removes, Becomes, Same, Claim!Delete, Claim!Move
<1>5. ASSUME NEW c \in Certs, NEW w \in Procs, Takes(c, w) PROVE Claim!Acquire(c, w)
  BY <1>5 DEF Takes, Becomes, Same, Claim!Acquire, Claim!Move
<1>6. ASSUME NEW c \in Certs, NEW w \in Procs, Gives(c, w) PROVE Claim!Release(c, w)
  BY <1>6 DEF Gives, Becomes, Same, Claim!Release, Claim!Move
<1>7. dead \in SUBSET Certs
  OBVIOUS
<1>. HIDE DEF dead
<1>. QED
  BY <1>1, <1>2, <1>3, <1>4, <1>5, <1>6, <1>7 DEF Locks, Claim!Next

\* A row whose status stands or moves within `InFlight`, and whose owners are
\* the same, is locked as before.
LEMMA Untouched ==
    ASSUME NEW c \in Certs,
           status'[c] = status[c] \/ {status[c], status'[c]} \subseteq InFlight,
           c \in unclaimed' <=> c \in unclaimed,
           \A p \in Procs : Owns(p, c)' <=> Owns(p, c)
    PROVE  Same(c)
<1>1. Owned(c)' <=> Owned(c)
  BY DEF Owned
<1>2. Exists(c)' <=> Exists(c)
  BY DEF Exists, InFlight
<1>3. Lock(c)' = Lock(c)
  BY <1>1, <1>2 DEF Lock, Exists, InFlight
<1>4. {p \in Procs : Owns(p, c)}' = {p \in Procs : Owns(p, c)}
  OBVIOUS
<1>. QED
  BY <1>3, <1>4 DEF Same, Holders

\* A row that was deleted, or that an issuance runs on without the lock, stays so.
LEMMA Lawless ==
    ASSUME NEW c \in Certs,
           \/ ~Exists(c) /\ status'[c] = status[c]
           \/ Exists(c) /\ Exists(c)' /\ c \in unclaimed /\ c \in unclaimed'
    PROVE  Same(c)
<1>. QED
  BY DEF Same, Lock, Holders, Exists

\* The statement that makes a row pending takes it, if nobody has it; else the
\* row is contested from then on.
LEMMA TakesOrBreaks ==
    ASSUME TypeInv, ClaimInv, NEW p \in Procs, NEW c \in Certs,
           pc[p] \notin Owning, status[c] # "deleted", Exists(c) \/ c \notin unclaimed,
           status' = [status EXCEPT ![c] = "pending"],
           pc'[p] \in Owning, row'[p] = c,
           \A q \in Procs \ {p} : pc'[q] = pc[q] /\ row'[q] = row[q],
           unclaimed' = IF Owned(c) THEN unclaimed \cup {c} ELSE unclaimed
    PROVE  Locks
<1>. USE DEF TypeInv, TypeOK
<1>1. \A q \in Procs, d \in Certs :
         Owns(q, d)' <=> IF q = p THEN d = c ELSE Owns(q, d)
  BY DEF Owns
<1>2. \A d \in Certs : ~Owns(p, d)
  BY DEF Owns
<1>3. \A d \in Certs \ {c} : Same(d)
  BY <1>1, <1>2, Untouched
<1>4. Exists(c)' /\ Owned(c)'
  BY <1>1 DEF Exists, Owned
<1>5. CASE c \in unclaimed /\ Exists(c)
  BY <1>5, <1>4, <1>3, Lawless DEF Locks, Stays
<1>6. CASE Owned(c) /\ c \notin unclaimed
  <2>1. status[c] \in InFlight
    BY <1>6 DEF Owned, Owns, ClaimInv, StatusFollowsOwner, KnownRowsExist, Owning, InFlight
  <2>2. Lock(c) = "held" /\ Lock(c)' = "contested" /\ Holders(c)' = {}
    BY <1>6, <1>4, <2>1 DEF Lock, Holders, Exists, InFlight
  <2>. QED
    BY <2>2, <1>3 DEF Breaks, Becomes, Locks
<1>7. CASE ~Owned(c) /\ c \notin unclaimed
  <2>1. Lock(c) \in {"absent", "settled", "stranded"}
    BY <1>7 DEF Lock, Exists
  <2>2. Lock(c)' = "held"
    BY <1>7, <1>4 DEF Lock
  <2>3. Holders(c)' = {p}
    BY <2>2, <1>1, <1>7 DEF Holders, Owned
  <2>4. \A d \in Certs : p \notin Holders(d)
    BY <1>2 DEF Holders
  <2>. QED
    BY <2>1, <2>2, <2>3, <2>4, <1>3 DEF Takes, Becomes, Locks
<1>. QED
  BY <1>5, <1>6, <1>7


\* Only rows that were inserted are ever contested.
UnclaimedExist == \A c \in unclaimed : status[c] # "absent"

LEMMA UnclaimedExistStep ==
    TypeInv /\ ClaimInv /\ UnclaimedExist /\ [Next]_vars => UnclaimedExist'
<1>. SUFFICES ASSUME TypeInv, ClaimInv, UnclaimedExist, [Next]_vars
              PROVE  UnclaimedExist'
  OBVIOUS
<1>. USE DEF TypeInv, TypeOK, Remembers, ClaimInv, KnownRowsExist, UnclaimedExist,
         Procs, SetColumn, Exists
<1>1. ASSUME unclaimed' \subseteq unclaimed,
             \A c \in Certs : status'[c] # "absent" \/ status'[c] = status[c]
      PROVE  UnclaimedExist'
  BY <1>1
<1>2. ASSUME NEW r \in Reqs, CreateRetry(r) PROVE UnclaimedExist'
  BY <1>2 DEF CreateRetry, NoteUnclaimed, Owning
<1>3. ASSUME NEW t \in sweep.todo, RenewCert(t) \/ RenewCertUnmarked(t)
      PROVE  UnclaimedExist'
  BY <1>3 DEF RenewCert, RenewCertUnmarked, PickNext, NoteUnclaimed, Snapshot, Fault
<1>4. ASSUME NEW r \in Reqs, Handler(r), ~CreateRetry(r) PROVE UnclaimedExist'
  BY <1>1, <1>4
     DEF Handler, CreateInFlight, CreateFailed, CreateInsert, RenewClaim, RenewConflict,
         HandlerEnds, Spawn, Rest, tableVars, worldVars, procVars, obsVars
<1>5. ASSUME NEW p \in Procs, RunIssuance(p) PROVE UnclaimedExist'
  BY <1>1, <1>5
     DEF RunIssuance, StartIssuing, Issued, StoreIssuedCert, Activate, StepFails,
         MarkFailed, tableVars, worldVars, procVars, obsVars
<1>6. CASE Clients
  BY <1>1, <1>6 DEF Clients, CreateBegin, RenewFetch, Delete, UpdateAutoRenew,
                    tableVars, worldVars, procVars, obsVars
<1>7. CASE SweepDue \/ SweepRetry \/ SweepEnd
  BY <1>1, <1>7 DEF SweepDue, SweepRetry, SweepEnd, tableVars, obsVars
<1>8. CASE SweepAborts \/ Crash
  BY <1>1, <1>8 DEF SweepAborts, Crash, tableVars
<1>9. ASSUME NEW p \in Procs, MarkFailedLost(p) PROVE UnclaimedExist'
  BY <1>1, <1>9 DEF MarkFailedLost, tableVars
<1>10. ASSUME NEW r \in Reqs, DropHandler(r) PROVE UnclaimedExist'
  BY <1>1, <1>10 DEF DropHandler, tableVars
<1>11. ASSUME NEW c \in Certs, Age(c) PROVE UnclaimedExist'
  BY <1>1, <1>11 DEF Age, tableVars, obsVars
<1>12. CASE UNCHANGED vars
  BY <1>1, <1>12 DEF vars
<1>. HIDE DEF UnclaimedExist, TypeInv, ClaimInv, Exists, SetColumn
<1>. QED
  BY <1>2, <1>3, <1>4, <1>5, <1>6, <1>7, <1>8, <1>9, <1>10, <1>11, <1>12
     DEF Next, Scheduler, Faults

\* Steps that write no status and leave every issuance with its row.
LEMMA Quiet ==
    ASSUME UNCHANGED <<status, unclaimed>>,
           \A p \in Procs, c \in Certs : Owns(p, c)' <=> Owns(p, c)
    PROVE  Locks
<1>1. \A c \in Certs : Same(c)
  BY Untouched
<1>. QED
  BY <1>1 DEF Locks, Stays

\* An issuance that begins on a deleted row leaves it deleted.
LEMMA TakesDeleted ==
    ASSUME TypeInv, NEW p \in Procs, NEW c \in Certs,
           pc[p] \notin Owning, status[c] = "deleted", row'[p] = c,
           UNCHANGED status,
           \A q \in Procs \ {p} : pc'[q] = pc[q] /\ row'[q] = row[q],
           \A d \in Certs \ {c} : d \in unclaimed' <=> d \in unclaimed
    PROVE  Locks
<1>1. \A d \in Certs \ {c}, q \in Procs : Owns(q, d)' <=> Owns(q, d)
  BY DEF Owns
<1>2. \A d \in Certs \ {c} : Same(d)
  BY <1>1, Untouched
<1>3. ~Exists(c)
  BY DEF Exists
<1>4. Same(c)
  BY <1>3, Lawless
<1>. QED
  BY <1>2, <1>4 DEF Locks, Stays

\* The issuance of p is over and its row settled: given back if it was held.
LEMMA GivesOrStays ==
    ASSUME TypeInv, ClaimInv, NEW p \in Procs, pc[p] \in Owning,
           NEW state \in {"active", "failed"},
           status' = SetColumn(status, row[p], state),
           pc'[p] = "idle",
           \A q \in Procs \ {p} : pc'[q] = pc[q] /\ row'[q] = row[q],
           UNCHANGED unclaimed
    PROVE  Locks
<1>. USE DEF TypeInv, TypeOK
<1>1. PICK c \in Certs : c = row[p]
  BY DEF Remembers
<1>2. Owns(p, c)
  BY <1>1 DEF Owns
<1>3. \A q \in Procs, d \in Certs : Owns(q, d)' <=> q # p /\ Owns(q, d)
  BY DEF Owns, Owning
<1>4. \A d \in Certs \ {c} : ~Owns(p, d)
  BY <1>1 DEF Owns
<1>5. \A d \in Certs \ {c} : status'[d] = status[d]
  BY <1>1 DEF SetColumn
<1>6. \A d \in Certs \ {c} : Same(d)
  BY <1>3, <1>4, <1>5, Untouched
<1>7. CASE ~Exists(c)
  <2>1. status'[c] = status[c]
    BY <1>7, <1>1 DEF SetColumn
  <2>. QED
    BY <1>7, <2>1, <1>1, <1>6, Lawless DEF Locks, Stays
<1>8. CASE Exists(c) /\ c \in unclaimed
  <2>1. Exists(c)'
    BY <1>1, <1>8 DEF SetColumn, Exists
  <2>. QED
    BY <1>8, <2>1, <1>1, <1>6, Lawless DEF Locks, Stays
<1>9. CASE Exists(c) /\ c \notin unclaimed
  <2>1. \A q \in Procs : Owns(q, c) => q = p
    BY <1>1, <1>2, <1>9 DEF ClaimInv, SingleIssuer
  <2>2. Holders(c) = {p}
    BY <1>2, <1>9, <2>1 DEF Holders, Lock, Owned
  <2>3. status'[c] = state
    BY <1>1, <1>9 DEF SetColumn
  <2>4. ~Owned(c)'
    BY <1>1, <1>3, <2>1 DEF Owned
  <2>5. Lock(c)' = "settled"
    BY <1>9, <2>3, <2>4 DEF Lock, Exists, InFlight
  <2>6. Holders(c)' = {}
    BY <2>5 DEF Holders
  <2>. QED
    BY <1>1, <2>2, <2>5, <2>6, <1>6 DEF Gives, Becomes, Locks
<1>. QED
  BY <1>7, <1>8, <1>9

\* Issuances that die leave the rows they held in flight, with nobody.
LEMMA DiesAndStrands ==
    ASSUME TypeInv, ClaimInv, UNCHANGED <<status, unclaimed>>,
           \A p \in Procs : \/ pc'[p] = pc[p] /\ row'[p] = row[p]
                            \/ pc'[p] = "idle"
    PROVE  Locks
<1>1. \A p \in Procs, c \in Certs : Owns(p, c)' => Owns(p, c)
  BY DEF Owns, Owning
<1>2. ASSUME NEW c \in Certs
      PROVE  \/ Same(c)
             \/ Lock(c) = "held" /\ Lock(c)' = "stranded" /\ Holders(c)' = {}
  <2>1. CASE \A p \in Procs : Owns(p, c)' <=> Owns(p, c)
    <3>1. Same(c)
      BY <2>1, Untouched
    <3>. QED
      BY <3>1
  <2>2. CASE \E p \in Procs : Owns(p, c) /\ ~Owns(p, c)'
    <3>1. PICK p \in Procs : Owns(p, c) /\ ~Owns(p, c)'
      BY <2>2
    <3>2. CASE ~Exists(c) \/ c \in unclaimed
      <4>1. Exists(c)' <=> Exists(c)
        BY DEF Exists
      <4>2. Same(c)
        BY <3>2, <4>1, Lawless
      <4>. QED
        BY <4>2
    <3>3. CASE Exists(c) /\ c \notin unclaimed
      <4>1. \A q \in Procs : Owns(q, c) => q = p
        BY <3>1, <3>3 DEF ClaimInv, SingleIssuer
      <4>2. Owned(c) /\ ~Owned(c)'
        BY <3>1, <4>1, <1>1 DEF Owned
      <4>3. status[c] \in InFlight
        BY <3>1, <3>3 DEF ClaimInv, StatusFollowsOwner, Owns, Owning, InFlight, Exists
      <4>4. Lock(c) = "held" /\ Lock(c)' = "stranded"
        BY <3>3, <4>2, <4>3 DEF Lock, Exists
      <4>. QED
        BY <4>4 DEF Holders
    <3>. QED
      BY <3>2, <3>3
  <2>. QED
    BY <2>1, <2>2, <1>1
<1>. QED
  BY <1>2 DEF Locks, Strands

\* Every step takes, gives back, breaks, strands or deletes, or leaves all
\* locks alone.
LEMMA LocksStep == TypeInv /\ ClaimInv /\ UnclaimedExist /\ [Next]_vars => Locks
<1>. SUFFICES ASSUME TypeInv, ClaimInv, UnclaimedExist, [Next]_vars PROVE Locks
  OBVIOUS
<1>. USE DEF Procs, TypeInv, TypeOK, Remembers, ClaimInv, KnownRowsExist
\* The statement that makes a row pending, by a handler or by the scheduler.
<1>1. ASSUME NEW p \in Procs, NEW c \in Certs,
             pc[p] \notin Owning, pc'[p] \in Owning, row'[p] = c,
             status' = SetColumn(status, c, "pending"), NoteUnclaimed(c),
             status[c] # "absent",
             \A q \in Procs \ {p} : pc'[q] = pc[q] /\ row'[q] = row[q]
      PROVE  Locks
  <2>1. CASE Exists(c)
    <3>1. status' = [status EXCEPT ![c] = "pending"]
      BY <1>1, <2>1 DEF SetColumn
    <3>2. status[c] # "deleted"
      BY <2>1 DEF Exists
    <3>. QED
      BY <1>1, <2>1, <3>1, <3>2, TakesOrBreaks DEF NoteUnclaimed
  <2>2. CASE ~Exists(c)
    <3>1. status[c] = "deleted" /\ UNCHANGED status
      BY <1>1, <2>2 DEF SetColumn, Exists
    <3>. QED
      BY <1>1, <3>1, TakesDeleted DEF NoteUnclaimed
  <2>. QED
    BY <2>1, <2>2
<1>2. ASSUME NEW r \in Reqs, CreateRetry(r) PROVE Locks
  <2>1. row[r] \in Certs /\ status[row[r]] # "absent"
    BY <1>2 DEF CreateRetry
  <2>. QED
    BY <1>1, <1>2, <2>1 DEF CreateRetry, Owning
<1>3. ASSUME NEW t \in sweep.todo, RenewCert(t) PROVE Locks
  <2>1. t.c \in Certs /\ status[t.c] # "absent"
    BY DEF Snapshot
  <2>. QED
    BY <1>1, <1>3, <2>1 DEF RenewCert, PickNext, Owning
<1>4. ASSUME NEW r \in Reqs, NEW c \in Certs, NEW auto \in BOOLEAN, NEW a \in AlgoOpt,
             CreateInsert(r, c, auto, a)
      PROVE  Locks
  <2>1. ~Owned(c) /\ c \notin unclaimed
    BY <1>4 DEF CreateInsert, Owned, Owns, UnclaimedExist
  <2>2. pc[r] \notin Owning /\ pc'[r] \in Owning /\ row'[r] = c /\ status[c] = "absent"
    BY <1>4 DEF CreateInsert, Owning
  <2>3. \A q \in Procs \ {r} : pc'[q] = pc[q] /\ row'[q] = row[q]
    BY <1>4 DEF CreateInsert
  <2>4. status' = [status EXCEPT ![c] = "pending"] /\ unclaimed' = unclaimed
    BY <1>4 DEF CreateInsert, obsVars
  <2>5. r \in Procs
    OBVIOUS
  <2>. HIDE DEF Procs, TypeInv, ClaimInv
  <2>. QED
    BY <2>1, <2>2, <2>3, <2>4, <2>5, TakesOrBreaks
<1>5. ASSUME NEW r \in Reqs, NEW a \in AlgoOpt, RenewClaim(r, a) PROVE Locks
  <2>1. PICK c \in Certs : c = row[r]
    BY <1>5 DEF RenewClaim
  <2>2. Exists(c) /\ status[c] \notin InFlight
    BY <1>5, <2>1 DEF RenewClaim, Claimable
  <2>3. ~Owned(c) \/ c \in unclaimed
    BY <2>2 DEF Owned, Owns, StatusFollowsOwner, Owning, InFlight, Exists
  <2>4. pc[r] \notin Owning /\ pc'[r] \in Owning /\ row'[r] = c
    BY <1>5, <2>1 DEF RenewClaim, Owning
  <2>5. \A q \in Procs \ {r} : pc'[q] = pc[q] /\ row'[q] = row[q]
    BY <1>5 DEF RenewClaim
  <2>6. status' = [status EXCEPT ![c] = "pending"] /\ unclaimed' = unclaimed
    BY <1>5, <2>1 DEF RenewClaim, obsVars
  <2>7. unclaimed' = IF Owned(c) THEN unclaimed \cup {c} ELSE unclaimed
    BY <2>3, <2>6
  <2>8. r \in Procs /\ status[c] # "deleted"
    BY <2>2 DEF Exists
  <2>. HIDE DEF Procs, TypeInv, ClaimInv
  <2>. QED
    BY <2>2, <2>4, <2>5, <2>6, <2>7, <2>8, TakesOrBreaks
<1>6. ASSUME NEW p \in Procs, Activate(p) PROVE Locks
  BY <1>6, GivesOrStays DEF Activate, Rest, Owning
<1>7. ASSUME NEW p \in Procs, MarkFailed(p) PROVE Locks
  BY <1>7, GivesOrStays DEF MarkFailed, Rest, Owning
<1>8. ASSUME NEW p \in Procs, MarkFailedLost(p) PROVE Locks
  BY <1>8, DiesAndStrands DEF MarkFailedLost, Rest, tableVars
<1>9. ASSUME NEW r \in Reqs, DropHandler(r) PROVE Locks
  BY <1>9, DiesAndStrands DEF DropHandler, Rest, tableVars
<1>10. CASE Crash
  BY <1>10, DiesAndStrands DEF Crash, tableVars
<1>11. ASSUME NEW c \in Certs, Delete(c) PROVE Locks
  <2>1. \A p \in Procs, d \in Certs : Owns(p, d)' <=> Owns(p, d)
    BY <1>11 DEF Delete, Owns, procVars
  <2>2. \A d \in Certs \ {c} : Same(d)
    BY <1>11, <2>1, Untouched DEF Delete, obsVars
  <2>3. Lock(c) \notin {"absent", "deleted"} /\ Lock(c)' = "deleted"
    BY <1>11 DEF Delete, Lock, Exists
  <2>4. Holders(c)' = {}
    BY <2>3 DEF Holders
  <2>. QED
    BY <2>2, <2>3, <2>4 DEF Removes, Becomes, Locks
<1>12. ASSUME NEW t \in sweep.todo, RenewCertUnmarked(t) PROVE Locks
  <2>1. PICK c \in Certs : c = t.c /\ status[c] # "absent"
    BY DEF Snapshot
  <2>2. \A p \in Procs, d \in Certs \ {c} : Owns(p, d)' <=> Owns(p, d)
    BY <1>12, <2>1 DEF RenewCertUnmarked, PickNext, Owns, Owning
  <2>3. UNCHANGED status /\ unclaimed' = unclaimed \cup {c}
    BY <1>12, <2>1 DEF RenewCertUnmarked
  <2>4. \A d \in Certs \ {c} : Same(d)
    BY <2>2, <2>3, Untouched
  <2>5. Exists(c)' <=> Exists(c)
    BY <2>3 DEF Exists
  <2>6. CASE ~Exists(c) \/ c \in unclaimed
    <3>1. Same(c)
      BY <2>3, <2>5, <2>6, Lawless
    <3>. QED
      BY <3>1, <2>4 DEF Locks, Stays
  <2>7. CASE Exists(c) /\ c \notin unclaimed
    <3>1. Lock(c) \in {"settled", "held", "stranded"} /\ Lock(c)' = "contested"
      BY <2>3, <2>5, <2>7 DEF Lock
    <3>2. Holders(c)' = {}
      BY <3>1 DEF Holders
    <3>. QED
      BY <3>1, <3>2, <2>4 DEF Breaks, Becomes, Locks
  <2>. QED
    BY <2>6, <2>7
<1>13. ASSUME NEW p \in Procs, StartIssuing(p) PROVE Locks
  <2>1. PICK c \in Certs : c = row[p]
    BY <1>13 DEF StartIssuing, Owning
  <2>2. \A q \in Procs, d \in Certs : Owns(q, d)' <=> Owns(q, d)
    BY <1>13 DEF StartIssuing, Owns, Owning
  <2>3. unclaimed' = unclaimed /\ \A d \in Certs \ {c} : status'[d] = status[d]
    BY <1>13, <2>1 DEF StartIssuing, SetColumn, obsVars
  <2>4. \A d \in Certs \ {c} : Same(d)
    BY <2>2, <2>3, Untouched
  <2>5. CASE ~Exists(c)
    <3>1. status'[c] = status[c]
      BY <1>13, <2>1, <2>5 DEF StartIssuing, SetColumn
    <3>2. Same(c)
      BY <2>5, <3>1, Lawless
    <3>. QED
      BY <3>2, <2>4 DEF Locks, Stays
  <2>6. CASE Exists(c)
    <3>1. status'[c] = "issuing"
      BY <1>13, <2>1, <2>6 DEF StartIssuing, SetColumn
    <3>2. CASE c \in unclaimed
      <4>1. Exists(c)'
        BY <3>1 DEF Exists
      <4>2. Same(c)
        BY <2>3, <2>6, <3>2, <4>1, Lawless
      <4>. QED
        BY <4>2, <2>4 DEF Locks, Stays
    <3>3. CASE c \notin unclaimed
      <4>1. status[c] = "pending"
        BY <1>13, <2>1, <2>6, <3>3
           DEF StartIssuing, StatusFollowsOwner, Owns, Owning, Exists
      <4>2. {status[c], status'[c]} \subseteq InFlight
        BY <3>1, <4>1 DEF InFlight
      <4>3. Same(c)
        BY <2>2, <2>3, <4>2, Untouched
      <4>. QED
        BY <4>3, <2>4 DEF Locks, Stays
    <3>. QED
      BY <3>2, <3>3
  <2>. QED
    BY <2>5, <2>6
<1>14. ASSUME NEW r \in Reqs,
              CreateInFlight(r) \/ CreateFailed(r) \/ RenewConflict(r)
              \/ HandlerEnds(r) \/ Spawn(r)
       PROVE  Locks
  BY <1>14, Quiet DEF CreateInFlight, CreateFailed, RenewConflict, HandlerEnds, Spawn,
     Rest, Owns, Owning, Handling, tableVars, obsVars
<1>15. ASSUME NEW r \in Reqs, NEW n \in Names, CreateBegin(r, n) PROVE Locks
  BY <1>15, Quiet DEF CreateBegin, Owns, Owning, tableVars, obsVars
<1>16. ASSUME NEW r \in Reqs, NEW c \in Certs, RenewFetch(r, c) PROVE Locks
  BY <1>16, Quiet DEF RenewFetch, Owns, Owning, tableVars, obsVars
<1>17. ASSUME NEW p \in Procs, Issued(p) \/ StoreIssuedCert(p) \/ StepFails(p)
       PROVE  Locks
  BY <1>17, Quiet DEF Issued, StoreIssuedCert, StepFails, Owns, Owning, tableVars, obsVars
<1>18. ASSUME NEW c \in Certs, UpdateAutoRenew(c) \/ Age(c) PROVE Locks
  BY <1>18, Quiet DEF UpdateAutoRenew, Age, Owns, tableVars, procVars, obsVars
<1>19. CASE SweepDue \/ SweepRetry \/ SweepEnd \/ SweepAborts
  BY <1>19, Quiet DEF SweepDue, SweepRetry, SweepEnd, SweepAborts, Owns, tableVars,
     procVars, obsVars
<1>20. CASE UNCHANGED vars
  BY <1>20, Quiet DEF vars, Owns
<1>. HIDE DEF Procs, TypeInv, ClaimInv, UnclaimedExist
<1>. QED
  BY <1>2, <1>3, <1>4, <1>5, <1>6, <1>7, <1>8, <1>9, <1>10, <1>11, <1>12, <1>13,
     <1>14, <1>15, <1>16, <1>17, <1>18, <1>19, <1>20
     DEF Next, Clients, Handler, RunIssuance, Scheduler, Faults, Procs

\* The status column is a lock: the handlers, the issuances and the scheduler
\* implement RowClaim, whatever their number, and through every fault.
THEOREM StatusIsALockOfItsRow == Spec => StatusIsALock
<1>1. Init => Claim!Init
  <2>. SUFFICES ASSUME Init PROVE Claim!Init
    OBVIOUS
  <2>1. \A c \in Certs : Lock(c) = "absent" /\ Holders(c) = {}
    BY DEF Init, Lock, Holders, Exists
  <2>. QED
    BY <2>1 DEF Claim!Init
<1>2. Init => UnclaimedExist
  BY DEF Init, UnclaimedExist
<1>3. TypeInv /\ ClaimInv /\ UnclaimedExist /\ [Next]_vars => [Claim!Next]_(Claim!vars)
  BY LocksStep, ClaimStep
<1>. QED
  BY <1>1, <1>2, <1>3, UnclaimedExistStep, TypeInvariant, Claims, PTL
     DEF Spec, StatusIsALock, Claim!Spec

=============================================================================
