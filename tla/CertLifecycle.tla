--------------------------- MODULE CertLifecycle ---------------------------
(***************************************************************************)
(* The life of a row of the `certificates` table: the HTTP handlers that   *)
(* create, renew, edit and delete it, the detached issuance tasks they     *)
(* spawn, and the daily renewal scheduler, all working on one SQLite       *)
(* database (database secret backend).                                     *)
(*                                                                         *)
(* One action is one database statement (SQLite serialises statements; no  *)
(* handler of this code opens a transaction) or one answer of the CA.      *)
(* Everything a process remembers between two statements is a snapshot     *)
(* that may be stale.  An HTTP request r in Reqs goes through its          *)
(* handler's reads and writes and, once it has spawned the issuance, the   *)
(* same r stands for the detached task.  Sched is the renewal scheduler,   *)
(* which runs the issuance inline.                                         *)
(***************************************************************************)
EXTENDS Integers, FiniteSets

CONSTANTS Certs,        \* row ids; a deleted id is never used again (UUIDs)
          Names,        \* normalised (common_name, SAN set) pairs
          Reqs,         \* slots for requests that may issue a certificate
          Sched,        \* the renewal scheduler
          Algos,        \* valid key algorithms
          DefaultAlgo,  \* what the global setting, or its default, resolves to
          NoCert, NoName, NoAlgo, NoMaterial,
          MaxIssues,    \* bound: certificates the CA issues for one row
          MaxFaults     \* bound: crashes, dropped handlers, lost writes

ASSUME CertLifecycleAssumption ==
    /\ NoCert \notin Certs
    /\ NoName \notin Names
    /\ DefaultAlgo \in Algos
    /\ NoAlgo \notin Algos
    /\ Sched \notin Reqs
    /\ MaxIssues \in Nat
    /\ MaxFaults \in Nat
    /\ NoMaterial \notin [n : 1..MaxIssues, algo : Algos]

VARIABLES
    \* columns of the table
    status, cn, auto_renew, key_algo,
    material,     \* the PEM columns: which issued certificate they hold
    expires_at,   \* the certificate whose expiry is recorded; 0 is NULL
    \* the world
    issued,       \* certificates the CA has issued for each row
    aged,         \* certificates up to this one expire within 30 days
    \* processes
    pc, row, algo, cert, want,
    sweep,        \* the scheduler's pass and the rows left of its snapshot
    \* observation only: nothing in the code reads these
    alerts,       \* renewal-failure mails since the row was last active
    unclaimed,    \* rows an issuance was started on without holding the row
    faults

tableVars == <<status, cn, auto_renew, key_algo, material, expires_at>>
worldVars == <<issued, aged>>
procVars  == <<pc, row, algo, cert, want>>
obsVars   == <<alerts, unclaimed, faults>>
vars == <<status, cn, auto_renew, key_algo, material, expires_at, issued, aged,
          pc, row, algo, cert, want, sweep, alerts, unclaimed, faults>>

Procs    == Reqs \cup {Sched}
InFlight == {"pending", "issuing"}
Statuses == InFlight \cup {"absent", "active", "failed", "deleted"}
AlgoOpt  == Algos \cup {NoAlgo}
Issue    == [n : 1..MaxIssues, algo : Algos]
IssueOpt == Issue \cup {NoMaterial}

\* A handler before its first write, a process that owns an issuance, and rest.
Handling == {"create_in_flight", "create_failed", "create_retry",
             "create_insert", "renew_claim"}
Owning   == {"claimed", "start", "issuing", "issued", "stored", "failing"}
Phases   == Handling \cup Owning \cup {"idle"}

Snapshot == [c : Certs, algo : AlgoOpt]

TypeOK ==
    /\ status \in [Certs -> Statuses]
    /\ cn \in [Certs -> Names \cup {NoName}]
    /\ auto_renew \in [Certs -> BOOLEAN]
    /\ key_algo \in [Certs -> AlgoOpt]
    /\ material \in [Certs -> IssueOpt]
    /\ expires_at \in [Certs -> 0..MaxIssues]
    /\ issued \in [Certs -> 0..MaxIssues]
    /\ aged \in [Certs -> 0..MaxIssues]
    /\ pc \in [Procs -> Phases]
    /\ row \in [Procs -> Certs \cup {NoCert}]
    /\ algo \in [Procs -> AlgoOpt]
    /\ cert \in [Procs -> IssueOpt]
    /\ want \in [Procs -> Names \cup {NoName}]
    /\ sweep \in [pass : {"sleep", "due", "retry"}, todo : SUBSET Snapshot]
    /\ alerts \in [Certs -> Nat]
    /\ unclaimed \in SUBSET Certs
    /\ faults \in 0..MaxFaults

Init ==
    /\ status = [c \in Certs |-> "absent"]
    /\ cn = [c \in Certs |-> NoName]
    /\ auto_renew = [c \in Certs |-> FALSE]
    /\ key_algo = [c \in Certs |-> NoAlgo]
    /\ material = [c \in Certs |-> NoMaterial]
    /\ expires_at = [c \in Certs |-> 0]
    /\ issued = [c \in Certs |-> 0]
    /\ aged = [c \in Certs |-> 0]
    /\ pc = [p \in Procs |-> "idle"]
    /\ row = [p \in Procs |-> NoCert]
    /\ algo = [p \in Procs |-> NoAlgo]
    /\ cert = [p \in Procs |-> NoMaterial]
    /\ want = [p \in Procs |-> NoName]
    /\ sweep = [pass |-> "sleep", todo |-> {}]
    /\ alerts = [c \in Certs |-> 0]
    /\ unclaimed = {}
    /\ faults = 0

-----------------------------------------------------------------------------
(* Helpers.                                                                *)

Exists(c) == status[c] \notin {"absent", "deleted"}

\* p will yet move the status of row c.
Owns(p, c) == row[p] = c /\ pc[p] \in Owning

Owned(c) == \E p \in Procs : Owns(p, c)

\* UPDATE certificates SET column = v WHERE id = c.
SetColumn_Upsert(column, c, v) == [column EXCEPT ![c] = v]
SetColumn(column, c, v) ==
    IF Exists(c) THEN [column EXCEPT ![c] = v] ELSE column

Matching(n, statuses) == {c \in Certs : cn[c] = n /\ status[c] \in statuses}

Resolve(a) == IF a = NoAlgo THEN DefaultAlgo ELSE a

\* expires_at < now + 30 days.
Expiring(c) == expires_at[c] # 0 /\ expires_at[c] <= aged[c]

\* The rows of the scheduler's two queries.
IsDue_FailedOnly(c) == auto_renew[c] /\ status[c] = "failed" /\ Expiring(c)
IsDue(c) == auto_renew[c] /\ status[c] = "active" /\ Expiring(c)
IsRetryable_ExpiringOnly(c) ==
    auto_renew[c] /\ status[c] = "failed" /\ Expiring(c)
IsRetryable(c) ==
    auto_renew[c] /\ status[c] = "failed" /\ (expires_at[c] = 0 \/ Expiring(c))

\* p drops everything it remembers.
Rest(p) ==
    /\ pc' = [pc EXCEPT ![p] = "idle"]
    /\ row' = [row EXCEPT ![p] = NoCert]
    /\ algo' = [algo EXCEPT ![p] = NoAlgo]
    /\ cert' = [cert EXCEPT ![p] = NoMaterial]
    /\ want' = [want EXCEPT ![p] = NoName]

\* Start an issuance on c without a claim: a race if someone already owns it.
NoteUnclaimed(c) == unclaimed' = IF Owned(c) THEN unclaimed \cup {c} ELSE unclaimed

-----------------------------------------------------------------------------
(* POST /api/certificates.                                                 *)

\* No active row matches the request.
CreateBegin(r, n) ==
    /\ pc[r] = "idle"
    /\ Matching(n, {"active"}) = {}
    /\ pc' = [pc EXCEPT ![r] = "create_in_flight"]
    /\ want' = [want EXCEPT ![r] = n]
    /\ UNCHANGED <<tableVars, worldVars, row, algo, cert, sweep, obsVars>>

\* Fold onto a row in flight, or go on to the zone pre-flight.
CreateInFlight(r) ==
    /\ pc[r] = "create_in_flight"
    /\ IF Matching(want[r], InFlight) # {}
         THEN Rest(r)
         ELSE /\ pc' = [pc EXCEPT ![r] = "create_failed"]
              /\ UNCHANGED <<row, algo, cert, want>>
    /\ UNCHANGED <<tableVars, worldVars, sweep, obsVars>>

\* The pre-flight has passed: is there a failed row to drive again?
CreateFailed(r) ==
    /\ pc[r] = "create_failed"
    /\ \/ \E c \in Matching(want[r], {"failed"}) :
            /\ pc' = [pc EXCEPT ![r] = "create_retry"]
            /\ row' = [row EXCEPT ![r] = c]
            /\ algo' = [algo EXCEPT ![r] = key_algo[c]]
       \/ /\ Matching(want[r], {"failed"}) = {}
          /\ pc' = [pc EXCEPT ![r] = "create_insert"]
          /\ UNCHANGED <<row, algo>>
    /\ UNCHANGED <<tableVars, worldVars, cert, want, sweep, obsVars>>

\* UPDATE ... SET status='pending' WHERE id=?: whatever the row is by now.
CreateRetry(r) ==
    /\ pc[r] = "create_retry"
    /\ status' = SetColumn(status, row[r], "pending")
    /\ pc' = [pc EXCEPT ![r] = "claimed"]
    /\ want' = [want EXCEPT ![r] = NoName]
    /\ NoteUnclaimed(row[r])
    /\ UNCHANGED <<cn, auto_renew, key_algo, material, expires_at, worldVars,
                   row, algo, cert, sweep, alerts, faults>>

CreateInsert(r, c, auto, a) ==
    /\ pc[r] = "create_insert"
    /\ status[c] = "absent"
    /\ status' = [status EXCEPT ![c] = "pending"]
    /\ cn' = [cn EXCEPT ![c] = want[r]]
    /\ auto_renew' = [auto_renew EXCEPT ![c] = auto]
    /\ key_algo' = [key_algo EXCEPT ![c] = a]
    /\ pc' = [pc EXCEPT ![r] = "claimed"]
    /\ row' = [row EXCEPT ![r] = c]
    /\ algo' = [algo EXCEPT ![r] = a]
    /\ want' = [want EXCEPT ![r] = NoName]
    /\ UNCHANGED <<material, expires_at, worldVars, cert, sweep, obsVars>>

-----------------------------------------------------------------------------
(* POST /api/certificates/{id}/renew.                                      *)

\* The row is read, and found settled (a 409 otherwise).
RenewFetch(r, c) ==
    /\ pc[r] = "idle"
    /\ Exists(c) /\ status[c] \notin InFlight
    /\ pc' = [pc EXCEPT ![r] = "renew_claim"]
    /\ row' = [row EXCEPT ![r] = c]
    /\ algo' = [algo EXCEPT ![r] = key_algo[c]]
    /\ UNCHANGED <<tableVars, worldVars, cert, want, sweep, obsVars>>

\* UPDATE ... WHERE id=? AND status NOT IN ('pending', 'issuing') finds c.
Claimable_Unguarded(c) == Exists(c)
Claimable_PendingOnly(c) == Exists(c) /\ status[c] # "pending"
Claimable(c) == Exists(c) /\ status[c] \notin InFlight

\* a is the algorithm of the request body, if any; the task is given a, or
\* the algorithm the handler read before the claim.
RenewClaim(r, a) ==
    /\ pc[r] = "renew_claim"
    /\ Claimable(row[r])
    /\ status' = [status EXCEPT ![row[r]] = "pending"]
    /\ key_algo' = [key_algo EXCEPT ![row[r]] = IF a = NoAlgo THEN @ ELSE a]
    /\ algo' = [algo EXCEPT ![r] = IF a = NoAlgo THEN @ ELSE a]
    /\ pc' = [pc EXCEPT ![r] = "claimed"]
    /\ UNCHANGED <<cn, auto_renew, material, expires_at, worldVars,
                   row, cert, want, sweep, obsVars>>

RenewConflict(r) ==
    /\ pc[r] = "renew_claim"
    /\ ~Claimable(row[r])
    /\ Rest(r)
    /\ UNCHANGED <<tableVars, worldVars, sweep, obsVars>>

-----------------------------------------------------------------------------
(* The other handlers, and what befalls any of them.                       *)

\* DELETE /api/certificates/{id}: the row goes, and its key with it.
Delete(c) ==
    /\ Exists(c)
    /\ status' = [status EXCEPT ![c] = "deleted"]
    /\ material' = [material EXCEPT ![c] = NoMaterial]
    /\ expires_at' = [expires_at EXCEPT ![c] = 0]
    /\ UNCHANGED <<cn, auto_renew, key_algo, worldVars, procVars, sweep, obsVars>>

\* PUT /api/certificates/{id}/auto-renew.
UpdateAutoRenew(c) ==
    /\ Exists(c)
    /\ auto_renew' = [auto_renew EXCEPT ![c] = ~@]
    /\ UNCHANGED <<status, cn, key_algo, material, expires_at, worldVars,
                   procVars, sweep, obsVars>>

\* A handler that has written nothing yet ends: the pre-flight or a statement
\* fails and it answers with an error, or the client has gone.
HandlerEnds(r) ==
    /\ pc[r] \in Handling
    /\ Rest(r)
    /\ UNCHANGED <<tableVars, worldVars, sweep, obsVars>>

\* The audit entry is written (or lost) and the detached task starts.
Spawn(r) ==
    /\ pc[r] = "claimed"
    /\ pc' = [pc EXCEPT ![r] = "start"]
    /\ UNCHANGED <<tableVars, worldVars, row, algo, cert, want, sweep, obsVars>>

-----------------------------------------------------------------------------
(* run_issuance, by a detached task or by the scheduler.                   *)

\* The settings are loaded, the algorithm resolved and the row marked.
StartIssuing_AlgoNotStored(p) ==
    /\ pc[p] = "start"
    /\ status' = SetColumn(status, row[p], "issuing")
    /\ algo' = [algo EXCEPT ![p] = Resolve(@)]
    /\ pc' = [pc EXCEPT ![p] = "issuing"]
    /\ UNCHANGED <<cn, auto_renew, key_algo, material, expires_at, worldVars,
                   row, cert, want, sweep, obsVars>>
StartIssuing(p) ==
    /\ pc[p] = "start"
    /\ status' = SetColumn(status, row[p], "issuing")
    /\ key_algo' = SetColumn(key_algo, row[p], Resolve(algo[p]))
    /\ algo' = [algo EXCEPT ![p] = Resolve(@)]
    /\ pc' = [pc EXCEPT ![p] = "issuing"]
    /\ UNCHANGED <<cn, auto_renew, material, expires_at, worldVars,
                   row, cert, want, sweep, obsVars>>

\* The CA issues a certificate for the row's names with the task's algorithm.
Issued_SkipsStore(p) ==
    /\ pc[p] = "issuing"
    /\ issued[row[p]] < MaxIssues
    /\ issued' = [issued EXCEPT ![row[p]] = @ + 1]
    /\ cert' = [cert EXCEPT ![p] = [n |-> issued[row[p]] + 1, algo |-> algo[p]]]
    /\ pc' = [pc EXCEPT ![p] = "stored"]
    /\ UNCHANGED <<tableVars, aged, row, algo, want, sweep, obsVars>>
Issued(p) ==
    /\ pc[p] = "issuing"
    /\ issued[row[p]] < MaxIssues
    /\ issued' = [issued EXCEPT ![row[p]] = @ + 1]
    /\ cert' = [cert EXCEPT ![p] = [n |-> issued[row[p]] + 1, algo |-> algo[p]]]
    /\ pc' = [pc EXCEPT ![p] = "issued"]
    /\ UNCHANGED <<tableVars, aged, row, algo, want, sweep, obsVars>>

\* store_issued_cert.
StoreIssuedCert(p) ==
    /\ pc[p] = "issued"
    /\ material' = SetColumn(material, row[p], cert[p])
    /\ pc' = [pc EXCEPT ![p] = "stored"]
    /\ UNCHANGED <<status, cn, auto_renew, key_algo, expires_at, worldVars,
                   row, algo, cert, want, sweep, obsVars>>

Activate(p) ==
    /\ pc[p] = "stored"
    /\ status' = SetColumn(status, row[p], "active")
    /\ expires_at' = SetColumn(expires_at, row[p], cert[p].n)
    /\ alerts' = SetColumn(alerts, row[p], 0)
    /\ Rest(p)
    /\ UNCHANGED <<cn, auto_renew, key_algo, material, worldVars, sweep,
                   unclaimed, faults>>

\* Any step of it fails: bad settings or algorithm, a statement, DNS, the CA,
\* a timeout, the store.  The CA may have issued a certificate nobody gets.
StepFails_Returns(p) ==
    /\ pc[p] \in {"start", "issuing", "issued", "stored"}
    /\ Rest(p)
    /\ UNCHANGED <<tableVars, worldVars, sweep, obsVars>>
StepFails(p) ==
    /\ pc[p] \in {"start", "issuing", "issued", "stored"}
    /\ pc' = [pc EXCEPT ![p] = "failing"]
    /\ UNCHANGED <<tableVars, worldVars, row, algo, cert, want, sweep, obsVars>>

\* The scheduler mails only for a row its snapshot had as active.
Notifies_Always(p) == p = Sched
Notifies(p) == p = Sched /\ sweep.pass = "due"

MarkFailed_Swallowed(p) ==
    /\ pc[p] = "failing"
    /\ Rest(p)
    /\ UNCHANGED <<tableVars, worldVars, sweep, obsVars>>
MarkFailed(p) ==
    /\ pc[p] = "failing"
    /\ status' = SetColumn(status, row[p], "failed")
    /\ alerts' = IF Notifies(p) THEN [alerts EXCEPT ![row[p]] = @ + 1] ELSE alerts
    /\ Rest(p)
    /\ UNCHANGED <<cn, auto_renew, key_algo, material, expires_at, worldVars,
                   sweep, unclaimed, faults>>

RunIssuance(p) ==
    \/ StartIssuing(p) \/ Issued(p) \/ StoreIssuedCert(p) \/ Activate(p)
    \/ StepFails(p) \/ MarkFailed(p)

-----------------------------------------------------------------------------
(* The renewal scheduler: every 24 hours, a sweep of two passes, each over *)
(* a snapshot of the table taken when the pass begins.                     *)

SnapshotOf(rows) == {[c |-> c, algo |-> key_algo[c]] : c \in rows}

SweepDue ==
    /\ pc[Sched] = "idle" /\ sweep.pass = "sleep"
    /\ sweep' = [pass |-> "due", todo |-> SnapshotOf({c \in Certs : IsDue(c)})]
    /\ UNCHANGED <<tableVars, worldVars, procVars, obsVars>>

SweepRetry ==
    /\ pc[Sched] = "idle" /\ sweep.pass = "due" /\ sweep.todo = {}
    /\ sweep' = [pass |-> "retry",
                 todo |-> SnapshotOf({c \in Certs : IsRetryable(c)})]
    /\ UNCHANGED <<tableVars, worldVars, procVars, obsVars>>

\* The expiry warnings are mailed; the scheduler sleeps.
SweepEnd ==
    /\ pc[Sched] = "idle" /\ sweep.pass = "retry" /\ sweep.todo = {}
    /\ sweep' = [pass |-> "sleep", todo |-> {}]
    /\ UNCHANGED <<tableVars, worldVars, procVars, obsVars>>

\* renew_cert on the next row of the snapshot, up to run_issuance.
PickNext(t) ==
    /\ pc[Sched] = "idle"
    /\ t \in sweep.todo
    /\ sweep' = [sweep EXCEPT !.todo = @ \ {t}]
    /\ pc' = [pc EXCEPT ![Sched] = "start"]
    /\ row' = [row EXCEPT ![Sched] = t.c]
    /\ algo' = [algo EXCEPT ![Sched] = t.algo]
    /\ UNCHANGED <<cn, auto_renew, key_algo, material, expires_at, worldVars,
                   cert, want, alerts>>

\* UPDATE ... SET status='pending' WHERE id=?: whatever the row is by now.
RenewCert(t) ==
    /\ PickNext(t)
    /\ status' = SetColumn(status, t.c, "pending")
    /\ NoteUnclaimed(t.c)
    /\ UNCHANGED faults

-----------------------------------------------------------------------------
(* Faults.                                                                 *)

Fault == faults < MaxFaults /\ faults' = faults + 1

\* The client disconnects, or the audit entry's await is never resumed,
\* between the claim and the spawn: the handler's future is dropped.
DropHandler(r) ==
    /\ Fault
    /\ pc[r] = "claimed"
    /\ Rest(r)
    /\ UNCHANGED <<tableVars, worldVars, sweep, alerts, unclaimed>>

\* The statement that marks a row failed fails itself; nobody looks.
MarkFailedLost(p) ==
    /\ Fault
    /\ pc[p] = "failing"
    /\ alerts' = IF Notifies(p) THEN [alerts EXCEPT ![row[p]] = @ + 1] ELSE alerts
    /\ Rest(p)
    /\ UNCHANGED <<tableVars, worldVars, sweep, unclaimed>>

\* So does the one that marks a due row pending: the row stays claimable
\* while the scheduler issues on it.
RenewCertUnmarked(t) ==
    /\ Fault
    /\ PickNext(t)
    /\ unclaimed' = unclaimed \cup {t.c}
    /\ UNCHANGED status

\* The retry query fails: the sweep is over.
SweepAborts ==
    /\ Fault
    /\ pc[Sched] = "idle" /\ sweep.pass = "due" /\ sweep.todo = {}
    /\ sweep' = [pass |-> "sleep", todo |-> {}]
    /\ UNCHANGED <<tableVars, worldVars, procVars, alerts, unclaimed>>

\* The server stops (there is no graceful shutdown) and starts again.
Crash ==
    /\ Fault
    /\ pc' = [p \in Procs |-> "idle"]
    /\ row' = [p \in Procs |-> NoCert]
    /\ algo' = [p \in Procs |-> NoAlgo]
    /\ cert' = [p \in Procs |-> NoMaterial]
    /\ want' = [p \in Procs |-> NoName]
    /\ sweep' = [pass |-> "sleep", todo |-> {}]
    /\ UNCHANGED <<tableVars, worldVars, alerts, unclaimed>>

-----------------------------------------------------------------------------
\* Time passes: the oldest certificate of c not yet within 30 days of expiry
\* comes within them.  An expiry that did not parse is stored as '', which
\* compares below every date: such a certificate ages at once.
Age(c) ==
    /\ aged[c] < issued[c]
    /\ aged' = [aged EXCEPT ![c] = @ + 1]
    /\ UNCHANGED <<tableVars, issued, procVars, sweep, obsVars>>

\* Steps of a handler that has begun: the runtime polls it to its end.
Handler(r) ==
    \/ CreateInFlight(r) \/ CreateFailed(r) \/ CreateRetry(r)
    \/ \E c \in Certs, auto \in BOOLEAN, a \in AlgoOpt : CreateInsert(r, c, auto, a)
    \/ \E a \in AlgoOpt : RenewClaim(r, a)
    \/ RenewConflict(r) \/ HandlerEnds(r) \/ Spawn(r)

Scheduler ==
    \/ SweepDue \/ SweepRetry \/ SweepEnd
    \/ \E t \in sweep.todo : RenewCert(t)
    \/ RunIssuance(Sched)

Faults ==
    \/ \E r \in Reqs : DropHandler(r)
    \/ \E p \in Procs : MarkFailedLost(p)
    \/ \E t \in sweep.todo : RenewCertUnmarked(t)
    \/ SweepAborts \/ Crash

Clients ==
    \/ \E r \in Reqs, n \in Names : CreateBegin(r, n)
    \/ \E r \in Reqs, c \in Certs : RenewFetch(r, c)
    \/ \E c \in Certs : Delete(c) \/ UpdateAutoRenew(c)

Next ==
    \/ Clients
    \/ \E r \in Reqs : Handler(r) \/ RunIssuance(r)
    \/ Scheduler
    \/ Faults
    \/ \E c \in Certs : Age(c)

Spec == Init /\ [][Next]_vars

(* Every await of the issuance and of the scheduler returns: database      *)
(* statements do, each HTTP client has a timeout (acme.rs 30 s, providers  *)
(* 15 s, OpenBao 20 s), the two ACME polls have a deadline of 120 s.  The  *)
(* runtime then resumes the task.  Clients and time owe nothing.           *)
Fairness ==
    /\ \A r \in Reqs : WF_vars(Handler(r)) /\ WF_vars(RunIssuance(r))
    /\ WF_vars(Scheduler)

FairSpec == Spec /\ Fairness

-----------------------------------------------------------------------------
(* Safety.                                                                 *)

\* A row shown as active can be downloaded and will be found by the renewal
\* query: its key material and its expiry are there, in whatever order the
\* two writes of any number of issuances, failures, crashes and deletions met.
ActiveIsServable ==
    \A c \in Certs : status[c] = "active" =>
        material[c] # NoMaterial /\ expires_at[c] # 0

\* At most one issuance works on a row, as long as every issuance on it was
\* started by an insert, by the atomic claim of the renew handler, or by a
\* sweep or a re-POST that did find the row at rest.
SingleIssuer ==
    \A c \in Certs \ unclaimed : \A p, q \in Procs :
        Owns(p, c) /\ Owns(q, c) => p = q

\* The algorithm and the expiry an active row shows are those of the
\* certificate it serves ("so the UI always shows what was actually used").
RowDescribesMaterial ==
    \A c \in Certs \ unclaimed : status[c] = "active" =>
        /\ material[c] \in Issue
        /\ key_algo[c] = material[c].algo
        /\ expires_at[c] = material[c].n

\* Without a fault, a row in flight has a process that will settle it: none
\* of the error paths leaves a row pending or issuing with nobody behind it.
InFlightHasIssuer ==
    faults = 0 => \A c \in Certs : status[c] \in InFlight => Owned(c)

\* One outage of a certificate is one renewal-failure mail, however often
\* sweeps and clients make it fail again before it is active; crashes and lost
\* writes do not change that for a row that never had two issuers.
AlertOncePerOutage ==
    \A c \in Certs : faults = 0 \/ c \notin unclaimed => alerts[c] <= 1

\* Deletion is final: an issuance that outlives its row neither brings the row
\* back nor leaves key material behind.
DeletedStays ==
    \A c \in Certs : status[c] = "deleted" =>
        status'[c] = "deleted" /\ material'[c] = NoMaterial
DeletionIsFinal == [][DeletedStays]_vars

\* While an issuance owns a row, the row only moves along the documented
\* pipeline pending -> issuing -> active or failed, unless it is deleted:
\* nobody else puts it back to pending under the issuance.
MovesForward ==
    \A c \in Certs \ unclaimed' :
        Owned(c) /\ status'[c] # status[c] =>
            \/ status'[c] = "deleted"
            \/ status[c] = "pending" /\ status'[c] \in {"issuing", "failed"}
            \/ status[c] = "issuing" /\ status'[c] \in {"active", "failed"}
StatusPipeline == [][MovesForward]_vars

-----------------------------------------------------------------------------
(* The status column as a lock: CertLifecycle implements RowClaim.         *)

Lock(c) ==
    IF ~Exists(c) THEN status[c]
    ELSE IF c \in unclaimed THEN "contested"
    ELSE IF Owned(c) THEN "held"
    ELSE IF status[c] \in InFlight THEN "stranded" ELSE "settled"

Holders(c) == IF Lock(c) = "held" THEN {p \in Procs : Owns(p, c)} ELSE {}

Claim == INSTANCE RowClaim WITH
    Rows <- Certs,
    Workers <- Procs,
    lock <- [c \in Certs |-> Lock(c)],
    holders <- [c \in Certs |-> Holders(c)]

\* Every row is taken, held, given back, stranded and deleted as RowClaim says:
\* by one issuance at a time, which alone settles it, through every
\* interleaving, failure and crash.
StatusIsALock == Claim!Spec

-----------------------------------------------------------------------------
(* Liveness, under FairSpec.                                               *)

\* Without a fault, a row in flight becomes active or failed (or is deleted).
InFlightSettles ==
    \A c \in Certs :
        status[c] \in InFlight ~> status[c] \notin InFlight \/ faults > 0

\* An active row with auto-renewal on and an expiry near is taken up by a
\* sweep, through crashes and aborted sweeps.
DueIsRenewed ==
    \A c \in Certs :
        auto_renew[c] /\ status[c] = "active" /\ Expiring(c)
          ~> ~(auto_renew[c] /\ status[c] = "active" /\ Expiring(c))

\* A failed row with auto-renewal on is tried again: one bad run does not park
\* it until it has silently expired.
FailedIsRetried ==
    \A c \in Certs :
        auto_renew[c] /\ status[c] = "failed" /\ (expires_at[c] = 0 \/ Expiring(c))
          ~> ~(auto_renew[c] /\ status[c] = "failed")

-----------------------------------------------------------------------------
(* What the documents say and the code does not do.                        *)

\* docs/certificates.md: "Two concurrent POSTs therefore never double-issue."
NeverDoubleIssue ==
    \A c, d \in Certs : c # d /\ cn[c] = cn[d] /\ cn[c] # NoName =>
        ~(status[c] \in InFlight /\ status[d] \in InFlight)

=============================================================================
