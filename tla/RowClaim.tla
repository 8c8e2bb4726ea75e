------------------------------ MODULE RowClaim ------------------------------
(***************************************************************************)
(* What the status column of the `certificates` table promises: it is the  *)
(* lock of its row.  Whoever issues a certificate for a row holds the row, *)
(* alone, from the statement that makes it pending to the one that makes   *)
(* it active or failed.  A holder that dies strands its row; a row may be  *)
(* deleted under its holder, for good.                                     *)
(*                                                                         *)
(* The abstract specification of CertLifecycle, which implements it for    *)
(* every row until an issuance is started on it without the lock (those    *)
(* rows are contested, and promise nothing but that deletion is final).    *)
(***************************************************************************)
EXTENDS Naturals

CONSTANTS Rows, Workers

VARIABLES
    lock,    \* the state of each row
    holders  \* who holds it: nobody or one worker

vars == <<lock, holders>>

States == {"absent", "settled", "held", "stranded", "contested", "deleted"}

TypeOK == lock \in [Rows -> States] /\ holders \in [Rows -> SUBSET Workers]

Init ==
    /\ lock = [c \in Rows |-> "absent"]
    /\ holders = [c \in Rows |-> {}]

Move(c, state, by) ==
    /\ lock' = [lock EXCEPT ![c] = state]
    /\ holders' = [holders EXCEPT ![c] = by]

\* A worker that holds no row takes one that nobody holds.
Acquire(c, w) ==
    /\ lock[c] \in {"absent", "settled", "stranded"}
    /\ \A d \in Rows : w \notin holders[d]
    /\ Move(c, "held", {w})

\* The row is active or has failed; only its holder says so.
Release(c, w) == holders[c] = {w} /\ Move(c, "settled", {})

\* The holders of some rows die.
Strand(dead) ==
    /\ dead \subseteq {c \in Rows : lock[c] = "held"}
    /\ lock' = [c \in Rows |-> IF c \in dead THEN "stranded" ELSE lock[c]]
    /\ holders' = [c \in Rows |-> IF c \in dead THEN {} ELSE holders[c]]

\* An issuance is started on the row without the lock.
Contest(c) == lock[c] \in {"settled", "held", "stranded"} /\ Move(c, "contested", {})

Delete(c) == lock[c] \notin {"absent", "deleted"} /\ Move(c, "deleted", {})

Next ==
    \/ \E c \in Rows : Contest(c) \/ Delete(c)
                       \/ \E w \in Workers : Acquire(c, w) \/ Release(c, w)
    \/ \E dead \in SUBSET Rows : Strand(dead)

Spec == Init /\ [][Next]_vars
=============================================================================
