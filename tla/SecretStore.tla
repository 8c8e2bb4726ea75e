---------------------------- MODULE SecretStore ----------------------------
(***************************************************************************)
(* Where the key material of certificate rows lives: in the columns of the *)
(* row, or in OpenBao with secret_ref pointing at it.  Workers store what  *)
(* was issued, hand out PFX archives (minting their password on first use) *)
(* and delete rows; at boot the server moves everything that is still in   *)
(* the database to OpenBao.                                                *)
(*                                                                         *)
(* One action is one database statement or one call of OpenBao.  OpenBao   *)
(* is written without check-and-set: `kv` is overwritten whole with what   *)
(* the worker read before, plus what it brings.  Material and passwords    *)
(* are numbered per row, in the order in which they come into being.       *)
(***************************************************************************)
EXTENDS Integers, FiniteSets

CONSTANTS Certs, Workers, NoCert,
          MayGoBack,  \* can BAO_ADDR be unset again after a migration?
          MaxIssues,  \* bound: certificates issued for one row
          MaxMints    \* bound: passwords generated for one row

ASSUME SecretStoreAssumption ==
    /\ NoCert \notin Certs
    /\ MayGoBack \in BOOLEAN
    /\ MaxIssues \in Nat
    /\ MaxMints \in Nat

VARIABLES
    life,       \* of a row: "present" or "deleted"
    db,         \* its columns; mat is the four PEMs, pw is pfx_password_enc
    kv,         \* the secret at certificates/<id>; NoSecret if there is none
    backend, mode,
    todo,       \* rows the boot migration has selected and not yet cleared
    written,    \* the one it has written to OpenBao, or NoCert
    moved,      \* has this boot moved a row?
    unscrubbed, \* free pages of the database file keep what a migration cleared
    \* workers
    pc, row,
    snap,       \* the row as fetched
    data,       \* the secret as read
    new,        \* what the worker brings: an issued certificate or a password
    \* observation only: nothing in the code reads these
    issued, minted,
    latest,     \* the material last stored for a row
    shown,      \* passwords given to a client
    raced,      \* rows where a write undid one it had not seen
    forgotten   \* rows whose password could not be read or decrypted

storeVars  == <<life, db, kv>>
bootVars   == <<backend, mode, todo, written, moved, unscrubbed>>
workerVars == <<pc, row, snap, data, new>>
obsVars    == <<issued, minted, latest, shown, raced, forgotten>>
vars == <<life, db, kv, backend, mode, todo, written, moved, unscrubbed,
          pc, row, snap, data, new, issued, minted, latest, shown, raced, forgotten>>

Undecryptable == MaxMints + 1   \* a ciphertext under a COOKIE_KEY since replaced

Secret   == [mat : 0..MaxIssues, pw : 0..MaxMints]
NoSecret == [mat |-> 0, pw |-> 0]
Columns  == [mat : 0..MaxIssues, pw : 0..(MaxMints + 1), ref : BOOLEAN]
NoColumns == [mat |-> 0, pw |-> 0, ref |-> FALSE]
Moved     == [mat |-> 0, pw |-> 0, ref |-> TRUE]

Phases == {"idle", "issuing", "store_write", "store_ref", "pfx_load", "pfx_read",
           "pfx_write", "pfx_update", "del_row", "del_secret"}

TypeOK ==
    /\ life \in [Certs -> {"present", "deleted"}]
    /\ db \in [Certs -> Columns]
    /\ kv \in [Certs -> Secret]
    /\ backend \in {"database", "openbao"}
    /\ mode \in {"down", "migrating", "serving"}
    /\ todo \in SUBSET Certs
    /\ written \in Certs \cup {NoCert}
    /\ moved \in BOOLEAN /\ unscrubbed \in BOOLEAN
    /\ pc \in [Workers -> Phases]
    /\ row \in [Workers -> Certs \cup {NoCert}]
    /\ snap \in [Workers -> Columns]
    /\ data \in [Workers -> Secret]
    /\ new \in [Workers -> Secret]
    /\ issued \in [Certs -> 0..MaxIssues]
    /\ minted \in [Certs -> 0..MaxMints]
    /\ latest \in [Certs -> 0..MaxIssues]
    /\ shown \in [Certs -> SUBSET (0..MaxMints)]
    /\ raced \in SUBSET Certs
    /\ forgotten \in SUBSET Certs

\* Rows as POST /api/certificates inserts them, on the database backend.
Init ==
    /\ life = [c \in Certs |-> "present"]
    /\ db = [c \in Certs |-> NoColumns]
    /\ kv = [c \in Certs |-> NoSecret]
    /\ backend = "database"
    /\ mode = "serving"
    /\ todo = {}
    /\ written = NoCert
    /\ moved = FALSE /\ unscrubbed = FALSE
    /\ pc = [w \in Workers |-> "idle"]
    /\ row = [w \in Workers |-> NoCert]
    /\ snap = [w \in Workers |-> NoColumns]
    /\ data = [w \in Workers |-> NoSecret]
    /\ new = [w \in Workers |-> NoSecret]
    /\ issued = [c \in Certs |-> 0]
    /\ minted = [c \in Certs |-> 0]
    /\ latest = [c \in Certs |-> 0]
    /\ shown = [c \in Certs |-> {}]
    /\ raced = {}
    /\ forgotten = {}

-----------------------------------------------------------------------------
(* Helpers.                                                                *)

Decrypt(enc) == IF enc = Undecryptable THEN 0 ELSE enc

\* load_cert_material, from the row as fetched: the database's half of it.
FromColumns(cols) == [mat |-> cols.mat, pw |-> Decrypt(cols.pw)]

\* UPDATE certificates ... WHERE id = c.
UpdateRow(c, cols) == IF life[c] = "present" THEN [db EXCEPT ![c] = cols] ELSE db

Rest(w) ==
    /\ pc' = [pc EXCEPT ![w] = "idle"]
    /\ row' = [row EXCEPT ![w] = NoCert]
    /\ snap' = [snap EXCEPT ![w] = NoColumns]
    /\ data' = [data EXCEPT ![w] = NoSecret]
    /\ new' = [new EXCEPT ![w] = NoSecret]

\* A write of OpenBao that replaces something other than what w has read.
NoteRace(w, c) == raced' = IF kv[c] # data[w] THEN raced \cup {c} ELSE raced

Starts(w, c, phase) ==
    /\ mode = "serving" /\ pc[w] = "idle" /\ life[c] = "present"
    /\ pc' = [pc EXCEPT ![w] = phase]
    /\ row' = [row EXCEPT ![w] = c]

-----------------------------------------------------------------------------
(* store_issued_cert.  The row may have been deleted while the CA issued.  *)

Issue(w, c) ==
    /\ Starts(w, c, "issuing")
    /\ issued[c] < MaxIssues
    /\ issued' = [issued EXCEPT ![c] = @ + 1]
    /\ new' = [new EXCEPT ![w] = [mat |-> issued[c] + 1, pw |-> 0]]
    /\ UNCHANGED <<storeVars, bootVars, snap, data, minted, latest, shown,
                   raced, forgotten>>

\* Database backend: the PEM columns and nothing else, secret_ref included.
StoreColumns(w) ==
    LET c == row[w] IN
    /\ pc[w] = "issuing" /\ backend = "database"
    /\ db' = UpdateRow(c, [mat |-> new[w].mat, pw |-> db[c].pw, ref |-> db[c].ref])
    /\ latest' = [latest EXCEPT ![c] = new[w].mat]
    /\ Rest(w)
    /\ UNCHANGED <<life, kv, bootVars, issued, minted, shown, raced, forgotten>>

\* OpenBao: read the secret, to carry the PFX password over...
StoreRead(w) ==
    /\ pc[w] = "issuing" /\ backend = "openbao"
    /\ pc' = [pc EXCEPT ![w] = "store_write"]
    /\ data' = [data EXCEPT ![w] = kv[row[w]]]
    /\ UNCHANGED <<storeVars, bootVars, row, snap, new, obsVars>>

\* ... which goes on with an empty secret if the read fails.
StoreReadFails(w) ==
    /\ pc[w] = "issuing" /\ backend = "openbao"
    /\ pc' = [pc EXCEPT ![w] = "store_write"]
    /\ data' = [data EXCEPT ![w] = NoSecret]
    /\ forgotten' = forgotten \cup {row[w]}
    /\ UNCHANGED <<storeVars, bootVars, row, snap, new, issued, minted, latest,
                   shown, raced>>

StoreWrite_OldWins(w) ==
    LET c == row[w] IN
    /\ pc[w] = "store_write"
    /\ kv' = [kv EXCEPT ![c] =
                 [mat |-> IF data[w].mat = 0 THEN new[w].mat ELSE data[w].mat,
                  pw |-> data[w].pw]]
    /\ latest' = [latest EXCEPT ![c] = new[w].mat]
    /\ NoteRace(w, c)
    /\ pc' = [pc EXCEPT ![w] = "store_ref"]
    /\ UNCHANGED <<life, db, bootVars, row, snap, data, new, issued, minted,
                   shown, forgotten>>
StoreWrite_NoCarry(w) ==
    LET c == row[w] IN
    /\ pc[w] = "store_write"
    /\ kv' = [kv EXCEPT ![c] = new[w]]
    /\ latest' = [latest EXCEPT ![c] = new[w].mat]
    /\ NoteRace(w, c)
    /\ pc' = [pc EXCEPT ![w] = "store_ref"]
    /\ UNCHANGED <<life, db, bootVars, row, snap, data, new, issued, minted,
                   shown, forgotten>>
StoreWrite_ErrorIgnored(w) ==
    /\ pc[w] = "store_write"
    /\ pc' = [pc EXCEPT ![w] = "store_ref"]
    /\ UNCHANGED <<storeVars, bootVars, row, snap, data, new, obsVars>>
StoreWrite(w) ==
    LET c == row[w] IN
    /\ pc[w] = "store_write"
    /\ kv' = [kv EXCEPT ![c] = [mat |-> new[w].mat, pw |-> data[w].pw]]
    /\ latest' = [latest EXCEPT ![c] = new[w].mat]
    /\ NoteRace(w, c)
    /\ pc' = [pc EXCEPT ![w] = "store_ref"]
    /\ UNCHANGED <<life, db, bootVars, row, snap, data, new, issued, minted,
                   shown, forgotten>>

\* Only then is the row pointed at it and its PEM columns emptied.
StoreRef(w) ==
    LET c == row[w] IN
    /\ pc[w] = "store_ref"
    /\ db' = UpdateRow(c, [mat |-> 0, pw |-> db[c].pw, ref |-> TRUE])
    /\ Rest(w)
    /\ UNCHANGED <<life, kv, bootVars, obsVars>>

-----------------------------------------------------------------------------
(* POST /api/certificates/{id}/download/pfx.                               *)

PfxFetch(w, c) ==
    /\ Starts(w, c, "pfx_load")
    /\ snap' = [snap EXCEPT ![w] = db[c]]
    /\ UNCHANGED <<storeVars, bootVars, data, new, obsVars>>

\* What load_cert_material finds; it is an error if the row points at OpenBao
\* and none is configured.
Loaded(w) == IF snap[w].ref THEN kv[row[w]] ELSE FromColumns(snap[w])
Loads(w)  == snap[w].ref => backend = "openbao"

\* The archive is built with the password stored for it.
PfxShow(w) ==
    /\ pc[w] = "pfx_load" /\ Loads(w)
    /\ Loaded(w).mat # 0 /\ Loaded(w).pw # 0
    /\ shown' = [shown EXCEPT ![row[w]] = @ \cup {Loaded(w).pw}]
    /\ Rest(w)
    /\ UNCHANGED <<storeVars, bootVars, issued, minted, latest, raced, forgotten>>

\* There is none, or it does not decrypt: generate one.
PfxMint(w) ==
    LET c == row[w] IN
    /\ pc[w] = "pfx_load" /\ Loads(w)
    /\ Loaded(w).mat # 0 /\ Loaded(w).pw = 0
    /\ minted[c] < MaxMints
    /\ minted' = [minted EXCEPT ![c] = @ + 1]
    /\ new' = [new EXCEPT ![w] = [mat |-> 0, pw |-> minted[c] + 1]]
    /\ pc' = [pc EXCEPT ![w] = IF snap[w].ref THEN "pfx_read" ELSE "pfx_update"]
    /\ UNCHANGED <<storeVars, bootVars, row, snap, data, issued, latest, shown,
                   raced, forgotten>>

\* store_pfx_password: read again, add the password, write back.
PfxRead(w) ==
    /\ pc[w] = "pfx_read"
    /\ data' = [data EXCEPT ![w] = kv[row[w]]]
    /\ pc' = [pc EXCEPT ![w] = "pfx_write"]
    /\ UNCHANGED <<storeVars, bootVars, row, snap, new, obsVars>>

PfxWrite(w) ==
    LET c == row[w] IN
    /\ pc[w] = "pfx_write"
    /\ kv' = [kv EXCEPT ![c] = [mat |-> data[w].mat, pw |-> new[w].pw]]
    /\ raced' = IF kv[c] # data[w] \/ kv[c].pw # 0 THEN raced \cup {c} ELSE raced
    /\ shown' = [shown EXCEPT ![c] = @ \cup {new[w].pw}]
    /\ Rest(w)
    /\ UNCHANGED <<life, db, bootVars, issued, minted, latest, forgotten>>

\* Database backend: its own column.
PfxUpdate(w) ==
    LET c == row[w] IN
    /\ pc[w] = "pfx_update"
    /\ db' = UpdateRow(c, [mat |-> db[c].mat, pw |-> new[w].pw, ref |-> db[c].ref])
    /\ raced' = IF Decrypt(db[c].pw) # 0 THEN raced \cup {c} ELSE raced
    /\ shown' = [shown EXCEPT ![c] = @ \cup {new[w].pw}]
    /\ Rest(w)
    /\ UNCHANGED <<life, kv, bootVars, issued, minted, latest, forgotten>>

-----------------------------------------------------------------------------
(* DELETE /api/certificates/{id}.                                          *)

DeleteFetch(w, c) ==
    /\ Starts(w, c, "del_row")
    /\ snap' = [snap EXCEPT ![w] = db[c]]
    /\ UNCHANGED <<storeVars, bootVars, data, new, obsVars>>

DeleteRow(w) ==
    LET c == row[w] IN
    /\ pc[w] = "del_row" /\ life[c] = "present"
    /\ life' = [life EXCEPT ![c] = "deleted"]
    /\ db' = [db EXCEPT ![c] = NoColumns]
    /\ pc' = [pc EXCEPT ![w] = "del_secret"]
    /\ UNCHANGED <<kv, bootVars, row, snap, data, new, obsVars>>

\* Another request has deleted it: 404.
DeleteNotFound(w) ==
    /\ pc[w] = "del_row" /\ life[row[w]] = "deleted"
    /\ Rest(w)
    /\ UNCHANGED <<storeVars, bootVars, obsVars>>

\* delete_cert_material, from the row as fetched.
DeleteSecret(w) ==
    LET c == row[w] IN
    /\ pc[w] = "del_secret" /\ Loads(w)
    /\ kv' = IF snap[w].ref THEN [kv EXCEPT ![c] = NoSecret] ELSE kv
    /\ Rest(w)
    /\ UNCHANGED <<life, db, bootVars, obsVars>>

\* Any of it fails or is cut short: nothing to serve yet, an error of the
\* database or of OpenBao, a client that has gone.
GivesUp(w) ==
    /\ pc[w] # "idle"
    /\ Rest(w)
    /\ UNCHANGED <<storeVars, bootVars, obsVars>>

-----------------------------------------------------------------------------
(* Stopping and booting.                                                   *)

Stop ==
    /\ mode # "down"
    /\ mode' = "down"
    /\ todo' = {}
    /\ written' = NoCert
    /\ moved' = FALSE
    /\ pc' = [w \in Workers |-> "idle"]
    /\ row' = [w \in Workers |-> NoCert]
    /\ snap' = [w \in Workers |-> NoColumns]
    /\ data' = [w \in Workers |-> NoSecret]
    /\ new' = [w \in Workers |-> NoSecret]
    /\ UNCHANGED <<storeVars, backend, unscrubbed, obsVars>>

\* With BAO_ADDR unset.
BootDatabase ==
    /\ mode = "down"
    /\ backend = "database" \/ MayGoBack
    /\ backend' = "database"
    /\ mode' = "serving"
    /\ UNCHANGED <<storeVars, todo, written, moved, unscrubbed, workerVars, obsVars>>

\* The rows the migration selects.
Unmoved(c) == life[c] = "present" /\ ~db[c].ref /\ (db[c].mat # 0 \/ db[c].pw # 0)

\* With BAO_ADDR set: nothing is served before the migration is through.
BootOpenBao ==
    /\ mode = "down"
    /\ backend' = "openbao"
    /\ mode' = "migrating"
    /\ todo' = {c \in Certs : Unmoved(c)}
    /\ UNCHANGED <<storeVars, written, moved, unscrubbed, workerVars, obsVars>>

MigrateWrite(c) ==
    /\ mode = "migrating" /\ written = NoCert /\ c \in todo
    /\ kv' = [kv EXCEPT ![c] = FromColumns(db[c])]
    /\ written' = c
    /\ forgotten' = IF db[c].pw = Undecryptable THEN forgotten \cup {c} ELSE forgotten
    /\ UNCHANGED <<life, db, backend, mode, todo, moved, unscrubbed, workerVars,
                   issued, minted, latest, shown, raced>>

MigrateClear_Unpointed(c) ==
    /\ mode = "migrating" /\ written = c /\ c \in todo
    /\ kv[c] = FromColumns(db[c])
    /\ db' = UpdateRow(c, NoColumns)
    /\ todo' = todo \ {c}
    /\ written' = NoCert
    /\ moved' = TRUE
    /\ unscrubbed' = TRUE
    /\ UNCHANGED <<life, kv, backend, mode, workerVars, obsVars>>
\* verify_readback has passed: clear the columns and point the row.
MigrateClear(c) ==
    /\ mode = "migrating" /\ written = c /\ c \in todo
    /\ kv[c] = FromColumns(db[c])
    /\ db' = UpdateRow(c, Moved)
    /\ todo' = todo \ {c}
    /\ written' = NoCert
    /\ moved' = TRUE
    /\ unscrubbed' = TRUE
    /\ UNCHANGED <<life, kv, backend, mode, workerVars, obsVars>>

MigrateDone_InBackground ==
    /\ mode = "migrating"
    /\ mode' = "serving"
    /\ UNCHANGED <<storeVars, backend, todo, written, moved, unscrubbed, workerVars,
                   obsVars>>
\* Nothing is left to move.  If this run moved something, scrub_database
\* rewrites the file; a scrub that fails ends the boot, which is a Stop.
MigrateDone ==
    /\ mode = "migrating" /\ todo = {}
    /\ mode' = "serving"
    /\ unscrubbed' = IF moved THEN FALSE ELSE unscrubbed
    /\ moved' = FALSE
    /\ UNCHANGED <<storeVars, backend, todo, written, workerVars, obsVars>>

\* The operator replaces COOKIE_KEY while the server is down.
RotateCookieKey ==
    /\ mode = "down"
    /\ db' = [c \in Certs |->
               [mat |-> db[c].mat, ref |-> db[c].ref,
                pw |-> IF db[c].pw = 0 THEN 0 ELSE Undecryptable]]
    /\ forgotten' = forgotten \cup {c \in Certs : db[c].pw # 0}
    /\ UNCHANGED <<life, kv, bootVars, workerVars, issued, minted, latest, shown, raced>>

-----------------------------------------------------------------------------
Work(w) ==
    \/ \E c \in Certs : Issue(w, c) \/ PfxFetch(w, c) \/ DeleteFetch(w, c)
    \/ StoreColumns(w) \/ StoreRead(w) \/ StoreReadFails(w) \/ StoreWrite(w)
    \/ StoreRef(w)
    \/ PfxShow(w) \/ PfxMint(w) \/ PfxRead(w) \/ PfxWrite(w) \/ PfxUpdate(w)
    \/ DeleteRow(w) \/ DeleteNotFound(w) \/ DeleteSecret(w) \/ GivesUp(w)

Boot ==
    \/ BootDatabase \/ BootOpenBao \/ RotateCookieKey
    \/ \E c \in Certs : MigrateWrite(c) \/ MigrateClear(c)
    \/ MigrateDone

Next == (\E w \in Workers : Work(w)) \/ Boot \/ Stop

Spec == Init /\ [][Next]_vars

-----------------------------------------------------------------------------
(* What the row has, wherever that is.                                     *)
Material(c) == IF db[c].ref THEN kv[c].mat ELSE db[c].mat

\* A pointer never dangles: the secret of a row that points at OpenBao is
\* there and complete, whatever workers, deletions, failed reads and stops of
\* the server interleave.
RefResolves == \A c \in Certs : life[c] = "present" /\ db[c].ref => kv[c].mat # 0

\* Once the server serves from OpenBao no row keeps a key or a password in
\* its columns ("any secret still resident in SQLite is swept into OpenBao
\* before the server starts serving"), and none comes back to them.
SweptBeforeServing ==
    mode = "serving" /\ backend = "openbao" =>
        \A c \in Certs : db[c].mat = 0 /\ db[c].pw = 0

\* A row serves the certificate stored last, not an older one, unless one
\* read-modify-write of its secret has undone another; until its first
\* certificate is stored and pointed at, it serves none.
ServesLatest ==
    \A c \in Certs \ raced : life[c] = "present" =>
        Material(c) = latest[c] \/ (Material(c) = 0 /\ ~db[c].ref)

KeepsMaterial ==
    \A c \in Certs : life'[c] = "present" /\ Material(c) # 0 => Material(c)' # 0

\* A row that has key material has some in every later state, through
\* re-issues, an interrupted migration ("an interrupted run loses nothing") and
\* lost updates.
NothingIsLost == [][KeepsMaterial]_vars

\* "Renewals keep the PFX password": clients are given one password per row,
\* through renewals and the migration, unless two read-modify-writes met or
\* the password could not be read or decrypted.
PasswordKept ==
    \A c \in Certs \ (raced \cup forgotten) :
        life[c] = "present" => Cardinality(shown[c]) <= 1

=============================================================================
