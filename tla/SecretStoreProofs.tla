------------------------- MODULE SecretStoreProofs -------------------------
(***************************************************************************)
(* Proofs about the two components that keep secrets in the database or,   *)
(* by reference, in OpenBao (services/secret_store.rs): SecretStore, for   *)
(* any numbers of rows, workers, issued certificates and passwords, and    *)
(* Configuration, for any numbers of integrations, requests, blocks of the *)
(* provisioning file, accounts and faults.                                 *)
(*                                                                         *)
(* What a worker or a request writes depends on what it read steps before, *)
(* so each property of the stores is strengthened with what those in the   *)
(* middle of an operation know.  SecretStore's layers build on each other: *)
(* types, pointers, the boot's sweep, the newest material, the password;   *)
(* Configuration's stand side by side: the boot, the requests, the file,   *)
(* the account.                                                            *)
(***************************************************************************)
EXTENDS SecretStore, Configuration, FiniteSetTheorems, TLAPS

\* A worker that has begun knows its row and runs on a serving server; one
\* that stores brings a certificate, and to OpenBao only from there.
WorkersKnow ==
    \A w \in Workers :
        /\ pc[w] # "idle" => row[w] \in Certs /\ mode = "serving"
        /\ pc[w] \in {"issuing", "store_write", "store_ref"} => new[w].mat # 0
        /\ pc[w] \in {"store_write", "store_ref"} => backend = "openbao"

\* Rows wait for the migration only while it runs, and have not been moved.
BootKnows ==
    /\ mode = "migrating" => backend = "openbao"
    /\ mode # "migrating" => todo = {} /\ written = NoCert
    /\ written # NoCert => written \in todo
    /\ \A c \in todo : ~db[c].ref /\ (db[c].mat # 0 \/ db[c].pw # 0)

TypeInv == TypeOK /\ WorkersKnow /\ BootKnows

\* Why no pointer dangles.
PointersHold ==
    /\ RefResolves
    /\ \A c \in Certs : life[c] = "present" /\ ~db[c].ref /\ db[c].pw # 0 =>
           db[c].mat # 0
    /\ \A w \in Workers :
           pc[w] # "idle" /\ life[row[w]] = "present" =>
               /\ pc[w] # "del_secret"
               /\ pc[w] = "store_ref" => kv[row[w]].mat # 0
               /\ pc[w] = "pfx_load" /\ snap[w].ref => db[row[w]].ref
               /\ pc[w] = "pfx_read" => db[row[w]].ref
               /\ pc[w] = "pfx_write" => data[w].mat # 0
               /\ pc[w] = "pfx_load" /\ snap[w].mat # 0 =>
                      db[row[w]].ref \/ db[row[w]].mat # 0
               /\ pc[w] = "pfx_update" => db[row[w]].ref \/ db[row[w]].mat # 0

\* Why nothing is left in, or comes back to, the columns of a moved row, as
\* long as nobody goes back to the database.
SweepHolds ==
    /\ SweptBeforeServing
    /\ backend = "database" => \A c \in Certs : ~db[c].ref
    /\ \A c \in Certs : db[c].ref \/ life[c] = "deleted" =>
           db[c].mat = 0 /\ db[c].pw = 0
    /\ mode = "migrating" => \A c \in Certs : Unmoved(c) => c \in todo
    /\ \A w \in Workers :
           /\ pc[w] = "pfx_update" => backend = "database"
           /\ pc[w] = "pfx_load" /\ backend = "openbao" /\ ~snap[w].ref =>
                  snap[w].mat = 0

\* Why the newest material is the one that is served.
LatestHolds ==
    \A c \in Certs \ raced : life[c] = "present" =>
        /\ db[c].ref => kv[c].mat = latest[c]
        /\ ~db[c].ref => db[c].mat \in {0, latest[c]}
        /\ \A w \in Workers : pc[w] = "store_ref" /\ row[w] = c =>
               kv[c].mat = latest[c]

\* The password a download of the row finds.
StoredPassword(c) == IF db[c].ref THEN kv[c].pw ELSE Decrypt(db[c].pw)

\* Why clients see one password per row.
PasswordHolds ==
    /\ \A c \in Certs \ (raced \cup forgotten) : life[c] = "present" =>
           /\ \A p \in shown[c] : p # 0 /\ p = StoredPassword(c)
           /\ \A w \in Workers :
                  /\ pc[w] = "pfx_load" /\ row[w] = c /\ ~snap[w].ref
                     /\ snap[w].mat # 0 /\ Decrypt(snap[w].pw) # 0 =>
                         Decrypt(db[c].pw) = Decrypt(snap[w].pw)
                  /\ pc[w] = "pfx_write" /\ row[w] = c => db[c].ref
    /\ \A w \in Workers :
           pc[w] \in {"pfx_read", "pfx_write", "pfx_update"} => new[w].pw # 0

-----------------------------------------------------------------------------
(* SecretStore: every step preserves each layer of the invariant.          *)

\* The type invariant and what workers and the boot know are preserved.
LEMMA TypeInvStep == TypeInv /\ [Next]_vars => TypeInv'
<1>. SUFFICES ASSUME TypeInv, [Next]_vars
             PROVE  TypeInv'
  OBVIOUS
<1>. USE SecretStoreAssumption
         DEF TypeInv, WorkersKnow, BootKnows, TypeOK, Secret, NoSecret,
                     Columns,
         NoColumns, Phases, Undecryptable, FromColumns, Decrypt, storeVars,
         bootVars, workerVars, obsVars
<1>1. ASSUME NEW w \in Workers, NEW c \in Certs, Issue(w, c) PROVE TypeInv'
  BY <1>1 DEF Issue, Starts
<1>2. ASSUME NEW w \in Workers, NEW c \in Certs, PfxFetch(w, c) PROVE TypeInv'
  BY <1>2 DEF PfxFetch, Starts
<1>3. ASSUME NEW w \in Workers, NEW c \in Certs,
             DeleteFetch(w, c)
      PROVE  TypeInv'
  BY <1>3 DEF DeleteFetch, Starts
<1>4. ASSUME NEW w \in Workers, StoreColumns(w) PROVE TypeInv'
  <2>1. db' \in [Certs -> Columns]
    BY <1>4 DEF StoreColumns, UpdateRow, Rest
  <2>2. TypeOK'
    BY <1>4, <2>1 DEF StoreColumns, UpdateRow, Rest
  <2>3. WorkersKnow'
    BY <1>4 DEF StoreColumns, UpdateRow, Rest
  <2>4. BootKnows'
    BY <1>4 DEF StoreColumns, UpdateRow, Rest
  <2>. QED
    BY <2>1, <2>2, <2>3, <2>4
<1>5. ASSUME NEW w \in Workers, StoreRead(w) PROVE TypeInv'
  BY <1>5 DEF StoreRead
<1>6. ASSUME NEW w \in Workers, StoreReadFails(w) PROVE TypeInv'
  BY <1>6 DEF StoreReadFails
<1>7. ASSUME NEW w \in Workers, StoreWrite(w) PROVE TypeInv'
  <2>1. kv' \in [Certs -> Secret]
    BY <1>7 DEF StoreWrite, NoteRace
  <2>2. TypeOK'
    BY <1>7, <2>1 DEF StoreWrite, NoteRace
  <2>3. WorkersKnow'
    BY <1>7 DEF StoreWrite, NoteRace
  <2>4. BootKnows'
    BY <1>7 DEF StoreWrite, NoteRace
  <2>. QED
    BY <2>1, <2>2, <2>3, <2>4
<1>8. ASSUME NEW w \in Workers, StoreRef(w) PROVE TypeInv'
  <2>1. db' \in [Certs -> Columns]
    BY <1>8 DEF StoreRef, UpdateRow, Rest
  <2>2. TypeOK'
    BY <1>8, <2>1 DEF StoreRef, UpdateRow, Rest
  <2>3. WorkersKnow'
    BY <1>8 DEF StoreRef, UpdateRow, Rest
  <2>4. BootKnows'
    BY <1>8 DEF StoreRef, UpdateRow, Rest
  <2>. QED
    BY <2>1, <2>2, <2>3, <2>4
<1>9. ASSUME NEW w \in Workers, PfxShow(w) PROVE TypeInv'
  BY <1>9 DEF PfxShow, Loaded, Loads, Rest
<1>10. ASSUME NEW w \in Workers, PfxMint(w) PROVE TypeInv'
  BY <1>10 DEF PfxMint, Loaded, Loads
<1>11. ASSUME NEW w \in Workers, PfxRead(w) PROVE TypeInv'
  BY <1>11 DEF PfxRead
<1>12. ASSUME NEW w \in Workers, PfxWrite(w) PROVE TypeInv'
  <2>1. kv' \in [Certs -> Secret]
    BY <1>12 DEF PfxWrite, Rest
  <2>2. TypeOK'
    BY <1>12, <2>1 DEF PfxWrite, Rest
  <2>3. WorkersKnow'
    BY <1>12 DEF PfxWrite, Rest
  <2>4. BootKnows'
    BY <1>12 DEF PfxWrite, Rest
  <2>. QED
    BY <2>1, <2>2, <2>3, <2>4
<1>13. ASSUME NEW w \in Workers, PfxUpdate(w) PROVE TypeInv'
  <2>1. db' \in [Certs -> Columns]
    BY <1>13 DEF PfxUpdate, UpdateRow, Rest
  <2>2. TypeOK'
    BY <1>13, <2>1 DEF PfxUpdate, UpdateRow, Rest
  <2>3. WorkersKnow'
    BY <1>13 DEF PfxUpdate, UpdateRow, Rest
  <2>4. BootKnows'
    BY <1>13 DEF PfxUpdate, UpdateRow, Rest
  <2>. QED
    BY <2>1, <2>2, <2>3, <2>4
<1>14. ASSUME NEW w \in Workers, DeleteRow(w) PROVE TypeInv'
  BY <1>14 DEF DeleteRow
<1>15. ASSUME NEW w \in Workers, DeleteNotFound(w) PROVE TypeInv'
  BY <1>15 DEF DeleteNotFound, Rest
<1>16. ASSUME NEW w \in Workers, DeleteSecret(w) PROVE TypeInv'
  BY <1>16 DEF DeleteSecret, Rest
<1>17. ASSUME NEW w \in Workers, GivesUp(w) PROVE TypeInv'
  BY <1>17 DEF GivesUp, Rest
<1>18. ASSUME NEW c \in Certs, MigrateWrite(c) PROVE TypeInv'
  BY <1>18 DEF MigrateWrite
<1>19. ASSUME NEW c \in Certs, MigrateClear(c) PROVE TypeInv'
  <2>1. db' \in [Certs -> Columns]
    BY <1>19 DEF MigrateClear, UpdateRow, Moved
  <2>2. TypeOK'
    BY <1>19, <2>1 DEF MigrateClear, UpdateRow, Moved
  <2>3. WorkersKnow'
    BY <1>19 DEF MigrateClear, UpdateRow, Moved
  <2>4. BootKnows'
    BY <1>19 DEF MigrateClear, UpdateRow, Moved
  <2>. QED
    BY <2>1, <2>2, <2>3, <2>4
<1>20. CASE BootDatabase
  BY <1>20 DEF BootDatabase
<1>21. CASE BootOpenBao
  BY <1>21 DEF BootOpenBao, Unmoved
<1>22. CASE RotateCookieKey
  <2>1. db' \in [Certs -> Columns]
    BY <1>22 DEF RotateCookieKey
  <2>2. TypeOK'
    BY <1>22, <2>1 DEF RotateCookieKey
  <2>3. WorkersKnow'
    BY <1>22 DEF RotateCookieKey
  <2>4. BootKnows'
    BY <1>22 DEF RotateCookieKey
  <2>. QED
    BY <2>1, <2>2, <2>3, <2>4
<1>23. CASE MigrateDone
  <2>1. moved' \in BOOLEAN /\ unscrubbed' \in BOOLEAN
    BY <1>23 DEF MigrateDone
  <2>2. TypeOK'
    BY <1>23, <2>1 DEF MigrateDone
  <2>3. WorkersKnow'
    BY <1>23 DEF MigrateDone
  <2>4. BootKnows'
    BY <1>23 DEF MigrateDone
  <2>. QED
    BY <2>1, <2>2, <2>3, <2>4
<1>24. CASE Stop
  <2>1. moved' \in BOOLEAN /\ unscrubbed' \in BOOLEAN
    BY <1>24 DEF Stop
  <2>2. TypeOK'
    BY <1>24, <2>1 DEF Stop
  <2>3. WorkersKnow'
    BY <1>24 DEF Stop
  <2>4. BootKnows'
    BY <1>24 DEF Stop
  <2>. QED
    BY <2>1, <2>2, <2>3, <2>4
<1>25. CASE UNCHANGED vars
  BY <1>25 DEF vars
<1>. HIDE DEF TypeInv
<1>. QED
  BY <1>1, <1>2, <1>3, <1>4, <1>5, <1>6, <1>7, <1>8, <1>9, <1>10, <1>11,
     <1>12, <1>13, <1>14, <1>15, <1>16, <1>17, <1>18, <1>19, <1>20, <1>21,
     <1>22, <1>23, <1>24, <1>25
     DEF Next, Work, Boot

\* An UPDATE changes the columns of one row, if it is still there, and the
\* worker rests after it, without a trace in what the others know.
Updates(w, mat, pw, ref) ==
    /\ row[w] \in Certs /\ life' = life
    /\ \A c \in Certs : c # row[w] \/ life[c] # "present" => db'[c] = db[c]
    /\ LET c == row[w] IN
       life[c] = "present" =>
           db'[c].mat = mat /\ db'[c].pw = pw /\ db'[c].ref = ref
    /\ pc'[w] = "idle"
    /\ \A v \in Workers : v # w =>
           /\ pc'[v] = pc[v] /\ row'[v] = row[v] /\ snap'[v] = snap[v]
           /\ data'[v] = data[v] /\ new'[v] = new[v]

LEMMA UpdateIs ==
    ASSUME TypeInv, NEW w \in Workers, row[w] \in Certs, life' = life,
           NEW mat, NEW pw, NEW ref, Rest(w),
           db' = UpdateRow(row[w], [mat |-> mat, pw |-> pw, ref |-> ref])
    PROVE  Updates(w, mat, pw, ref)
<1>1. \A c \in Certs : c # row[w] \/ life[c] # "present" => db'[c] = db[c]
  BY DEF UpdateRow, TypeInv, TypeOK
<1>2. life[row[w]] = "present" =>
          db'[row[w]] = [mat |-> mat, pw |-> pw, ref |-> ref]
  BY DEF UpdateRow, TypeInv, TypeOK
<1>3. pc'[w] = "idle"
  BY DEF Rest, TypeInv, TypeOK
<1>4. \A v \in Workers : v # w =>
          /\ pc'[v] = pc[v] /\ row'[v] = row[v] /\ snap'[v] = snap[v]
          /\ data'[v] = data[v] /\ new'[v] = new[v]
  BY DEF Rest, TypeInv, TypeOK
<1>. QED
  BY <1>1, <1>2, <1>3, <1>4 DEF Updates

\* What the three UPDATEs of a worker do.
LEMMA ColumnUpdates ==
    ASSUME TypeInv, NEW w \in Workers
    PROVE  /\ StoreColumns(w) =>
                  Updates(w, new[w].mat, db[row[w]].pw, db[row[w]].ref)
           /\ StoreRef(w) => Updates(w, 0, db[row[w]].pw, TRUE)
           /\ PfxUpdate(w) =>
                  Updates(w, db[row[w]].mat, new[w].pw, db[row[w]].ref)
<1>1. pc[w] # "idle" => row[w] \in Certs
  BY DEF TypeInv, WorkersKnow
<1>2. ASSUME StoreColumns(w)
      PROVE  Updates(w, new[w].mat, db[row[w]].pw, db[row[w]].ref)
  BY <1>1, <1>2, UpdateIs DEF StoreColumns
<1>3. ASSUME StoreRef(w) PROVE Updates(w, 0, db[row[w]].pw, TRUE)
  BY <1>1, <1>3, UpdateIs DEF StoreRef
<1>4. ASSUME PfxUpdate(w)
      PROVE  Updates(w, db[row[w]].mat, new[w].pw, db[row[w]].ref)
  BY <1>1, <1>4, UpdateIs DEF PfxUpdate
<1>. QED
  BY <1>2, <1>3, <1>4

\* Pointers keep resolving.
LEMMA PointersStep ==
    TypeInv /\ TypeInv' /\ PointersHold /\ [Next]_vars
      => PointersHold'
<1>. SUFFICES ASSUME TypeInv, TypeInv', PointersHold, [Next]_vars
             PROVE  PointersHold'
  OBVIOUS
<1>. USE SecretStoreAssumption
         DEF PointersHold, RefResolves, TypeInv, WorkersKnow, BootKnows,
                     TypeOK,
         Secret, NoSecret, Columns, NoColumns, Phases, Undecryptable,
         FromColumns, Decrypt, storeVars, bootVars, workerVars, obsVars
<1>1. ASSUME NEW w \in Workers, NEW c \in Certs,
             Issue(w, c)
      PROVE  PointersHold'
  BY <1>1 DEF Issue, Starts
<1>2. ASSUME NEW w \in Workers, NEW c \in Certs,
             PfxFetch(w, c)
      PROVE  PointersHold'
  BY <1>2 DEF PfxFetch, Starts
<1>3. ASSUME NEW w \in Workers, NEW c \in Certs,
             DeleteFetch(w, c)
      PROVE  PointersHold'
  BY <1>3 DEF DeleteFetch, Starts
<1>4. ASSUME NEW w \in Workers, StoreColumns(w) PROVE PointersHold'
  <2>. HIDE DEF TypeInv
  <2>1. Updates(w, new[w].mat, db[row[w]].pw, db[row[w]].ref)
    BY <1>4, ColumnUpdates
  <2>2. pc[w] = "issuing" /\ kv' = kv /\ new[w].mat # 0
    BY <1>4 DEF StoreColumns, TypeInv
  <2>3. \A v \in Workers : pc[v] # "idle" => row[v] \in Certs
    BY DEF TypeInv
  <2>. HIDE DEF TypeOK, WorkersKnow, BootKnows
  <2>. QED
    BY <2>1, <2>2, <2>3 DEF Updates
<1>5. ASSUME NEW w \in Workers, StoreRead(w) PROVE PointersHold'
  BY <1>5 DEF StoreRead
<1>6. ASSUME NEW w \in Workers, StoreReadFails(w) PROVE PointersHold'
  BY <1>6 DEF StoreReadFails
<1>7. ASSUME NEW w \in Workers, StoreWrite(w) PROVE PointersHold'
  BY <1>7 DEF StoreWrite, NoteRace
<1>8. ASSUME NEW w \in Workers, StoreRef(w) PROVE PointersHold'
  <2>. HIDE DEF TypeInv
  <2>1. Updates(w, 0, db[row[w]].pw, TRUE)
    BY <1>8, ColumnUpdates
  <2>2. pc[w] = "store_ref" /\ kv' = kv
    BY <1>8 DEF StoreRef, TypeInv
  <2>3. \A v \in Workers : pc[v] # "idle" => row[v] \in Certs
    BY DEF TypeInv
  <2>. HIDE DEF TypeOK, WorkersKnow, BootKnows
  <2>. QED
    BY <2>1, <2>2, <2>3 DEF Updates
<1>9. ASSUME NEW w \in Workers, PfxShow(w) PROVE PointersHold'
  BY <1>9 DEF PfxShow, Loaded, Loads, Rest
<1>10. ASSUME NEW w \in Workers, PfxMint(w) PROVE PointersHold'
  BY <1>10 DEF PfxMint, Loaded, Loads
<1>11. ASSUME NEW w \in Workers, PfxRead(w) PROVE PointersHold'
  BY <1>11 DEF PfxRead
<1>12. ASSUME NEW w \in Workers, PfxWrite(w) PROVE PointersHold'
  BY <1>12 DEF PfxWrite, Rest
<1>13. ASSUME NEW w \in Workers, PfxUpdate(w) PROVE PointersHold'
  <2>. HIDE DEF TypeInv
  <2>1. Updates(w, db[row[w]].mat, new[w].pw, db[row[w]].ref)
    BY <1>13, ColumnUpdates
  <2>2. pc[w] = "pfx_update" /\ kv' = kv
    BY <1>13 DEF PfxUpdate, TypeInv
  <2>3. \A v \in Workers : pc[v] # "idle" => row[v] \in Certs
    BY DEF TypeInv
  <2>. HIDE DEF TypeOK, WorkersKnow, BootKnows
  <2>. QED
    BY <2>1, <2>2, <2>3 DEF Updates
<1>14. ASSUME NEW w \in Workers, DeleteRow(w) PROVE PointersHold'
  BY <1>14 DEF DeleteRow
<1>15. ASSUME NEW w \in Workers, DeleteNotFound(w) PROVE PointersHold'
  BY <1>15 DEF DeleteNotFound, Rest
<1>16. ASSUME NEW w \in Workers, DeleteSecret(w) PROVE PointersHold'
  BY <1>16 DEF DeleteSecret, Rest
<1>17. ASSUME NEW w \in Workers, GivesUp(w) PROVE PointersHold'
  BY <1>17 DEF GivesUp, Rest
<1>18. ASSUME NEW c \in Certs, MigrateWrite(c) PROVE PointersHold'
  BY <1>18 DEF MigrateWrite
<1>19. ASSUME NEW c \in Certs, MigrateClear(c) PROVE PointersHold'
  BY <1>19 DEF MigrateClear, UpdateRow, Moved
<1>20. CASE BootDatabase
  BY <1>20 DEF BootDatabase
<1>21. CASE BootOpenBao
  BY <1>21 DEF BootOpenBao, Unmoved
<1>22. CASE RotateCookieKey
  BY <1>22 DEF RotateCookieKey
<1>23. CASE MigrateDone
  BY <1>23 DEF MigrateDone
<1>24. CASE Stop
  BY <1>24 DEF Stop
<1>25. CASE UNCHANGED vars
  BY <1>25 DEF vars
<1>. HIDE DEF PointersHold
<1>. QED
  BY <1>1, <1>2, <1>3, <1>4, <1>5, <1>6, <1>7, <1>8, <1>9, <1>10, <1>11,
     <1>12, <1>13, <1>14, <1>15, <1>16, <1>17, <1>18, <1>19, <1>20, <1>21,
     <1>22, <1>23, <1>24, <1>25
     DEF Next, Work, Boot

\* What is swept stays swept.
LEMMA SweptStep ==
    ~MayGoBack /\ TypeInv /\ TypeInv' /\ PointersHold /\ SweepHolds /\
        [Next]_vars
      => SweepHolds'
<1>. SUFFICES ASSUME ~MayGoBack, TypeInv, TypeInv', PointersHold,
                     SweepHolds, [Next]_vars
             PROVE  SweepHolds'
  OBVIOUS
<1>. USE SecretStoreAssumption
         DEF SweepHolds, SweptBeforeServing, Unmoved, TypeInv, WorkersKnow,
         BootKnows, TypeOK, Secret, NoSecret, Columns, NoColumns, Phases,
         Undecryptable, FromColumns, Decrypt, storeVars, bootVars, workerVars,
         obsVars
<1>1. ASSUME NEW w \in Workers, NEW c \in Certs, Issue(w, c) PROVE SweepHolds'
  BY <1>1 DEF Issue, Starts
<1>2. ASSUME NEW w \in Workers, NEW c \in Certs,
             PfxFetch(w, c)
      PROVE  SweepHolds'
  BY <1>2 DEF PfxFetch, Starts
<1>3. ASSUME NEW w \in Workers, NEW c \in Certs,
             DeleteFetch(w, c)
      PROVE  SweepHolds'
  BY <1>3 DEF DeleteFetch, Starts
<1>4. ASSUME NEW w \in Workers, StoreColumns(w) PROVE SweepHolds'
  BY <1>4 DEF StoreColumns, UpdateRow, Rest
<1>5. ASSUME NEW w \in Workers, StoreRead(w) PROVE SweepHolds'
  BY <1>5 DEF StoreRead
<1>6. ASSUME NEW w \in Workers, StoreReadFails(w) PROVE SweepHolds'
  BY <1>6 DEF StoreReadFails
<1>7. ASSUME NEW w \in Workers, StoreWrite(w) PROVE SweepHolds'
  BY <1>7 DEF StoreWrite, NoteRace
<1>8. ASSUME NEW w \in Workers, StoreRef(w) PROVE SweepHolds'
  BY <1>8 DEF StoreRef, UpdateRow, Rest
<1>9. ASSUME NEW w \in Workers, PfxShow(w) PROVE SweepHolds'
  BY <1>9 DEF PfxShow, Loaded, Loads, Rest
<1>10. ASSUME NEW w \in Workers, PfxMint(w) PROVE SweepHolds'
  BY <1>10 DEF PfxMint, Loaded, Loads
<1>11. ASSUME NEW w \in Workers, PfxRead(w) PROVE SweepHolds'
  BY <1>11 DEF PfxRead
<1>12. ASSUME NEW w \in Workers, PfxWrite(w) PROVE SweepHolds'
  BY <1>12 DEF PfxWrite, Rest
<1>13. ASSUME NEW w \in Workers, PfxUpdate(w) PROVE SweepHolds'
  BY <1>13 DEF PfxUpdate, UpdateRow, Rest
<1>14. ASSUME NEW w \in Workers, DeleteRow(w) PROVE SweepHolds'
  BY <1>14 DEF DeleteRow
<1>15. ASSUME NEW w \in Workers, DeleteNotFound(w) PROVE SweepHolds'
  BY <1>15 DEF DeleteNotFound, Rest
<1>16. ASSUME NEW w \in Workers, DeleteSecret(w) PROVE SweepHolds'
  BY <1>16 DEF DeleteSecret, Rest
<1>17. ASSUME NEW w \in Workers, GivesUp(w) PROVE SweepHolds'
  BY <1>17 DEF GivesUp, Rest
<1>18. ASSUME NEW c \in Certs, MigrateWrite(c) PROVE SweepHolds'
  BY <1>18 DEF MigrateWrite
<1>19. ASSUME NEW c \in Certs, MigrateClear(c) PROVE SweepHolds'
  BY <1>19 DEF MigrateClear, UpdateRow, Moved
<1>20. CASE BootDatabase
  BY <1>20 DEF BootDatabase
<1>21. CASE BootOpenBao
  BY <1>21 DEF BootOpenBao, Unmoved
<1>22. CASE RotateCookieKey
  BY <1>22 DEF RotateCookieKey
<1>23. CASE MigrateDone
  BY <1>23 DEF MigrateDone
<1>24. CASE Stop
  BY <1>24 DEF Stop
<1>25. CASE UNCHANGED vars
  BY <1>25 DEF vars
<1>. HIDE DEF SweepHolds
<1>. QED
  BY <1>1, <1>2, <1>3, <1>4, <1>5, <1>6, <1>7, <1>8, <1>9, <1>10, <1>11,
     <1>12, <1>13, <1>14, <1>15, <1>16, <1>17, <1>18, <1>19, <1>20, <1>21,
     <1>22, <1>23, <1>24, <1>25
     DEF Next, Work, Boot

\* The newest material stays the one that is served.
LEMMA LatestStep ==
    ~MayGoBack /\ TypeInv /\ TypeInv' /\ PointersHold /\ SweepHolds /\
        LatestHolds /\ [Next]_vars
      => LatestHolds'
<1>. SUFFICES ASSUME ~MayGoBack, TypeInv, TypeInv', PointersHold,
                     SweepHolds, LatestHolds, [Next]_vars
             PROVE  LatestHolds'
  OBVIOUS
<1>. USE SecretStoreAssumption
         DEF LatestHolds, SweepHolds, SweptBeforeServing, PointersHold,
                     Unmoved,
         TypeInv, WorkersKnow, BootKnows, TypeOK, Secret, NoSecret, Columns,
         NoColumns, Phases, Undecryptable, FromColumns, Decrypt, storeVars,
         bootVars, workerVars, obsVars
<1>1. ASSUME NEW w \in Workers, NEW c \in Certs,
             Issue(w, c)
      PROVE  LatestHolds'
  BY <1>1 DEF Issue, Starts
<1>2. ASSUME NEW w \in Workers, NEW c \in Certs,
             PfxFetch(w, c)
      PROVE  LatestHolds'
  BY <1>2 DEF PfxFetch, Starts
<1>3. ASSUME NEW w \in Workers, NEW c \in Certs,
             DeleteFetch(w, c)
      PROVE  LatestHolds'
  BY <1>3 DEF DeleteFetch, Starts
<1>4. ASSUME NEW w \in Workers, StoreColumns(w) PROVE LatestHolds'
  BY <1>4 DEF StoreColumns, UpdateRow, Rest
<1>5. ASSUME NEW w \in Workers, StoreRead(w) PROVE LatestHolds'
  BY <1>5 DEF StoreRead
<1>6. ASSUME NEW w \in Workers, StoreReadFails(w) PROVE LatestHolds'
  BY <1>6 DEF StoreReadFails
<1>7. ASSUME NEW w \in Workers, StoreWrite(w) PROVE LatestHolds'
  BY <1>7 DEF StoreWrite, NoteRace
<1>8. ASSUME NEW w \in Workers, StoreRef(w) PROVE LatestHolds'
  BY <1>8 DEF StoreRef, UpdateRow, Rest
<1>9. ASSUME NEW w \in Workers, PfxShow(w) PROVE LatestHolds'
  BY <1>9 DEF PfxShow, Loaded, Loads, Rest
<1>10. ASSUME NEW w \in Workers, PfxMint(w) PROVE LatestHolds'
  BY <1>10 DEF PfxMint, Loaded, Loads
<1>11. ASSUME NEW w \in Workers, PfxRead(w) PROVE LatestHolds'
  BY <1>11 DEF PfxRead
<1>12. ASSUME NEW w \in Workers, PfxWrite(w) PROVE LatestHolds'
  BY <1>12 DEF PfxWrite, Rest
<1>13. ASSUME NEW w \in Workers, PfxUpdate(w) PROVE LatestHolds'
  BY <1>13 DEF PfxUpdate, UpdateRow, Rest
<1>14. ASSUME NEW w \in Workers, DeleteRow(w) PROVE LatestHolds'
  BY <1>14 DEF DeleteRow
<1>15. ASSUME NEW w \in Workers, DeleteNotFound(w) PROVE LatestHolds'
  BY <1>15 DEF DeleteNotFound, Rest
<1>16. ASSUME NEW w \in Workers, DeleteSecret(w) PROVE LatestHolds'
  BY <1>16 DEF DeleteSecret, Rest
<1>17. ASSUME NEW w \in Workers, GivesUp(w) PROVE LatestHolds'
  BY <1>17 DEF GivesUp, Rest
<1>18. ASSUME NEW c \in Certs, MigrateWrite(c) PROVE LatestHolds'
  BY <1>18 DEF MigrateWrite
<1>19. ASSUME NEW c \in Certs, MigrateClear(c) PROVE LatestHolds'
  BY <1>19 DEF MigrateClear, UpdateRow, Moved
<1>20. CASE BootDatabase
  BY <1>20 DEF BootDatabase
<1>21. CASE BootOpenBao
  BY <1>21 DEF BootOpenBao, Unmoved
<1>22. CASE RotateCookieKey
  BY <1>22 DEF RotateCookieKey
<1>23. CASE MigrateDone
  BY <1>23 DEF MigrateDone
<1>24. CASE Stop
  BY <1>24 DEF Stop
<1>25. CASE UNCHANGED vars
  BY <1>25 DEF vars
<1>. HIDE DEF LatestHolds
<1>. QED
  BY <1>1, <1>2, <1>3, <1>4, <1>5, <1>6, <1>7, <1>8, <1>9, <1>10, <1>11,
     <1>12, <1>13, <1>14, <1>15, <1>16, <1>17, <1>18, <1>19, <1>20, <1>21,
     <1>22, <1>23, <1>24, <1>25
     DEF Next, Work, Boot

\* No write of a worker replaces a password it has not seen.
LEMMA PasswordStep ==
    ~MayGoBack /\ TypeInv /\ TypeInv' /\ PointersHold /\ SweepHolds /\
        PasswordHolds /\ [Next]_vars
      => PasswordHolds'
<1>. SUFFICES ASSUME ~MayGoBack, TypeInv, TypeInv', PointersHold,
                     SweepHolds, PasswordHolds, [Next]_vars
             PROVE  PasswordHolds'
  OBVIOUS
<1>. USE SecretStoreAssumption
         DEF PasswordHolds, StoredPassword, SweepHolds, SweptBeforeServing,
         PointersHold, Unmoved, TypeInv, WorkersKnow, BootKnows, TypeOK,
         Secret, NoSecret, Columns, NoColumns, Phases, Undecryptable,
         FromColumns, Decrypt, storeVars, bootVars, workerVars, obsVars
<1>1. ASSUME NEW w \in Workers, NEW c \in Certs,
             Issue(w, c)
      PROVE  PasswordHolds'
  BY <1>1 DEF Issue, Starts
<1>2. ASSUME NEW w \in Workers, NEW c \in Certs,
             PfxFetch(w, c)
      PROVE  PasswordHolds'
  BY <1>2 DEF PfxFetch, Starts
<1>3. ASSUME NEW w \in Workers, NEW c \in Certs,
             DeleteFetch(w, c)
      PROVE  PasswordHolds'
  BY <1>3 DEF DeleteFetch, Starts
<1>4. ASSUME NEW w \in Workers, StoreColumns(w) PROVE PasswordHolds'
  BY <1>4 DEF StoreColumns, UpdateRow, Rest
<1>5. ASSUME NEW w \in Workers, StoreRead(w) PROVE PasswordHolds'
  BY <1>5 DEF StoreRead
<1>6. ASSUME NEW w \in Workers, StoreReadFails(w) PROVE PasswordHolds'
  BY <1>6 DEF StoreReadFails
<1>7. ASSUME NEW w \in Workers, StoreWrite(w) PROVE PasswordHolds'
  BY <1>7 DEF StoreWrite, NoteRace
<1>8. ASSUME NEW w \in Workers, StoreRef(w) PROVE PasswordHolds'
  BY <1>8 DEF StoreRef, UpdateRow, Rest
<1>9. ASSUME NEW w \in Workers, PfxShow(w) PROVE PasswordHolds'
  BY <1>9 DEF PfxShow, Loaded, Loads, Rest
<1>10. ASSUME NEW w \in Workers, PfxMint(w) PROVE PasswordHolds'
  BY <1>10 DEF PfxMint, Loaded, Loads
<1>11. ASSUME NEW w \in Workers, PfxRead(w) PROVE PasswordHolds'
  BY <1>11 DEF PfxRead
<1>12. ASSUME NEW w \in Workers, PfxWrite(w) PROVE PasswordHolds'
  BY <1>12 DEF PfxWrite, Rest
<1>13. ASSUME NEW w \in Workers, PfxUpdate(w) PROVE PasswordHolds'
  <2>. DEFINE c == row[w]
  <2>. HIDE DEF TypeInv
  <2>1. Updates(w, db[c].mat, new[w].pw, db[c].ref)
    BY <1>13, ColumnUpdates
  <2>2. /\ pc[w] = "pfx_update" /\ kv' = kv /\ forgotten' = forgotten
        /\ raced \subseteq raced'
        /\ c \notin raced' => Decrypt(db[c].pw) = 0
    BY <1>13 DEF PfxUpdate
  <2>3. /\ c \in Certs /\ new[w].pw \in 1..MaxMints /\ ~db[c].ref
        /\ \A v \in Workers : pc[v] # "idle" => row[v] \in Certs
    BY <1>13, <2>2 DEF TypeInv
  <2>4. /\ shown'[c] = shown[c] \cup {new[w].pw}
        /\ \A d \in Certs : d # c => shown'[d] = shown[d]
    <3>. HIDE DEF SweepHolds, PointersHold, PasswordHolds
    <3>1. shown \in [Certs -> SUBSET (0..MaxMints)]
      BY DEF TypeInv
    <3>. HIDE DEF TypeOK, WorkersKnow, BootKnows
    <3>. QED
      BY <1>13, <2>3, <3>1 DEF PfxUpdate
  <2>. HIDE DEF TypeOK, WorkersKnow, BootKnows, SweepHolds, PointersHold
  <2>5. \A v \in Workers :
           pc'[v] \in {"pfx_read", "pfx_write", "pfx_update"} => new'[v].pw # 0
    BY <2>1 DEF Updates
  <2>6. ASSUME NEW d \in Certs \ (raced' \cup forgotten'),
               life'[d] = "present", NEW p \in shown'[d]
        PROVE  p # 0 /\ p = StoredPassword(d)'
    BY <2>1, <2>2, <2>3, <2>4, <2>6 DEF Updates
  <2>7. ASSUME NEW d \in Certs \ (raced' \cup forgotten'),
               life'[d] = "present", NEW v \in Workers,
               pc'[v] = "pfx_load", row'[v] = d, ~snap'[v].ref,
               snap'[v].mat # 0, Decrypt(snap'[v].pw) # 0
        PROVE  Decrypt(db'[d].pw) = Decrypt(snap'[v].pw)
    BY <2>1, <2>2, <2>7 DEF Updates
  <2>8. ASSUME NEW d \in Certs \ (raced' \cup forgotten'),
               life'[d] = "present", NEW v \in Workers,
               pc'[v] = "pfx_write", row'[v] = d
        PROVE  db'[d].ref
    BY <2>1, <2>2, <2>8 DEF Updates
  <2>. HIDE DEF Decrypt, Undecryptable, StoredPassword
  <2>. QED
    BY <2>5, <2>6, <2>7, <2>8
<1>14. ASSUME NEW w \in Workers, DeleteRow(w) PROVE PasswordHolds'
  BY <1>14 DEF DeleteRow
<1>15. ASSUME NEW w \in Workers, DeleteNotFound(w) PROVE PasswordHolds'
  BY <1>15 DEF DeleteNotFound, Rest
<1>16. ASSUME NEW w \in Workers, DeleteSecret(w) PROVE PasswordHolds'
  BY <1>16 DEF DeleteSecret, Rest
<1>17. ASSUME NEW w \in Workers, GivesUp(w) PROVE PasswordHolds'
  BY <1>17 DEF GivesUp, Rest
<1>18. ASSUME NEW c \in Certs, MigrateWrite(c) PROVE PasswordHolds'
  BY <1>18 DEF MigrateWrite
<1>19. ASSUME NEW c \in Certs, MigrateClear(c) PROVE PasswordHolds'
  BY <1>19 DEF MigrateClear, UpdateRow, Moved
<1>20. CASE BootDatabase
  BY <1>20 DEF BootDatabase
<1>21. CASE BootOpenBao
  BY <1>21 DEF BootOpenBao, Unmoved
<1>22. CASE RotateCookieKey
  BY <1>22 DEF RotateCookieKey
<1>23. CASE MigrateDone
  BY <1>23 DEF MigrateDone
<1>24. CASE Stop
  BY <1>24 DEF Stop
<1>25. CASE UNCHANGED vars
  BY <1>25 DEF vars
<1>. HIDE DEF PasswordHolds
<1>. QED
  BY <1>1, <1>2, <1>3, <1>4, <1>5, <1>6, <1>7, <1>8, <1>9, <1>10, <1>11,
     <1>12, <1>13, <1>14, <1>15, <1>16, <1>17, <1>18, <1>19, <1>20, <1>21,
     <1>22, <1>23, <1>24, <1>25
     DEF Next, Work, Boot

\* No step takes the last copy of anything.
LEMMA KeepsStep ==
    TypeInv /\ TypeInv' /\ PointersHold /\ PointersHold' /\ [Next]_vars
      => KeepsMaterial
<1>. SUFFICES ASSUME TypeInv, TypeInv', PointersHold, PointersHold',
                     [Next]_vars
             PROVE  KeepsMaterial
  OBVIOUS
<1>. USE SecretStoreAssumption
         DEF KeepsMaterial, Material, PointersHold, RefResolves, TypeInv,
         WorkersKnow, BootKnows, TypeOK, Secret, NoSecret, Columns, NoColumns,
         Phases, Undecryptable, FromColumns, Decrypt, storeVars, bootVars,
         workerVars, obsVars
<1>1. ASSUME NEW w \in Workers, NEW c \in Certs,
             Issue(w, c)
      PROVE  KeepsMaterial
  BY <1>1 DEF Issue, Starts
<1>2. ASSUME NEW w \in Workers, NEW c \in Certs,
             PfxFetch(w, c)
      PROVE  KeepsMaterial
  BY <1>2 DEF PfxFetch, Starts
<1>3. ASSUME NEW w \in Workers, NEW c \in Certs,
             DeleteFetch(w, c)
      PROVE  KeepsMaterial
  BY <1>3 DEF DeleteFetch, Starts
<1>4. ASSUME NEW w \in Workers, StoreColumns(w) PROVE KeepsMaterial
  <2>. HIDE DEF TypeInv
  <2>1. Updates(w, new[w].mat, db[row[w]].pw, db[row[w]].ref)
    BY <1>4, ColumnUpdates
  <2>2. pc[w] = "issuing" /\ kv' = kv /\ new[w].mat # 0
    BY <1>4 DEF StoreColumns, TypeInv
  <2>. HIDE DEF TypeOK, WorkersKnow, BootKnows
  <2>. QED
    BY <2>1, <2>2 DEF Updates
<1>5. ASSUME NEW w \in Workers, StoreRead(w) PROVE KeepsMaterial
  BY <1>5 DEF StoreRead
<1>6. ASSUME NEW w \in Workers, StoreReadFails(w) PROVE KeepsMaterial
  BY <1>6 DEF StoreReadFails
<1>7. ASSUME NEW w \in Workers, StoreWrite(w) PROVE KeepsMaterial
  BY <1>7 DEF StoreWrite, NoteRace
<1>8. ASSUME NEW w \in Workers, StoreRef(w) PROVE KeepsMaterial
  <2>. HIDE DEF TypeInv
  <2>1. Updates(w, 0, db[row[w]].pw, TRUE)
    BY <1>8, ColumnUpdates
  <2>2. pc[w] = "store_ref" /\ kv' = kv
    BY <1>8 DEF StoreRef, TypeInv
  <2>. HIDE DEF TypeOK, WorkersKnow, BootKnows
  <2>. QED
    BY <2>1, <2>2 DEF Updates
<1>9. ASSUME NEW w \in Workers, PfxShow(w) PROVE KeepsMaterial
  BY <1>9 DEF PfxShow, Loaded, Loads, Rest
<1>10. ASSUME NEW w \in Workers, PfxMint(w) PROVE KeepsMaterial
  BY <1>10 DEF PfxMint, Loaded, Loads
<1>11. ASSUME NEW w \in Workers, PfxRead(w) PROVE KeepsMaterial
  BY <1>11 DEF PfxRead
<1>12. ASSUME NEW w \in Workers, PfxWrite(w) PROVE KeepsMaterial
  BY <1>12 DEF PfxWrite, Rest
<1>13. ASSUME NEW w \in Workers, PfxUpdate(w) PROVE KeepsMaterial
  <2>. HIDE DEF TypeInv
  <2>1. Updates(w, db[row[w]].mat, new[w].pw, db[row[w]].ref)
    BY <1>13, ColumnUpdates
  <2>2. pc[w] = "pfx_update" /\ kv' = kv
    BY <1>13 DEF PfxUpdate, TypeInv
  <2>. HIDE DEF TypeOK, WorkersKnow, BootKnows
  <2>. QED
    BY <2>1, <2>2 DEF Updates
<1>14. ASSUME NEW w \in Workers, DeleteRow(w) PROVE KeepsMaterial
  BY <1>14 DEF DeleteRow
<1>15. ASSUME NEW w \in Workers, DeleteNotFound(w) PROVE KeepsMaterial
  BY <1>15 DEF DeleteNotFound, Rest
<1>16. ASSUME NEW w \in Workers, DeleteSecret(w) PROVE KeepsMaterial
  BY <1>16 DEF DeleteSecret, Rest
<1>17. ASSUME NEW w \in Workers, GivesUp(w) PROVE KeepsMaterial
  BY <1>17 DEF GivesUp, Rest
<1>18. ASSUME NEW c \in Certs, MigrateWrite(c) PROVE KeepsMaterial
  BY <1>18 DEF MigrateWrite
<1>19. ASSUME NEW c \in Certs, MigrateClear(c) PROVE KeepsMaterial
  BY <1>19 DEF MigrateClear, UpdateRow, Moved
<1>20. CASE BootDatabase
  BY <1>20 DEF BootDatabase
<1>21. CASE BootOpenBao
  BY <1>21 DEF BootOpenBao, Unmoved
<1>22. CASE RotateCookieKey
  BY <1>22 DEF RotateCookieKey
<1>23. CASE MigrateDone
  BY <1>23 DEF MigrateDone
<1>24. CASE Stop
  BY <1>24 DEF Stop
<1>25. CASE UNCHANGED vars
  BY <1>25 DEF vars
<1>. HIDE DEF KeepsMaterial
<1>. QED
  BY <1>1, <1>2, <1>3, <1>4, <1>5, <1>6, <1>7, <1>8, <1>9, <1>10, <1>11,
     <1>12, <1>13, <1>14, <1>15, <1>16, <1>17, <1>18, <1>19, <1>20, <1>21,
     <1>22, <1>23, <1>24, <1>25
     DEF Next, Work, Boot

-----------------------------------------------------------------------------
(* SecretStore: the theorems.                                              *)

\* The types, and what a worker or the boot in the middle of its work knows.
LEMMA TypeInvariant == Spec => []TypeInv
<1>1. ASSUME Init PROVE TypeInv
  <2>1. moved \in BOOLEAN /\ unscrubbed \in BOOLEAN
    BY <1>1, Zenon DEF Init
  <2>2. TypeOK
    BY <1>1, <2>1, SecretStoreAssumption
       DEF Init, TypeOK, Phases, Secret, NoSecret, Columns, NoColumns
  <2>3. WorkersKnow /\ BootKnows
    BY <1>1 DEF Init, WorkersKnow, BootKnows
  <2>. QED
    BY <2>2, <2>3 DEF TypeInv
<1>. QED
  BY <1>1, TypeInvStep, PTL DEF Spec

\* Rows, secrets, workers and the migration keep their types: no numbering of
\* certificates or passwords leaves its range.
THEOREM StoreTypeCorrect == Spec => []TypeOK
<1>1. TypeInv => TypeOK
  BY DEF TypeInv
<1>. QED
  BY <1>1, TypeInvariant, PTL

\* Pointers, with what the workers know of the secrets behind them.
LEMMA Pointers == Spec => []PointersHold
<1>1. Init => PointersHold
  BY DEF Init, PointersHold, RefResolves, NoColumns
<1>. QED
  BY <1>1, PointersStep, TypeInvariant, PTL DEF Spec

\* For any number of rows and workers, whatever fails, and even if the server
\* goes back to the database and forth again: a row that points at OpenBao
\* finds a complete secret there.
THEOREM PointersResolve == Spec => []RefResolves
<1>1. PointersHold => RefResolves
  BY DEF PointersHold
<1>. QED
  BY <1>1, Pointers, PTL

\* No step, of a worker or of the migration, leaves a row that had key
\* material without any.
THEOREM MaterialIsKept == Spec => NothingIsLost
<1>1. TypeInv /\ TypeInv' /\ PointersHold /\ PointersHold' /\ [Next]_vars
        => [KeepsMaterial]_vars
  BY KeepsStep
<1>. QED
  BY <1>1, TypeInvariant, Pointers, PTL DEF Spec, NothingIsLost

\* The sweep, unless the server goes back to the database.
LEMMA Sweeps == ASSUME ~MayGoBack PROVE Spec => []SweepHolds
<1>1. Init => SweepHolds
  BY DEF Init, SweepHolds, SweptBeforeServing, NoColumns
<1>2. TypeInv /\ TypeInv' /\ PointersHold /\ SweepHolds /\
        [Next]_vars => SweepHolds'
  BY SweptStep
<1>. QED
  BY <1>1, <1>2, TypeInvariant, Pointers, PTL DEF Spec

\* Once it serves from OpenBao, the database holds no key and no password.
THEOREM NothingStaysBehind ==
    ASSUME ~MayGoBack PROVE Spec => []SweptBeforeServing
<1>1. SweepHolds => SweptBeforeServing
  BY DEF SweepHolds
<1>. QED
  BY <1>1, Sweeps, PTL

\* A row no two read-modify-writes met on serves what was stored last.
THEOREM NewestIsServed == ASSUME ~MayGoBack PROVE Spec => []ServesLatest
<1>1. Init => LatestHolds
  BY DEF Init, LatestHolds, NoColumns
<1>2. TypeInv /\ TypeInv' /\ PointersHold /\ SweepHolds /\ LatestHolds /\
        [Next]_vars
        => LatestHolds'
  BY LatestStep
<1>3. LatestHolds => ServesLatest
  BY DEF LatestHolds, ServesLatest, Material
<1>. QED
  BY <1>1, <1>2, <1>3, TypeInvariant, Pointers, Sweeps, PTL DEF Spec

\* A row no two read-modify-writes met on, and whose password could always be
\* read, hands out one PFX password.
THEOREM OnePasswordPerRow == ASSUME ~MayGoBack PROVE Spec => []PasswordKept
<1>1. Init => PasswordHolds
  BY DEF Init, PasswordHolds, NoColumns
<1>2. TypeInv /\ TypeInv' /\ PointersHold /\ SweepHolds /\ PasswordHolds /\
        [Next]_vars
        => PasswordHolds'
  BY PasswordStep
<1>3. ASSUME PasswordHolds PROVE PasswordKept
  <2>1. SUFFICES ASSUME NEW c \in Certs \ (raced \cup forgotten),
                        life[c] = "present"
                 PROVE  Cardinality(shown[c]) <= 1
    BY DEF PasswordKept
  <2>2. shown[c] \subseteq {StoredPassword(c)}
    BY <1>3, <2>1 DEF PasswordHolds
  <2>3. IsFiniteSet({StoredPassword(c)}) /\
        Cardinality({StoredPassword(c)}) = 1
    BY FS_Singleton
  <2>. QED
    BY <2>2, <2>3, FS_Subset
<1>. QED
  BY <1>1, <1>2, <1>3, TypeInvariant, Pointers, Sweeps, PTL DEF Spec

-----------------------------------------------------------------------------
(* Configuration: the inductive invariant.                                 *)

\* What every boot knows before it serves: no request runs, a block is being
\* applied to a free id, and what refers to OpenBao can read it.
BootHolds ==
    /\ stage # "serving" => \A r \in Reqs : req[r] = Idle
    /\ making # NoId => /\ stage = "provisioning" /\ block <= Blocks
                        /\ integration[making].life = "free"
                        /\ external => bao[making] = block
    /\ stage = "migrating" => block = 1
    /\ stage = "provisioning" => ~sentinel
    /\ stage = "serving" => sentinel \/ Blocks = 0
    /\ acct.ref => external
    /\ \A r \in Reqs : req[r].pc = "reg_ref" => external
    /\ \A i \in Ids : integration[i].ref => external
    /\ stage \in {"provisioning", "serving"} /\ external =>
           \A i \in Ids : integration[i].life = "live" => integration[i].ref

\* What a request in the middle of its statements knows of its integration,
\* as long as no other update met it there.
Creating == {"create_store", "create_insert"}
Deleting == {"delete_row", "delete_secret"}

CreatesKnow ==
    \A r \in Reqs : req[r].pc \in Creating =>
        /\ req[r].id \in Ids /\ integration[req[r].id].life = "free"
        /\ req[r].cfg # 0
        /\ \A q \in Reqs \ {r} : req[q].id # req[r].id
        /\ req[r].pc = "create_insert" /\ external => bao[req[r].id] = req[r].cfg

TargetsKnown ==
    \A r \in Reqs : req[r].pc \in Updating \union Deleting =>
        /\ req[r].id \in Ids /\ integration[req[r].id].life # "free"
        /\ req[r].pc = "delete_secret" => integration[req[r].id].life = "gone"

MeetingsNoted ==
    \A r, q \in Reqs :
        req[r].pc \in Updating /\ req[q].pc \in Updating /\ r # q
          /\ req[r].id = req[q].id /\ integration[req[r].id].life = "live"
            => req[r].id \in overlapped

UpdateKnows(f) ==
    /\ f.pc = "update_load" /\ f.kind = "rotate" => f.cfg # 0
    /\ f.pc = "update_load" /\ f.kind # "rotate" =>
           f.ref = integration[f.id].ref /\ f.cfg = integration[f.id].cfg
    /\ f.pc # "update_load" =>
           f.cfg # 0 /\ (f.kind # "rotate" => f.cfg = last[f.id])
    /\ f.pc = "update_row" /\ external =>
           bao[f.id] = f.cfg /\ last[f.id] = f.cfg

UpdatesKnow ==
    \A r \in Reqs :
        req[r].pc \in Updating /\ req[r].id \notin overlapped
          /\ integration[req[r].id].life = "live" => UpdateKnows(req[r])

RequestsHold ==
    KeepsCredentials /\ CreatesKnow /\ TargetsKnown /\ MeetingsNoted /\ UpdatesKnow

\* How far the provisioning file has been applied, in this boot and by those
\* that stopped half-way.
Applied(b) == stage = "provisioning" /\ b < block
CopiesHold ==
    \A b \in 1..Blocks :
        /\ Applied(b) \/ sentinel => copies[b] >= 1
        /\ copies[b] <= badBoots + (IF Applied(b) \/ sentinel THEN 1 ELSE 0)

\* What a registration or an issuance knows of the stored account, as long as
\* registrations neither cross nor end half-way.
Calm == \A r \in Reqs : req[r].pc \notin Registering
AccountHolds ==
    /\ \A r \in Reqs : req[r].pc \in Registering \union {"reg_key"} => req[r].key # 0
    /\ ~crossed /\ ~cut =>
           /\ \A r, q \in Reqs :
                  req[r].pc \in Registering /\ req[q].pc \in Registering => r = q
           /\ \A r \in Reqs : req[r].pc = "reg_ref" =>
                  external /\ baoKey = req[r].key
           /\ \A r \in Reqs : req[r].pc = "reg_url" => Key = req[r].key
           /\ Calm /\ Key # 0 /\ url # 0 => Key = url
           /\ \A r \in Reqs \ outdated : req[r].pc = "issue_key" =>
                  /\ Calm /\ url = req[r].url
                  /\ acct.ref = req[r].ref /\ acct.key = req[r].key
           /\ \A r \in Reqs \ outdated :
                  req[r].pc = "use" => req[r].key = req[r].url

-----------------------------------------------------------------------------
(* Configuration: every step preserves each part of it.                    *)

\* A step of a request changes that request alone.
LEMMA SetIs ==
    ASSUME ConfigTypeOK, NEW r \in Reqs, NEW f, Set(r, f)
    PROVE  req'[r] = f /\ \A q \in Reqs \ {r} : req'[q] = req[q]
  BY DEF Set, ConfigTypeOK, RequestTypes

\* Going to another phase leaves the rest of the request as it is.
LEMMA GotoIs ==
    ASSUME ConfigTypeOK, NEW r \in Reqs, NEW p, Goto(r, p)
    PROVE  /\ \A q \in Reqs \ {r} : req'[q] = req[q]
           /\ req'[r].pc = p /\ req'[r].id = req[r].id
           /\ req'[r].kind = req[r].kind /\ req'[r].cfg = req[r].cfg
           /\ req'[r].ref = req[r].ref /\ req'[r].key = req[r].key
<1>1. req[r] \in Request
  BY DEF ConfigTypeOK, RequestTypes
<1>2. /\ req'[r] = [req[r] EXCEPT !.pc = p]
      /\ \A q \in Reqs \ {r} : req'[q] = req[q]
  BY SetIs DEF Goto
<1>. QED
  BY <1>1, <1>2 DEF Request

\* A request of the right type stays one.
LEMMA SetTyped ==
    ASSUME ConfigTypeOK, NEW r \in Reqs, NEW f \in Request, Set(r, f)
    PROVE  req' \in [Reqs -> Request]
  BY DEF Set, ConfigTypeOK, RequestTypes

\* The phases a request can be in.
LEMMA PhasesAre ==
    {"idle", "create_store", "create_insert", "delete_row", "delete_secret",
     "issue_key", "use", "reg_ca", "reg_key", "update_load", "update_store",
     "update_row", "reg_ref", "reg_url"} \subseteq ReqPhases
  BY DEF ReqPhases, Updating, Registering

\* No version and no account number is in range.
LEMMA Zero == 0 \in 0..MaxVersion /\ 0 \in 0..MaxAccounts
  BY ConfigurationAssumption

\* An idle request is a request.
LEMMA IdleTyped == Idle \in Request
<1>1. "idle" \in ReqPhases
  BY PhasesAre
<1>. QED
  BY <1>1, Zero DEF Idle, Request

\* A request that moves on, or that a handler begins, is one.
LEMMA MoveTyped ==
    ASSUME NEW f \in Request, NEW p \in ReqPhases
    PROVE  [f EXCEPT !.pc = p] \in Request
  BY DEF Request

\* What a create begins with is a request.
LEMMA CreateTyped ==
    ASSUME NEW i \in Ids, NEW c \in 0..MaxVersion
    PROVE  [Idle EXCEPT !.pc = "create_store", !.id = i, !.cfg = c] \in Request
<1>1. "create_store" \in ReqPhases
  BY PhasesAre
<1>. QED
  BY <1>1, IdleTyped DEF Request

\* What an update begins with is a request.
LEMMA UpdateTyped ==
    ASSUME NEW i \in Ids, NEW k \in {"rotate", "masked", "rename"},
           NEW b \in BOOLEAN, NEW c \in 0..MaxVersion
    PROVE  [Idle EXCEPT !.pc = "update_load", !.id = i, !.kind = k, !.ref = b,
                        !.cfg = c] \in Request
<1>1. "update_load" \in ReqPhases
  BY PhasesAre
<1>. QED
  BY <1>1, IdleTyped DEF Request

\* What a delete begins with is a request.
LEMMA DeleteTyped ==
    ASSUME NEW i \in Ids, NEW b \in BOOLEAN
    PROVE  [Idle EXCEPT !.pc = "delete_row", !.id = i, !.ref = b] \in Request
<1>1. "delete_row" \in ReqPhases
  BY PhasesAre
<1>. QED
  BY <1>1, IdleTyped DEF Request

\* What an issuance begins with is a request.
LEMMA IssueTyped ==
    ASSUME NEW b \in BOOLEAN, NEW n \in 0..MaxAccounts, NEW u \in 0..MaxAccounts
    PROVE  [Idle EXCEPT !.pc = "issue_key", !.ref = b, !.key = n, !.url = u]
             \in Request
<1>1. "issue_key" \in ReqPhases
  BY PhasesAre
<1>. QED
  BY <1>1, IdleTyped DEF Request

\* Moving a request on keeps its type.
LEMMA GotoTyped ==
    ASSUME ConfigTypeOK, NEW r \in Reqs, NEW p \in ReqPhases, Goto(r, p)
    PROVE  req' \in [Reqs -> Request]
<1>1. [req[r] EXCEPT !.pc = p] \in Request
  <2>1. req[r] \in Request
    BY DEF ConfigTypeOK, RequestTypes
  <2>. QED
    BY <2>1, MoveTyped
<1>. QED
  BY <1>1, SetTyped DEF Goto

\* What a row holds is an integration.
LEMMA IntegrationTyped ==
    ASSUME NEW e \in Integration, NEW l \in {"free", "live", "gone"},
           NEW b \in BOOLEAN, NEW c \in 0..MaxVersion
    PROVE  /\ [e EXCEPT !.ref = b, !.cfg = c] \in Integration
           /\ [life |-> l, ref |-> b, cfg |-> c] \in Integration
  BY DEF Integration

\* Every action keeps the types.
LEMMA ConfigTypeStep ==
    ConfigTypeOK /\ BootHolds /\ TargetsKnown /\ [ConfigNext]_configVars => ConfigTypeOK'
<1>. SUFFICES ASSUME ConfigTypeOK, BootHolds, TargetsKnown, [ConfigNext]_configVars
             PROVE  ConfigTypeOK'
  OBVIOUS
<1>. USE DEF ConfigTypeOK
<1>1. ASSUME NEW i \in Ids, MigrateIntegration(i) PROVE ConfigTypeOK'
  <2>1. StoredTypes'
    <3>1. [integration[i] EXCEPT !.ref = TRUE, !.cfg = 0] \in Integration
      BY Zero, IntegrationTyped DEF StoredTypes
    <3>2. [integration EXCEPT ![i].ref = TRUE, ![i].cfg = 0] =
            [integration EXCEPT ![i] = [integration[i] EXCEPT !.ref = TRUE,
                                                              !.cfg = 0]]
      BY DEF StoredTypes, Integration
    <3>3. integration' \in [Ids -> Integration]
      BY <1>1, <3>1, <3>2 DEF MigrateIntegration, StoredTypes
    <3>4. bao' \in [Ids -> 0..MaxVersion]
      BY <1>1 DEF MigrateIntegration, StoredTypes, Integration
    <3>. QED
      BY <1>1, <3>3, <3>4 DEF MigrateIntegration, StoredTypes
  <2>2. BootTypes' /\ AccountTypes' /\ RequestTypes' /\ SeenTypes' /\ CountTypes'
    BY <1>1 DEF MigrateIntegration, boot, account, seen, seenBoots, seenAccounts, BootTypes,
       AccountTypes, RequestTypes, SeenTypes, CountTypes
  <2>. QED
    BY <2>1, <2>2

<1>2. CASE Start
  <2>1. BootTypes'
    <3>1. block' \in 1..(Blocks + 1)
      BY <1>2, ConfigurationAssumption DEF Start
    <3>2. external' \in BOOLEAN
      BY <1>2 DEF Start, BootTypes
    <3>. QED
      BY <1>2, <3>1, <3>2 DEF Start, BootTypes
  <2>2. StoredTypes' /\ AccountTypes' /\ RequestTypes' /\ SeenTypes' /\ CountTypes'
    BY <1>2 DEF Start, stored, account, seen, seenBoots, seenAccounts, StoredTypes, AccountTypes,
       RequestTypes, SeenTypes, CountTypes
  <2>. QED
    BY <2>1, <2>2

<1>3. CASE MigrateKey
  <2>1. AccountTypes'
    <3>1. CASE acct' = [ref |-> TRUE, key |-> 0] /\ UNCHANGED baoKey
      BY <1>3, <3>1, Zero DEF MigrateKey, AccountTypes
    <3>2. CASE baoKey' = acct.key /\ UNCHANGED acct
      BY <1>3, <3>2 DEF MigrateKey, AccountTypes
    <3>. QED
      BY <1>3, <3>1, <3>2 DEF MigrateKey
  <2>2. BootTypes' /\ StoredTypes' /\ RequestTypes' /\ SeenTypes' /\ CountTypes'
    BY <1>3 DEF MigrateKey, boot, stored, seen, seenBoots, seenAccounts, BootTypes, StoredTypes,
       RequestTypes, SeenTypes, CountTypes
  <2>. QED
    BY <2>1, <2>2

<1>4. CASE Migrated
  <2>1. BootTypes'
    BY <1>4 DEF Migrated, BootTypes
  <2>2. StoredTypes' /\ AccountTypes' /\ RequestTypes' /\ SeenTypes' /\ CountTypes'
    BY <1>4 DEF Migrated, stored, account, seen, seenBoots, seenAccounts, StoredTypes,
       AccountTypes, RequestTypes, SeenTypes, CountTypes
  <2>. QED
    BY <2>1, <2>2

<1>5. CASE ProvisionStore
  <2>1. BootTypes'
    BY <1>5 DEF ProvisionStore, BootTypes, BootHolds, Unused
  <2>2. StoredTypes'
    <3>1. block \in 0..MaxVersion
      BY <1>5, ConfigurationAssumption DEF ProvisionStore, BootTypes
    <3>. QED
      BY <1>5, <3>1 DEF ProvisionStore, StoredTypes
  <2>3. AccountTypes' /\ RequestTypes' /\ SeenTypes' /\ CountTypes'
    BY <1>5 DEF ProvisionStore, account, seen, seenBoots, seenAccounts, AccountTypes,
       RequestTypes, SeenTypes, CountTypes
  <2>. QED
    BY <2>1, <2>2, <2>3

<1>6. CASE ProvisionInsert
  <2>1. BootTypes'
    <3>1. block' \in 1..(Blocks + 1)
      BY <1>6, ConfigurationAssumption DEF ProvisionInsert, BootTypes, BootHolds
    <3>. QED
      BY <1>6, <3>1 DEF ProvisionInsert, BootTypes
  <2>2. StoredTypes'
    <3>1. block \in 0..MaxVersion
      BY <1>6, ConfigurationAssumption DEF ProvisionInsert, BootHolds, BootTypes
    <3>2. [life |-> "live", ref |-> external,
           cfg |-> IF external THEN 0 ELSE block] \in Integration
      BY <3>1, Zero DEF BootTypes, Integration
    <3>. QED
      BY <1>6, <3>2 DEF ProvisionInsert, StoredTypes
  <2>3. SeenTypes'
    <3>1. block \in 0..MaxVersion
      BY <1>6, ConfigurationAssumption DEF ProvisionInsert, BootHolds, BootTypes
    <3>. QED
      BY <1>6, <3>1 DEF ProvisionInsert, SeenTypes
  <2>4. CountTypes'
    <3>1. block \in 1..Blocks
      BY <1>6, ConfigurationAssumption DEF ProvisionInsert, BootHolds, BootTypes
    <3>. QED
      BY <1>6, <3>1 DEF ProvisionInsert, CountTypes, seenAccounts
  <2>5. AccountTypes' /\ RequestTypes'
    BY <1>6 DEF ProvisionInsert, account, AccountTypes, RequestTypes
  <2>. QED
    BY <2>1, <2>2, <2>3, <2>4, <2>5

<1>7. CASE WriteSentinel
  <2>1. BootTypes'
    BY <1>7 DEF WriteSentinel, BootTypes
  <2>2. StoredTypes'
    BY <1>7 DEF WriteSentinel, StoredTypes, Integration, stored
  <2>3. AccountTypes' /\ RequestTypes' /\ SeenTypes' /\ CountTypes'
    BY <1>7 DEF WriteSentinel, account, seen, seenBoots, seenAccounts, AccountTypes,
       RequestTypes, SeenTypes, CountTypes
  <2>. QED
    BY <2>1, <2>2, <2>3

<1>8. CASE ServerStops
  <2>1. BootTypes'
    BY <1>8 DEF ServerStops, BootTypes
  <2>2. RequestTypes'
    BY <1>8, IdleTyped DEF ServerStops, RequestTypes
  <2>3. CountTypes'
    <3>1. faults' \in 0..MaxFaults
      BY <1>8, ConfigurationAssumption DEF ServerStops, CountTypes, Fault
    <3>2. badBoots' \in Nat /\ cut' \in BOOLEAN
      BY <1>8 DEF ServerStops, CountTypes
    <3>. QED
      BY <1>8, <3>1, <3>2 DEF ServerStops, CountTypes
  <2>4. StoredTypes' /\ AccountTypes' /\ SeenTypes'
    BY <1>8 DEF ServerStops, stored, account, seen, StoredTypes, AccountTypes, SeenTypes
  <2>. QED
    BY <2>1, <2>2, <2>3, <2>4

<1>9. ASSUME NEW r \in Reqs, CreateBegin(r) PROVE ConfigTypeOK'
  <2>1. RequestTypes'
    <3>1. PICK i \in Unused :
             Set(r, [Idle EXCEPT !.pc = "create_store", !.id = i, !.cfg = version'])
      BY <1>9 DEF CreateBegin
    <3>2. i \in Ids /\ version' \in 0..MaxVersion
      BY <1>9, ConfigurationAssumption DEF CreateBegin, Unused, SeenTypes
    <3>3. [Idle EXCEPT !.pc = "create_store", !.id = i, !.cfg = version']
            \in Request
      BY <3>2, CreateTyped
    <3>. QED
      BY <3>1, <3>3, SetTyped DEF RequestTypes
  <2>2. SeenTypes'
    <3>1. version' \in 0..MaxVersion
      BY <1>9, ConfigurationAssumption DEF CreateBegin, SeenTypes
    <3>. QED
      BY <1>9, <3>1 DEF CreateBegin, SeenTypes
  <2>3. BootTypes' /\ StoredTypes' /\ AccountTypes' /\ CountTypes'
    BY <1>9 DEF CreateBegin, boot, stored, account, seenBoots, seenAccounts, BootTypes,
       StoredTypes, AccountTypes, CountTypes
  <2>. QED
    BY <2>1, <2>2, <2>3

<1>10. ASSUME NEW r \in Reqs, CreateStore(r) PROVE ConfigTypeOK'
  <2>1. StoredTypes'
    BY <1>10 DEF CreateStore, StoredTypes, StoreConfig, RequestTypes, Request, stored
  <2>2. RequestTypes'
    BY <1>10, GotoTyped DEF CreateStore, RequestTypes, ReqPhases, Updating,
       Registering
  <2>3. BootTypes' /\ AccountTypes' /\ SeenTypes' /\ CountTypes'
    BY <1>10 DEF CreateStore, boot, account, seen, seenBoots, seenAccounts, BootTypes,
       AccountTypes, SeenTypes, CountTypes
  <2>. QED
    BY <2>1, <2>2, <2>3

<1>11. ASSUME NEW r \in Reqs, CreateInsert(r) PROVE ConfigTypeOK'
  <2>1. StoredTypes'
    <3>1. Column(r) \in Integration
      BY Zero DEF Column, RequestTypes, Request, BootTypes, Integration
    <3>. QED
      BY <1>11, <3>1 DEF CreateInsert, StoredTypes
  <2>2. SeenTypes'
    BY <1>11 DEF CreateInsert, SeenTypes, Column, RequestTypes, Request
  <2>3. RequestTypes'
    BY <1>11, IdleTyped, SetTyped DEF CreateInsert, RequestTypes
  <2>4. BootTypes' /\ AccountTypes' /\ CountTypes'
    BY <1>11 DEF CreateInsert, boot, account, seenBoots, seenAccounts, BootTypes, AccountTypes,
       CountTypes
  <2>. QED
    BY <2>1, <2>2, <2>3, <2>4

<1>12. ASSUME NEW r \in Reqs, UpdateBegin(r) PROVE ConfigTypeOK'
  <2>1. RequestTypes'
    <3>1. PICK i \in Ids, kind \in {"rotate", "masked", "rename"} :
             /\ kind = "rotate" => version < MaxVersion
             /\ version' = IF kind = "rotate" THEN version + 1 ELSE version
             /\ Set(r, [Idle EXCEPT !.pc = "update_load", !.id = i, !.kind = kind,
                           !.ref = integration[i].ref,
                           !.cfg = IF kind = "rotate" THEN version'
                                   ELSE integration[i].cfg])
      BY <1>12 DEF UpdateBegin
    <3>2. /\ integration[i].ref \in BOOLEAN /\ integration[i].cfg \in 0..MaxVersion
          /\ kind = "rotate" => version' \in 0..MaxVersion
      BY <3>1, ConfigurationAssumption DEF SeenTypes, StoredTypes, Integration
    <3>3. [Idle EXCEPT !.pc = "update_load", !.id = i, !.kind = kind,
                       !.ref = integration[i].ref,
                       !.cfg = IF kind = "rotate" THEN version'
                               ELSE integration[i].cfg] \in Request
      BY <3>1, <3>2, UpdateTyped
    <3>. QED
      BY <3>1, <3>3, SetTyped DEF RequestTypes
  <2>2. SeenTypes'
    <3>1. version' \in 0..MaxVersion
      BY <1>12, ConfigurationAssumption DEF UpdateBegin, SeenTypes
    <3>. QED
      BY <1>12, <3>1 DEF UpdateBegin, SeenTypes
  <2>3. BootTypes' /\ StoredTypes' /\ AccountTypes' /\ CountTypes'
    BY <1>12 DEF UpdateBegin, boot, stored, account, seenBoots, seenAccounts, BootTypes,
       StoredTypes, AccountTypes, CountTypes
  <2>. QED
    BY <2>1, <2>2, <2>3

<1>13. ASSUME NEW r \in Reqs, UpdateLoad(r) PROVE ConfigTypeOK'
  <2>1. RequestTypes'
    <3>. DEFINE f == req[r]
                merged == IF f.kind # "rotate" /\ f.ref THEN bao[f.id] ELSE f.cfg
    <3>1. Set(r, IF f.kind = "masked" /\ merged = 0 THEN Idle
                 ELSE [f EXCEPT !.pc = "update_store", !.cfg = merged])
      BY <1>13 DEF UpdateLoad
    <3>2. f \in Request /\ f.pc = "update_load"
      BY <1>13 DEF UpdateLoad, At, RequestTypes
    <3>3. merged \in 0..MaxVersion
      BY <1>13, <3>2 DEF TargetsKnown, Updating, StoredTypes, Request
    <3>4. [f EXCEPT !.pc = "update_store", !.cfg = merged] \in Request
      BY <3>2, <3>3 DEF Request, ReqPhases, Updating
    <3>. QED
      BY <3>1, <3>4, IdleTyped, SetTyped DEF RequestTypes
  <2>2. BootTypes' /\ StoredTypes' /\ AccountTypes' /\ SeenTypes' /\ CountTypes'
    BY <1>13 DEF UpdateLoad, boot, stored, account, seen, seenBoots, seenAccounts, BootTypes,
       StoredTypes, AccountTypes, SeenTypes, CountTypes
  <2>. QED
    BY <2>1, <2>2

<1>14. ASSUME NEW r \in Reqs, UpdateStore(r) PROVE ConfigTypeOK'
  <2>1. StoredTypes'
    BY <1>14 DEF UpdateStore, StoredTypes, StoreConfig, RequestTypes, Request, stored
  <2>2. SeenTypes'
    BY <1>14 DEF UpdateStore, SeenTypes, StoreConfig, RequestTypes, Request
  <2>3. RequestTypes'
    BY <1>14, GotoTyped DEF UpdateStore, RequestTypes, ReqPhases, Updating,
       Registering
  <2>4. BootTypes' /\ AccountTypes' /\ CountTypes'
    BY <1>14 DEF UpdateStore, boot, account, seenBoots, seenAccounts, BootTypes, AccountTypes,
       CountTypes
  <2>. QED
    BY <2>1, <2>2, <2>3, <2>4

<1>15. ASSUME NEW r \in Reqs, UpdateIntegration(r) PROVE ConfigTypeOK'
  <2>1. StoredTypes'
    <3>1. Column(r) \in Integration
      BY Zero DEF Column, RequestTypes, Request, BootTypes, Integration
    <3>. QED
      BY <1>15, <3>1 DEF UpdateIntegration, StoredTypes
  <2>2. SeenTypes'
    BY <1>15 DEF UpdateIntegration, SeenTypes, Column, RequestTypes, Request
  <2>3. RequestTypes'
    BY <1>15, IdleTyped, SetTyped DEF UpdateIntegration, RequestTypes
  <2>4. BootTypes' /\ AccountTypes' /\ CountTypes'
    BY <1>15 DEF UpdateIntegration, boot, account, seenBoots, seenAccounts, BootTypes,
       AccountTypes, CountTypes
  <2>. QED
    BY <2>1, <2>2, <2>3, <2>4

<1>16. ASSUME NEW r \in Reqs, DeleteBegin(r) PROVE ConfigTypeOK'
  <2>1. RequestTypes'
    <3>1. PICK i \in Ids :
             Set(r, [Idle EXCEPT !.pc = "delete_row", !.id = i,
                                 !.ref = integration[i].ref])
      BY <1>16 DEF DeleteBegin
    <3>2. integration[i].ref \in BOOLEAN
      BY DEF StoredTypes, Integration
    <3>3. [Idle EXCEPT !.pc = "delete_row", !.id = i, !.ref = integration[i].ref]
            \in Request
      BY <3>2, DeleteTyped
    <3>. QED
      BY <3>1, <3>3, SetTyped DEF RequestTypes
  <2>2. BootTypes' /\ StoredTypes' /\ AccountTypes' /\ SeenTypes' /\ CountTypes'
    BY <1>16 DEF DeleteBegin, boot, stored, account, seen, seenBoots, seenAccounts, BootTypes,
       StoredTypes, AccountTypes, SeenTypes, CountTypes
  <2>. QED
    BY <2>1, <2>2

<1>17. ASSUME NEW r \in Reqs, DeleteIntegration(r) PROVE ConfigTypeOK'
  <2>1. StoredTypes'
    <3>1. [NoRow EXCEPT !.life = "gone"] \in Integration
      BY Zero DEF NoRow, Integration
    <3>. QED
      BY <1>17, <3>1 DEF DeleteIntegration, StoredTypes
  <2>2. SeenTypes'
    BY <1>17, Zero DEF DeleteIntegration, SeenTypes
  <2>3. RequestTypes'
    BY <1>17, GotoTyped DEF DeleteIntegration, RequestTypes, ReqPhases, Updating,
       Registering
  <2>4. BootTypes' /\ AccountTypes' /\ CountTypes'
    BY <1>17 DEF DeleteIntegration, boot, account, seenBoots, seenAccounts, BootTypes,
       AccountTypes, CountTypes
  <2>. QED
    BY <2>1, <2>2, <2>3, <2>4

<1>18. ASSUME NEW r \in Reqs, DeleteCredentials(r) PROVE ConfigTypeOK'
  <2>1. StoredTypes'
    BY <1>18, Zero DEF DeleteCredentials, StoredTypes
  <2>2. RequestTypes'
    BY <1>18, IdleTyped, SetTyped DEF DeleteCredentials, RequestTypes
  <2>3. BootTypes' /\ AccountTypes' /\ SeenTypes' /\ CountTypes'
    BY <1>18 DEF DeleteCredentials, boot, account, seen, seenBoots, seenAccounts, BootTypes,
       AccountTypes, SeenTypes, CountTypes
  <2>. QED
    BY <2>1, <2>2, <2>3

<1>19. ASSUME NEW r \in Reqs, IssueBegin(r) PROVE ConfigTypeOK'
  <2>1. RequestTypes'
    <3>1. /\ acct.ref \in BOOLEAN /\ acct.key \in 0..MaxAccounts
          /\ url \in 0..MaxAccounts
      BY DEF AccountTypes
    <3>2. [Idle EXCEPT !.pc = "issue_key", !.ref = acct.ref, !.key = acct.key,
                       !.url = url] \in Request
      BY <3>1, IssueTyped
    <3>. QED
      BY <1>19, <3>2, SetTyped DEF IssueBegin, RequestTypes
  <2>2. CountTypes'
    BY <1>19 DEF IssueBegin, CountTypes, seenBoots, seenAccounts
  <2>3. BootTypes' /\ StoredTypes' /\ AccountTypes' /\ SeenTypes'
    BY <1>19 DEF IssueBegin, boot, stored, account, seen, BootTypes, StoredTypes, AccountTypes,
       SeenTypes
  <2>. QED
    BY <2>1, <2>2, <2>3

<1>20. ASSUME NEW r \in Reqs, IssueKey(r) PROVE ConfigTypeOK'
  <2>1. RequestTypes'
    <3>. DEFINE f == req[r]
                key == IF f.ref THEN baoKey ELSE f.key
    <3>1. Set(r, IF key # 0 /\ f.url # 0 THEN [f EXCEPT !.pc = "use", !.key = key]
                 ELSE [Idle EXCEPT !.pc = "reg_ca"])
      BY <1>20 DEF IssueKey
    <3>2. f \in Request /\ key \in 0..MaxAccounts
      BY DEF RequestTypes, AccountTypes, Request
    <3>3. [f EXCEPT !.pc = "use", !.key = key] \in Request
      BY <3>2 DEF Request, ReqPhases
    <3>4. [Idle EXCEPT !.pc = "reg_ca"] \in Request
      BY IdleTyped DEF Request, ReqPhases
    <3>. QED
      BY <3>1, <3>3, <3>4, SetTyped DEF RequestTypes
  <2>2. CountTypes'
    BY <1>20 DEF IssueKey, CountTypes, seenBoots, seenAccounts
  <2>3. BootTypes' /\ StoredTypes' /\ AccountTypes' /\ SeenTypes'
    BY <1>20 DEF IssueKey, boot, stored, account, seen, BootTypes, StoredTypes, AccountTypes,
       SeenTypes
  <2>. QED
    BY <2>1, <2>2, <2>3

<1>21. ASSUME NEW r \in Reqs, Used(r) PROVE ConfigTypeOK'
  <2>1. RequestTypes'
    BY <1>21, IdleTyped, SetTyped DEF Used, RequestTypes
  <2>2. CountTypes'
    BY <1>21 DEF Used, CountTypes, seenBoots, seenAccounts
  <2>3. BootTypes' /\ StoredTypes' /\ AccountTypes' /\ SeenTypes'
    BY <1>21 DEF Used, boot, stored, account, seen, BootTypes, StoredTypes, AccountTypes, SeenTypes
  <2>. QED
    BY <2>1, <2>2, <2>3

<1>22. ASSUME NEW r \in Reqs, RegisterBegin(r) PROVE ConfigTypeOK'
  <2>1. RequestTypes'
    <3>1. [Idle EXCEPT !.pc = "reg_ca"] \in Request
      BY IdleTyped DEF Request, ReqPhases
    <3>. QED
      BY <1>22, <3>1, SetTyped DEF RegisterBegin, RequestTypes
  <2>2. BootTypes' /\ StoredTypes' /\ AccountTypes' /\ SeenTypes' /\ CountTypes'
    BY <1>22 DEF RegisterBegin, boot, stored, account, seen, seenBoots, seenAccounts, BootTypes,
       StoredTypes, AccountTypes, SeenTypes, CountTypes
  <2>. QED
    BY <2>1, <2>2

<1>23. ASSUME NEW r \in Reqs, Register(r) PROVE ConfigTypeOK'
  <2>1. AccountTypes'
    <3>1. accounts' \in 0..MaxAccounts
      BY <1>23, ConfigurationAssumption DEF Register, AccountTypes
    <3>. QED
      BY <1>23, <3>1 DEF Register, AccountTypes
  <2>2. RequestTypes'
    <3>1. accounts' \in 0..MaxAccounts
      BY <1>23, ConfigurationAssumption DEF Register, AccountTypes
    <3>2. [req[r] EXCEPT !.pc = "reg_key", !.key = accounts'] \in Request
      BY <3>1 DEF RequestTypes, Request, ReqPhases
    <3>. QED
      BY <1>23, <3>2, SetTyped DEF Register, RequestTypes
  <2>3. BootTypes' /\ StoredTypes' /\ SeenTypes' /\ CountTypes'
    BY <1>23 DEF Register, boot, stored, seen, seenBoots, seenAccounts, BootTypes, StoredTypes,
       SeenTypes, CountTypes
  <2>. QED
    BY <2>1, <2>2, <2>3

<1>24. ASSUME NEW r \in Reqs, StoreKey(r) PROVE ConfigTypeOK'
  <2>1. AccountTypes'
    <3>1. req[r].key \in 0..MaxAccounts
      BY DEF RequestTypes, Request
    <3>2. CASE external
      BY <1>24, <3>1, <3>2 DEF StoreKey, AccountTypes
    <3>3. CASE ~external
      <4>1. acct' = [ref |-> FALSE, key |-> req[r].key]
        BY <1>24, <3>3 DEF StoreKey
      <4>2. acct' \in [ref : BOOLEAN, key : 0..MaxAccounts]
        BY <3>1, <4>1
      <4>. QED
        BY <1>24, <3>3, <4>2 DEF StoreKey, AccountTypes
    <3>. QED
      BY <3>2, <3>3
  <2>2. RequestTypes'
    BY <1>24, GotoTyped DEF StoreKey, RequestTypes, ReqPhases, Updating,
       Registering
  <2>3. CountTypes'
    BY <1>24 DEF StoreKey, CountTypes, seenBoots, seenAccounts
  <2>4. BootTypes' /\ StoredTypes' /\ SeenTypes'
    BY <1>24 DEF StoreKey, boot, stored, seen, BootTypes, StoredTypes, SeenTypes
  <2>. QED
    BY <2>1, <2>2, <2>3, <2>4

<1>25. ASSUME NEW r \in Reqs, StoreKeyRef(r) PROVE ConfigTypeOK'
  <2>1. AccountTypes'
    BY <1>25, Zero DEF StoreKeyRef, AccountTypes
  <2>2. RequestTypes'
    BY <1>25, GotoTyped DEF StoreKeyRef, RequestTypes, ReqPhases, Updating,
       Registering
  <2>3. BootTypes' /\ StoredTypes' /\ SeenTypes' /\ CountTypes'
    BY <1>25 DEF StoreKeyRef, boot, stored, seen, seenBoots, seenAccounts, BootTypes,
       StoredTypes, SeenTypes, CountTypes
  <2>. QED
    BY <2>1, <2>2, <2>3

<1>26. ASSUME NEW r \in Reqs, StoreUrl(r) PROVE ConfigTypeOK'
  <2>1. AccountTypes'
    BY <1>26 DEF StoreUrl, AccountTypes, RequestTypes, Request
  <2>2. RequestTypes'
    BY <1>26, IdleTyped, SetTyped DEF StoreUrl, RequestTypes
  <2>3. BootTypes' /\ StoredTypes' /\ SeenTypes' /\ CountTypes'
    BY <1>26 DEF StoreUrl, boot, stored, seen, seenBoots, seenAccounts, BootTypes, StoredTypes,
       SeenTypes, CountTypes
  <2>. QED
    BY <2>1, <2>2, <2>3

<1>27. ASSUME NEW r \in Reqs, Fails(r) PROVE ConfigTypeOK'
  <2>1. RequestTypes'
    BY <1>27, IdleTyped, SetTyped DEF Fails, RequestTypes
  <2>2. CountTypes'
    <3>1. faults' \in 0..MaxFaults
      BY <1>27, ConfigurationAssumption DEF Fails, CountTypes, Fault
    <3>2. cut' \in BOOLEAN
      BY <1>27 DEF Fails, CountTypes
    <3>. QED
      BY <1>27, <3>1, <3>2 DEF Fails, CountTypes, seenBoots
  <2>3. BootTypes' /\ StoredTypes' /\ AccountTypes' /\ SeenTypes'
    BY <1>27 DEF Fails, boot, stored, account, seen, BootTypes, StoredTypes, AccountTypes,
       SeenTypes
  <2>. QED
    BY <2>1, <2>2, <2>3

<1>28. CASE UNCHANGED configVars
  BY <1>28 DEF configVars, boot, stored, account, seen, seenBoots, seenAccounts,
     BootTypes, StoredTypes, AccountTypes, RequestTypes, SeenTypes, CountTypes

<1>. HIDE DEF ConfigTypeOK
<1>. QED
  BY <1>1, <1>2, <1>3, <1>4, <1>5, <1>6, <1>7, <1>8, <1>9, <1>10,
     <1>11, <1>12, <1>13, <1>14, <1>15, <1>16, <1>17, <1>18, <1>19,
     <1>20, <1>21, <1>22, <1>23, <1>24, <1>25, <1>26, <1>27, <1>28
     DEF ConfigNext, Step
\* The other requests stay as they are.
Others(r) == \A q \in Reqs \ {r} : req'[q] = req[q]

\* A create begins with an unused id and the next version.
LEMMA CreateBeginIs ==
    ASSUME ConfigTypeOK, NEW r \in Reqs, CreateBegin(r)
    PROVE  Others(r) /\ \E i \in Unused :
               /\ req'[r].pc = "create_store" /\ req'[r].id = i
               /\ req'[r].cfg = version + 1
<1>1. PICK i \in Unused :
        Set(r, [Idle EXCEPT !.pc = "create_store", !.id = i, !.cfg = version'])
  BY DEF CreateBegin
<1>. DEFINE f == [Idle EXCEPT !.pc = "create_store", !.id = i, !.cfg = version']
<1>2. f.pc = "create_store" /\ f.id = i /\ f.cfg = version'
  BY DEF Idle
<1>. HIDE DEF f
<1>3. req'[r] = f /\ Others(r)
  BY <1>1, SetIs DEF f, Others
<1>. QED
  BY <1>2, <1>3 DEF CreateBegin

\* An update begins with a live integration and what its row holds.
LEMMA UpdateBeginIs ==
    ASSUME ConfigTypeOK, NEW r \in Reqs, UpdateBegin(r)
    PROVE  /\ Others(r) /\ req'[r].pc = "update_load"
           /\ LET i == req'[r].id
                  kind == req'[r].kind
              IN /\ i \in Ids /\ integration[i].life = "live"
                 /\ kind \in {"rotate", "masked", "rename"}
                 /\ kind = "rotate" => req'[r].cfg = version + 1
                 /\ kind # "rotate" => req'[r].cfg = integration[i].cfg
                 /\ req'[r].ref = integration[i].ref
                 /\ overlapped' =
                        IF \E q \in Reqs : req[q].id = i /\ req[q].pc \in Updating
                        THEN overlapped \union {i} ELSE overlapped
<1>1. PICK i \in Ids, kind \in {"rotate", "masked", "rename"} :
        /\ integration[i].life = "live"
        /\ kind = "rotate" => version < MaxVersion
        /\ version' = IF kind = "rotate" THEN version + 1 ELSE version
        /\ Set(r, [Idle EXCEPT !.pc = "update_load", !.id = i, !.kind = kind,
                      !.ref = integration[i].ref,
                      !.cfg = IF kind = "rotate" THEN version'
                              ELSE integration[i].cfg])
        /\ overlapped' = IF \E q \in Reqs : req[q].id = i /\ req[q].pc \in Updating
                         THEN overlapped \union {i} ELSE overlapped
  BY DEF UpdateBegin
<1>. DEFINE f == [Idle EXCEPT !.pc = "update_load", !.id = i, !.kind = kind,
                      !.ref = integration[i].ref,
                      !.cfg = IF kind = "rotate" THEN version'
                              ELSE integration[i].cfg]
<1>2. /\ f.pc = "update_load" /\ f.id = i /\ f.kind = kind
      /\ f.ref = integration[i].ref
      /\ f.cfg = IF kind = "rotate" THEN version' ELSE integration[i].cfg
  BY DEF Idle
<1>. HIDE DEF f
<1>3. req'[r] = f /\ Others(r)
  BY <1>1, SetIs DEF f, Others
<1>. QED
  BY <1>1, <1>2, <1>3

\* An update goes on with what it merged, or is rejected.
LEMMA UpdateLoadIs ==
    ASSUME ConfigTypeOK, NEW r \in Reqs, UpdateLoad(r)
    PROVE  /\ Others(r)
           /\ LET f == req[r]
                  merged == IF f.kind # "rotate" /\ f.ref THEN bao[f.id] ELSE f.cfg
              IN \/ req'[r] = Idle
                 \/ /\ f.kind = "masked" => merged # 0
                    /\ req'[r].pc = "update_store" /\ req'[r].id = f.id
                    /\ req'[r].kind = f.kind /\ req'[r].cfg = merged
<1>. DEFINE f == req[r]
            merged == IF f.kind # "rotate" /\ f.ref THEN bao[f.id] ELSE f.cfg
            g == [f EXCEPT !.pc = "update_store", !.cfg = merged]
<1>1. Set(r, IF f.kind = "masked" /\ merged = 0 THEN Idle ELSE g)
  BY DEF UpdateLoad
<1>2. f \in Request
  BY DEF ConfigTypeOK, RequestTypes
<1>3. /\ g.pc = "update_store" /\ g.id = f.id /\ g.kind = f.kind
      /\ g.cfg = merged
  BY <1>2 DEF Request
<1>. HIDE DEF g, merged
<1>4. /\ req'[r] = IF f.kind = "masked" /\ merged = 0 THEN Idle ELSE g
      /\ Others(r)
  BY <1>1, SetIs DEF Others
<1>. QED
  BY <1>3, <1>4 DEF merged

\* A delete begins with a live integration.
LEMMA DeleteBeginIs ==
    ASSUME ConfigTypeOK, NEW r \in Reqs, DeleteBegin(r)
    PROVE  /\ Others(r) /\ req'[r].pc = "delete_row" /\ req'[r].id \in Ids
           /\ integration[req'[r].id].life = "live"
<1>1. PICK i \in Ids :
        /\ integration[i].life = "live"
        /\ Set(r, [Idle EXCEPT !.pc = "delete_row", !.id = i,
                               !.ref = integration[i].ref])
  BY DEF DeleteBegin
<1>. DEFINE f == [Idle EXCEPT !.pc = "delete_row", !.id = i,
                              !.ref = integration[i].ref]
<1>2. f.pc = "delete_row" /\ f.id = i
  BY DEF Idle
<1>. HIDE DEF f
<1>3. req'[r] = f /\ Others(r)
  BY <1>1, SetIs DEF f, Others
<1>. QED
  BY <1>1, <1>2, <1>3

\* An issuance begins with a copy of the settings.
LEMMA IssueBeginIs ==
    ASSUME ConfigTypeOK, NEW r \in Reqs, IssueBegin(r)
    PROVE  /\ Others(r) /\ req'[r].pc = "issue_key" /\ req'[r].id = NoId
           /\ req'[r].ref = acct.ref /\ req'[r].key = acct.key
           /\ req'[r].url = url
<1>. DEFINE f == [Idle EXCEPT !.pc = "issue_key", !.ref = acct.ref,
                              !.key = acct.key, !.url = url]
<1>1. Set(r, f)
  BY DEF IssueBegin
<1>2. /\ f.pc = "issue_key" /\ f.id = NoId /\ f.ref = acct.ref
      /\ f.key = acct.key /\ f.url = url
  BY DEF Idle
<1>. HIDE DEF f
<1>. QED
  BY <1>1, <1>2, SetIs DEF Others

\* An issuance reuses the account it copied, or registers one.
LEMMA IssueKeyIs ==
    ASSUME ConfigTypeOK, NEW r \in Reqs, IssueKey(r)
    PROVE  /\ Others(r)
           /\ LET key == IF req[r].ref THEN baoKey ELSE req[r].key
              IN \/ /\ req'[r].pc = "use" /\ key # 0 /\ req[r].url # 0
                    /\ req'[r].key = key /\ req'[r].url = req[r].url
                    /\ req'[r].id = req[r].id
                 \/ req'[r].pc = "reg_ca" /\ req'[r].id = NoId
<1>. DEFINE f == req[r]
            key == IF f.ref THEN baoKey ELSE f.key
            g == [f EXCEPT !.pc = "use", !.key = key]
            h == [Idle EXCEPT !.pc = "reg_ca"]
<1>1. Set(r, IF key # 0 /\ f.url # 0 THEN g ELSE h)
  BY DEF IssueKey
<1>2. f \in Request
  BY DEF ConfigTypeOK, RequestTypes
<1>3. g.pc = "use" /\ g.key = key /\ g.url = f.url /\ g.id = f.id
  BY <1>2 DEF Request
<1>4. h.pc = "reg_ca" /\ h.id = NoId
  BY DEF Idle
<1>. HIDE DEF g, h, key
<1>5. /\ req'[r] = IF key # 0 /\ f.url # 0 THEN g ELSE h
      /\ Others(r)
  BY <1>1, SetIs DEF Others
<1>. QED
  BY <1>3, <1>4, <1>5 DEF key

\* A registration goes to the CA and comes back with an account of its own.
LEMMA RegisterIs ==
    ASSUME ConfigTypeOK, NEW r \in Reqs
    PROVE  /\ RegisterBegin(r) =>
                  Others(r) /\ req'[r].pc = "reg_ca" /\ req'[r].id = NoId
           /\ Register(r) =>
                  /\ Others(r) /\ req'[r].pc = "reg_key"
                  /\ req'[r].id = req[r].id /\ req'[r].key = accounts'
<1>1. req[r] \in Request
  BY DEF ConfigTypeOK, RequestTypes
<1>. DEFINE g == [Idle EXCEPT !.pc = "reg_ca"]
            h == [req[r] EXCEPT !.pc = "reg_key", !.key = accounts']
<1>2. g.pc = "reg_ca" /\ g.id = NoId
  BY DEF Idle
<1>3. h.pc = "reg_key" /\ h.id = req[r].id /\ h.key = accounts'
  BY <1>1 DEF Request
<1>4. (RegisterBegin(r) => Set(r, g)) /\ (Register(r) => Set(r, h))
  BY DEF RegisterBegin, Register
<1>. HIDE DEF g, h
<1>. QED
  BY <1>2, <1>3, <1>4, SetIs DEF Others

\* What a step of a request leaves alone.
LEMMA StepFrame ==
    ASSUME NEW r \in Reqs, Step(r)
    PROVE  /\ stage = "serving" /\ UNCHANGED <<boot, sentinel, seenBoots>>
           /\ \/ CreateInsert(r) \/ UpdateIntegration(r) \/ DeleteIntegration(r)
              \/ UNCHANGED integration
           /\ StoreKey(r) \/ StoreKeyRef(r) \/ UNCHANGED acct
<1>. DEFINE Frame ==
        /\ stage = "serving" /\ UNCHANGED <<boot, sentinel, seenBoots>>
        /\ \/ CreateInsert(r) \/ UpdateIntegration(r) \/ DeleteIntegration(r)
           \/ UNCHANGED integration
        /\ StoreKey(r) \/ StoreKeyRef(r) \/ UNCHANGED acct
<1>1. CreateBegin(r) \/ CreateStore(r) \/ CreateInsert(r) => Frame
  BY DEF CreateBegin, CreateStore, CreateInsert, At, stored, account
<1>2. UpdateBegin(r) \/ UpdateLoad(r) \/ UpdateStore(r) => Frame
  BY DEF UpdateBegin, UpdateLoad, UpdateStore, At, stored, account
<1>3. UpdateIntegration(r) \/ DeleteIntegration(r) => Frame
  BY DEF UpdateIntegration, DeleteIntegration, At, account
<1>4. DeleteBegin(r) \/ DeleteCredentials(r) => Frame
  BY DEF DeleteBegin, DeleteCredentials, At, stored, account
<1>5. IssueBegin(r) \/ IssueKey(r) \/ Used(r) \/ RegisterBegin(r) => Frame
  BY DEF IssueBegin, IssueKey, Used, RegisterBegin, At, stored, account
<1>6. Register(r) \/ StoreKey(r) \/ StoreKeyRef(r) \/ StoreUrl(r) => Frame
  BY DEF Register, StoreKey, StoreKeyRef, StoreUrl, At, stored
<1>7. Fails(r) => Frame
  BY DEF Fails, stored, account
<1>. QED
  BY <1>1, <1>2, <1>3, <1>4, <1>5, <1>6, <1>7 DEF Step

\* Where a request goes.
LEMMA NextPhase ==
    ASSUME ConfigTypeOK, NEW r \in Reqs, Step(r)
    PROVE  /\ Others(r)
           /\ \/ CreateBegin(r) /\ req'[r].pc = "create_store"
              \/ CreateStore(r) /\ req'[r].pc = "create_insert"
              \/ CreateInsert(r) /\ req'[r] = Idle
              \/ UpdateBegin(r) /\ req'[r].pc = "update_load"
              \/ UpdateLoad(r) /\ (req'[r] = Idle \/ req'[r].pc = "update_store")
              \/ UpdateStore(r) /\ req'[r].pc = "update_row"
              \/ UpdateIntegration(r) /\ req'[r] = Idle
              \/ DeleteBegin(r) /\ req'[r].pc = "delete_row"
              \/ DeleteIntegration(r) /\ req'[r].pc = "delete_secret"
              \/ DeleteCredentials(r) /\ req'[r] = Idle
              \/ IssueBegin(r) /\ req'[r].pc = "issue_key"
              \/ IssueKey(r) /\ req'[r].pc \in {"use", "reg_ca"}
              \/ Used(r) /\ req'[r] = Idle
              \/ RegisterBegin(r) /\ req'[r].pc = "reg_ca"
              \/ Register(r) /\ req'[r].pc = "reg_key"
              \/ StoreKey(r)
                   /\ req'[r].pc = IF external THEN "reg_ref" ELSE "reg_url"
              \/ StoreKeyRef(r) /\ req'[r].pc = "reg_url"
              \/ StoreUrl(r) /\ req'[r] = Idle
              \/ Fails(r) /\ req'[r] = Idle
<1>1. CreateBegin(r) => Others(r) /\ req'[r].pc = "create_store"
  BY CreateBeginIs
<1>2. CreateStore(r) => Others(r) /\ req'[r].pc = "create_insert"
  BY GotoIs DEF Others, CreateStore
<1>3. CreateInsert(r) \/ UpdateIntegration(r) \/ DeleteCredentials(r)
        => Others(r) /\ req'[r] = Idle
  BY SetIs DEF Others, CreateInsert, UpdateIntegration, DeleteCredentials
<1>4. UpdateBegin(r) => Others(r) /\ req'[r].pc = "update_load"
  BY UpdateBeginIs
<1>5. UpdateLoad(r) => Others(r) /\ (req'[r] = Idle \/ req'[r].pc = "update_store")
  BY UpdateLoadIs
<1>6. UpdateStore(r) => Others(r) /\ req'[r].pc = "update_row"
  BY GotoIs DEF Others, UpdateStore
<1>7. DeleteBegin(r) => Others(r) /\ req'[r].pc = "delete_row"
  BY DeleteBeginIs
<1>8. DeleteIntegration(r) => Others(r) /\ req'[r].pc = "delete_secret"
  BY GotoIs DEF Others, DeleteIntegration
<1>9. IssueBegin(r) => Others(r) /\ req'[r].pc = "issue_key"
  BY IssueBeginIs
<1>10. IssueKey(r) => Others(r) /\ req'[r].pc \in {"use", "reg_ca"}
  BY IssueKeyIs
<1>11. Used(r) \/ StoreUrl(r) \/ Fails(r) => Others(r) /\ req'[r] = Idle
  BY SetIs DEF Others, Used, StoreUrl, Fails
<1>12. RegisterBegin(r) => Others(r) /\ req'[r].pc = "reg_ca"
  BY RegisterIs
<1>13. Register(r) => Others(r) /\ req'[r].pc = "reg_key"
  BY RegisterIs
<1>14. StoreKey(r) => /\ Others(r)
                      /\ req'[r].pc = IF external THEN "reg_ref" ELSE "reg_url"
  BY GotoIs DEF Others, StoreKey
<1>15. StoreKeyRef(r) => Others(r) /\ req'[r].pc = "reg_url"
  BY GotoIs DEF Others, StoreKeyRef
<1>16. Others(r)
  BY <1>1, <1>2, <1>3, <1>4, <1>5, <1>6, <1>7, <1>8, <1>9, <1>10, <1>11,
     <1>12, <1>13, <1>14, <1>15 DEF Step
<1>. QED
  BY <1>1, <1>2, <1>3, <1>4, <1>5, <1>6, <1>7, <1>8, <1>9, <1>10, <1>11,
     <1>12, <1>13, <1>14, <1>15, <1>16 DEF Step

\* Boots keep what they know.
LEMMA BootStep ==
    ConfigTypeOK /\ BootHolds /\ [ConfigNext]_configVars => BootHolds'
<1>. SUFFICES ASSUME ConfigTypeOK, BootHolds, [ConfigNext]_configVars
             PROVE  BootHolds'
  OBVIOUS
<1>1. ASSUME NEW i \in Ids, MigrateIntegration(i) PROVE BootHolds'
  <2>1. \A j \in Ids : integration'[j].ref => external
    BY <1>1 DEF MigrateIntegration, ConfigTypeOK, StoredTypes, Integration,
                BootHolds
  <2>. QED
    BY <1>1, <2>1 DEF MigrateIntegration, BootHolds, boot, account
<1>2. CASE Start
  BY <1>2 DEF Start, BootHolds, stored, account
<1>3. CASE MigrateKey
  BY <1>3 DEF MigrateKey, BootHolds, boot, stored
<1>4. CASE Migrated
  BY <1>4 DEF Migrated, BootHolds, stored, account
<1>5. CASE ProvisionStore
  <2>1. PICK i \in Unused :
          /\ making' = i
          /\ bao' = IF external THEN [bao EXCEPT ![i] = block] ELSE bao
    BY <1>5 DEF ProvisionStore
  <2>2. i \in Ids /\ integration[i].life = "free"
    BY DEF Unused
  <2>3. external => bao'[i] = block
    BY <2>1, <2>2 DEF ConfigTypeOK, StoredTypes
  <2>. QED
    BY <1>5, <2>1, <2>2, <2>3 DEF ProvisionStore, BootHolds, account
<1>6. CASE ProvisionInsert
  <2>1. making \in Ids
    BY <1>6 DEF ProvisionInsert, ConfigTypeOK, BootTypes
  <2>2. \A i \in Ids : integration'[i] =
            IF i = making
            THEN [life |-> "live", ref |-> external,
                  cfg |-> IF external THEN 0 ELSE block]
            ELSE integration[i]
    BY <1>6, <2>1 DEF ProvisionInsert, ConfigTypeOK, StoredTypes
  <2>. QED
    BY <1>6, <2>2 DEF ProvisionInsert, BootHolds, account
<1>7. CASE WriteSentinel
  BY <1>7 DEF WriteSentinel, BootHolds, stored, account
<1>8. CASE ServerStops
  <2>1. \A r \in Reqs : req'[r] = Idle
    BY <1>8 DEF ServerStops
  <2>. QED
    BY <1>8, <2>1 DEF ServerStops, BootHolds, stored, account, Idle
<1>9. ASSUME NEW r \in Reqs, Step(r) PROVE BootHolds'
  <2>1. /\ stage = "serving" /\ UNCHANGED <<boot, sentinel>>
        /\ \/ CreateInsert(r) \/ UpdateIntegration(r) \/ DeleteIntegration(r)
           \/ UNCHANGED integration
        /\ StoreKey(r) \/ StoreKeyRef(r) \/ UNCHANGED acct
    BY <1>9, StepFrame
  <2>2. acct'.ref => external
    <3>1. StoreKey(r) => (acct'.ref => external)
      BY DEF StoreKey, BootHolds
    <3>2. CASE StoreKeyRef(r)
      <4>1. CASE external
        BY <4>1
      <4>2. CASE ~external
        BY <3>2, <4>2 DEF StoreKeyRef, At, BootHolds
      <4>. QED
        BY <4>1, <4>2
    <3>. QED
      BY <2>1, <3>1, <3>2 DEF BootHolds
  <2>3. \A i \in Ids : /\ integration'[i].ref => external
                       /\ external /\ integration'[i].life = "live" =>
                              integration'[i].ref
    <3>1. Column(r).ref = external
      BY DEF Column
    <3>2. \A i \in Ids : \/ integration'[i] = integration[i]
                         \/ integration'[i] = Column(r)
                         \/ integration'[i] = [NoRow EXCEPT !.life = "gone"]
      BY <2>1 DEF CreateInsert, UpdateIntegration, DeleteIntegration,
                  ConfigTypeOK, StoredTypes
    <3>3. /\ [NoRow EXCEPT !.life = "gone"].ref = FALSE
          /\ [NoRow EXCEPT !.life = "gone"].life = "gone"
      BY DEF NoRow
    <3>. QED
      BY <2>1, <3>1, <3>2, <3>3 DEF BootHolds
  <2>4. \A q \in Reqs : req'[q].pc = "reg_ref" => external
    BY <1>9, NextPhase DEF Others, BootHolds, Idle
  <2>. QED
    BY <2>1, <2>2, <2>3, <2>4 DEF BootHolds, boot
<1>10. CASE UNCHANGED configVars
  BY <1>10 DEF configVars, BootHolds, boot, stored, account
<1>. QED
  BY <1>1, <1>2, <1>3, <1>4, <1>5, <1>6, <1>7, <1>8, <1>9, <1>10
     DEF ConfigNext

\* The file is applied block by block, and once for each boot that began to.
LEMMA CopiesStep ==
    ConfigTypeOK /\ BootHolds /\ CopiesHold /\ [ConfigNext]_configVars
      => CopiesHold'
<1>. SUFFICES ASSUME ConfigTypeOK, BootHolds, CopiesHold, [ConfigNext]_configVars
             PROVE  CopiesHold'
  OBVIOUS
<1>0. /\ Blocks \in Nat /\ block \in Nat /\ badBoots \in Nat
      /\ copies \in [1..Blocks -> Nat]
  BY ConfigurationAssumption DEF ConfigTypeOK, BootTypes, CountTypes
<1>. USE DEF CopiesHold, Applied
<1>1. ASSUME UNCHANGED <<stage, block, sentinel, copies, badBoots>>
      PROVE  CopiesHold'
  BY <1>1
<1>2. ASSUME NEW i \in Ids, MigrateIntegration(i) PROVE CopiesHold'
  BY <1>1, <1>2 DEF MigrateIntegration, boot, seenBoots
<1>3. CASE Start
  BY <1>3 DEF Start, seenBoots
<1>4. CASE MigrateKey
  BY <1>1, <1>4 DEF MigrateKey, boot, seenBoots
<1>5. CASE Migrated
  <2>1. \A b \in 1..Blocks : ~(b < block')
    BY <1>0, <1>5 DEF Migrated, BootHolds
  <2>. QED
    BY <1>5, <2>1 DEF Migrated, seenBoots
<1>6. CASE ProvisionStore
  BY <1>1, <1>6 DEF ProvisionStore, seenBoots
<1>7. CASE ProvisionInsert
  <2>1. /\ stage = "provisioning" /\ stage' = stage /\ ~sentinel
        /\ block \in 1..Blocks /\ block' = block + 1
        /\ UNCHANGED <<sentinel, badBoots>>
    BY <1>0, <1>7 DEF ProvisionInsert, BootHolds, ConfigTypeOK, BootTypes
  <2>2. /\ copies'[block] = copies[block] + 1
        /\ \A b \in 1..Blocks : b # block => copies'[b] = copies[b]
    BY <1>0, <1>7, <2>1 DEF ProvisionInsert
  <2>3. SUFFICES ASSUME NEW b \in 1..Blocks
                 PROVE  /\ b < block' => copies'[b] >= 1
                        /\ copies'[b] <= badBoots + (IF b < block' THEN 1 ELSE 0)
    BY <2>1
  <2>4. CASE b = block
    BY <1>0, <2>1, <2>2, <2>4
  <2>5. CASE b # block
    BY <1>0, <2>1, <2>2, <2>5
  <2>. QED
    BY <2>4, <2>5
<1>8. CASE WriteSentinel
  <2>1. \A b \in 1..Blocks : b < block
    BY <1>0, <1>8 DEF WriteSentinel
  <2>. QED
    BY <1>8, <2>1 DEF WriteSentinel, seenBoots
<1>9. CASE ServerStops
  <2>1. /\ stage' = "down" /\ UNCHANGED <<sentinel, copies>>
        /\ stage = "serving" => badBoots' = badBoots
        /\ stage # "serving" => badBoots' = badBoots + 1
    BY <1>9 DEF ServerStops
  <2>. QED
    BY <1>0, <2>1 DEF BootHolds
<1>10. ASSUME NEW r \in Reqs, Step(r) PROVE CopiesHold'
  BY <1>1, <1>10, StepFrame DEF boot, seenBoots
<1>11. CASE UNCHANGED configVars
  BY <1>1, <1>11 DEF configVars, boot, seenBoots
<1>. QED
  BY <1>2, <1>3, <1>4, <1>5, <1>6, <1>7, <1>8, <1>9, <1>10, <1>11
     DEF ConfigNext

\* A step that leaves the account alone, and requests that neither were storing
\* one nor come to use one.
AccountPhases == Registering \union {"reg_key", "issue_key", "use"}

LEMMA AccountFrame ==
    ASSUME AccountHolds, UNCHANGED <<external, account, seenAccounts>>,
           \A q \in Reqs : \/ req'[q] = req[q]
                           \/ /\ req'[q].pc \notin AccountPhases
                              /\ req[q].pc \notin Registering
    PROVE  AccountHolds'
<1>1. /\ Key' = Key /\ url' = url /\ acct' = acct /\ baoKey' = baoKey
      /\ crossed' = crossed /\ cut' = cut /\ outdated' = outdated
  BY DEF Key, account, seenAccounts
<1>2. Calm' <=> Calm
  BY DEF Calm, AccountPhases
<1>3. \A q \in Reqs : req'[q].pc \in AccountPhases => req'[q] = req[q]
  OBVIOUS
<1>. HIDE DEF Calm, Key
<1>. QED
  BY <1>1, <1>2, <1>3 DEF AccountHolds, AccountPhases, Registering

\* The stored account stays one account's.
LEMMA AccountStep ==
    ConfigTypeOK /\ ConfigTypeOK' /\ BootHolds /\ AccountHolds /\ [ConfigNext]_configVars
      => AccountHolds'
<1>. SUFFICES ASSUME ConfigTypeOK, ConfigTypeOK', BootHolds, AccountHolds,
                     [ConfigNext]_configVars
             PROVE  AccountHolds'
  OBVIOUS
<1>. DEFINE Quiet == UNCHANGED <<account, seenAccounts, req>>
<1>1. ASSUME Quiet, UNCHANGED external PROVE AccountHolds'
  BY <1>1, AccountFrame
<1>2. ASSUME NEW i \in Ids, MigrateIntegration(i) PROVE AccountHolds'
  BY <1>1, <1>2 DEF MigrateIntegration, boot
<1>3. CASE Start
  <2>1. \A q \in Reqs : req'[q].pc = "idle"
    BY <1>3 DEF Start, BootHolds, Idle
  <2>2. Key' = Key /\ Calm /\ UNCHANGED <<account, seenAccounts>>
    BY <1>3, <2>1 DEF Start, Key, Calm, Registering, account
  <2>. QED
    BY <2>1, <2>2 DEF AccountHolds, Registering, account, seenAccounts
<1>4. CASE MigrateKey
  <2>1. \A q \in Reqs : req'[q].pc = "idle"
    BY <1>4 DEF MigrateKey, BootHolds, Idle
  <2>2. Key' = Key /\ Calm /\ UNCHANGED <<url, seenAccounts>>
    BY <1>4, <2>1 DEF MigrateKey, Key, Calm, Registering, ConfigTypeOK, AccountTypes
  <2>. QED
    BY <2>1, <2>2 DEF AccountHolds, Registering, seenAccounts
<1>5. CASE Migrated
  BY <1>1, <1>5 DEF Migrated
<1>6. CASE ProvisionStore
  BY <1>1, <1>6 DEF ProvisionStore
<1>7. CASE ProvisionInsert
  BY <1>1, <1>7 DEF ProvisionInsert
<1>8. CASE WriteSentinel
  BY <1>1, <1>8 DEF WriteSentinel
<1>9. CASE ServerStops
  <2>1. \A q \in Reqs : req'[q].pc = "idle"
    BY <1>9 DEF ServerStops, Idle
  <2>2. Key' = Key /\ url' = url /\ crossed' = crossed
    BY <1>9 DEF ServerStops, Key, account
  <2>3. ~cut' => ~cut /\ (Calm \/ url = 0)
    BY <1>9 DEF ServerStops, HalfStored, Calm, Registering
  <2>. QED
    BY <2>1, <2>2, <2>3 DEF AccountHolds, Registering
<1>10. ASSUME NEW r \in Reqs, Step(r) PROVE AccountHolds'
  <2>1. /\ \A q \in Reqs \ {r} : req'[q] = req[q]
        /\ external' = external
    BY <1>10, NextPhase, StepFrame DEF Others, boot
  <2>2. ASSUME UNCHANGED <<account, seenAccounts>>,
               req'[r].pc \notin AccountPhases, req[r].pc \notin Registering
        PROVE  AccountHolds'
    BY <2>1, <2>2, AccountFrame
  <2>3. Idle.pc \notin AccountPhases
    BY DEF Idle, AccountPhases, Registering
  <2>4. CASE CreateBegin(r)
    BY <2>2, <2>4, CreateBeginIs DEF CreateBegin, At, AccountPhases, Registering
  <2>5. CASE CreateStore(r)
    BY <2>2, <2>5, GotoIs DEF CreateStore, At, AccountPhases, Registering
  <2>6. CASE CreateInsert(r)
    BY <2>2, <2>3, <2>6, SetIs DEF CreateInsert, At, Registering
  <2>7. CASE UpdateBegin(r)
    BY <2>2, <2>7, UpdateBeginIs DEF UpdateBegin, At, AccountPhases, Registering
  <2>8. CASE UpdateLoad(r)
    BY <2>2, <2>3, <2>8, UpdateLoadIs
       DEF UpdateLoad, At, AccountPhases, Registering
  <2>9. CASE UpdateStore(r)
    BY <2>2, <2>9, GotoIs DEF UpdateStore, At, AccountPhases, Registering
  <2>10. CASE UpdateIntegration(r)
    BY <2>2, <2>3, <2>10, SetIs DEF UpdateIntegration, At, Registering
  <2>11. CASE DeleteBegin(r)
    BY <2>2, <2>11, DeleteBeginIs DEF DeleteBegin, At, AccountPhases, Registering
  <2>12. CASE DeleteIntegration(r)
    BY <2>2, <2>12, GotoIs DEF DeleteIntegration, At, AccountPhases, Registering
  <2>13. CASE DeleteCredentials(r)
    BY <2>2, <2>3, <2>13, SetIs DEF DeleteCredentials, At, Registering
  <2>14. CASE RegisterBegin(r)
    BY <2>2, <2>14, RegisterIs DEF RegisterBegin, At, AccountPhases, Registering
  <2>15. CASE IssueBegin(r)
    <3>1. /\ req[r].pc = "idle" /\ req'[r].pc = "issue_key"
          /\ req'[r].ref = acct.ref /\ req'[r].key = acct.key
          /\ req'[r].url = url
      BY <2>15, IssueBeginIs DEF IssueBegin, At
    <3>2. /\ outdated \subseteq outdated' /\ outdated' \subseteq outdated \union {r}
          /\ ~Calm => r \in outdated'
          /\ crossed' = crossed /\ cut' = cut
          /\ acct' = acct /\ url' = url /\ baoKey' = baoKey /\ Key' = Key
      BY <2>15 DEF IssueBegin, Calm, Key, account
    <3>3. Calm' <=> Calm
      BY <2>1, <3>1 DEF Calm, Registering
    <3>. HIDE DEF Calm, Key
    <3>. QED
      BY <2>1, <3>1, <3>2, <3>3 DEF AccountHolds, Registering
  <2>16. CASE IssueKey(r)
    <3>1. /\ req[r].pc = "issue_key" /\ req'[r].pc \in {"use", "reg_ca"}
          /\ req'[r].pc = "use" =>
                /\ req'[r].key = IF req[r].ref THEN baoKey ELSE req[r].key
                /\ req'[r].url = req[r].url
                /\ req'[r].key # 0 /\ req'[r].url # 0
      BY <2>16, IssueKeyIs DEF IssueKey, At
    <3>2. /\ req'[r].pc = "use" => outdated' = outdated
          /\ outdated' \in {outdated, outdated \ {r}}
          /\ crossed' = crossed /\ cut' = cut
          /\ acct' = acct /\ url' = url /\ baoKey' = baoKey /\ Key' = Key
      BY <2>16 DEF IssueKey, Key, account
    <3>3. Calm' <=> Calm
      BY <2>1, <3>1 DEF Calm, Registering
    <3>4. ASSUME ~crossed, ~cut, r \notin outdated, req'[r].pc = "use"
          PROVE  req'[r].key = req'[r].url
      BY <3>1, <3>4 DEF AccountHolds, Key
    <3>. HIDE DEF Calm, Key
    <3>. QED
      BY <2>1, <3>1, <3>2, <3>3, <3>4 DEF AccountHolds, Registering
  <2>17. CASE Used(r)
    <3>1. req[r].pc = "use" /\ req'[r].pc = "idle"
      BY <2>17, SetIs DEF Used, At, Idle
    <3>2. /\ outdated' = outdated \ {r} /\ crossed' = crossed /\ cut' = cut
          /\ acct' = acct /\ url' = url /\ baoKey' = baoKey /\ Key' = Key
      BY <2>17 DEF Used, Key, account
    <3>3. Calm' <=> Calm
      BY <2>1, <3>1 DEF Calm, Registering
    <3>. HIDE DEF Calm, Key
    <3>. QED
      BY <2>1, <3>1, <3>2, <3>3 DEF AccountHolds, Registering
  <2>18. CASE Register(r)
    <3>1. /\ req[r].pc = "reg_ca" /\ req'[r].pc = "reg_key" /\ req'[r].key # 0
      <4>1. accounts + 1 # 0
        BY DEF ConfigTypeOK, AccountTypes
      <4>. QED
        BY <2>18, <4>1, RegisterIs DEF Register, At
    <3>2. /\ UNCHANGED seenAccounts
          /\ acct' = acct /\ url' = url /\ baoKey' = baoKey /\ Key' = Key
      BY <2>18 DEF Register, Key
    <3>3. Calm' <=> Calm
      BY <2>1, <3>1 DEF Calm, Registering
    <3>. HIDE DEF Calm, Key
    <3>. QED
      BY <2>1, <3>1, <3>2, <3>3 DEF AccountHolds, Registering, seenAccounts
  <2>19. CASE StoreKey(r)
    <3>1. /\ req[r].pc = "reg_key" /\ req'[r].key = req[r].key
          /\ req'[r].pc = IF external THEN "reg_ref" ELSE "reg_url"
      BY <2>19, GotoIs DEF StoreKey, At
    <3>2. /\ url' = url /\ cut' = cut
          /\ ~crossed' => ~crossed /\ Calm
          /\ outdated' = outdated \union {q \in Reqs : req[q].pc = "issue_key"}
          /\ external => baoKey' = req[r].key
          /\ ~external => Key' = req[r].key
      <4>1. url' = url /\ cut' = cut
        BY <2>19 DEF StoreKey
      <4>2. ~crossed' => ~crossed /\ Calm
        BY <2>19 DEF StoreKey, Calm
      <4>3. outdated' = outdated \union {q \in Reqs : req[q].pc = "issue_key"}
        BY <2>19 DEF StoreKey
      <4>4. external => baoKey' = req[r].key
        BY <2>19 DEF StoreKey
      <4>5. ~external => Key' = req[r].key
        BY <2>19 DEF StoreKey, Key
      <4>. QED
        BY <4>1, <4>2, <4>3, <4>4, <4>5
    <3>3. req[r].key # 0
      BY <3>1 DEF AccountHolds
    <3>4. ~Calm'
      BY <3>1 DEF Calm, Registering
    <3>. HIDE DEF Key
    <3>. QED
      BY <2>1, <3>1, <3>2, <3>3, <3>4 DEF AccountHolds, Calm, Registering
  <2>20. CASE StoreKeyRef(r)
    <3>1. /\ req[r].pc = "reg_ref" /\ req'[r].pc = "reg_url"
          /\ req'[r].key = req[r].key
      BY <2>20, GotoIs DEF StoreKeyRef, At
    <3>2. /\ UNCHANGED seenAccounts /\ url' = url /\ baoKey' = baoKey
          /\ Key' = baoKey
      BY <2>20 DEF StoreKeyRef, Key
    <3>3. ~Calm /\ ~Calm'
      BY <3>1 DEF Calm, Registering
    <3>. HIDE DEF Calm, Key
    <3>. QED
      BY <2>1, <3>1, <3>2, <3>3 DEF AccountHolds, Registering, seenAccounts
  <2>21. CASE StoreUrl(r)
    <3>1. req[r].pc = "reg_url" /\ req'[r].pc = "idle"
      BY <2>21, SetIs DEF StoreUrl, At, Idle
    <3>2. /\ UNCHANGED seenAccounts /\ url' = req[r].key /\ Key' = Key
      BY <2>21 DEF StoreUrl, Key
    <3>3. ~Calm
      BY <3>1 DEF Calm, Registering
    <3>. HIDE DEF Calm, Key
    <3>. QED
      BY <2>1, <3>1, <3>2, <3>3 DEF AccountHolds, Registering, seenAccounts
  <2>22. CASE Fails(r)
    <3>1. req'[r].pc = "idle" /\ req[r].pc # "use"
      BY <2>22, SetIs DEF Fails, Idle
    <3>2. /\ outdated' = outdated \ {r} /\ crossed' = crossed
          /\ acct' = acct /\ url' = url /\ baoKey' = baoKey /\ Key' = Key
          /\ ~cut' => ~cut /\ ~HalfStored(r)
      BY <2>22 DEF Fails, Key, account
    <3>3. /\ Calm => Calm'
          /\ ~crossed /\ ~cut' /\ Calm' => Calm \/ url = 0
      BY <2>1, <3>1, <3>2 DEF Calm, Registering, HalfStored
    <3>. HIDE DEF Calm, Key
    <3>. QED
      BY <2>1, <3>1, <3>2, <3>3 DEF AccountHolds, Registering
  <2>. QED
    BY <1>10, <2>4, <2>5, <2>6, <2>7, <2>8, <2>9, <2>10, <2>11, <2>12, <2>13,
       <2>14, <2>15, <2>16, <2>17, <2>18, <2>19, <2>20, <2>21, <2>22 DEF Step
<1>11. CASE UNCHANGED configVars
  BY <1>1, <1>11 DEF configVars, boot
<1>. QED
  BY <1>2, <1>3, <1>4, <1>5, <1>6, <1>7, <1>8, <1>9, <1>10, <1>11
     DEF ConfigNext

\* A step that leaves the integrations alone, and requests that no longer
\* know anything of one.
IntegrationPhases == Creating \union Updating \union Deleting

LEMMA RequestsFrame ==
    ASSUME RequestsHold, UNCHANGED <<external, integration, bao, last, overlapped>>,
           \A q \in Reqs : \/ req'[q] = req[q]
                           \/ /\ req'[q].pc \notin IntegrationPhases
                              /\ req'[q].id \in {NoId, req[q].id}
    PROVE  RequestsHold'
<1>1. \A q \in Reqs : req'[q].pc \in IntegrationPhases => req'[q] = req[q]
  OBVIOUS
<1>2. KeepsCredentials'
  BY DEF RequestsHold, KeepsCredentials, Credentials
<1>3. CreatesKnow'
  BY <1>1, ConfigurationAssumption
     DEF RequestsHold, CreatesKnow, IntegrationPhases
<1>4. TargetsKnown'
  BY <1>1 DEF RequestsHold, TargetsKnown, IntegrationPhases
<1>5. MeetingsNoted'
  BY <1>1 DEF RequestsHold, MeetingsNoted, IntegrationPhases
<1>6. UpdatesKnow'
  <2>1. SUFFICES ASSUME NEW q \in Reqs, req'[q].pc \in Updating,
                        req'[q].id \notin overlapped,
                        integration[req'[q].id].life = "live"
                 PROVE  UpdateKnows(req[q])'
    BY <1>1 DEF UpdatesKnow, IntegrationPhases
  <2>2. req'[q] = req[q]
    BY <1>1, <2>1 DEF IntegrationPhases
  <2>. QED
    BY <2>1, <2>2 DEF RequestsHold, UpdatesKnow, UpdateKnows
<1>. QED
  BY <1>2, <1>3, <1>4, <1>5, <1>6 DEF RequestsHold

\* With no request running only the credentials are left to look at.
LEMMA IdleFrame ==
    ASSUME KeepsCredentials', \A q \in Reqs : req'[q] = Idle
    PROVE  RequestsHold'
<1>1. \A q \in Reqs : req'[q].pc = "idle"
  BY DEF Idle
<1>. QED
  BY <1>1 DEF RequestsHold, CreatesKnow, TargetsKnown, MeetingsNoted,
              UpdatesKnow, Creating, Updating, Deleting

\* Boots keep the credentials.
LEMMA BootKeepsCredentials ==
    ASSUME ConfigTypeOK, BootHolds, KeepsCredentials
    PROVE  /\ \A i \in Ids : MigrateIntegration(i) => KeepsCredentials'
           /\ ProvisionStore => KeepsCredentials'
           /\ ProvisionInsert => KeepsCredentials'
<1>0. bao \in [Ids -> 0..MaxVersion] /\ integration \in [Ids -> Integration]
  BY DEF ConfigTypeOK, StoredTypes
<1>1. ASSUME NEW i \in Ids, MigrateIntegration(i) PROVE KeepsCredentials'
  <2>1. /\ integration[i].life = "live" /\ ~integration[i].ref
        /\ UNCHANGED <<last, overlapped>>
    BY <1>1 DEF MigrateIntegration, seen
  <2>2. CASE bao[i] = integration[i].cfg
    <3>1. /\ bao' = bao
          /\ \A j \in Ids : j # i => integration'[j] = integration[j]
          /\ integration'[i].ref = TRUE
          /\ integration'[i].life = integration[i].life
      BY <1>0, <1>1, <2>2 DEF MigrateIntegration, Integration
    <3>. QED
      BY <2>1, <2>2, <3>1 DEF KeepsCredentials, Credentials
  <2>3. CASE bao[i] # integration[i].cfg
    <3>1. /\ integration' = integration
          /\ \A j \in Ids : j # i => bao'[j] = bao[j]
      BY <1>0, <1>1, <2>3 DEF MigrateIntegration
    <3>. QED
      BY <2>1, <3>1 DEF KeepsCredentials, Credentials
  <2>. QED
    BY <2>2, <2>3
<1>2. ASSUME ProvisionStore PROVE KeepsCredentials'
  <2>1. PICK i \in Unused :
          bao' = IF external THEN [bao EXCEPT ![i] = block] ELSE bao
    BY <1>2 DEF ProvisionStore
  <2>2. /\ \A j \in Ids : integration[j].life = "live" => bao'[j] = bao[j]
        /\ UNCHANGED <<integration, last, overlapped>>
    BY <1>0, <1>2, <2>1 DEF ProvisionStore, Unused, seen
  <2>. QED
    BY <2>2 DEF KeepsCredentials, Credentials
<1>3. ASSUME ProvisionInsert PROVE KeepsCredentials'
  <2>1. /\ making \in Ids /\ UNCHANGED <<bao, overlapped>>
        /\ external => bao[making] = block
        /\ block # 0
    BY <1>3 DEF ProvisionInsert, ConfigTypeOK, BootTypes, BootHolds
  <2>2. /\ integration'[making].ref = external
        /\ ~external => integration'[making].cfg = block
        /\ \A j \in Ids : j # making => integration'[j] = integration[j]
    BY <1>0, <1>3, <2>1 DEF ProvisionInsert
  <2>3. /\ last'[making] = block
        /\ \A j \in Ids : j # making => last'[j] = last[j]
    BY <1>3, <2>1 DEF ProvisionInsert, ConfigTypeOK, SeenTypes
  <2>. QED
    BY <2>1, <2>2, <2>3 DEF KeepsCredentials, Credentials
<1>. QED
  BY <1>1, <1>2, <1>3

\* What a handler writes: the secret of its integration, and the row.
LEMMA StoreConfigIs ==
    ASSUME ConfigTypeOK, NEW r \in Reqs, req[r].id \in Ids, StoreConfig(r)
    PROVE  /\ external => bao'[req[r].id] = req[r].cfg
           /\ ~external => bao' = bao
           /\ \A i \in Ids : i # req[r].id => bao'[i] = bao[i]
  BY DEF StoreConfig, ConfigTypeOK, StoredTypes

\* What a handler writes to the row.
LEMMA ColumnIs ==
    ASSUME ConfigTypeOK, NEW r \in Reqs, NEW i \in Ids,
           integration' = [integration EXCEPT ![i] = Column(r)]
    PROVE  /\ integration'[i].life = "live" /\ integration'[i].ref = external
           /\ ~external => integration'[i].cfg = req[r].cfg
           /\ \A j \in Ids : j # i => integration'[j] = integration[j]
  BY DEF Column, ConfigTypeOK, StoredTypes

OtherKnows(q, r, i) ==
    /\ req'[q].pc \in Creating =>
           /\ req'[q].id \in Ids /\ integration'[req'[q].id].life = "free"
           /\ req'[q].cfg # 0 /\ req'[q].id # i
           /\ \A p \in Reqs \ {r, q} : req'[p].id # req'[q].id
           /\ req'[q].pc = "create_insert" /\ external =>
                  bao'[req'[q].id] = req'[q].cfg
    /\ req'[q].pc \in Updating \union Deleting =>
           /\ req'[q].id \in Ids /\ integration'[req'[q].id].life # "free"
           /\ req'[q].pc = "delete_secret" =>
                  integration'[req'[q].id].life = "gone"
    /\ (/\ req'[q].pc \in Updating /\ req'[q].id # i
        /\ req'[q].id \notin overlapped'
        /\ integration'[req'[q].id].life = "live")
       => UpdateKnows(req[q])'

\* What other requests know survives a step that only touches an integration
\* they do not work on, or work on together with it.
LEMMA OthersKnow ==
    ASSUME RequestsHold, NEW r \in Reqs, Others(r), NEW i \in Ids,
           external' = external,
           integration[i].life # "free" \/ \A q \in Reqs \ {r} : req[q].id # i,
           \A j \in Ids : j # i => /\ integration'[j] = integration[j]
                                   /\ bao'[j] = bao[j] /\ last'[j] = last[j]
                                   /\ j \in overlapped' <=> j \in overlapped,
           integration[i].life # "free" => integration'[i].life # "free",
           integration[i].life = "gone" => integration'[i].life = "gone",
           NEW q \in Reqs \ {r}
    PROVE  OtherKnows(q, r, i)
<1>1. req'[q] = req[q] /\ \A p \in Reqs \ {r} : req'[p] = req[p]
  BY DEF Others
<1>2. ASSUME req[q].pc \in Creating
      PROVE  /\ req[q].id \in Ids /\ integration'[req[q].id].life = "free"
             /\ req[q].cfg # 0 /\ req[q].id # i
             /\ \A p \in Reqs \ {r, q} : req'[p].id # req[q].id
             /\ req[q].pc = "create_insert" /\ external =>
                    bao'[req[q].id] = req[q].cfg
  BY <1>1, <1>2 DEF RequestsHold, CreatesKnow
<1>3. ASSUME req[q].pc \in Updating \union Deleting
      PROVE  /\ req[q].id \in Ids /\ integration'[req[q].id].life # "free"
             /\ req[q].pc = "delete_secret" =>
                    integration'[req[q].id].life = "gone"
  BY <1>3 DEF RequestsHold, TargetsKnown
<1>4. ASSUME req[q].pc \in Updating, req[q].id # i,
             req[q].id \notin overlapped',
             integration'[req[q].id].life = "live"
      PROVE  UpdateKnows(req[q])'
  <2>1. req[q].id \in Ids
    BY <1>3, <1>4
  <2>2. UpdateKnows(req[q])
    BY <1>4, <2>1 DEF RequestsHold, UpdatesKnow
  <2>. QED
    BY <1>1, <1>4, <2>1, <2>2 DEF UpdateKnows
<1>. QED
  BY <1>1, <1>2, <1>3, <1>4 DEF OtherKnows

\* Credentials survive every step of a request.
LEMMA RequestsStep ==
    ASSUME ConfigTypeOK, BootHolds, RequestsHold, NEW r \in Reqs, Step(r)
    PROVE  RequestsHold'
<1>1. /\ Others(r) /\ stage = "serving" /\ external' = external
      /\ \A q \in Reqs \ {r} : req'[q] = req[q]
  BY NextPhase, StepFrame DEF Others, boot
<1>2. /\ \A i \in Ids : integration[i].life = "live" /\ external =>
             integration[i].ref
      /\ \A i \in Ids : ~external => ~integration[i].ref
  BY <1>1 DEF BootHolds
<1>3. /\ bao \in [Ids -> 0..MaxVersion] /\ version \in Nat
      /\ last \in [Ids -> 0..MaxVersion]
      /\ integration \in [Ids -> Integration]
  BY DEF ConfigTypeOK, StoredTypes, SeenTypes
<1>4. ASSUME UNCHANGED <<integration, bao, last, overlapped>>,
             req'[r].pc \notin IntegrationPhases, req'[r].id \in {NoId, req[r].id}
      PROVE  RequestsHold'
  BY <1>1, <1>4, RequestsFrame DEF Others
<1>5. Idle.pc = "idle" /\ Idle.pc \notin IntegrationPhases /\ Idle.id = NoId
  BY DEF Idle, IntegrationPhases, Creating, Updating, Deleting
<1>6. CASE CreateBegin(r)
  <2>1. PICK i \in Unused : /\ req'[r].pc = "create_store" /\ req'[r].id = i
                            /\ req'[r].cfg = version + 1
    BY <1>6, CreateBeginIs
  <2>2. /\ i \in Ids /\ integration[i].life = "free"
        /\ \A q \in Reqs : req[q].id # i
        /\ version + 1 # 0
        /\ UNCHANGED <<integration, bao, last, overlapped>>
    BY <1>3, <1>6 DEF Unused, CreateBegin, stored
  <2>3. \A q \in Reqs \ {r} : OtherKnows(q, r, i)
    BY <1>1, <2>2, OthersKnow
  <2>4. KeepsCredentials'
    BY <2>2 DEF RequestsHold, KeepsCredentials, Credentials
  <2>5. CreatesKnow'
    BY <1>1, <2>1, <2>2, <2>3 DEF OtherKnows, CreatesKnow, Creating
  <2>6. TargetsKnown' /\ MeetingsNoted'
    BY <1>1, <2>1, <2>2, <2>3
       DEF OtherKnows, RequestsHold, TargetsKnown, MeetingsNoted, Updating,
           Deleting
  <2>7. UpdatesKnow'
    BY <1>1, <2>1, <2>2, <2>3 DEF OtherKnows, UpdatesKnow, Updating
  <2>. QED
    BY <2>4, <2>5, <2>6, <2>7 DEF RequestsHold
<1>7. CASE CreateStore(r)
  <2>. DEFINE i == req[r].id
  <2>1. /\ i \in Ids /\ integration[i].life = "free" /\ req[r].cfg # 0
        /\ \A q \in Reqs \ {r} : req[q].id # i
    BY <1>7 DEF CreateStore, At, RequestsHold, CreatesKnow, Creating
  <2>2. /\ req'[r].pc = "create_insert" /\ req'[r].id = i
        /\ req'[r].cfg = req[r].cfg
        /\ UNCHANGED <<integration, last, overlapped>>
    BY <1>7, GotoIs DEF CreateStore, seen
  <2>3. /\ external => bao'[i] = req[r].cfg
        /\ \A j \in Ids : j # i => bao'[j] = bao[j]
    BY <1>7, <2>1, StoreConfigIs DEF CreateStore
  <2>. HIDE DEF i
  <2>4. \A q \in Reqs \ {r} : OtherKnows(q, r, i)
    BY <1>1, <2>1, <2>2, <2>3, OthersKnow
  <2>5. KeepsCredentials'
    BY <2>1, <2>2, <2>3 DEF RequestsHold, KeepsCredentials, Credentials
  <2>6. CreatesKnow'
    BY <1>1, <2>1, <2>2, <2>3, <2>4 DEF OtherKnows, CreatesKnow, Creating
  <2>7. TargetsKnown' /\ MeetingsNoted'
    BY <1>1, <2>1, <2>2, <2>4
       DEF OtherKnows, RequestsHold, TargetsKnown, MeetingsNoted, Updating,
           Deleting
  <2>8. UpdatesKnow'
    BY <1>1, <2>1, <2>2, <2>4 DEF OtherKnows, UpdatesKnow, Updating
  <2>. QED
    BY <2>5, <2>6, <2>7, <2>8 DEF RequestsHold
<1>8. CASE CreateInsert(r)
  <2>. DEFINE i == req[r].id
  <2>1. /\ i \in Ids /\ integration[i].life = "free" /\ req[r].cfg # 0
        /\ \A q \in Reqs \ {r} : req[q].id # i
        /\ external => bao[i] = req[r].cfg
    BY <1>8 DEF CreateInsert, At, RequestsHold, CreatesKnow, Creating
  <2>2. req'[r] = Idle /\ UNCHANGED <<bao, overlapped>>
    BY <1>8, SetIs DEF CreateInsert
  <2>3. /\ integration'[i].life = "live" /\ integration'[i].ref = external
        /\ ~external => integration'[i].cfg = req[r].cfg
        /\ \A j \in Ids : j # i => integration'[j] = integration[j]
    BY <1>8, <2>1, ColumnIs DEF CreateInsert
  <2>4. /\ last'[i] = req[r].cfg
        /\ \A j \in Ids : j # i => last'[j] = last[j]
    BY <1>3, <1>8, <2>1 DEF CreateInsert
  <2>. HIDE DEF i
  <2>5. \A q \in Reqs \ {r} : OtherKnows(q, r, i) /\ req'[q].id # i
    BY <1>1, <2>1, <2>2, <2>3, <2>4, OthersKnow
  <2>6. KeepsCredentials'
    BY <1>1, <2>1, <2>2, <2>3, <2>4
       DEF RequestsHold, KeepsCredentials, Credentials
  <2>7. CreatesKnow'
    BY <1>1, <1>5, <2>2, <2>5, ConfigurationAssumption
       DEF OtherKnows, CreatesKnow, Creating
  <2>8. TargetsKnown'
    BY <1>5, <2>2, <2>5 DEF OtherKnows, TargetsKnown, Updating, Deleting
  <2>9. MeetingsNoted'
    BY <1>1, <1>5, <2>2, <2>3, <2>5
       DEF OtherKnows, RequestsHold, MeetingsNoted, TargetsKnown, Updating
  <2>10. UpdatesKnow'
    BY <1>5, <2>2, <2>5 DEF OtherKnows, UpdatesKnow, Updating
  <2>. QED
    BY <2>6, <2>7, <2>8, <2>9, <2>10 DEF RequestsHold
<1>9. CASE UpdateBegin(r)
  <2>. DEFINE i == req'[r].id
  <2>1. /\ req[r].pc = "idle" /\ req'[r].pc = "update_load"
        /\ i \in Ids /\ integration[i].life = "live"
        /\ req'[r].kind = "rotate" => req'[r].cfg = version + 1
        /\ req'[r].kind # "rotate" => /\ req'[r].cfg = integration[i].cfg
                                      /\ req'[r].ref = integration[i].ref
    BY <1>9, UpdateBeginIs DEF UpdateBegin, At
  <2>2. /\ overlapped \subseteq overlapped'
        /\ overlapped' \subseteq overlapped \union {i}
        /\ (\E q \in Reqs : req[q].id = i /\ req[q].pc \in Updating) =>
               i \in overlapped'
    BY <1>9, UpdateBeginIs
  <2>3. UNCHANGED <<integration, bao, last>>
    BY <1>9 DEF UpdateBegin, stored
  <2>. HIDE DEF i
  <2>4. \A q \in Reqs \ {r} : OtherKnows(q, r, i)
    BY <1>1, <2>1, <2>2, <2>3, OthersKnow
  <2>5. KeepsCredentials'
    BY <2>2, <2>3 DEF RequestsHold, KeepsCredentials, Credentials
  <2>6. CreatesKnow'
    BY <1>1, <2>1, <2>3, <2>4 DEF i, OtherKnows, CreatesKnow, Creating
  <2>7. TargetsKnown'
    BY <1>1, <2>1, <2>3, <2>4 DEF i, OtherKnows, TargetsKnown, Updating, Deleting
  <2>8. MeetingsNoted'
    BY <1>1, <2>1, <2>2, <2>3 DEF i, RequestsHold, MeetingsNoted
  <2>9. UpdatesKnow'
    <3>1. UpdateKnows(req[r])'
      BY <1>3, <2>1, <2>3 DEF i, UpdateKnows
    <3>2. ASSUME NEW q \in Reqs \ {r}, req'[q].pc \in Updating,
                 req'[q].id \notin overlapped'
          PROVE  req'[q].id # i
      BY <1>1, <2>2, <3>2
    <3>. QED
      BY <2>4, <3>1, <3>2 DEF OtherKnows, UpdatesKnow
  <2>. QED
    BY <2>5, <2>6, <2>7, <2>8, <2>9 DEF RequestsHold
<1>10. CASE UpdateLoad(r)
  <2>. DEFINE i == req[r].id
              merged == IF req[r].kind # "rotate" /\ req[r].ref THEN bao[i]
                        ELSE req[r].cfg
  <2>1. req[r].pc = "update_load" /\ UNCHANGED <<integration, bao, last, overlapped>>
    BY <1>10 DEF UpdateLoad, At, stored, seen
  <2>2. \/ req'[r] = Idle
        \/ /\ req'[r].pc = "update_store" /\ req'[r].id = i
           /\ req'[r].kind = req[r].kind /\ req'[r].cfg = merged
    BY <1>10, UpdateLoadIs
  <2>3. CASE req'[r] = Idle
    BY <1>4, <1>5, <2>1, <2>3
  <2>4. CASE req'[r] # Idle
    <3>1. i \in Ids /\ integration[i].life # "free"
      BY <2>1 DEF RequestsHold, TargetsKnown, Updating
    <3>2. ASSUME i \notin overlapped, integration[i].life = "live"
          PROVE  /\ merged # 0
                 /\ req[r].kind # "rotate" => merged = last[i]
      <4>1. UpdateKnows(req[r]) /\ Credentials(i) = last[i] /\ last[i] # 0
        BY <2>1, <3>1, <3>2
           DEF RequestsHold, UpdatesKnow, KeepsCredentials, Updating
      <4>. QED
        BY <2>1, <4>1 DEF UpdateKnows, Credentials
    <3>. HIDE DEF i, merged
    <3>3. \A q \in Reqs \ {r} : OtherKnows(q, r, i)
      BY <1>1, <2>1, <3>1, OthersKnow
    <3>4. KeepsCredentials'
      BY <2>1 DEF RequestsHold, KeepsCredentials, Credentials
    <3>5. CreatesKnow'
      BY <1>1, <2>1, <2>2, <2>4, <3>3 DEF OtherKnows, CreatesKnow, Creating
    <3>6. TargetsKnown'
      BY <2>1, <2>2, <2>4, <3>1, <3>3
         DEF OtherKnows, TargetsKnown, Updating, Deleting
    <3>7. MeetingsNoted'
      BY <1>1, <2>1, <2>2, <2>4 DEF i, RequestsHold, MeetingsNoted, Updating
    <3>8. UpdatesKnow'
      <4>1. ASSUME i \notin overlapped, integration[i].life = "live"
            PROVE  UpdateKnows(req[r])'
        BY <2>1, <2>2, <2>4, <3>2, <4>1 DEF UpdateKnows
      <4>2. ASSUME NEW q \in Reqs \ {r}, req'[q].pc \in Updating,
                   req'[q].id \notin overlapped',
                   integration'[req'[q].id].life = "live"
            PROVE  req'[q].id # i
        BY <1>1, <2>1, <4>2 DEF i, RequestsHold, MeetingsNoted, Updating
      <4>. QED
        BY <2>1, <2>2, <2>4, <3>3, <4>1, <4>2 DEF OtherKnows, UpdatesKnow
    <3>. QED
      BY <3>4, <3>5, <3>6, <3>7, <3>8 DEF RequestsHold
  <2>. QED
    BY <2>3, <2>4
<1>11. CASE UpdateStore(r)
  <2>. DEFINE i == req[r].id
  <2>1. /\ req[r].pc = "update_store" /\ i \in Ids /\ integration[i].life # "free"
        /\ UNCHANGED <<integration, overlapped>>
    BY <1>11 DEF UpdateStore, At, RequestsHold, TargetsKnown, Updating
  <2>2. /\ req'[r].pc = "update_row" /\ req'[r].id = i
        /\ req'[r].kind = req[r].kind /\ req'[r].cfg = req[r].cfg
    BY <1>11, GotoIs DEF UpdateStore
  <2>3. /\ external => bao'[i] = req[r].cfg
        /\ ~external => bao' = bao
        /\ \A j \in Ids : j # i => bao'[j] = bao[j]
    BY <1>11, <2>1, StoreConfigIs DEF UpdateStore
  <2>4. /\ last'[i] = IF external /\ integration[i].ref /\ req[r].kind = "rotate"
                      THEN req[r].cfg ELSE last[i]
        /\ \A j \in Ids : j # i => last'[j] = last[j]
    BY <1>3, <1>11, <2>1 DEF UpdateStore
  <2>5. ASSUME i \notin overlapped, integration[i].life = "live"
        PROVE  req[r].cfg # 0 /\ (req[r].kind # "rotate" => req[r].cfg = last[i])
    BY <2>1, <2>5 DEF RequestsHold, UpdatesKnow, UpdateKnows, Updating
  <2>. HIDE DEF i
  <2>6. \A q \in Reqs \ {r} : OtherKnows(q, r, i)
    BY <1>1, <2>1, <2>3, <2>4, OthersKnow
  <2>7. KeepsCredentials'
    <3>1. SUFFICES ASSUME NEW j \in Ids \ overlapped, integration[j].life = "live"
                   PROVE  Credentials(j)' = last'[j] /\ last'[j] # 0
      BY <2>1 DEF KeepsCredentials
    <3>2. Credentials(j) = last[j] /\ last[j] # 0
      BY <3>1 DEF RequestsHold, KeepsCredentials
    <3>3. CASE j # i
      BY <2>1, <2>3, <2>4, <3>2, <3>3 DEF Credentials
    <3>4. CASE j = i /\ external
      BY <1>2, <2>1, <2>3, <2>4, <2>5, <3>1, <3>2, <3>4 DEF Credentials
    <3>5. CASE j = i /\ ~external
      BY <2>1, <2>3, <2>4, <3>2, <3>5 DEF Credentials
    <3>. QED
      BY <3>3, <3>4, <3>5
  <2>8. CreatesKnow'
    BY <1>1, <2>2, <2>6 DEF OtherKnows, CreatesKnow, Creating
  <2>9. TargetsKnown'
    BY <2>1, <2>2, <2>6 DEF OtherKnows, TargetsKnown, Updating, Deleting
  <2>10. MeetingsNoted'
    BY <1>1, <2>1, <2>2 DEF i, RequestsHold, MeetingsNoted, Updating
  <2>11. UpdatesKnow'
    <3>1. ASSUME i \notin overlapped, integration[i].life = "live"
          PROVE  UpdateKnows(req[r])'
      BY <1>1, <1>2, <2>1, <2>2, <2>3, <2>4, <2>5, <3>1 DEF UpdateKnows
    <3>2. ASSUME NEW q \in Reqs \ {r}, req'[q].pc \in Updating,
                 req'[q].id \notin overlapped',
                 integration'[req'[q].id].life = "live"
          PROVE  req'[q].id # i
      BY <1>1, <2>1, <3>2 DEF i, RequestsHold, MeetingsNoted, Updating
    <3>. QED
      BY <2>1, <2>2, <2>6, <3>1, <3>2 DEF OtherKnows, UpdatesKnow
  <2>. QED
    BY <2>7, <2>8, <2>9, <2>10, <2>11 DEF RequestsHold
<1>12. CASE UpdateIntegration(r)
  <2>. DEFINE i == req[r].id
  <2>1. /\ req[r].pc = "update_row" /\ i \in Ids /\ integration[i].life # "free"
        /\ UNCHANGED <<bao, overlapped>> /\ req'[r] = Idle
    BY <1>12, SetIs
       DEF UpdateIntegration, At, RequestsHold, TargetsKnown, Updating
  <2>2. CASE integration[i].life # "live"
    BY <1>4, <1>5, <1>12, <2>1, <2>2 DEF UpdateIntegration
  <2>3. CASE integration[i].life = "live"
    <3>1. /\ integration'[i].life = "live" /\ integration'[i].ref = external
          /\ ~external => integration'[i].cfg = req[r].cfg
          /\ \A j \in Ids : j # i => integration'[j] = integration[j]
      BY <1>12, <2>1, <2>3, ColumnIs DEF UpdateIntegration
    <3>2. /\ last'[i] = IF req[r].kind = "rotate" THEN req[r].cfg ELSE last[i]
          /\ \A j \in Ids : j # i => last'[j] = last[j]
      BY <1>3, <1>12, <2>1, <2>3 DEF UpdateIntegration
    <3>3. ASSUME i \notin overlapped
          PROVE  /\ req[r].cfg # 0
                 /\ req[r].kind # "rotate" => req[r].cfg = last[i]
                 /\ external => bao[i] = req[r].cfg
      BY <2>1, <2>3, <3>3 DEF RequestsHold, UpdatesKnow, UpdateKnows, Updating
    <3>. HIDE DEF i
    <3>4. \A q \in Reqs \ {r} : OtherKnows(q, r, i)
      BY <1>1, <2>1, <2>3, <3>1, <3>2, OthersKnow
    <3>5. KeepsCredentials'
      BY <2>1, <3>1, <3>2, <3>3, <1>1
         DEF RequestsHold, KeepsCredentials, Credentials
    <3>6. CreatesKnow'
      BY <1>1, <1>5, <2>1, <3>4, ConfigurationAssumption
         DEF OtherKnows, CreatesKnow, Creating
    <3>7. TargetsKnown'
      BY <1>5, <2>1, <3>4 DEF OtherKnows, TargetsKnown, Updating, Deleting
    <3>8. MeetingsNoted'
      BY <1>1, <1>5, <2>1, <2>3, <3>1, <3>4
         DEF OtherKnows, RequestsHold, MeetingsNoted, Updating
    <3>9. UpdatesKnow'
      <4>1. ASSUME NEW q \in Reqs \ {r}, req'[q].pc \in Updating,
                   req'[q].id \notin overlapped'
            PROVE  req'[q].id # i
        BY <1>1, <2>1, <2>3, <4>1 DEF i, RequestsHold, MeetingsNoted, Updating
      <4>. QED
        BY <1>5, <2>1, <3>4, <4>1 DEF OtherKnows, UpdatesKnow, Updating
    <3>. QED
      BY <3>5, <3>6, <3>7, <3>8, <3>9 DEF RequestsHold
  <2>. QED
    BY <2>2, <2>3
<1>13. CASE DeleteBegin(r)
  <2>. DEFINE i == req'[r].id
  <2>1. /\ req'[r].pc = "delete_row" /\ i \in Ids /\ integration[i].life = "live"
        /\ UNCHANGED <<integration, bao, last, overlapped>>
    BY <1>13, DeleteBeginIs DEF DeleteBegin, stored, seen
  <2>. HIDE DEF i
  <2>2. \A q \in Reqs \ {r} : OtherKnows(q, r, i)
    BY <1>1, <2>1, OthersKnow
  <2>3. KeepsCredentials'
    BY <2>1 DEF RequestsHold, KeepsCredentials, Credentials
  <2>4. CreatesKnow'
    BY <1>1, <2>1, <2>2 DEF i, OtherKnows, CreatesKnow, Creating
  <2>5. TargetsKnown'
    BY <2>1, <2>2 DEF i, OtherKnows, TargetsKnown, Updating, Deleting
  <2>6. MeetingsNoted'
    BY <1>1, <2>1 DEF RequestsHold, MeetingsNoted, Updating
  <2>7. UpdatesKnow'
    <3>1. SUFFICES ASSUME NEW q \in Reqs, req'[q].pc \in Updating,
                          req'[q].id \notin overlapped,
                          integration[req'[q].id].life = "live"
                   PROVE  UpdateKnows(req[q])'
      BY <2>1 DEF UpdatesKnow
    <3>2. req'[q] = req[q]
      BY <1>1, <2>1, <3>1 DEF Updating
    <3>. QED
      BY <1>1, <2>1, <3>1, <3>2 DEF RequestsHold, UpdatesKnow, UpdateKnows
  <2>. QED
    BY <2>3, <2>4, <2>5, <2>6, <2>7 DEF RequestsHold
<1>14. CASE DeleteIntegration(r)
  <2>. DEFINE i == req[r].id
  <2>1. /\ req[r].pc = "delete_row" /\ i \in Ids /\ integration[i].life # "free"
        /\ bao' = bao /\ overlapped' = overlapped \ {i}
    BY <1>14 DEF DeleteIntegration, At, RequestsHold, TargetsKnown, Deleting
  <2>2. req'[r].pc = "delete_secret" /\ req'[r].id = i
    BY <1>14, GotoIs DEF DeleteIntegration
  <2>3. /\ integration'[i].life = "gone"
        /\ \A j \in Ids : j # i => integration'[j] = integration[j]
        /\ \A j \in Ids : j # i => last'[j] = last[j]
    BY <1>3, <1>14, <2>1 DEF DeleteIntegration, NoRow
  <2>. HIDE DEF i
  <2>4. \A q \in Reqs \ {r} : OtherKnows(q, r, i)
    BY <1>1, <2>1, <2>3, OthersKnow
  <2>5. KeepsCredentials'
    BY <2>1, <2>3 DEF RequestsHold, KeepsCredentials, Credentials
  <2>6. CreatesKnow'
    BY <1>1, <2>2, <2>4 DEF OtherKnows, CreatesKnow, Creating
  <2>7. TargetsKnown'
    BY <2>1, <2>2, <2>3, <2>4 DEF OtherKnows, TargetsKnown, Updating, Deleting
  <2>8. MeetingsNoted'
    BY <1>1, <2>1, <2>2, <2>3, <2>4
       DEF OtherKnows, RequestsHold, MeetingsNoted, Updating
  <2>9. UpdatesKnow'
    BY <2>2, <2>3, <2>4 DEF OtherKnows, UpdatesKnow, Updating
  <2>. QED
    BY <2>5, <2>6, <2>7, <2>8, <2>9 DEF RequestsHold
<1>15. CASE DeleteCredentials(r)
  <2>. DEFINE i == req[r].id
  <2>1. /\ req[r].pc = "delete_secret" /\ i \in Ids /\ integration[i].life = "gone"
        /\ UNCHANGED <<integration, last, overlapped>> /\ req'[r] = Idle
    BY <1>15, SetIs
       DEF DeleteCredentials, At, RequestsHold, TargetsKnown, Deleting, seen
  <2>2. \A j \in Ids : j # i => bao'[j] = bao[j]
    BY <1>3, <1>15, <2>1 DEF DeleteCredentials
  <2>. HIDE DEF i
  <2>3. \A q \in Reqs \ {r} : OtherKnows(q, r, i)
    BY <1>1, <2>1, <2>2, OthersKnow
  <2>4. KeepsCredentials'
    BY <2>1, <2>2 DEF RequestsHold, KeepsCredentials, Credentials
  <2>5. CreatesKnow'
    BY <1>1, <1>5, <2>1, <2>3, ConfigurationAssumption
       DEF OtherKnows, CreatesKnow, Creating
  <2>6. TargetsKnown'
    BY <1>5, <2>1, <2>3 DEF OtherKnows, TargetsKnown, Updating, Deleting
  <2>7. MeetingsNoted'
    BY <1>1, <1>5, <2>1 DEF RequestsHold, MeetingsNoted, Updating
  <2>8. UpdatesKnow'
    BY <1>5, <2>1, <2>3 DEF OtherKnows, UpdatesKnow, Updating
  <2>. QED
    BY <2>4, <2>5, <2>6, <2>7, <2>8 DEF RequestsHold
<1>16. CASE IssueBegin(r) \/ IssueKey(r) \/ RegisterBegin(r) \/ Register(r)
  <2>1. UNCHANGED <<integration, bao, last, overlapped>>
    BY <1>16 DEF IssueBegin, IssueKey, RegisterBegin, Register, stored, seen
  <2>2. /\ req'[r].pc \in {"issue_key", "use", "reg_ca", "reg_key"}
        /\ req'[r].id \in {NoId, req[r].id}
    BY <1>16, IssueBeginIs, IssueKeyIs, RegisterIs
  <2>. QED
    BY <1>4, <2>1, <2>2 DEF IntegrationPhases, Creating, Updating, Deleting
<1>17. CASE StoreKey(r) \/ StoreKeyRef(r)
  <2>1. UNCHANGED <<integration, bao, last, overlapped>>
    BY <1>17 DEF StoreKey, StoreKeyRef, stored, seen
  <2>2. req'[r].pc \in Registering /\ req'[r].id = req[r].id
    BY <1>17, GotoIs DEF StoreKey, StoreKeyRef, Registering
  <2>. QED
    BY <1>4, <2>1, <2>2
       DEF IntegrationPhases, Creating, Updating, Deleting, Registering
<1>18. CASE Used(r) \/ StoreUrl(r) \/ Fails(r)
  <2>1. UNCHANGED <<integration, bao, last, overlapped>> /\ req'[r] = Idle
    BY <1>18, SetIs DEF Used, StoreUrl, Fails, stored, seen
  <2>. QED
    BY <1>4, <1>5, <2>1
<1>. QED
  BY <1>6, <1>7, <1>8, <1>9, <1>10, <1>11, <1>12, <1>13, <1>14, <1>15,
     <1>16, <1>17, <1>18 DEF Step

\* Credentials survive every step.
LEMMA CredentialsStep ==
    ConfigTypeOK /\ BootHolds /\ RequestsHold /\ [ConfigNext]_configVars
      => RequestsHold'
<1>. SUFFICES ASSUME ConfigTypeOK, BootHolds, RequestsHold,
                     [ConfigNext]_configVars
             PROVE  RequestsHold'
  OBVIOUS
<1>1. ASSUME stage # "serving", req' = req, KeepsCredentials'
      PROVE  RequestsHold'
  BY <1>1, IdleFrame DEF BootHolds
<1>2. ASSUME UNCHANGED <<integration, bao, last, overlapped>>
      PROVE  KeepsCredentials'
  BY <1>2 DEF RequestsHold, KeepsCredentials, Credentials
<1>3. ASSUME NEW i \in Ids, MigrateIntegration(i) PROVE RequestsHold'
  BY <1>1, <1>3, BootKeepsCredentials DEF MigrateIntegration, RequestsHold
<1>4. CASE Start
  BY <1>1, <1>2, <1>4 DEF Start, stored, seen
<1>5. CASE MigrateKey
  BY <1>1, <1>2, <1>5 DEF MigrateKey, stored, seen
<1>6. CASE Migrated
  BY <1>1, <1>2, <1>6 DEF Migrated, stored, seen
<1>7. CASE ProvisionStore
  BY <1>1, <1>7, BootKeepsCredentials DEF ProvisionStore, RequestsHold
<1>8. CASE ProvisionInsert
  BY <1>1, <1>8, BootKeepsCredentials DEF ProvisionInsert, RequestsHold
<1>9. CASE WriteSentinel
  BY <1>1, <1>2, <1>9 DEF WriteSentinel, stored, seen
<1>10. CASE ServerStops
  <2>1. \A q \in Reqs : req'[q] = Idle
    BY <1>10 DEF ServerStops
  <2>. QED
    BY <1>2, <1>10, <2>1, IdleFrame DEF ServerStops, stored, seen
<1>11. ASSUME NEW r \in Reqs, Step(r) PROVE RequestsHold'
  BY <1>11, RequestsStep
<1>12. CASE UNCHANGED configVars
  BY <1>12, RequestsFrame DEF configVars, boot, stored, seen
<1>. QED
  BY <1>3, <1>4, <1>5, <1>6, <1>7, <1>8, <1>9, <1>10, <1>11, <1>12
     DEF ConfigNext

-----------------------------------------------------------------------------
(* Configuration: the theorems.                                            *)

ConfigInv == ConfigTypeOK /\ BootHolds /\ RequestsHold /\ CopiesHold /\ AccountHolds

\* The inductive invariant.
LEMMA ConfigInvariant == ConfigSpec => []ConfigInv
<1>1. ConfigInit => ConfigTypeOK
  <2>1. SUFFICES ASSUME ConfigInit PROVE ConfigTypeOK
    OBVIOUS
  <2>2. BootTypes
    <3>1. block \in 1..(Blocks + 1)
      BY <2>1, ConfigurationAssumption DEF ConfigInit
    <3>. QED
      BY <2>1, <3>1 DEF ConfigInit, BootTypes
  <2>3. AccountTypes
    BY <2>1, Zero DEF ConfigInit, AccountTypes
  <2>4. SeenTypes
    <3>1. version \in 0..MaxVersion
      BY <2>1, ConfigurationAssumption DEF ConfigInit
    <3>. QED
      BY <2>1, <3>1, Zero DEF ConfigInit, SeenTypes
  <2>5. NoRow \in Integration
    BY Zero DEF NoRow, Integration
  <2>6. StoredTypes
    BY <2>1, <2>5, Zero DEF ConfigInit, StoredTypes
  <2>7. RequestTypes
    BY <2>1, IdleTyped DEF ConfigInit, RequestTypes
  <2>8. CountTypes
    <3>1. copies \in [1..Blocks -> Nat]
      BY <2>1 DEF ConfigInit
    <3>2. faults \in 0..MaxFaults
      BY <2>1, ConfigurationAssumption DEF ConfigInit
    <3>. QED
      BY <2>1, <3>1, <3>2 DEF ConfigInit, CountTypes
  <2>. QED
    BY <2>2, <2>3, <2>4, <2>6, <2>7, <2>8 DEF ConfigTypeOK
<1>2. ConfigInit => BootHolds
  BY DEF ConfigInit, BootHolds, Idle, NoRow
<1>3. ConfigInit => RequestsHold
  BY DEF ConfigInit, RequestsHold, KeepsCredentials, CreatesKnow, TargetsKnown,
         MeetingsNoted, UpdatesKnow, Creating, Updating, Deleting, Idle, NoRow
<1>4. ConfigInit => CopiesHold
  <2>1. SUFFICES ASSUME ConfigInit, NEW b \in 1..Blocks
                 PROVE  /\ Applied(b) \/ sentinel => copies[b] >= 1
                        /\ copies[b] <= badBoots
                               + (IF Applied(b) \/ sentinel THEN 1 ELSE 0)
    BY DEF CopiesHold
  <2>2. copies[b] = 0 /\ badBoots = 0 /\ sentinel = FALSE /\ stage = "down"
    BY <2>1 DEF ConfigInit
  <2>. QED
    BY <2>2 DEF Applied
<1>5. ConfigInit => AccountHolds
  <2>1. SUFFICES ASSUME ConfigInit PROVE AccountHolds
    OBVIOUS
  <2>2. url = 0 /\ \A r \in Reqs : req[r].pc = "idle"
    BY <2>1 DEF ConfigInit, Idle
  <2>. QED
    BY <2>2 DEF AccountHolds, Registering
<1>6. ConfigInv /\ [ConfigNext]_configVars => ConfigInv'
  BY ConfigTypeStep, BootStep, CredentialsStep, CopiesStep, AccountStep
     DEF ConfigInv, RequestsHold
<1>. QED
  BY <1>1, <1>2, <1>3, <1>4, <1>5, <1>6, PTL DEF ConfigSpec, ConfigInv

\* Integrations, requests, account and counters keep their types.
THEOREM ConfigTypeCorrect == ConfigSpec => []ConfigTypeOK
<1>1. ConfigInv => ConfigTypeOK
  BY DEF ConfigInv
<1>. QED
  BY <1>1, ConfigInvariant, PTL

\* For any number of integrations and requests: an integration no two updates
\* overlapped on has the credentials it was given last, whatever moves them
\* to OpenBao, masks them, fails or stops half-way.
THEOREM CredentialsAreKept == ConfigSpec => []KeepsCredentials
<1>1. ConfigInv => KeepsCredentials
  BY DEF ConfigInv, RequestsHold
<1>. QED
  BY <1>1, ConfigInvariant, PTL

\* For a file of any length: once applied it has been applied in full, each
\* integration of it at most once more than boots ended half-way.
THEOREM FileIsApplied == ConfigSpec => []ProvisionedInFull
<1>1. ASSUME ConfigInv PROVE ProvisionedInFull
  <2>1. badBoots \in Nat /\ copies \in [1..Blocks -> Nat]
    BY <1>1 DEF ConfigInv, ConfigTypeOK, CountTypes
  <2>. QED
    BY <1>1, <2>1 DEF ConfigInv, CopiesHold, ProvisionedInFull
<1>. QED
  BY <1>1, ConfigInvariant, PTL

\* For any number of requests: key and URL of the stored account are one
\* account's when no registration is under way, and so are those an issuance
\* uses, unless registrations crossed or one was cut short.
THEOREM AccountStaysPaired == ConfigSpec => []AccountIsPaired
<1>1. ConfigInv => AccountIsPaired
  BY DEF ConfigInv, AccountHolds, AccountIsPaired, Calm
<1>. QED
  BY <1>1, ConfigInvariant, PTL

=============================================================================
