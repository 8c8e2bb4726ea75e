----------------------------- MODULE CliRequest -----------------------------
(***************************************************************************)
(* `certifi-cli request`, run again and again by cron for one certificate: *)
(* the POST, the wait for the issuance, the download of each output with a *)
(* request of its own, the files written only when they differ, the PKCS#12*)
(* archive with its password and its sidecar, and the reload command.      *)
(*                                                                         *)
(* The server is the row the command reads and its material, replaced as a *)
(* whole by an issuance (module CertLifecycle).  Generation g of a         *)
(* certificate is its g-th issuance.  Runs do not overlap; one may be      *)
(* killed, or meet an error, between any two of its steps.                 *)
(***************************************************************************)
EXTENDS Naturals, Sequences

CONSTANTS
    Outputs,    \* the PEM outputs asked for, in the order the command takes them
    Pfx,        \* are --pfx and --pfx-password-file given?
    Issuer,     \* the issuer chain of a generation: often that of the one before
    Removable,  \* the files somebody may delete
    MaxGen,     \* bound: issuances
    MaxPw,      \* bound: passwords the server generates
    MaxFaults   \* bound: errors, kills, failed issuances and deleted files

Pem   == {"fullchain", "cert", "chain", "privkey"}
Paths == Pem \cup {"sidecar"}
Gens  == 0..MaxGen

ASSUME CliAssumption ==
    /\ Outputs \in Seq(Pem)
    /\ Pfx \in BOOLEAN
    /\ MaxGen \in Nat /\ MaxPw \in Nat /\ MaxFaults \in Nat
    /\ Issuer \in [Gens -> Gens]
    /\ Removable \subseteq Paths \cup {"pfx", "password"}

VARIABLES
    \* the server
    gen,       \* the generation its material is of; 0 before the first
    status,    \* of the row
    password,  \* the stored PFX password, 0 if there is none it can read
    minted,    \* passwords generated so far
    \* the disk: 0 where there is no file
    files,     \* what each PEM file, and the sidecar, holds
    archive,   \* the .pfx: its generation and the password that opens it
    pwfile,
    loaded,    \* the PEM files the service read when it was last reloaded
    \* the run
    pc,
    at,        \* index of the output it is at
    hand,      \* what it has downloaded and not yet written
    leaf, dl,  \* the same for the leaf and the archive of --pfx
    changed,
    exit,      \* the exit code of the last run that ended by itself
    \* observation only
    quiet,     \* since the run's first download nobody else changed anything
    faults

server == <<gen, status, password, minted>>
disk   == <<files, archive, pwfile>>
local  == <<at, hand, leaf, dl, changed>>
vars   == <<gen, status, password, minted, files, archive, pwfile, loaded, pc, at, hand,
            leaf, dl, changed, exit, quiet, faults>>

Archives == [gen : Gens, pw : 0..MaxPw]
NoArchive == [gen |-> 0, pw |-> 0]
Running  == {"wait", "download", "write", "leaf", "archive", "password", "pfx", "sidecar",
             "finish"}
ExitCodes == {0, 1, 2, 3}

TypeOK ==
    /\ gen \in Gens
    /\ status \in {"absent", "in_flight", "active", "failed"}
    /\ password \in 0..MaxPw /\ minted \in 0..MaxPw
    /\ files \in [Paths -> Gens]
    /\ archive \in Archives
    /\ pwfile \in 0..MaxPw
    /\ loaded \in [Pem -> Gens]
    /\ pc \in Running \cup {"idle"}
    /\ at \in 1..(Len(Outputs) + 1)
    /\ hand \in Gens /\ leaf \in Gens
    /\ dl \in Archives
    /\ changed \in BOOLEAN
    /\ exit \in ExitCodes
    /\ quiet \in BOOLEAN
    /\ faults \in 0..MaxFaults

Init ==
    /\ gen = 0 /\ status = "absent" /\ password = 0 /\ minted = 0
    /\ files = [p \in Paths |-> 0]
    /\ archive = NoArchive
    /\ pwfile = 0
    /\ loaded = [p \in Pem |-> 0]
    /\ pc = "idle"
    /\ at = 1
    /\ hand = 0 /\ leaf = 0 /\ dl = NoArchive
    /\ changed = FALSE
    /\ exit = 0
    /\ quiet = FALSE
    /\ faults = 0

-----------------------------------------------------------------------------
(* The run.                                                                *)

Content(output, g) == IF output = "chain" THEN Issuer[g] ELSE g

\* Where the run goes once it has dealt with the outputs before i.
After(i) == IF i <= Len(Outputs) THEN "download" ELSE IF Pfx THEN "leaf" ELSE "finish"

Downloads ==
    /\ pc' = After(1)
    /\ at' = 1
    /\ changed' = FALSE
    /\ quiet' = TRUE

End(code) == pc' = "idle" /\ exit' = code

\* POST /api/certificates finds the row active.
CreateActive ==
    /\ pc = "idle"
    /\ status = "active"
    /\ Downloads
    /\ UNCHANGED <<server, disk, loaded, hand, leaf, dl, exit, faults>>

\* It finds the row in flight, retries a failed one or inserts it.
CreateQueued ==
    /\ pc = "idle"
    /\ status # "active"
    /\ gen < MaxGen
    /\ status' = "in_flight"
    /\ pc' = "wait"
    /\ UNCHANGED <<gen, password, minted, disk, loaded, local, exit, quiet, faults>>

\* wait_until_ready: the status, polled.
PollActive ==
    /\ pc = "wait"
    /\ status = "active"
    /\ Downloads
    /\ UNCHANGED <<server, disk, loaded, hand, leaf, dl, exit, faults>>

PollFailed ==
    /\ pc = "wait"
    /\ status = "failed"
    /\ End(1)
    /\ UNCHANGED <<server, disk, loaded, local, quiet, faults>>

PollTimesOut ==
    /\ pc = "wait"
    /\ status \notin {"active", "failed"}
    /\ End(3)
    /\ UNCHANGED <<server, disk, loaded, local, quiet, faults>>

\* One GET per output, of whatever the server holds at that moment.
Download ==
    /\ pc = "download"
    /\ hand' = Content(Outputs[at], gen)
    /\ pc' = "write"
    /\ UNCHANGED <<server, disk, loaded, at, leaf, dl, changed, exit, quiet, faults>>

Write_Missing ==
    /\ pc = "write"
    /\ files' = [files EXCEPT ![Outputs[at]] = IF @ = 0 THEN hand ELSE @]
    /\ changed' = (changed \/ files[Outputs[at]] = 0)
    /\ at' = at + 1
    /\ pc' = After(at + 1)
    /\ UNCHANGED <<server, archive, pwfile, loaded, hand, leaf, dl, exit, quiet, faults>>

\* write_if_changed: compared with the file, staged beside it and renamed into place.
Write ==
    /\ pc = "write"
    /\ files' = [files EXCEPT ![Outputs[at]] = hand]
    /\ changed' = (changed \/ files[Outputs[at]] # hand)
    /\ at' = at + 1
    /\ pc' = After(at + 1)
    /\ UNCHANGED <<server, archive, pwfile, loaded, hand, leaf, dl, exit, quiet, faults>>

PfxIsCurrent_Exists == archive # NoArchive /\ pwfile # 0

\* The archive is left alone if the sidecar holds this leaf and both files exist.
PfxIsCurrent ==
    files["sidecar"] = gen /\ archive # NoArchive /\ pwfile # 0

Leaf ==
    /\ pc = "leaf"
    /\ leaf' = gen
    /\ pc' = IF PfxIsCurrent THEN "finish" ELSE "archive"
    /\ UNCHANGED <<server, disk, loaded, at, hand, dl, changed, exit, quiet, faults>>

\* POST .../download/pfx: with the stored password, or with a new one it stores.
DownloadPfx ==
    /\ pc = "archive"
    /\ IF password # 0
       THEN UNCHANGED <<password, minted>>
       ELSE minted < MaxPw /\ minted' = minted + 1 /\ password' = minted + 1
    /\ dl' = [gen |-> gen, pw |-> password']
    /\ pc' = "password"
    /\ UNCHANGED <<gen, status, disk, loaded, at, hand, leaf, changed, exit, quiet, faults>>

WritePassword_SidecarFirst ==
    /\ pc = "password"
    /\ pwfile' = dl.pw
    /\ files' = [files EXCEPT !["sidecar"] = leaf]
    /\ pc' = "pfx"
    /\ UNCHANGED <<server, archive, loaded, local, exit, quiet, faults>>

WritePassword ==
    /\ pc = "password"
    /\ pwfile' = dl.pw
    /\ pc' = "pfx"
    /\ UNCHANGED <<server, files, archive, loaded, local, exit, quiet, faults>>

WritePfx ==
    /\ pc = "pfx"
    /\ archive' = dl
    /\ pc' = "sidecar"
    /\ UNCHANGED <<server, files, pwfile, loaded, local, exit, quiet, faults>>

WriteSidecar ==
    /\ pc = "sidecar"
    /\ files' = [files EXCEPT !["sidecar"] = leaf]
    /\ changed' = TRUE
    /\ pc' = "finish"
    /\ UNCHANGED <<server, archive, pwfile, loaded, at, hand, leaf, dl, exit, quiet, faults>>

OnDisk == [p \in Pem |-> files[p]]

\* Nothing was written, or the reload command ran and succeeded.
Finish ==
    /\ pc = "finish"
    /\ End(IF changed THEN 2 ELSE 0)
    /\ loaded' = IF changed THEN OnDisk ELSE loaded
    /\ UNCHANGED <<server, disk, local, quiet, faults>>

\* A request, a decode or a write fails, or the reload command does: main exits with 1.
Fails ==
    /\ pc # "idle"
    /\ faults < MaxFaults
    /\ faults' = faults + 1
    /\ End(1)
    /\ UNCHANGED <<server, disk, loaded, local, quiet>>

Killed ==
    /\ pc # "idle"
    /\ faults < MaxFaults
    /\ faults' = faults + 1
    /\ pc' = "idle"
    /\ UNCHANGED <<server, disk, loaded, local, exit, quiet>>

Run == \/ CreateActive \/ CreateQueued \/ PollActive \/ PollFailed \/ PollTimesOut
       \/ Download \/ Write \/ Leaf \/ DownloadPfx \/ WritePassword \/ WritePfx
       \/ WriteSidecar \/ Finish

-----------------------------------------------------------------------------
(* The others: the server's renewals and its COOKIE_KEY, and the host.     *)

\* The scheduler, or another client, takes the row for an issuance.
Renew ==
    /\ status \in {"active", "failed"}
    /\ gen < MaxGen
    /\ status' = "in_flight"
    /\ UNCHANGED <<gen, password, minted, disk, loaded, pc, local, exit, quiet, faults>>

Issued ==
    /\ status = "in_flight"
    /\ gen' = gen + 1
    /\ status' = "active"
    /\ quiet' = FALSE
    /\ UNCHANGED <<password, minted, disk, loaded, pc, local, exit, faults>>

NotIssued ==
    /\ status = "in_flight"
    /\ faults < MaxFaults
    /\ faults' = faults + 1
    /\ status' = "failed"
    /\ UNCHANGED <<gen, password, minted, disk, loaded, pc, local, exit, quiet>>

\* The server restarts with another COOKIE_KEY and cannot read the password any more.
RotateCookieKey ==
    /\ password # 0
    /\ minted < MaxPw
    /\ password' = 0
    /\ UNCHANGED <<gen, status, minted, disk, loaded, pc, local, exit, quiet, faults>>

Remove(f) ==
    /\ faults < MaxFaults
    /\ faults' = faults + 1
    /\ quiet' = FALSE
    /\ files' = IF f \in Paths THEN [files EXCEPT ![f] = 0] ELSE files
    /\ archive' = IF f = "pfx" THEN NoArchive ELSE archive
    /\ pwfile' = IF f = "password" THEN 0 ELSE pwfile
    /\ UNCHANGED <<server, loaded, pc, local, exit>>

Others == \/ Renew \/ Issued \/ NotIssued \/ RotateCookieKey
          \/ \E f \in Removable : Remove(f)

Next == Run \/ Fails \/ Killed \/ Others

Spec == Init /\ [][Next]_vars

\* Cron starts the command again and again and the host runs it; the server settles what
\* it has in flight.  Nothing is owed by those who renew, delete or break things.
FairSpec == Spec /\ WF_vars(Run) /\ WF_vars(Issued)

-----------------------------------------------------------------------------
(* Properties.                                                             *)

\* The sidecar never claims more than the archive holds: its leaf was downloaded before the
\* archive and is written after it, so an archive that is skipped as current is of that
\* certificate or of a later one, wherever earlier runs were interrupted.
SidecarIsBehind ==
    archive # NoArchive => files["sidecar"] <= archive.gen

\* A run that ends well, and during which nobody renewed the certificate or touched the files,
\* leaves every output of one and the same issuance, the newest, and an archive no older.
QuietRunIsConsistent ==
    [][ pc = "finish" /\ pc' = "idle" /\ exit' \in {0, 2} /\ quiet
          => /\ \A i \in 1..Len(Outputs) : files[Outputs[i]] = Content(Outputs[i], gen)
             /\ Pfx => files["sidecar"] = gen /\ archive.gen = gen ]_vars

\* What a renewal, a failed run or a deleted file has torn apart is repaired by later runs:
\* in the end the files are those of the server's certificate and the password opens the
\* archive.
FilesCatchUp ==
    <>[] /\ \A i \in 1..Len(Outputs) : files[Outputs[i]] = Content(Outputs[i], gen)
         /\ Pfx => /\ files["sidecar"] = gen /\ archive.gen = gen
                   /\ pwfile = archive.pw

=============================================================================
