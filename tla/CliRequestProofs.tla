--------------------------- MODULE CliRequestProofs ---------------------------
(***************************************************************************)
(* Proofs about CliRequest, for any list of outputs, any number of         *)
(* issuances, passwords, faults and runs.                                  *)
(*                                                                         *)
(* SidecarIsBehind is not inductive: that the sidecar claims no more than  *)
(* the archive holds follows from the order of the run's steps, and needs  *)
(* what the run has in hand between them (Behind).  QuietRunIsConsistent   *)
(* needs in addition how far a run has come (Place, Sofar).                *)
(***************************************************************************)
EXTENDS CliRequest, TLAPS

\* What the run holds is never newer than the server's certificate, and neither
\* is what it has written.
Behind ==
    /\ leaf <= gen /\ dl.gen <= gen
    /\ files["sidecar"] <= gen /\ archive.gen <= gen
    /\ pc \in {"password", "pfx"} => leaf <= dl.gen /\ files["sidecar"] <= dl.gen
    /\ pc = "sidecar" /\ archive # NoArchive => leaf <= archive.gen
    /\ SidecarIsBehind

AfterOutputs == {"leaf", "archive", "password", "pfx", "sidecar", "finish"}

\* Which output the run is at; an issuance in flight stays within the bound.
Place ==
    /\ status = "in_flight" => gen < MaxGen
    /\ pc \in {"download", "write"} => at \in 1..Len(Outputs)
    /\ pc \in AfterOutputs => at = Len(Outputs) + 1

\* What an undisturbed run has done so far.
Sofar ==
    quiet /\ pc \notin {"idle", "wait"} =>
          /\ \A i \in 1..(at - 1) : files[Outputs[i]] = Content(Outputs[i], gen)
          /\ pc = "write" => hand = Content(Outputs[at], gen)
          /\ pc \in {"archive", "password", "pfx", "sidecar"} => leaf = gen
          /\ pc \in {"password", "pfx"} => dl.gen = gen
          /\ pc = "sidecar" => archive.gen = gen
          /\ pc = "finish" /\ Pfx => files["sidecar"] = gen /\ archive.gen = gen

Inv == TypeOK /\ Place /\ Behind /\ Sofar

-----------------------------------------------------------------------------

LEMMA OutputsArePem ==
    /\ Len(Outputs) \in Nat
    /\ \A i \in 1..Len(Outputs) : Outputs[i] \in Pem
    /\ "sidecar" \in Paths \ Pem /\ Pem \subseteq Paths
<1>1. Len(Outputs) \in Nat /\ \A i \in 1..Len(Outputs) : Outputs[i] \in Pem
  BY CliAssumption
<1>2. "sidecar" \in Paths \ Pem /\ Pem \subseteq Paths
  BY DEF Paths, Pem
<1>. QED
  BY <1>1, <1>2

LEMMA ContentTyped == \A o \in Pem, g \in Gens : Content(o, g) \in Gens
BY CliAssumption DEF Content

LEMMA Initially == Init => Inv
<1>. SUFFICES ASSUME Init PROVE Inv
  OBVIOUS
<1>1. MaxGen \in Nat /\ MaxPw \in Nat /\ MaxFaults \in Nat /\ 0 \in Gens
  BY CliAssumption DEF Gens
<1>2. TypeOK
  <2>1. archive \in Archives /\ dl \in Archives
    BY <1>1 DEF Init, Archives, NoArchive
  <2>2. at \in 1..(Len(Outputs) + 1)
    BY OutputsArePem DEF Init
  <2>3. changed \in BOOLEAN /\ quiet \in BOOLEAN
    BY DEF Init
  <2>4. /\ gen \in Gens /\ hand \in Gens /\ leaf \in Gens
        /\ status \in {"absent", "in_flight", "active", "failed"}
        /\ password \in 0..MaxPw /\ minted \in 0..MaxPw /\ pwfile \in 0..MaxPw
        /\ files \in [Paths -> Gens] /\ loaded \in [Pem -> Gens]
        /\ pc \in Running \cup {"idle"} /\ exit \in ExitCodes /\ faults \in 0..MaxFaults
    BY <1>1 DEF Init, ExitCodes
  <2>. QED
    BY <2>1, <2>2, <2>3, <2>4, Zenon DEF TypeOK
<1>3. Behind
  BY OutputsArePem DEF Init, Behind, SidecarIsBehind, NoArchive
<1>4. Place /\ Sofar
  BY DEF Init, Place, Sofar, AfterOutputs
<1>. QED
  BY <1>2, <1>3, <1>4 DEF Inv

\* Where a run goes after an output.
LEMMA AfterPlace ==
    ASSUME NEW i \in 1..(Len(Outputs) + 1)
    PROVE  /\ After(i) \in {"download", "leaf", "finish"}
           /\ After(i) = "download" => i \in 1..Len(Outputs)
           /\ After(i) # "download" => i = Len(Outputs) + 1
           /\ Pfx => After(i) # "finish"
BY OutputsArePem DEF After

\* Every variable keeps its type, and the run its place in the list of outputs.
LEMMA TypeStep == TypeOK /\ Place /\ [Next]_vars => TypeOK' /\ Place'
<1>. SUFFICES ASSUME TypeOK, Place, [Next]_vars PROVE TypeOK' /\ Place'
  OBVIOUS
<1>1. MaxGen \in Nat /\ MaxPw \in Nat /\ MaxFaults \in Nat /\ 0 \in Gens
      /\ \A n \in Nat : n \in Gens <=> n <= MaxGen
  BY CliAssumption DEF Gens
<1>2. /\ gen \in Nat /\ gen \in Gens /\ dl \in Archives /\ archive \in Archives
      /\ faults \in Nat /\ minted \in Nat /\ files \in [Paths -> Gens]
      /\ Len(Outputs) \in Nat /\ at \in Nat
  BY <1>1, OutputsArePem DEF TypeOK, Gens
<1>3. 1 \in 1..(Len(Outputs) + 1)
  BY <1>2
<1>. USE DEF TypeOK, Place, server, disk, local, Running, AfterOutputs, ExitCodes, End
<1>4. ASSUME Downloads, UNCHANGED <<server, disk, loaded, hand, leaf, dl, exit, faults>>
      PROVE  TypeOK' /\ Place'
  BY <1>3, <1>4, AfterPlace DEF Downloads
<1>5. CASE CreateActive \/ PollActive
  BY <1>4, <1>5 DEF CreateActive, PollActive
<1>6. CASE CreateQueued
  BY <1>6 DEF CreateQueued
<1>7. CASE PollFailed \/ PollTimesOut
  BY <1>7 DEF PollFailed, PollTimesOut
<1>8. CASE Download
  <2>1. hand' \in Gens
    BY <1>2, <1>8, OutputsArePem, ContentTyped DEF Download
  <2>. QED
    BY <1>8, <2>1 DEF Download
<1>9. CASE Write
  <2>1. Outputs[at] \in Paths /\ at + 1 \in 1..(Len(Outputs) + 1)
    BY <1>2, <1>9, OutputsArePem DEF Write
  <2>2. files' \in [Paths -> Gens] /\ changed' \in BOOLEAN
    BY <1>9, <2>1 DEF Write
  <2>. QED
    BY <1>9, <2>1, <2>2, AfterPlace DEF Write
<1>10. CASE Leaf
  BY <1>10 DEF Leaf
<1>11. CASE DownloadPfx
  <2>1. minted' \in 0..MaxPw /\ password' \in 0..MaxPw
    BY <1>1, <1>2, <1>11 DEF DownloadPfx
  <2>2. dl' \in Archives
    BY <1>2, <1>11, <2>1 DEF DownloadPfx, Archives
  <2>. QED
    BY <1>11, <2>1, <2>2 DEF DownloadPfx
<1>12. CASE WritePassword \/ WritePfx
  BY <1>2, <1>12 DEF WritePassword, WritePfx, Archives
<1>13. CASE WriteSidecar
  BY <1>2, <1>13, OutputsArePem DEF WriteSidecar
<1>14. CASE Finish
  <2>1. OnDisk \in [Pem -> Gens]
    BY <1>2, OutputsArePem DEF OnDisk
  <2>. QED
    BY <1>14, <2>1 DEF Finish
<1>15. CASE Fails \/ Killed
  BY <1>1, <1>2, <1>15 DEF Fails, Killed
<1>16. CASE Renew \/ RotateCookieKey
  <2>1. CASE Renew
    BY <2>1 DEF Renew
  <2>2. CASE RotateCookieKey
    BY <1>1, <2>2 DEF RotateCookieKey
  <2>. QED
    BY <1>16, <2>1, <2>2
<1>17. CASE Issued
  <2>1. gen' \in Gens
    BY <1>1, <1>2, <1>17 DEF Issued
  <2>. QED
    BY <1>17, <2>1 DEF Issued
<1>18. CASE NotIssued
  BY <1>1, <1>2, <1>18 DEF NotIssued
<1>19. ASSUME NEW f \in Removable, Remove(f) PROVE TypeOK' /\ Place'
  <2>1. archive' \in Archives
    BY <1>1, <1>2, <1>19 DEF Remove, NoArchive, Archives
  <2>2. files' \in [Paths -> Gens]
    BY <1>1, <1>2, <1>19 DEF Remove
  <2>3. faults' \in 0..MaxFaults /\ pwfile' \in 0..MaxPw
    BY <1>1, <1>2, <1>19 DEF Remove
  <2>. QED
    BY <1>19, <2>1, <2>2, <2>3 DEF Remove
<1>20. CASE UNCHANGED vars
  BY <1>20 DEF vars
<1>. QED
  BY <1>5, <1>6, <1>7, <1>8, <1>9, <1>10, <1>11, <1>12, <1>13, <1>14, <1>15, <1>16, <1>17,
     <1>18, <1>19, <1>20, Zenon DEF Next, Run, Others

\* The sidecar stays behind the archive.
LEMMA BehindStep == TypeOK /\ Place /\ Behind /\ [Next]_vars => Behind'
<1>. SUFFICES ASSUME TypeOK, Place, Behind, [Next]_vars PROVE Behind'
  OBVIOUS
<1>1. /\ gen \in Nat /\ leaf \in Nat /\ dl.gen \in Nat /\ archive.gen \in Nat
      /\ files \in [Paths -> Nat] /\ files["sidecar"] \in Nat /\ NoArchive.gen = 0
  BY CliAssumption, OutputsArePem DEF TypeOK, Gens, Archives, NoArchive
<1>. USE <1>1 DEF Behind, SidecarIsBehind, server, disk, local
<1>2. CASE CreateActive \/ PollActive
  <2>1. pc' \in {"download", "leaf", "finish"}
    BY <1>2, AfterPlace, OutputsArePem DEF CreateActive, PollActive, Downloads
  <2>. QED
    BY <1>2, <2>1 DEF CreateActive, PollActive, Downloads
<1>3. CASE CreateQueued \/ PollFailed \/ PollTimesOut \/ Download
  BY <1>3 DEF CreateQueued, PollFailed, PollTimesOut, Download, End
<1>4. CASE Write
  <2>1. Outputs[at] # "sidecar" /\ at + 1 \in 1..(Len(Outputs) + 1)
    BY <1>4, OutputsArePem DEF Write, Place
  <2>2. files'["sidecar"] = files["sidecar"] /\ pc' \in {"download", "leaf", "finish"}
    BY <1>4, <2>1, AfterPlace, OutputsArePem DEF Write
  <2>. QED
    BY <1>4, <2>2 DEF Write
<1>5. CASE Leaf
  BY <1>5 DEF Leaf
<1>6. CASE DownloadPfx
  <2>1. dl'.gen = gen
    BY <1>6 DEF DownloadPfx
  <2>. QED
    BY <1>6, <2>1 DEF DownloadPfx
<1>7. CASE WritePassword \/ WritePfx
  BY <1>7 DEF WritePassword, WritePfx
<1>8. CASE WriteSidecar
  <2>1. files'["sidecar"] = leaf
    BY <1>8, OutputsArePem DEF WriteSidecar
  <2>. QED
    BY <1>8, <2>1 DEF WriteSidecar
<1>9. CASE Finish \/ Fails \/ Killed
  BY <1>9 DEF Finish, Fails, Killed, End
<1>10. CASE Renew \/ Issued \/ NotIssued \/ RotateCookieKey
  BY <1>10 DEF Renew, Issued, NotIssued, RotateCookieKey
<1>11. ASSUME NEW f \in Removable, Remove(f) PROVE Behind'
  <2>1. files'["sidecar"] <= files["sidecar"] /\ files'["sidecar"] \in Nat
    BY <1>11, OutputsArePem DEF Remove
  <2>2. archive' = archive \/ archive' = NoArchive
    BY <1>11 DEF Remove
  <2>. QED
    BY <1>11, <2>1, <2>2 DEF Remove
<1>12. CASE UNCHANGED vars
  BY <1>12 DEF vars
<1>. QED
  BY <1>2, <1>3, <1>4, <1>5, <1>6, <1>7, <1>8, <1>9, <1>10, <1>11, <1>12, Zenon
     DEF Next, Run, Others

\* What an undisturbed run has done so far stays done.
LEMMA SofarStep == Inv /\ [Next]_vars => Sofar'
<1>. SUFFICES ASSUME TypeOK, Place, Behind, Sofar, [Next]_vars PROVE Sofar'
  BY DEF Inv
<1>1. /\ gen \in Nat /\ leaf \in Nat /\ dl.gen \in Nat /\ archive.gen \in Nat
      /\ files \in [Paths -> Nat] /\ files["sidecar"] \in Nat
      /\ Len(Outputs) \in Nat /\ at \in Nat /\ pc \in Running \cup {"idle"}
  BY CliAssumption, OutputsArePem DEF TypeOK, Gens, Archives
<1>. USE <1>1 DEF Sofar, Running, server, disk, local
<1>2. CASE CreateActive \/ PollActive
  <2>1. pc' \in {"download", "leaf", "finish"} /\ (Pfx => pc' # "finish") /\ at' = 1
    BY <1>2, AfterPlace DEF CreateActive, PollActive, Downloads
  <2>. QED
    BY <2>1
<1>3. CASE CreateQueued \/ PollFailed \/ PollTimesOut
  BY <1>3 DEF CreateQueued, PollFailed, PollTimesOut, End
<1>4. CASE Download
  BY <1>4 DEF Download
<1>5. CASE Write
  <2>1. at \in 1..Len(Outputs) /\ at + 1 \in 1..(Len(Outputs) + 1)
    BY <1>5 DEF Write, Place
  <2>2. pc' \in {"download", "leaf", "finish"} /\ (Pfx => pc' # "finish") /\ at' = at + 1
        /\ UNCHANGED <<gen, quiet>>
    BY <1>5, <2>1, AfterPlace DEF Write
  <2>3. ASSUME quiet, NEW i \in 1..at
        PROVE  files'[Outputs[i]] = Content(Outputs[i], gen)
    <3>1. Outputs[i] \in Paths /\ Outputs[at] \in Paths
      BY <2>1, OutputsArePem
    <3>2. hand = Content(Outputs[at], gen)
      BY <1>5, <2>3 DEF Write
    <3>3. i # at => files[Outputs[i]] = Content(Outputs[i], gen)
      BY <1>5, <2>1, <2>3 DEF Write
    <3>4. files' = [files EXCEPT ![Outputs[at]] = hand]
      BY <1>5 DEF Write
    <3>5. CASE Outputs[i] = Outputs[at]
      BY <3>1, <3>2, <3>4, <3>5
    <3>6. CASE Outputs[i] # Outputs[at]
      BY <3>1, <3>3, <3>4, <3>6
    <3>. QED
      BY <3>5, <3>6
  <2>. QED
    BY <2>2, <2>3 DEF Content
<1>6. CASE Leaf
  BY <1>6 DEF Leaf, PfxIsCurrent, Behind, SidecarIsBehind
<1>7. CASE DownloadPfx
  <2>1. dl'.gen = gen
    BY <1>7 DEF DownloadPfx
  <2>. QED
    BY <1>7, <2>1 DEF DownloadPfx
<1>8. CASE WritePassword \/ WritePfx
  BY <1>8 DEF WritePassword, WritePfx
<1>9. CASE WriteSidecar
  <2>1. /\ files'["sidecar"] = leaf
        /\ \A i \in 1..(at - 1) : files'[Outputs[i]] = files[Outputs[i]]
    BY <1>9, OutputsArePem DEF WriteSidecar, Place, AfterOutputs
  <2>. QED
    BY <1>9, <2>1 DEF WriteSidecar
<1>10. CASE Finish \/ Fails \/ Killed
  BY <1>10 DEF Finish, Fails, Killed, End
<1>11. CASE Renew \/ Issued \/ NotIssued \/ RotateCookieKey
  BY <1>11 DEF Renew, Issued, NotIssued, RotateCookieKey
<1>12. ASSUME NEW f \in Removable, Remove(f) PROVE Sofar'
  BY <1>12 DEF Remove
<1>13. CASE UNCHANGED vars
  BY <1>13 DEF vars
<1>. QED
  BY <1>2, <1>3, <1>4, <1>5, <1>6, <1>7, <1>8, <1>9, <1>10, <1>11, <1>12, <1>13, Zenon
     DEF Next, Run, Others

LEMMA InvHolds == Spec => []Inv
<1>1. Inv /\ [Next]_vars => Inv'
  BY TypeStep, BehindStep, SofarStep DEF Inv
<1>. QED
  BY Initially, <1>1, PTL DEF Spec

-----------------------------------------------------------------------------
(* The theorems.                                                           *)

\* Every variable keeps its type.
THEOREM CliTypeCorrect == Spec => []TypeOK
<1>1. Inv => TypeOK
  BY DEF Inv
<1>. QED
  BY InvHolds, <1>1, PTL

\* However runs are interrupted, the sidecar that lets a later run skip the
\* archive never claims more than the archive holds (request_pfx).
THEOREM SidecarNeverAhead == Spec => []SidecarIsBehind
<1>1. Inv => SidecarIsBehind
  BY DEF Inv, Behind
<1>. QED
  BY InvHolds, <1>1, PTL

\* A run nobody disturbed that ends with 0 or 2 leaves one issuance on disk
\* (handle_request).
THEOREM QuietRunDelivers == Spec => QuietRunIsConsistent
<1>1. Inv /\ [Next]_vars =>
        [ pc = "finish" /\ pc' = "idle" /\ exit' \in {0, 2} /\ quiet
          => /\ \A i \in 1..Len(Outputs) : files[Outputs[i]] = Content(Outputs[i], gen)
             /\ Pfx => files["sidecar"] = gen /\ archive.gen = gen ]_vars
  <2>1. ASSUME Inv, pc = "finish", quiet
        PROVE  /\ \A i \in 1..Len(Outputs) : files[Outputs[i]] = Content(Outputs[i], gen)
               /\ Pfx => files["sidecar"] = gen /\ archive.gen = gen
    <3>1. at - 1 = Len(Outputs)
      BY <2>1, OutputsArePem DEF Inv, Place, AfterOutputs
    <3>. QED
      BY <2>1, <3>1 DEF Inv, Sofar
  <2>. QED
    BY <2>1
<1>. QED
  BY InvHolds, <1>1, PTL DEF Spec, QuietRunIsConsistent
=============================================================================
