-------------------------- MODULE AcmeOrderProofs ---------------------------
(***************************************************************************)
(* Proofs about AcmeOrder, for any orders, authorizations, zones,          *)
(* integrations and bounds.                                                *)
(*                                                                         *)
(* LeftoverHasCause needs, for every record of an order, that the order    *)
(* went to the zone it is in and will go there once more (Left), unless    *)
(* one of the causes has occurred.  UndisturbedIsValid needs that values   *)
(* published stay where the CA looks them up while the order waits (Held): *)
(* for the integrations that take one value at a time this holds of those  *)
(* already added, which the clearing before them must not reach.           *)
(***************************************************************************)
EXTENDS AcmeOrder, WellFoundedInduction, SequenceTheorems, TLAPS

-----------------------------------------------------------------------------
(* Zones.                                                                  *)

LEMMA LeastExists ==
    ASSUME NEW T, T \subseteq Nat, T # {}
    PROVE  \E x \in T : \A y \in T : x <= y
<1>. DEFINE R == OpToRel(<, Nat)
<1>1. PICK x \in T : \A y \in T : <<y, x>> \notin R
  <2>1. IsWellFoundedOn(R, Nat)
    BY NatLessThanWellFounded
  <2>. HIDE DEF R
  <2>. QED
    BY <2>1, WFMin
<1>2. \A y \in T : ~(y < x)
  BY <1>1 DEF OpToRel
<1>. QED
  BY <1>2

Label == STRING \cup {"_acme-challenge"}

LEMMA LabelSeq == Seq(STRING) \subseteq Seq(Label)
<1>. SUFFICES ASSUME NEW n \in Seq(STRING) PROVE n \in Seq(Label)
  OBVIOUS
<1>1. \A i \in 1..Len(n) : n[i] \in STRING
  OBVIOUS
<1>. QED
  BY <1>1 DEF Label

LEMMA LongestIn ==
    ASSUME NEW S \in SUBSET Seq(Label), NEW n \in Seq(Label),
           \E z \in S : Encloses(z, n)
    PROVE  Longest(S, n) \in S
<1>. DEFINE E == {z \in S : Encloses(z, n)}
            T == {Len(n) - Len(z) : z \in E}
<1>1. T \subseteq Nat /\ T # {}
  BY DEF Encloses
<1>2. PICK x \in T : \A y \in T : x <= y
  BY <1>1, LeastExists
<1>3. PICK z \in E : x = Len(n) - Len(z)
  BY <1>2
<1>4. \A y \in E : Len(y) <= Len(z)
  <2>. TAKE y \in E
  <2>1. Len(n) - Len(z) <= Len(n) - Len(y)
    BY <1>2, <1>3
  <2>2. Len(n) \in Nat /\ Len(z) \in Nat /\ Len(y) \in Nat
    OBVIOUS
  <2>. QED
    BY <2>1, <2>2
<1>. QED
  BY <1>3, <1>4 DEF Longest

LEMMA AppendIs ==
    ASSUME NEW S, NEW n \in Seq(S), NEW x \in S
    PROVE  /\ Append(n, x) \in Seq(S) /\ Len(Append(n, x)) = Len(n) + 1
           /\ \A i \in 1..Len(n) : Append(n, x)[i] = n[i]
  OBVIOUS

LEMMA ChallengeEnclosed ==
    ASSUME NEW n \in Seq(Label)
    PROVE  /\ Challenge(n) \in Seq(Label)
           /\ \A z \in Seq(Label) : Encloses(z, n) => Encloses(z, Challenge(n))
<1>. DEFINE c == Append(n, "_acme-challenge")
<1>1. c \in Seq(Label) /\ Len(c) = Len(n) + 1 /\ \A i \in 1..Len(n) : c[i] = n[i]
  <2>1. "_acme-challenge" \in Label
    BY DEF Label
  <2>. QED
    BY <2>1, AppendIs
<1>2. ASSUME NEW z \in Seq(Label), Encloses(z, n) PROVE Encloses(z, c)
  <2>1. Len(z) \in Nat /\ Len(n) \in Nat /\ Len(z) <= Len(n) /\ SubSeq(n, 1, Len(z)) = z
    BY <1>2 DEF Encloses
  <2>2. \A i \in 1..Len(z) : z[i] = n[i]
    BY <2>1
  <2>3. \A i \in 1..Len(z) : c[i] = n[i]
    BY <1>1, <2>1
  <2>. HIDE DEF c
  <2>4. SubSeq(c, 1, Len(z)) = z
    BY <1>1, <2>1, <2>2, <2>3
  <2>. QED
    BY <1>1, <2>1, <2>4 DEF Encloses
<1>. QED
  BY <1>1, <1>2 DEF Challenge

\* A name is routed to an integration that covers it, and from there to a zone.
LEMMA Routes ==
    /\ \A n \in Names : FirstFor[n] \in Providers /\ Covers(FirstFor[n], n)
    /\ \A n \in Names, p \in Providers : Covers(p, n) => FindZone[p][n] \in Zones
<1>1. ASSUME NEW n \in Names
      PROVE  FirstFor[n] \in Providers /\ Covers(FirstFor[n], n)
  <2>. DEFINE C == {p \in Providers : Covers(p, n)}
              T == {Rank[p] : p \in C}
  <2>1. C # {}
    BY OrderAssumption DEF Covers, ZonesOf
  <2>2. T \subseteq Nat /\ T # {}
    BY <2>1, OrderAssumption
  <2>3. PICK x \in T : \A y \in T : x <= y
    <3>. HIDE DEF T
    <3>. QED
      BY <2>2, LeastExists
  <2>4. PICK p \in C : x = Rank[p]
    BY <2>3
  <2>. QED
    BY <2>3, <2>4 DEF FirstFor
<1>2. ASSUME NEW n \in Names, NEW p \in Providers, Covers(p, n)
      PROVE  FindZone[p][n] \in Zones
  <2>1. \E z \in ZonesOf(p) : Encloses(z, Challenge(n))
    BY <1>2, OrderAssumption, LabelSeq, ChallengeEnclosed DEF Covers, ZonesOf
  <2>2. Challenge(n) \in Seq(Label) /\ ZonesOf(p) \in SUBSET Seq(Label)
    BY OrderAssumption, LabelSeq, ChallengeEnclosed DEF ZonesOf
  <2>3. Longest(ZonesOf(p), Challenge(n)) \in ZonesOf(p)
    BY <2>1, <2>2, LongestIn
  <2>. QED
    BY <1>2, <2>3 DEF FindZone, ZonesOf
<1>. QED
  BY <1>1, <1>2

\* The CA is referred to a zone.
LEMMA Homes == \A n \in Names : Home[n] \in Zones
<1>. SUFFICES ASSUME NEW n \in Names PROVE Home[n] \in Zones
  OBVIOUS
<1>1. \E z \in Zones : Encloses(z, Challenge(n))
  BY OrderAssumption, LabelSeq, ChallengeEnclosed
<1>2. Challenge(n) \in Seq(Label) /\ Zones \in SUBSET Seq(Label)
  BY OrderAssumption, LabelSeq, ChallengeEnclosed
<1>. QED
  BY <1>1, <1>2, LongestIn DEF Home

\* One of a set is in it.
LEMMA FirstIn ==
    ASSUME NEW S, S # {} PROVE First(S) \in S
  BY DEF First

\* Cleaning an RRset leaves a part of it.
LEMMA LeavesPart ==
    ASSUME NEW p \in Providers, NEW rrset, NEW left \in Leaves(p, rrset)
    PROVE  left \subseteq rrset
<1>1. Kind[p] \in {"pdns", "gandi", "cloudflare", "digitalocean", "hetzner"}
  BY OrderAssumption DEF Replacing, Adding
<1>. QED
  BY <1>1 DEF Leaves, PdnsLeaves, GandiLeaves, CloudflareLeaves, DigitalOceanLeaves, HetznerLeaves

-----------------------------------------------------------------------------
(* The inductive invariant.                                                *)

Deploying == {"deploy", "replace", "clear", "add"}

Published(o) == {NameOf[i] : i \in wanted[o]}

\* The name an order is at, and how far it is with the others.
Places ==
    \A o \in Orders :
        /\ pc[o] = "new" => deployed[o] = {}
        /\ pc[o] \in {"replace", "clear", "add"} =>
              /\ name[o] \in todo[o]
              /\ provider[o] \in went[o][name[o]] /\ Covers(provider[o], name[o])
              /\ values[o] \subseteq ValuesAt(o, name[o])
        /\ pc[o] \in {"replace", "clear"} => values[o] = ValuesAt(o, name[o])
        /\ pc[o] \in Deploying => todo[o] \cap deployed[o] = {}
        /\ pc[o] \in Deploying => todo[o] \cup deployed[o] = Published(o)
        /\ pc[o] \in {"await", "notify", "poll"} => deployed[o] = Published(o)

\* The CA is told of an authorization once, after the wait.
Told ==
    \A o \in Orders :
        /\ pc[o] \in Deploying \cup {"new", "await"} => \A i \in Auths : verdict[o][i] = "pending"
        /\ \A i \in Auths : verdict[o][i] # "pending" => i \in wanted[o]

\* An order gets past the polls only with all of them valid.
Proven ==
    \A o \in Orders :
        pc[o] \in {"finalize", "issued"} \/ (pc[o] = "cleanup" /\ outcome[o] = "finalize")
            => \A i \in wanted[o] : verdict[o][i] = "valid"

\* The value of an authorization is where the CA looks for it.
InPlace(o, i) == <<o, i>> \in records[Home[NameOf[i]]][NameOf[i]]

\* It has been put there.
Ready(o, i) ==
    \/ pc[o] \in Deploying \cup {"await", "notify", "poll"} /\ NameOf[i] \in deployed[o]
    \/ pc[o] = "add" /\ NameOf[i] = name[o] /\ i \notin values[o]

\* Until the order ends, the values it has published stay, but for a cause outside it.
Held ==
    \A o \in Orders : \A i \in wanted[o] :
        Ready(o, i) /\ NameOf[i] \notin touched[o] /\ ~Strayed(o, NameOf[i]) => InPlace(o, i)

\* An order is still to remove what it published under a name.
Remains(o, n) ==
    \/ pc[o] \in Deploying \cup {"await", "notify", "poll"} /\ n \in deployed[o]
    \/ pc[o] \in {"replace", "clear", "add"} /\ n = name[o]
    \/ pc[o] = "cleanup" /\ n \in todo[o]
    \/ pc[o] = "gone"

\* Records of an order that are not kept are where it went, and it will go there again.
Left ==
    \A o \in Orders, z \in Zones, n \in Names :
        Of(o, records[z][n]) # {} /\ n \notin kept[o] /\ ~Rerouted(o, n)
            => /\ Remains(o, n)
               /\ \E p \in went[o][n] : Covers(p, n) /\ z = FindZone[p][n]

\* The zone of the name an order is at is one.
LEMMA AtZone ==
    ASSUME Places, TypeOK, NEW o \in Orders, pc[o] \in {"replace", "clear", "add"}
    PROVE  At(o) \in Zones /\ name[o] \in Names
  BY Routes DEF Places, TypeOK, At

\* Writing an RRset keeps the types.
LEMMA SetTyped ==
    ASSUME TypeOK, NEW o \in Orders, NEW z \in Zones, NEW n \in Names,
           NEW rrset \in SUBSET Values, SetRecords(o, z, n, rrset)
    PROVE  /\ records' \in [Zones -> [Names -> SUBSET Values]]
           /\ touched' \in [Orders -> SUBSET Names]
  BY DEF TypeOK, SetRecords

\* What a poll comes to.
PollEffect(o) ==
    /\ UNCHANGED <<records, wanted, name, provider, values, deployed, verdict, faults,
                   touched, went, seen, kept>>
    /\ pc[o] = "poll"
    /\ \/ /\ CleanUp(o, "finalize") /\ UNCHANGED polls
          /\ \A i \in wanted[o] : verdict[o][i] = "valid"
       \/ CleanUp(o, "failed") /\ UNCHANGED polls
       \/ /\ polls[o] # MaxPolls /\ polls' = [polls EXCEPT ![o] = @ + 1]
          /\ UNCHANGED <<pc, outcome, todo>>

LEMMA PollIs ==
    ASSUME NEW o \in Orders, Poll(o)
    PROVE  PollEffect(o)
<1>1. CASE \A i \in wanted[o] : verdict[o][i] = "valid"
  BY <1>1 DEF Poll, PollEffect
<1>2. CASE ~\A i \in wanted[o] : verdict[o][i] = "valid"
  <2>1. CASE (\E i \in wanted[o] : verdict[o][i] = "invalid") \/ polls[o] = MaxPolls
    BY <1>2, <2>1 DEF Poll, PollEffect
  <2>2. CASE ~((\E i \in wanted[o] : verdict[o][i] = "invalid") \/ polls[o] = MaxPolls)
    BY <1>2, <2>2 DEF Poll, PollEffect
  <2>. QED
    BY <2>1, <2>2
<1>. QED
  BY <1>1, <1>2

\* What clearing a name comes to.
ClearEffect(o) ==
    /\ pc[o] = "clear" /\ Goto(o, "add")
    /\ faults' = faults \/ (faults < MaxFaults /\ faults' = faults + 1)
    /\ UNCHANGED <<wanted, todo, name, provider, values, deployed, verdict, polls,
                   outcome, went, seen, kept>>
    /\ \E left \in SUBSET records[At(o)][name[o]] : SetRecords(o, At(o), name[o], left)

LEMMA ClearIs ==
    ASSUME TypeOK, NEW o \in Orders, Clear(o)
    PROVE  ClearEffect(o)
  BY DEF Clear, Fine, Fault, ClearEffect

\* What adding a value comes to.
AddEffect(o) ==
    /\ pc[o] = "add"
    /\ UNCHANGED <<wanted, name, provider, verdict, polls, outcome, faults, went, seen,
                   kept>>
    /\ \E i \in values[o] :
          /\ SetRecords(o, At(o), name[o], records[At(o)][name[o]] \cup {<<o, i>>})
          /\ \/ values[o] = {i} /\ NameDeployed(o)
             \/ /\ values' = [values EXCEPT ![o] = @ \ {i}]
                /\ UNCHANGED <<pc, deployed, todo>>

LEMMA AddIs ==
    ASSUME TypeOK, NEW o \in Orders, Add(o)
    PROVE  AddEffect(o)
  BY FirstIn DEF Add, AddEffect

\* What routing a name comes to.
RouteEffect(o) ==
    /\ pc[o] = "deploy"
    /\ faults' = faults \/ (faults < MaxFaults /\ faults' = faults + 1)
    /\ UNCHANGED <<records, wanted, todo, deployed, verdict, polls, outcome, seen, kept>>
    /\ \E n \in todo[o], p \in Providers, ph \in {"replace", "clear"} :
          /\ n \in Names /\ Covers(p, n)
          /\ went' = [went EXCEPT ![o][n] = @ \cup {p}]
          /\ name' = [name EXCEPT ![o] = n]
          /\ provider' = [provider EXCEPT ![o] = p]
          /\ values' = [values EXCEPT ![o] = ValuesAt(o, n)]
          /\ touched' = [touched EXCEPT ![o] = @ \ {n}]
          /\ pc' = [pc EXCEPT ![o] = ph]

LEMMA RouteIs ==
    ASSUME TypeOK, NEW o \in Orders, DeployRoute(o)
    PROVE  RouteEffect(o)
<1>1. PICK p \in Providers :
         /\ Routed(o, First(todo[o]), p)
         /\ name' = [name EXCEPT ![o] = First(todo[o])]
         /\ provider' = [provider EXCEPT ![o] = p]
         /\ values' = [values EXCEPT ![o] = ValuesAt(o, First(todo[o]))]
         /\ touched' = [touched EXCEPT ![o] = @ \ {First(todo[o])}]
         /\ Goto(o, IF Kind[p] \in Replacing THEN "replace" ELSE "clear")
  BY DEF DeployRoute
<1>2. First(todo[o]) \in todo[o] /\ First(todo[o]) \in Names
  BY FirstIn DEF DeployRoute, TypeOK
<1>3. \E ph \in {"replace", "clear"} : pc' = [pc EXCEPT ![o] = ph]
  BY <1>1 DEF Goto
<1>4. /\ pc[o] = "deploy"
      /\ UNCHANGED <<records, wanted, todo, deployed, verdict, polls, outcome, seen, kept>>
  BY DEF DeployRoute
<1>5. /\ faults' = faults \/ (faults < MaxFaults /\ faults' = faults + 1)
      /\ Covers(p, First(todo[o]))
      /\ went' = [went EXCEPT ![o][First(todo[o])] = @ \cup {p}]
  BY <1>1 DEF Routed, Fine, Fault
<1>. QED
  BY <1>1, <1>2, <1>3, <1>4, <1>5 DEF RouteEffect

\* What a failed deployment writes.
DeployFailsWrites(o) ==
    \/ UNCHANGED <<records, touched>>
    \/ /\ pc[o] \in {"replace", "add"}
       /\ \E mine \in SUBSET values[o], rest \in SUBSET records[At(o)][name[o]] :
             SetRecords(o, At(o), name[o], rest \cup {<<o, i>> : i \in mine})

\* What it comes to.
DeployFailsEffect(o) ==
    /\ pc[o] \in {"deploy", "replace", "add"}
    /\ faults < MaxFaults /\ faults' = faults + 1
    /\ CleanUp(o, "failed")
    /\ UNCHANGED <<wanted, name, provider, values, deployed, verdict, polls, went, seen>>
    /\ pc[o] = "deploy" => kept' = kept
    /\ pc[o] # "deploy" => kept' = [kept EXCEPT ![o] = @ \cup {name[o]}]
    /\ DeployFailsWrites(o)

LEMMA DeployFailsIs ==
    ASSUME TypeOK, NEW o \in Orders, DeployFails(o)
    PROVE  DeployFailsEffect(o)
<1>1. DeployFailsWrites(o)
  <2>1. CASE UNCHANGED <<records, touched>>
    BY <2>1 DEF DeployFailsWrites
  <2>2. CASE /\ pc[o] = "replace"
             /\ SetRecords(o, At(o), name[o], {<<o, i>> : i \in values[o]})
    <3>1. {} \cup {<<o, i>> : i \in values[o]} = {<<o, i>> : i \in values[o]}
      OBVIOUS
    <3>. QED
      BY <2>2, <3>1 DEF DeployFailsWrites
  <2>3. CASE /\ pc[o] = "add" /\ values[o] # {}
             /\ SetRecords(o, At(o), name[o],
                           records[At(o)][name[o]] \cup {<<o, First(values[o])>>})
    <3>1. First(values[o]) \in values[o]
      BY <2>3, FirstIn
    <3>2. {<<o, i>> : i \in {First(values[o])}} = {<<o, First(values[o])>>}
      OBVIOUS
    <3>. QED
      BY <2>3, <3>1, <3>2 DEF DeployFailsWrites
  <2>. QED
    BY <2>1, <2>2, <2>3 DEF DeployFails
<1>. QED
  BY <1>1 DEF DeployFails, Fault, DeployFailsEffect

\* What cleaning a name comes to.
CleanEffect(o) ==
    /\ pc[o] = "cleanup"
    /\ faults' = faults \/ (faults < MaxFaults /\ faults' = faults + 1)
    /\ UNCHANGED <<pc, wanted, name, provider, values, deployed, verdict, polls, outcome,
                   seen>>
    /\ \E n \in todo[o], p \in Providers :
          /\ Covers(p, n) /\ n \in Names /\ FindZone[p][n] \in Zones
          /\ went' = [went EXCEPT ![o][n] = @ \cup {p}]
          /\ todo' = [todo EXCEPT ![o] = @ \ {n}]
          /\ \E left \in SUBSET records[FindZone[p][n]][n] :
                /\ SetRecords(o, FindZone[p][n], n, left)
                /\ \/ Of(o, left) = {} /\ kept' = kept
                   \/ kept' = [kept EXCEPT ![o] = @ \cup {n}]

LEMMA CleanIs ==
    ASSUME TypeOK, NEW o \in Orders, Clean(o)
    PROVE  CleanEffect(o)
<1>1. PICK n \in {First(todo[o])}, p \in Providers :
         /\ Routed(o, n, p)
         /\ \E left \in Leaves(p, records[FindZone[p][n]][n]) :
               /\ SetRecords(o, FindZone[p][n], n, left)
               /\ kept' = IF Of(o, left) = {} THEN kept ELSE [kept EXCEPT ![o] = @ \cup {n}]
         /\ todo' = [todo EXCEPT ![o] = @ \ {n}]
  BY DEF Clean
<1>2. PICK left \in Leaves(p, records[FindZone[p][n]][n]) :
         /\ SetRecords(o, FindZone[p][n], n, left)
         /\ kept' = IF Of(o, left) = {} THEN kept ELSE [kept EXCEPT ![o] = @ \cup {n}]
  BY <1>1
<1>3. n \in todo[o] /\ n \in Names
  BY <1>1, FirstIn DEF Clean, TypeOK
<1>4. Covers(p, n) /\ went' = [went EXCEPT ![o][n] = @ \cup {p}]
  BY <1>1 DEF Routed
<1>5. faults' = faults \/ (faults < MaxFaults /\ faults' = faults + 1)
  BY <1>1 DEF Routed, Fine, Fault
<1>6. left \in SUBSET records[FindZone[p][n]][n] /\ FindZone[p][n] \in Zones
  BY <1>2, <1>3, <1>4, LeavesPart, Routes
<1>7. (Of(o, left) = {} /\ kept' = kept) \/ kept' = [kept EXCEPT ![o] = @ \cup {n}]
  BY <1>2
<1>8. /\ pc[o] = "cleanup"
      /\ UNCHANGED <<pc, wanted, name, provider, values, deployed, verdict, polls, outcome, seen>>
  BY DEF Clean
<1>. QED
  BY <1>1, <1>2, <1>3, <1>4, <1>5, <1>6, <1>7, <1>8 DEF CleanEffect

\* What failing to comes to.
CleanFailsEffect(o) ==
    /\ pc[o] = "cleanup"
    /\ faults < MaxFaults /\ faults' = faults + 1
    /\ UNCHANGED <<pc, wanted, name, provider, values, deployed, verdict, polls, outcome,
                   went, seen>>
    /\ \E n \in todo[o], z \in Zones :
          /\ n \in Names
          /\ kept' = [kept EXCEPT ![o] = @ \cup {n}]
          /\ todo' = [todo EXCEPT ![o] = @ \ {n}]
          /\ \E left \in SUBSET records[z][n] : SetRecords(o, z, n, left)

LEMMA CleanFailsIs ==
    ASSUME TypeOK, NEW o \in Orders, CleanFails(o)
    PROVE  CleanFailsEffect(o)
<1>1. First(todo[o]) \in todo[o] /\ First(todo[o]) \in Names
  BY FirstIn DEF CleanFails, TypeOK
<1>2. FindZone[FirstFor[First(todo[o])]][First(todo[o])] \in Zones
  BY <1>1, Routes
<1>. QED
  BY <1>1, <1>2 DEF CleanFails, Fault, CleanFailsEffect


\* Where SetRecords writes.
LEMMA SetIs ==
    ASSUME TypeOK, NEW o \in Orders, NEW z \in Zones, NEW n \in Names, NEW rrset,
           SetRecords(o, z, n, rrset)
    PROVE  /\ records'[z][n] = rrset
           /\ \A y \in Zones, m \in Names :
                 y # z \/ m # n => records'[y][m] = records[y][m]
           /\ touched'[o] = touched[o]
  BY DEF SetRecords, TypeOK


\* Every variable keeps its type.
LEMMA TypeStep == TypeOK /\ Places /\ [Next]_vars => TypeOK'
<1>. SUFFICES ASSUME TypeOK, Places, [Next]_vars PROVE TypeOK'
  OBVIOUS
<1>1. ASSUME NEW o \in Orders, NewOrder(o) PROVE TypeOK'
  <2>1. PICK valid \in SUBSET (Needs[o] \cap Reusable) :
           /\ wanted' = [wanted EXCEPT ![o] = Needs[o] \ valid]
           /\ todo' = [todo EXCEPT ![o] = {NameOf[i] : i \in Needs[o] \ valid}]
           /\ Goto(o, IF valid = Needs[o] THEN "poll" ELSE "deploy")
    BY <1>1 DEF NewOrder
  <2>2. Needs[o] \ valid \subseteq Auths /\ {NameOf[i] : i \in Needs[o] \ valid} \subseteq Names
    BY OrderAssumption
  <2>3. /\ wanted' \in [Orders -> SUBSET Auths] /\ todo' \in [Orders -> SUBSET Names]
        /\ pc' \in [Orders -> Phases]
    BY <2>1, <2>2 DEF Goto, TypeOK, Phases
  <2>. QED
    BY <1>1, <2>3 DEF NewOrder, TypeOK
<1>2. ASSUME NEW o \in Orders, NewOrderFails(o) PROVE TypeOK'
  BY <1>2, OrderAssumption DEF NewOrderFails, Goto, Fault, TypeOK, Values, Phases, Ended,
     ValuesAt
<1>3. ASSUME NEW o \in Orders, DeployRoute(o) PROVE TypeOK'
  <2>0. RouteEffect(o)
    BY <1>3, RouteIs
  <2>1. PICK n \in todo[o], p \in Providers, ph \in {"replace", "clear"} :
           /\ n \in Names
           /\ went' = [went EXCEPT ![o][n] = @ \cup {p}]
           /\ name' = [name EXCEPT ![o] = n]
           /\ provider' = [provider EXCEPT ![o] = p]
           /\ values' = [values EXCEPT ![o] = ValuesAt(o, n)]
           /\ touched' = [touched EXCEPT ![o] = @ \ {n}]
           /\ pc' = [pc EXCEPT ![o] = ph]
    BY <2>0 DEF RouteEffect
  <2>2. ValuesAt(o, n) \subseteq Auths
    BY DEF ValuesAt, TypeOK
  <2>3. /\ name' \in [Orders -> Names \cup {NoName}]
        /\ provider' \in [Orders -> Providers \cup {NoProvider}]
        /\ values' \in [Orders -> SUBSET Auths] /\ touched' \in [Orders -> SUBSET Names]
    BY <2>1, <2>2 DEF TypeOK
  <2>4. went' \in [Orders -> [Names -> SUBSET Providers]] /\ pc' \in [Orders -> Phases]
    BY <2>1 DEF TypeOK, Phases
  <2>5. faults' \in 0..MaxFaults
    <3>1. faults' = faults \/ (faults < MaxFaults /\ faults' = faults + 1)
      BY <2>0 DEF RouteEffect
    <3>2. faults \in 0..MaxFaults /\ MaxFaults \in Nat
      BY OrderAssumption DEF TypeOK
    <3>. QED
      BY <3>1, <3>2
  <2>. QED
    BY <2>0, <2>3, <2>4, <2>5 DEF RouteEffect, TypeOK
<1>4. ASSUME NEW o \in Orders, Replace(o) PROVE TypeOK'
  <2>1. At(o) \in Zones /\ name[o] \in Names
    BY <1>4, AtZone DEF Replace
  <2>2. {<<o, i>> : i \in values[o]} \in SUBSET Values
    BY DEF TypeOK, Values
  <2>3. /\ records' \in [Zones -> [Names -> SUBSET Values]]
        /\ touched' \in [Orders -> SUBSET Names]
    BY <1>4, <2>1, <2>2, SetTyped DEF Replace
  <2>4. /\ deployed' \in [Orders -> SUBSET Names] /\ todo' \in [Orders -> SUBSET Names]
        /\ values' \in [Orders -> SUBSET Auths] /\ pc' \in [Orders -> Phases]
    BY <1>4, <2>1 DEF Replace, NameDeployed, Goto, TypeOK, Phases
  <2>. QED
    BY <1>4, <2>3, <2>4 DEF Replace, TypeOK
<1>5. ASSUME NEW o \in Orders, Clear(o) PROVE TypeOK'
  <2>0. ClearEffect(o)
    BY <1>5, ClearIs
  <2>1. PICK left \in SUBSET records[At(o)][name[o]] : SetRecords(o, At(o), name[o], left)
    BY <2>0 DEF ClearEffect
  <2>2. At(o) \in Zones /\ name[o] \in Names
    BY <2>0, AtZone DEF ClearEffect
  <2>3. left \in SUBSET Values
    BY <2>2 DEF TypeOK
  <2>4. /\ records' \in [Zones -> [Names -> SUBSET Values]]
        /\ touched' \in [Orders -> SUBSET Names]
    BY <2>1, <2>2, <2>3, SetTyped
  <2>5. pc' \in [Orders -> Phases]
    BY <2>0 DEF ClearEffect, Goto, TypeOK, Phases
  <2>6. faults' \in 0..MaxFaults
    BY <2>0, OrderAssumption DEF ClearEffect, TypeOK
  <2>. QED
    BY <2>0, <2>4, <2>5, <2>6 DEF ClearEffect, TypeOK
<1>6. ASSUME NEW o \in Orders, Add(o) PROVE TypeOK'
  <2>0. AddEffect(o)
    BY <1>6, AddIs
  <2>1. PICK i \in values[o] :
           /\ SetRecords(o, At(o), name[o], records[At(o)][name[o]] \cup {<<o, i>>})
           /\ \/ values[o] = {i} /\ NameDeployed(o)
              \/ /\ values' = [values EXCEPT ![o] = @ \ {i}]
                 /\ UNCHANGED <<pc, deployed, todo>>
    BY <2>0 DEF AddEffect
  <2>2. At(o) \in Zones /\ name[o] \in Names /\ i \in Auths
    BY <2>0, AtZone DEF AddEffect, TypeOK
  <2>3. records[At(o)][name[o]] \cup {<<o, i>>} \in SUBSET Values
    BY <2>2 DEF TypeOK, Values
  <2>4. /\ records' \in [Zones -> [Names -> SUBSET Values]]
        /\ touched' \in [Orders -> SUBSET Names]
    BY <2>1, <2>2, <2>3, SetTyped
  <2>5. /\ pc' \in [Orders -> Phases] /\ values' \in [Orders -> SUBSET Auths]
        /\ deployed' \in [Orders -> SUBSET Names] /\ todo' \in [Orders -> SUBSET Names]
    <3>1. CASE NameDeployed(o)
      <4>1. \E ph \in {"await", "deploy"} : pc' = [pc EXCEPT ![o] = ph]
        BY <3>1 DEF NameDeployed, Goto
      <4>. QED
        BY <2>2, <3>1, <4>1 DEF NameDeployed, TypeOK, Phases
    <3>2. CASE values' = [values EXCEPT ![o] = @ \ {i}] /\ UNCHANGED <<pc, deployed, todo>>
      BY <3>2 DEF TypeOK
    <3>. QED
      BY <2>1, <3>1, <3>2
  <2>. QED
    BY <2>0, <2>4, <2>5 DEF AddEffect, TypeOK
<1>7. ASSUME NEW o \in Orders, DeployFails(o) PROVE TypeOK'
  <2>0. DeployFailsEffect(o)
    BY <1>7, DeployFailsIs
  <2>1. /\ records' \in [Zones -> [Names -> SUBSET Values]]
        /\ touched' \in [Orders -> SUBSET Names]
    <3>1. CASE UNCHANGED <<records, touched>>
      BY <3>1 DEF TypeOK
    <3>2. ASSUME pc[o] \in {"replace", "add"},
                 NEW mine \in SUBSET values[o], NEW rest \in SUBSET records[At(o)][name[o]],
                 SetRecords(o, At(o), name[o], rest \cup {<<o, i>> : i \in mine})
          PROVE  /\ records' \in [Zones -> [Names -> SUBSET Values]]
                 /\ touched' \in [Orders -> SUBSET Names]
      <4>1. At(o) \in Zones /\ name[o] \in Names
        BY <3>2, AtZone
      <4>2. rest \cup {<<o, i>> : i \in mine} \in SUBSET Values
        BY <4>1 DEF TypeOK, Values
      <4>. QED
        BY <3>2, <4>1, <4>2, SetTyped
    <3>3. DeployFailsWrites(o)
      BY <2>0 DEF DeployFailsEffect
    <3>. QED
      BY <3>1, <3>2, <3>3 DEF DeployFailsWrites
  <2>2. kept' \in [Orders -> SUBSET Names]
    <3>1. pc[o] # "deploy" => name[o] \in Names
      BY <2>0, AtZone DEF DeployFailsEffect
    <3>2. kept' = kept \/ (name[o] \in Names /\ kept' = [kept EXCEPT ![o] = @ \cup {name[o]}])
      BY <2>0, <3>1 DEF DeployFailsEffect
    <3>3. kept \in [Orders -> SUBSET Names]
      BY DEF TypeOK
    <3>4. name[o] \in Names => [kept EXCEPT ![o] = @ \cup {name[o]}] \in [Orders -> SUBSET Names]
      BY <3>3
    <3>. QED
      BY <3>2, <3>3, <3>4
  <2>3. /\ pc' \in [Orders -> Phases] /\ todo' \in [Orders -> SUBSET Names]
        /\ outcome' \in [Orders -> {"finalize", "failed"}]
    BY <2>0 DEF DeployFailsEffect, CleanUp, Goto, TypeOK, Phases
  <2>4. faults' \in 0..MaxFaults
    BY <2>0, OrderAssumption DEF DeployFailsEffect, TypeOK
  <2>. QED
    BY <2>0, <2>1, <2>2, <2>3, <2>4 DEF DeployFailsEffect, TypeOK
<1>8. ASSUME NEW o \in Orders, Await(o) PROVE TypeOK'
  <2>1. seen' \in [Orders -> BOOLEAN]
    BY <1>8 DEF Await, Fine, Fault, TypeOK
  <2>2. faults' \in 0..MaxFaults
    BY <1>8, OrderAssumption DEF Await, Fine, Fault, TypeOK
  <2>. QED
    BY <1>8, <2>1, <2>2 DEF Await, Goto, TypeOK, Phases
<1>9. ASSUME NEW o \in Orders, Notify(o) PROVE TypeOK'
  BY <1>9, OrderAssumption, FirstIn DEF Notify, Untold, TypeOK, Values, Phases, Ended,
     ValuesAt
<1>10. ASSUME NEW o \in Orders, NotifyRefused(o) PROVE TypeOK'
  BY <1>10, OrderAssumption DEF NotifyRefused, CleanUp, Goto, Fault, TypeOK, Values, Phases,
     Ended, ValuesAt
<1>11. ASSUME NEW o \in Orders, NotifyFails(o) PROVE TypeOK'
  BY <1>11, OrderAssumption DEF NotifyFails, Goto, Fault, TypeOK, Values, Phases, Ended,
     ValuesAt
<1>12. ASSUME NEW o \in Orders, Poll(o) PROVE TypeOK'
  <2>0. PollEffect(o)
    BY <1>12, PollIs
  <2>1. todo' \in [Orders -> SUBSET Names] /\ outcome' \in [Orders -> {"finalize", "failed"}]
    BY <2>0 DEF PollEffect, CleanUp, TypeOK
  <2>2. pc' \in [Orders -> Phases]
    BY <2>0 DEF PollEffect, CleanUp, Goto, TypeOK, Phases
  <2>3. polls' \in [Orders -> 0..MaxPolls]
    <3>1. polls' = polls \/ (polls[o] # MaxPolls /\ polls' = [polls EXCEPT ![o] = @ + 1])
      BY <2>0 DEF PollEffect
    <3>2. polls[o] \in 0..MaxPolls /\ MaxPolls \in Nat
      BY OrderAssumption DEF TypeOK
    <3>3. polls[o] # MaxPolls => polls[o] + 1 \in 0..MaxPolls
      BY <3>2
    <3>. QED
      BY <3>1, <3>3 DEF TypeOK
  <2>. QED
    BY <2>0, <2>1, <2>2, <2>3 DEF PollEffect, TypeOK
<1>13. ASSUME NEW o \in Orders, PollFails(o) PROVE TypeOK'
  BY <1>13, OrderAssumption DEF PollFails, CleanUp, Goto, Fault, TypeOK, Values, Phases,
     Ended, ValuesAt
<1>14. ASSUME NEW o \in Orders, Clean(o) PROVE TypeOK'
  <2>0. CleanEffect(o)
    BY <1>14, CleanIs
  <2>1. PICK n \in todo[o], p \in Providers :
           /\ n \in Names /\ FindZone[p][n] \in Zones
           /\ went' = [went EXCEPT ![o][n] = @ \cup {p}]
           /\ todo' = [todo EXCEPT ![o] = @ \ {n}]
           /\ \E left \in SUBSET records[FindZone[p][n]][n] :
                 /\ SetRecords(o, FindZone[p][n], n, left)
                 /\ \/ Of(o, left) = {} /\ kept' = kept
                    \/ kept' = [kept EXCEPT ![o] = @ \cup {n}]
    BY <2>0 DEF CleanEffect
  <2>2. /\ records' \in [Zones -> [Names -> SUBSET Values]]
        /\ touched' \in [Orders -> SUBSET Names]
    <3>1. PICK left \in SUBSET records[FindZone[p][n]][n] : SetRecords(o, FindZone[p][n], n, left)
      BY <2>1
    <3>2. left \in SUBSET Values
      BY <2>1 DEF TypeOK
    <3>. QED
      BY <2>1, <3>1, <3>2, SetTyped
  <2>3. kept' \in [Orders -> SUBSET Names] /\ todo' \in [Orders -> SUBSET Names]
    <3>1. kept' = kept \/ kept' = [kept EXCEPT ![o] = @ \cup {n}]
      BY <2>1
    <3>2. n \in Names /\ todo' = [todo EXCEPT ![o] = @ \ {n}]
      BY <2>1
    <3>3. todo' \in [Orders -> SUBSET Names]
      BY <3>2 DEF TypeOK
    <3>4. kept \in [Orders -> SUBSET Names]
      BY DEF TypeOK
    <3>5. [kept EXCEPT ![o] = @ \cup {n}] \in [Orders -> SUBSET Names]
      BY <3>2, <3>4
    <3>. QED
      BY <3>1, <3>3, <3>4, <3>5
  <2>4. went' \in [Orders -> [Names -> SUBSET Providers]]
    BY <2>1 DEF TypeOK
  <2>5. faults' \in 0..MaxFaults
    <3>1. faults' = faults \/ (faults < MaxFaults /\ faults' = faults + 1)
      BY <2>0 DEF CleanEffect
    <3>2. faults \in 0..MaxFaults /\ MaxFaults \in Nat
      BY OrderAssumption DEF TypeOK
    <3>. QED
      BY <3>1, <3>2
  <2>. QED
    BY <2>0, <2>2, <2>3, <2>4, <2>5 DEF CleanEffect, TypeOK
<1>15. ASSUME NEW o \in Orders, CleanFails(o) PROVE TypeOK'
  <2>0. CleanFailsEffect(o)
    BY <1>15, CleanFailsIs
  <2>1. PICK n \in todo[o], z \in Zones :
           /\ n \in Names
           /\ kept' = [kept EXCEPT ![o] = @ \cup {n}]
           /\ todo' = [todo EXCEPT ![o] = @ \ {n}]
           /\ \E left \in SUBSET records[z][n] : SetRecords(o, z, n, left)
    BY <2>0 DEF CleanFailsEffect
  <2>2. /\ records' \in [Zones -> [Names -> SUBSET Values]]
        /\ touched' \in [Orders -> SUBSET Names]
    <3>1. PICK left \in SUBSET records[z][n] : SetRecords(o, z, n, left)
      BY <2>1
    <3>2. left \in SUBSET Values
      BY <2>1 DEF TypeOK
    <3>. QED
      BY <2>1, <3>1, <3>2, SetTyped
  <2>3. kept' \in [Orders -> SUBSET Names] /\ todo' \in [Orders -> SUBSET Names]
    BY <2>1 DEF TypeOK
  <2>. QED
    BY <2>0, <2>2, <2>3, OrderAssumption DEF CleanFailsEffect, TypeOK
<1>16. ASSUME NEW o \in Orders, CleanDone(o) PROVE TypeOK'
  BY <1>16, OrderAssumption DEF CleanDone, Goto, TypeOK, Values, Phases, Ended, ValuesAt
<1>17. ASSUME NEW o \in Orders, Finalize(o) PROVE TypeOK'
  BY <1>17, OrderAssumption DEF Finalize, Goto, TypeOK, Values, Phases, Ended, ValuesAt
<1>18. ASSUME NEW o \in Orders, FinalizeFails(o) PROVE TypeOK'
  BY <1>18, OrderAssumption DEF FinalizeFails, Goto, Fault, TypeOK, Values, Phases, Ended,
     ValuesAt
<1>19. ASSUME NEW o \in Orders, NEW i \in Auths, Validate(o, i) PROVE TypeOK'
  BY <1>19, OrderAssumption DEF Validate, TypeOK, Values, Phases, Ended, ValuesAt
<1>20. ASSUME Crash PROVE TypeOK'
  BY <1>20, OrderAssumption DEF Crash, Fault, TypeOK, Values, Phases, Ended, ValuesAt
<1>21. CASE UNCHANGED vars
  BY <1>21 DEF vars, TypeOK, Values, Phases, Ended, ValuesAt
<1>. QED
  BY <1>1, <1>2, <1>3, <1>4, <1>5, <1>6, <1>7, <1>8, <1>9, <1>10, <1>11, <1>12, <1>13, <1>14,
     <1>15, <1>16, <1>17, <1>18, <1>19, <1>20, <1>21 DEF Next, Proceed, Deploy, Errors

\* Every step keeps the names deployed and to deploy apart, and together complete.
LEMMA PlacesStep == TypeOK /\ Places /\ [Next]_vars => Places'
<1>. SUFFICES ASSUME TypeOK, Places, [Next]_vars PROVE Places'
  OBVIOUS
<1>1. ASSUME NEW o \in Orders, NewOrder(o) PROVE Places'
  BY <1>1, OrderAssumption DEF NewOrder, Goto, TypeOK, Places, Deploying, Published, ValuesAt,
     Ended
<1>2. ASSUME NEW o \in Orders, NewOrderFails(o) PROVE Places'
  BY <1>2, OrderAssumption DEF NewOrderFails, Goto, Fault, TypeOK, Places, Deploying,
     Published, ValuesAt, Ended
<1>3. ASSUME NEW o \in Orders, DeployRoute(o) PROVE Places'
  <2>0. RouteEffect(o)
    BY <1>3, RouteIs
  <2>1. PICK n \in todo[o], p \in Providers, ph \in {"replace", "clear"} :
           /\ n \in Names /\ Covers(p, n)
           /\ went' = [went EXCEPT ![o][n] = @ \cup {p}]
           /\ name' = [name EXCEPT ![o] = n]
           /\ provider' = [provider EXCEPT ![o] = p]
           /\ values' = [values EXCEPT ![o] = ValuesAt(o, n)]
           /\ pc' = [pc EXCEPT ![o] = ph]
    BY <2>0 DEF RouteEffect
  <2>2. pc[o] = "deploy" /\ UNCHANGED <<wanted, todo, deployed>>
    BY <2>0 DEF RouteEffect
  <2>3. \A x \in Orders, m \in Names : ValuesAt(x, m)' = ValuesAt(x, m)
    BY <2>2 DEF ValuesAt
  <2>4. \A x \in Orders : Published(x)' = Published(x)
    BY <2>2 DEF Published
  <2>. QED
    BY <2>1, <2>2, <2>3, <2>4 DEF TypeOK, Places, Deploying
<1>4. ASSUME NEW o \in Orders, Replace(o) PROVE Places'
  <2>1. pc[o] = "replace" /\ name[o] \in todo[o] /\ UNCHANGED <<wanted, name, provider, went>>
    BY <1>4 DEF Replace, Places
  <2>2. /\ deployed' = [deployed EXCEPT ![o] = @ \cup {name[o]}]
        /\ todo' = [todo EXCEPT ![o] = @ \ {name[o]}]
        /\ values' = [values EXCEPT ![o] = {}]
        /\ pc' = [pc EXCEPT ![o] = IF todo[o] = {name[o]} THEN "await" ELSE "deploy"]
    BY <1>4 DEF Replace, NameDeployed, Goto
  <2>3. deployed'[o] = deployed[o] \cup {name[o]} /\ todo'[o] = todo[o] \ {name[o]}
    BY <2>2 DEF TypeOK
  <2>4. /\ todo[o] \cap deployed[o] = {} => todo'[o] \cap deployed'[o] = {}
        /\ todo'[o] \cup deployed'[o] = todo[o] \cup deployed[o]
        /\ todo[o] = {name[o]} => deployed'[o] = todo[o] \cup deployed[o]
    BY <2>1, <2>3
  <2>5. pc'[o] \in {"await", "deploy"} /\ (pc'[o] = "await" => todo[o] = {name[o]})
    BY <2>2 DEF TypeOK
  <2>6. \A x \in Orders : Published(x)' = Published(x)
    BY <2>1 DEF Published
  <2>7. \A x \in Orders, m \in Names : ValuesAt(x, m)' = ValuesAt(x, m)
    BY <2>1 DEF ValuesAt
  <2>8. ASSUME NEW x \in Orders, x # o
        PROVE  /\ pc'[x] = pc[x] /\ deployed'[x] = deployed[x] /\ todo'[x] = todo[x]
               /\ values'[x] = values[x]
    BY <2>2, <2>8 DEF TypeOK
  <2>9. values'[o] = {}
    BY <2>2 DEF TypeOK
  <2>10. todo[o] \cap deployed[o] = {} /\ todo[o] \cup deployed[o] = Published(o)
    BY <2>1 DEF Places, Deploying
  <2>. SUFFICES ASSUME NEW x \in Orders
                PROVE  (/\ pc[x] = "new" => deployed[x] = {}
                        /\ pc[x] \in {"replace", "clear", "add"} =>
                              /\ name[x] \in todo[x]
                              /\ provider[x] \in went[x][name[x]]
                              /\ Covers(provider[x], name[x])
                              /\ values[x] \subseteq ValuesAt(x, name[x])
                        /\ pc[x] \in {"replace", "clear"} =>
                              values[x] = ValuesAt(x, name[x])
                        /\ pc[x] \in Deploying => todo[x] \cap deployed[x] = {}
                        /\ pc[x] \in Deploying => todo[x] \cup deployed[x] = Published(x)
                        /\ pc[x] \in {"await", "notify", "poll"} =>
                              deployed[x] = Published(x))'
    BY DEF Places
  <2>11. CASE x = o
    BY <2>1, <2>4, <2>5, <2>6, <2>9, <2>10, <2>11 DEF Deploying
  <2>12. CASE x # o
    <3>1. /\ pc'[x] = pc[x] /\ deployed'[x] = deployed[x] /\ todo'[x] = todo[x]
          /\ values'[x] = values[x] /\ Published(x)' = Published(x)
      BY <2>6, <2>8, <2>12
    <3>2. pc[x] \in {"replace", "clear", "add"} =>
             name[x] \in Names /\ ValuesAt(x, name[x])' = ValuesAt(x, name[x])
      BY <2>1 DEF Places, TypeOK, ValuesAt
    <3>. QED
      BY <2>1, <3>1, <3>2 DEF Places, Deploying
  <2>. QED
    BY <2>11, <2>12
<1>5. ASSUME NEW o \in Orders, Clear(o) PROVE Places'
  BY <1>5, OrderAssumption DEF Clear, SetRecords, Goto, Fine, Fault, At, TypeOK, Places,
     Deploying, Published, ValuesAt, Ended
<1>6. ASSUME NEW o \in Orders, Add(o) PROVE Places'
  <2>0. AddEffect(o)
    BY <1>6, AddIs
  <2>1. PICK i \in values[o] :
           \/ values[o] = {i} /\ NameDeployed(o)
           \/ values' = [values EXCEPT ![o] = @ \ {i}] /\ UNCHANGED <<pc, deployed, todo>>
    BY <2>0 DEF AddEffect
  <2>2. /\ pc[o] = "add" /\ name[o] \in todo[o] /\ values[o] \subseteq ValuesAt(o, name[o])
        /\ UNCHANGED <<wanted, name, provider, went>>
    BY <2>0 DEF AddEffect, Places
  <2>3. CASE NameDeployed(o)
    <3>1. /\ deployed' = [deployed EXCEPT ![o] = @ \cup {name[o]}]
          /\ todo' = [todo EXCEPT ![o] = @ \ {name[o]}]
          /\ values' = [values EXCEPT ![o] = {}]
          /\ pc' = [pc EXCEPT ![o] = IF todo[o] = {name[o]} THEN "await" ELSE "deploy"]
      BY <2>3 DEF NameDeployed, Goto
    <3>. QED
      BY <2>2, <3>1 DEF TypeOK, Places, Deploying, Published, ValuesAt
  <2>4. CASE values' = [values EXCEPT ![o] = @ \ {i}] /\ UNCHANGED <<pc, deployed, todo>>
    BY <2>2, <2>4 DEF TypeOK, Places, Deploying, Published, ValuesAt
  <2>. QED
    BY <2>1, <2>3, <2>4
<1>7. ASSUME NEW o \in Orders, DeployFails(o) PROVE Places'
  <2>0. DeployFailsEffect(o)
    BY <1>7, DeployFailsIs
  <2>1. pc' = [pc EXCEPT ![o] = "cleanup"] /\ todo' = [todo EXCEPT ![o] = deployed[o]]
    BY <2>0 DEF DeployFailsEffect, CleanUp, Goto
  <2>2. UNCHANGED <<wanted, name, provider, values, deployed, went>>
    BY <2>0 DEF DeployFailsEffect
  <2>. QED
    BY <2>1, <2>2 DEF TypeOK, Places, Deploying, Published, ValuesAt
<1>8. ASSUME NEW o \in Orders, Await(o) PROVE Places'
  BY <1>8, OrderAssumption DEF Await, Goto, Fine, Fault, TypeOK, Places, Deploying, Published,
     ValuesAt, Ended
<1>9. ASSUME NEW o \in Orders, Notify(o) PROVE Places'
  BY <1>9, OrderAssumption, FirstIn DEF Notify, Untold, TypeOK, Places, Deploying, Published,
     ValuesAt, Ended
<1>10. ASSUME NEW o \in Orders, NotifyRefused(o) PROVE Places'
  BY <1>10, OrderAssumption DEF NotifyRefused, CleanUp, Goto, Fault, TypeOK, Places,
     Deploying, Published, ValuesAt, Ended
<1>11. ASSUME NEW o \in Orders, NotifyFails(o) PROVE Places'
  BY <1>11, OrderAssumption DEF NotifyFails, Goto, Fault, TypeOK, Places, Deploying,
     Published, ValuesAt, Ended
<1>12. ASSUME NEW o \in Orders, Poll(o) PROVE Places'
  <2>0. PollEffect(o)
    BY <1>12, PollIs
  <2>. QED
    BY <2>0 DEF PollEffect, CleanUp, Goto, TypeOK, Places, Deploying, Published, ValuesAt
<1>13. ASSUME NEW o \in Orders, PollFails(o) PROVE Places'
  BY <1>13, OrderAssumption DEF PollFails, CleanUp, Goto, Fault, TypeOK, Places, Deploying,
     Published, ValuesAt, Ended
<1>14. ASSUME NEW o \in Orders, Clean(o) PROVE Places'
  <2>0. CleanEffect(o)
    BY <1>14, CleanIs
  <2>1. /\ pc[o] = "cleanup"
        /\ UNCHANGED <<pc, wanted, name, provider, values, deployed>>
        /\ \E n \in todo[o], p \in Providers :
              /\ went' = [went EXCEPT ![o][n] = @ \cup {p}]
              /\ todo' = [todo EXCEPT ![o] = @ \ {n}]
    BY <2>0 DEF CleanEffect
  <2>. QED
    BY <2>1 DEF TypeOK, Places, Deploying, Published, ValuesAt
<1>15. ASSUME NEW o \in Orders, CleanFails(o) PROVE Places'
  BY <1>15, OrderAssumption DEF CleanFails, SetRecords, Fault, TypeOK, Places, Deploying,
     Published, ValuesAt, Ended
<1>16. ASSUME NEW o \in Orders, CleanDone(o) PROVE Places'
  <2>1. pc' = [pc EXCEPT ![o] = outcome[o]] /\ outcome[o] \in {"finalize", "failed"}
    BY <1>16 DEF CleanDone, Goto, TypeOK
  <2>. QED
    BY <1>16, <2>1 DEF CleanDone, TypeOK, Places, Deploying, Published, ValuesAt
<1>17. ASSUME NEW o \in Orders, Finalize(o) PROVE Places'
  BY <1>17, OrderAssumption DEF Finalize, Goto, TypeOK, Places, Deploying, Published,
     ValuesAt, Ended
<1>18. ASSUME NEW o \in Orders, FinalizeFails(o) PROVE Places'
  BY <1>18, OrderAssumption DEF FinalizeFails, Goto, Fault, TypeOK, Places, Deploying,
     Published, ValuesAt, Ended
<1>19. ASSUME NEW o \in Orders, NEW i \in Auths, Validate(o, i) PROVE Places'
  BY <1>19, OrderAssumption DEF Validate, TypeOK, Places, Deploying, Published, ValuesAt,
     Ended
<1>20. ASSUME Crash PROVE Places'
  BY <1>20, OrderAssumption DEF Crash, Fault, TypeOK, Places, Deploying, Published, ValuesAt,
     Ended
<1>21. CASE UNCHANGED vars
  BY <1>21 DEF vars, TypeOK, Places, Deploying, Published, ValuesAt, Ended
<1>. QED
  BY <1>1, <1>2, <1>3, <1>4, <1>5, <1>6, <1>7, <1>8, <1>9, <1>10, <1>11, <1>12, <1>13, <1>14,
     <1>15, <1>16, <1>17, <1>18, <1>19, <1>20, <1>21 DEF Next, Proceed, Deploy, Errors

\* The CA is told once, of what is wanted.
LEMMA ToldStep == TypeOK /\ Places /\ Told /\ [Next]_vars => Told'
<1>. SUFFICES ASSUME TypeOK, Places, Told, [Next]_vars PROVE Told'
  OBVIOUS
<1>1. ASSUME NEW o \in Orders, NewOrder(o) PROVE Told'
  BY <1>1 DEF NewOrder, Goto, TypeOK, Told, Deploying, Ended
<1>2. ASSUME NEW o \in Orders, NewOrderFails(o) PROVE Told'
  BY <1>2 DEF NewOrderFails, Goto, Fault, TypeOK, Told, Deploying, Ended
<1>3. ASSUME NEW o \in Orders, DeployRoute(o) PROVE Told'
  BY <1>3 DEF DeployRoute, Routed, Goto, Fine, Fault, TypeOK, Told, Deploying, Ended
<1>4. ASSUME NEW o \in Orders, Replace(o) PROVE Told'
  BY <1>4 DEF Replace, SetRecords, NameDeployed, Goto, At, TypeOK, Told, Deploying, Ended
<1>5. ASSUME NEW o \in Orders, Clear(o) PROVE Told'
  BY <1>5 DEF Clear, SetRecords, Goto, Fine, Fault, At, TypeOK, Told, Deploying, Ended
<1>6. ASSUME NEW o \in Orders, Add(o) PROVE Told'
  <2>0. AddEffect(o)
    BY <1>6, AddIs
  <2>. QED
    BY <2>0 DEF AddEffect, NameDeployed, Goto, TypeOK, Told, Deploying, Ended
<1>7. ASSUME NEW o \in Orders, DeployFails(o) PROVE Told'
  BY <1>7 DEF DeployFails, SetRecords, CleanUp, Goto, Fault, At, TypeOK, Told, Deploying,
     Ended
<1>8. ASSUME NEW o \in Orders, Await(o) PROVE Told'
  BY <1>8 DEF Await, Goto, Fine, Fault, TypeOK, Told, Deploying, Ended
<1>9. ASSUME NEW o \in Orders, Notify(o) PROVE Told'
  BY <1>9, FirstIn DEF Notify, Untold, TypeOK, Told, Deploying, Ended
<1>10. ASSUME NEW o \in Orders, NotifyRefused(o) PROVE Told'
  BY <1>10 DEF NotifyRefused, CleanUp, Goto, Fault, TypeOK, Told, Deploying, Ended
<1>11. ASSUME NEW o \in Orders, NotifyFails(o) PROVE Told'
  BY <1>11 DEF NotifyFails, Goto, Fault, TypeOK, Told, Deploying, Ended
<1>12. ASSUME NEW o \in Orders, Poll(o) PROVE Told'
  <2>0. PollEffect(o)
    BY <1>12, PollIs
  <2>. QED
    BY <2>0 DEF PollEffect, CleanUp, Goto, TypeOK, Told, Deploying, Ended
<1>13. ASSUME NEW o \in Orders, PollFails(o) PROVE Told'
  BY <1>13 DEF PollFails, CleanUp, Goto, Fault, TypeOK, Told, Deploying, Ended
<1>14. ASSUME NEW o \in Orders, Clean(o) PROVE Told'
  BY <1>14 DEF Clean, SetRecords, Routed, Fine, Fault, TypeOK, Told, Deploying, Ended
<1>15. ASSUME NEW o \in Orders, CleanFails(o) PROVE Told'
  BY <1>15 DEF CleanFails, SetRecords, Fault, TypeOK, Told, Deploying, Ended
<1>16. ASSUME NEW o \in Orders, CleanDone(o) PROVE Told'
  BY <1>16 DEF CleanDone, Goto, TypeOK, Told, Deploying, Ended
<1>17. ASSUME NEW o \in Orders, Finalize(o) PROVE Told'
  BY <1>17 DEF Finalize, Goto, TypeOK, Told, Deploying, Ended
<1>18. ASSUME NEW o \in Orders, FinalizeFails(o) PROVE Told'
  BY <1>18 DEF FinalizeFails, Goto, Fault, TypeOK, Told, Deploying, Ended
<1>19. ASSUME NEW o \in Orders, NEW i \in Auths, Validate(o, i) PROVE Told'
  BY <1>19 DEF Validate, TypeOK, Told, Deploying, Ended
<1>20. ASSUME Crash PROVE Told'
  BY <1>20 DEF Crash, Fault, TypeOK, Told, Deploying, Ended
<1>21. CASE UNCHANGED vars
  BY <1>21 DEF vars, TypeOK, Told, Deploying, Ended
<1>. QED
  BY <1>1, <1>2, <1>3, <1>4, <1>5, <1>6, <1>7, <1>8, <1>9, <1>10, <1>11, <1>12, <1>13, <1>14,
     <1>15, <1>16, <1>17, <1>18, <1>19, <1>20, <1>21 DEF Next, Proceed, Deploy, Errors

\* A verdict the CA has given stands.
LEMMA ProvenStep == TypeOK /\ Told /\ Proven /\ [Next]_vars => Proven'
<1>. SUFFICES ASSUME TypeOK, Told, Proven, [Next]_vars PROVE Proven'
  OBVIOUS
<1>1. ASSUME NEW o \in Orders, NewOrder(o) PROVE Proven'
  BY <1>1 DEF NewOrder, Goto, TypeOK, Told, Proven, Ended, Deploying
<1>2. ASSUME NEW o \in Orders, NewOrderFails(o) PROVE Proven'
  BY <1>2 DEF NewOrderFails, Goto, Fault, TypeOK, Told, Proven, Ended, Deploying
<1>3. ASSUME NEW o \in Orders, DeployRoute(o) PROVE Proven'
  BY <1>3 DEF DeployRoute, Routed, Goto, Fine, Fault, TypeOK, Told, Proven, Ended, Deploying
<1>4. ASSUME NEW o \in Orders, Replace(o) PROVE Proven'
  BY <1>4 DEF Replace, SetRecords, NameDeployed, Goto, At, TypeOK, Told, Proven, Ended,
     Deploying
<1>5. ASSUME NEW o \in Orders, Clear(o) PROVE Proven'
  BY <1>5 DEF Clear, SetRecords, Goto, Fine, Fault, At, TypeOK, Told, Proven, Ended, Deploying
<1>6. ASSUME NEW o \in Orders, Add(o) PROVE Proven'
  <2>0. AddEffect(o)
    BY <1>6, AddIs
  <2>. QED
    BY <2>0 DEF AddEffect, NameDeployed, Goto, TypeOK, Told, Proven, Ended, Deploying
<1>7. ASSUME NEW o \in Orders, DeployFails(o) PROVE Proven'
  <2>1. /\ pc' = [pc EXCEPT ![o] = "cleanup"] /\ outcome' = [outcome EXCEPT ![o] = "failed"]
        /\ UNCHANGED <<wanted, verdict>>
    BY <1>7 DEF DeployFails, CleanUp, Goto
  <2>. QED
    BY <2>1 DEF TypeOK, Proven
<1>8. ASSUME NEW o \in Orders, Await(o) PROVE Proven'
  BY <1>8 DEF Await, Goto, Fine, Fault, TypeOK, Told, Proven, Ended, Deploying
<1>9. ASSUME NEW o \in Orders, Notify(o) PROVE Proven'
  BY <1>9 DEF Notify, Untold, TypeOK, Told, Proven, Ended, Deploying
<1>10. ASSUME NEW o \in Orders, NotifyRefused(o) PROVE Proven'
  BY <1>10 DEF NotifyRefused, CleanUp, Goto, Fault, TypeOK, Told, Proven, Ended, Deploying
<1>11. ASSUME NEW o \in Orders, NotifyFails(o) PROVE Proven'
  BY <1>11 DEF NotifyFails, Goto, Fault, TypeOK, Told, Proven, Ended, Deploying
<1>12. ASSUME NEW o \in Orders, Poll(o) PROVE Proven'
  BY <1>12 DEF Poll, CleanUp, Goto, TypeOK, Told, Proven, Ended, Deploying
<1>13. ASSUME NEW o \in Orders, PollFails(o) PROVE Proven'
  BY <1>13 DEF PollFails, CleanUp, Goto, Fault, TypeOK, Told, Proven, Ended, Deploying
<1>14. ASSUME NEW o \in Orders, Clean(o) PROVE Proven'
  BY <1>14 DEF Clean, SetRecords, Routed, Fine, Fault, TypeOK, Told, Proven, Ended, Deploying
<1>15. ASSUME NEW o \in Orders, CleanFails(o) PROVE Proven'
  BY <1>15 DEF CleanFails, SetRecords, Fault, TypeOK, Told, Proven, Ended, Deploying
<1>16. ASSUME NEW o \in Orders, CleanDone(o) PROVE Proven'
  BY <1>16 DEF CleanDone, Goto, TypeOK, Told, Proven, Ended, Deploying
<1>17. ASSUME NEW o \in Orders, Finalize(o) PROVE Proven'
  BY <1>17 DEF Finalize, Goto, TypeOK, Told, Proven, Ended, Deploying
<1>18. ASSUME NEW o \in Orders, FinalizeFails(o) PROVE Proven'
  BY <1>18 DEF FinalizeFails, Goto, Fault, TypeOK, Told, Proven, Ended, Deploying
<1>19. ASSUME NEW o \in Orders, NEW i \in Auths, Validate(o, i) PROVE Proven'
  BY <1>19 DEF Validate, TypeOK, Told, Proven, Ended, Deploying
<1>20. ASSUME Crash PROVE Proven'
  BY <1>20 DEF Crash, Fault, TypeOK, Told, Proven, Ended, Deploying
<1>21. CASE UNCHANGED vars
  BY <1>21 DEF vars, TypeOK, Told, Proven, Ended, Deploying
<1>. QED
  BY <1>1, <1>2, <1>3, <1>4, <1>5, <1>6, <1>7, <1>8, <1>9, <1>10, <1>11, <1>12, <1>13, <1>14,
     <1>15, <1>16, <1>17, <1>18, <1>19, <1>20, <1>21 DEF Next, Proceed, Deploy, Errors

\* A step that only moves on keeps values in place.
LEMMA HeldQuiet ==
    ASSUME Held, UNCHANGED <<records, wanted, touched, went>>,
           \A x \in Orders, i \in Auths : Ready(x, i)' => Ready(x, i),
           TypeOK
    PROVE  Held'
  BY DEF Held, InPlace, Strayed, TypeOK

\* A write takes values of another order out of their place only if it shows as touched.
LEMMA HeldElse ==
    ASSUME Held, TypeOK, NEW o \in Orders,
           NEW z \in Zones, NEW n \in Names, NEW rrset, SetRecords(o, z, n, rrset),
           NEW x \in Orders, x # o, NEW i \in wanted[x], Ready(x, i),
           NameOf[i] \notin touched'[x], ~Strayed(x, NameOf[i])
    PROVE  InPlace(x, i)'
<1>1. NameOf[i] \in Names /\ i \in Auths /\ Home[NameOf[i]] \in Zones
  BY OrderAssumption, Homes DEF TypeOK
<1>2. NameOf[i] \notin touched[x] /\ ~(z = Home[n] /\ n = NameOf[i] /\ rrset # records[z][n])
  BY <1>1 DEF SetRecords, TypeOK
<1>3. InPlace(x, i)
  BY <1>1, <1>2 DEF Held
<1>4. records'[Home[NameOf[i]]][NameOf[i]] = records[Home[NameOf[i]]][NameOf[i]]
  BY <1>1, <1>2 DEF SetRecords, TypeOK
<1>. QED
  BY <1>3, <1>4 DEF InPlace

\* Values that are in place stay there.
LEMMA HeldStep == TypeOK /\ Places /\ Held /\ [Next]_vars => Held'
<1>. SUFFICES ASSUME TypeOK, Places, Held, [Next]_vars PROVE Held'
  OBVIOUS
<1>1. ASSUME NEW o \in Orders, NewOrder(o) PROVE Held'
  <2>. SUFFICES ASSUME NEW x \in Orders, NEW i \in wanted'[x], Ready(x, i)',
                       NameOf[i] \notin touched'[x], ~Strayed(x, NameOf[i])'
                PROVE  InPlace(x, i)'
    BY DEF Held
  <2>1. UNCHANGED <<records, touched, went, deployed, values, name>> /\ pc[o] = "new"
    BY <1>1 DEF NewOrder
  <2>2. \E ph \in {"poll", "deploy"} : pc' = [pc EXCEPT ![o] = ph]
    BY <1>1 DEF NewOrder, Goto
  <2>8. CASE x # o
    <3>1. i \in wanted[x] /\ Ready(x, i) /\ ~Strayed(x, NameOf[i]) /\ NameOf[i] \notin touched[x]
      BY <1>1, <2>1, <2>2, <2>8 DEF NewOrder, Ready, Strayed, TypeOK
    <3>. QED
      BY <2>1, <3>1 DEF Held, InPlace
  <2>9. CASE x = o
    BY <2>1, <2>2, <2>9 DEF Ready, Places, TypeOK
  <2>. QED
    BY <2>8, <2>9
<1>2. ASSUME NEW o \in Orders, NewOrderFails(o) PROVE Held'
  <2>1. UNCHANGED <<records, wanted, touched, went>>
    BY <1>2 DEF NewOrderFails, Goto, Fault
  <2>2. \A x \in Orders, i \in Auths : Ready(x, i)' => Ready(x, i)
    BY <1>2 DEF NewOrderFails, Goto, Fault, Ready, TypeOK, Deploying, Ended
  <2>. QED
    BY <2>1, <2>2, HeldQuiet
<1>3. ASSUME NEW o \in Orders, DeployRoute(o) PROVE Held'
  <2>. SUFFICES ASSUME NEW x \in Orders, NEW i \in wanted'[x], Ready(x, i)',
                       NameOf[i] \notin touched'[x], ~Strayed(x, NameOf[i])'
                PROVE  InPlace(x, i)'
    BY DEF Held
  <2>0. RouteEffect(o)
    BY <1>3, RouteIs
  <2>1. PICK n \in todo[o], p \in Providers :
           /\ went' = [went EXCEPT ![o][n] = @ \cup {p}]
           /\ touched' = [touched EXCEPT ![o] = @ \ {n}]
           /\ \E ph \in {"replace", "clear"} : pc' = [pc EXCEPT ![o] = ph]
    BY <2>0 DEF RouteEffect
  <2>2. UNCHANGED <<records, wanted, deployed>> /\ pc[o] = "deploy"
    BY <1>3 DEF DeployRoute
  <2>3. NameOf[i] \in Names /\ i \in wanted[x]
    BY <2>2, OrderAssumption DEF TypeOK
  <2>4. ~Strayed(x, NameOf[i])
    BY <2>1, <2>3 DEF Strayed, TypeOK
  <2>5. Ready(x, i) /\ NameOf[i] \notin touched[x]
    <3>1. CASE x = o
      BY <2>1, <2>2, <2>3, <3>1 DEF Ready, Places, TypeOK, Deploying
    <3>2. CASE x # o
      BY <1>3, <2>1, <2>2, <2>3, <3>2 DEF DeployRoute, Ready, TypeOK
    <3>. QED
      BY <3>1, <3>2
  <2>. QED
    BY <2>2, <2>3, <2>4, <2>5 DEF Held, InPlace
<1>4. ASSUME NEW o \in Orders, Replace(o) PROVE Held'
  <2>. SUFFICES ASSUME NEW x \in Orders, NEW i \in wanted'[x], Ready(x, i)',
                       NameOf[i] \notin touched'[x], ~Strayed(x, NameOf[i])'
                PROVE  InPlace(x, i)'
    BY DEF Held
  <2>1. /\ pc[o] = "replace" /\ UNCHANGED <<wanted, went, name>>
        /\ deployed' = [deployed EXCEPT ![o] = @ \cup {name[o]}]
        /\ values' = [values EXCEPT ![o] = {}]
        /\ \E ph \in {"await", "deploy"} : pc' = [pc EXCEPT ![o] = ph]
    BY <1>4 DEF Replace, NameDeployed, Goto
  <2>2. /\ SetRecords(o, At(o), name[o], {<<o, j>> : j \in values[o]})
        /\ At(o) \in Zones /\ name[o] \in Names
    BY <1>4, <2>1, AtZone DEF Replace
  <2>4. i \in wanted[x] /\ NameOf[i] \in Names /\ ~Strayed(x, NameOf[i])
    BY <2>1, OrderAssumption DEF Strayed, TypeOK
  <2>5. name[o] \in todo[o] /\ name[o] \notin deployed[o]
    BY <2>1 DEF Places, Deploying
  <2>8. CASE x # o
    <3>1. Ready(x, i)
      BY <2>1, <2>8 DEF Ready, TypeOK
    <3>. QED
      BY <2>2, <2>4, <2>8, <3>1, HeldElse
  <2>9. CASE x = o
    <3>1. CASE NameOf[i] = name[o]
      <4>1. At(o) = Home[name[o]]
        BY <2>1, <2>4, <2>9, <3>1 DEF Places, Strayed, At
      <4>2. i \in values[o]
        BY <2>1, <2>4, <2>9, <3>1 DEF Places, ValuesAt, TypeOK
      <4>3. records'[At(o)][name[o]] = {<<o, j>> : j \in values[o]}
        BY <2>2, SetIs
      <4>. QED
        BY <2>9, <3>1, <4>1, <4>2, <4>3 DEF InPlace
    <3>2. CASE NameOf[i] # name[o]
      <4>1. Ready(o, i) /\ NameOf[i] \notin touched[o]
        BY <2>1, <2>2, <2>4, <2>9, <3>2, SetIs DEF Ready, Deploying, TypeOK
      <4>2. records'[Home[NameOf[i]]][NameOf[i]] = records[Home[NameOf[i]]][NameOf[i]]
        BY <2>2, <2>4, <3>2, SetIs, Homes
      <4>. QED
        BY <2>4, <2>9, <4>1, <4>2 DEF Held, InPlace
    <3>. QED
      BY <3>1, <3>2
  <2>. QED
    BY <2>8, <2>9
<1>5. ASSUME NEW o \in Orders, Clear(o) PROVE Held'
  <2>. SUFFICES ASSUME NEW x \in Orders, NEW i \in wanted'[x], Ready(x, i)',
                       NameOf[i] \notin touched'[x], ~Strayed(x, NameOf[i])'
                PROVE  InPlace(x, i)'
    BY DEF Held
  <2>0. ClearEffect(o)
    BY <1>5, ClearIs
  <2>1. /\ pc[o] = "clear" /\ UNCHANGED <<wanted, went, name, deployed, values>>
        /\ pc' = [pc EXCEPT ![o] = "add"]
    BY <2>0 DEF ClearEffect, Goto
  <2>2. At(o) \in Zones /\ name[o] \in Names
    BY <2>1, AtZone
  <2>3. PICK left : SetRecords(o, At(o), name[o], left)
    BY <2>0 DEF ClearEffect
  <2>4. i \in wanted[x] /\ NameOf[i] \in Names /\ ~Strayed(x, NameOf[i])
    BY <2>1, OrderAssumption DEF Strayed, TypeOK
  <2>5. name[o] \in todo[o] /\ name[o] \notin deployed[o]
    BY <2>1 DEF Places, Deploying
  <2>8. CASE x # o
    <3>1. Ready(x, i)
      BY <2>1, <2>8 DEF Ready, TypeOK
    <3>. QED
      BY <2>2, <2>3, <2>4, <2>8, <3>1, HeldElse
  <2>9. CASE x = o
    <3>1. NameOf[i] # name[o]
      BY <2>1, <2>4, <2>5, <2>9 DEF Ready, Places, ValuesAt, TypeOK
    <3>2. CASE NameOf[i] # name[o]
      <4>1. Ready(o, i) /\ NameOf[i] \notin touched[o]
        BY <2>1, <2>2, <2>3, <2>4, <2>9, <3>2, SetIs DEF Ready, Deploying, TypeOK
      <4>2. records'[Home[NameOf[i]]][NameOf[i]] = records[Home[NameOf[i]]][NameOf[i]]
        BY <2>2, <2>3, <2>4, <3>2, SetIs, Homes
      <4>. QED
        BY <2>4, <2>9, <4>1, <4>2 DEF Held, InPlace
    <3>. QED
      BY <3>1, <3>2
  <2>. QED
    BY <2>8, <2>9
<1>6. ASSUME NEW o \in Orders, Add(o) PROVE Held'
  <2>. SUFFICES ASSUME NEW x \in Orders, NEW i \in wanted'[x], Ready(x, i)',
                       NameOf[i] \notin touched'[x], ~Strayed(x, NameOf[i])'
                PROVE  InPlace(x, i)'
    BY DEF Held
  <2>0. AddEffect(o)
    BY <1>6, AddIs
  <2>1. pc[o] = "add" /\ UNCHANGED <<wanted, went, name>>
    BY <2>0 DEF AddEffect
  <2>2. At(o) \in Zones /\ name[o] \in Names
    BY <2>1, AtZone
  <2>3. PICK j \in values[o] :
           /\ SetRecords(o, At(o), name[o], records[At(o)][name[o]] \cup {<<o, j>>})
           /\ \/ values[o] = {j} /\ NameDeployed(o)
              \/ /\ values' = [values EXCEPT ![o] = @ \ {j}]
                 /\ UNCHANGED <<pc, deployed, todo>>
    BY <2>0 DEF AddEffect
  <2>4. i \in wanted[x] /\ NameOf[i] \in Names /\ ~Strayed(x, NameOf[i])
    BY <2>1, OrderAssumption DEF Strayed, TypeOK
  <2>5. name[o] \in todo[o] /\ name[o] \notin deployed[o]
    BY <2>1 DEF Places, Deploying
  <2>6. \/ /\ values[o] = {j} /\ values' = [values EXCEPT ![o] = {}]
           /\ deployed' = [deployed EXCEPT ![o] = @ \cup {name[o]}]
           /\ \E ph \in {"await", "deploy"} : pc' = [pc EXCEPT ![o] = ph]
        \/ values' = [values EXCEPT ![o] = @ \ {j}] /\ UNCHANGED <<pc, deployed>>
    BY <2>3 DEF NameDeployed, Goto
  <2>8. CASE x # o
    <3>1. Ready(x, i)
      BY <2>1, <2>6, <2>8 DEF Ready, TypeOK
    <3>. QED
      BY <2>2, <2>3, <2>4, <2>8, <3>1, HeldElse
  <2>9. CASE x = o
    <3>1. CASE NameOf[i] = name[o]
      <4>1. At(o) = Home[name[o]]
        BY <2>1, <2>4, <2>9, <3>1 DEF Places, Strayed, At
      <4>2. records'[At(o)][name[o]] = records[At(o)][name[o]] \cup {<<o, j>>}
        BY <2>2, <2>3, SetIs
      <4>3. CASE i = j
        BY <2>9, <3>1, <4>1, <4>2, <4>3 DEF InPlace
      <4>4. CASE i # j
        <5>1. i \notin values[o]
          BY <2>1, <2>5, <2>6, <2>9, <3>1, <4>4 DEF Ready, TypeOK
        <5>2. Ready(o, i) /\ NameOf[i] \notin touched[o]
          BY <2>1, <2>2, <2>3, <2>9, <3>1, <5>1, SetIs DEF Ready
        <5>. QED
          BY <2>4, <2>9, <3>1, <4>1, <4>2, <5>2 DEF Held, InPlace
      <4>. QED
        BY <4>3, <4>4
    <3>2. CASE NameOf[i] # name[o]
      <4>1. Ready(o, i) /\ NameOf[i] \notin touched[o]
        BY <2>1, <2>2, <2>3, <2>4, <2>6, <2>9, <3>2, SetIs DEF Ready, Deploying, TypeOK
      <4>2. records'[Home[NameOf[i]]][NameOf[i]] = records[Home[NameOf[i]]][NameOf[i]]
        BY <2>2, <2>3, <2>4, <3>2, SetIs, Homes
      <4>. QED
        BY <2>4, <2>9, <4>1, <4>2 DEF Held, InPlace
    <3>. QED
      BY <3>1, <3>2
  <2>. QED
    BY <2>8, <2>9
<1>7. ASSUME NEW o \in Orders, DeployFails(o) PROVE Held'
  <2>. SUFFICES ASSUME NEW x \in Orders, NEW i \in wanted'[x], Ready(x, i)',
                       NameOf[i] \notin touched'[x], ~Strayed(x, NameOf[i])'
                PROVE  InPlace(x, i)'
    BY DEF Held
  <2>0. DeployFailsEffect(o)
    BY <1>7, DeployFailsIs
  <2>1. UNCHANGED <<wanted, name, values, deployed, went>> /\ pc' = [pc EXCEPT ![o] = "cleanup"]
    BY <2>0 DEF DeployFailsEffect, CleanUp, Goto
  <2>2. x # o /\ i \in wanted[x] /\ Ready(x, i) /\ ~Strayed(x, NameOf[i])
    BY <2>1 DEF Ready, Strayed, Deploying, TypeOK
  <2>3. CASE UNCHANGED <<records, touched>>
    BY <2>2, <2>3 DEF Held, InPlace
  <2>4. ASSUME pc[o] \in {"replace", "add"}, NEW rrset, SetRecords(o, At(o), name[o], rrset)
        PROVE  InPlace(x, i)'
    BY <2>2, <2>4, AtZone, HeldElse
  <2>5. DeployFailsWrites(o)
    BY <2>0 DEF DeployFailsEffect
  <2>. QED
    BY <2>3, <2>4, <2>5 DEF DeployFailsWrites
<1>8. ASSUME NEW o \in Orders, Await(o) PROVE Held'
  <2>1. UNCHANGED <<records, wanted, touched, went>>
    BY <1>8 DEF Await, Goto, Fine, Fault
  <2>2. \A x \in Orders, i \in Auths : Ready(x, i)' => Ready(x, i)
    BY <1>8 DEF Await, Goto, Fine, Fault, Ready, TypeOK, Deploying, Ended
  <2>. QED
    BY <2>1, <2>2, HeldQuiet
<1>9. ASSUME NEW o \in Orders, Notify(o) PROVE Held'
  <2>1. UNCHANGED <<records, wanted, touched, went>>
    BY <1>9 DEF Notify, Untold
  <2>2. \A x \in Orders, i \in Auths : Ready(x, i)' => Ready(x, i)
    BY <1>9, FirstIn DEF Notify, Untold, Ready, TypeOK, Deploying, Ended
  <2>. QED
    BY <2>1, <2>2, HeldQuiet
<1>10. ASSUME NEW o \in Orders, NotifyRefused(o) PROVE Held'
  <2>1. UNCHANGED <<records, wanted, touched, went>>
    BY <1>10 DEF NotifyRefused, CleanUp, Goto, Fault
  <2>2. \A x \in Orders, i \in Auths : Ready(x, i)' => Ready(x, i)
    BY <1>10 DEF NotifyRefused, CleanUp, Goto, Fault, Ready, TypeOK, Deploying, Ended
  <2>. QED
    BY <2>1, <2>2, HeldQuiet
<1>11. ASSUME NEW o \in Orders, NotifyFails(o) PROVE Held'
  <2>1. UNCHANGED <<records, wanted, touched, went>>
    BY <1>11 DEF NotifyFails, Goto, Fault
  <2>2. \A x \in Orders, i \in Auths : Ready(x, i)' => Ready(x, i)
    BY <1>11 DEF NotifyFails, Goto, Fault, Ready, TypeOK, Deploying, Ended
  <2>. QED
    BY <2>1, <2>2, HeldQuiet
<1>12. ASSUME NEW o \in Orders, Poll(o) PROVE Held'
  <2>1. UNCHANGED <<records, wanted, touched, went>>
    BY <1>12 DEF Poll, CleanUp, Goto
  <2>2. \A x \in Orders, i \in Auths : Ready(x, i)' => Ready(x, i)
    BY <1>12 DEF Poll, CleanUp, Goto, Ready, TypeOK, Deploying, Ended
  <2>. QED
    BY <2>1, <2>2, HeldQuiet
<1>13. ASSUME NEW o \in Orders, PollFails(o) PROVE Held'
  <2>1. UNCHANGED <<records, wanted, touched, went>>
    BY <1>13 DEF PollFails, CleanUp, Goto, Fault
  <2>2. \A x \in Orders, i \in Auths : Ready(x, i)' => Ready(x, i)
    BY <1>13 DEF PollFails, CleanUp, Goto, Fault, Ready, TypeOK, Deploying, Ended
  <2>. QED
    BY <2>1, <2>2, HeldQuiet
<1>14. ASSUME NEW o \in Orders, Clean(o) PROVE Held'
  <2>. SUFFICES ASSUME NEW x \in Orders, NEW i \in wanted'[x], Ready(x, i)',
                       NameOf[i] \notin touched'[x], ~Strayed(x, NameOf[i])'
                PROVE  InPlace(x, i)'
    BY DEF Held
  <2>0. CleanEffect(o)
    BY <1>14, CleanIs
  <2>1. PICK n \in Names, p \in Providers :
           /\ FindZone[p][n] \in Zones
           /\ went' = [went EXCEPT ![o][n] = @ \cup {p}]
           /\ \E left \in SUBSET records[FindZone[p][n]][n] : SetRecords(o, FindZone[p][n], n, left)
    BY <2>0 DEF CleanEffect
  <2>2. UNCHANGED <<pc, wanted, name, values, deployed>> /\ pc[o] = "cleanup"
    BY <2>0 DEF CleanEffect
  <2>3. x # o /\ i \in wanted[x] /\ Ready(x, i) /\ ~Strayed(x, NameOf[i])
    BY <2>1, <2>2 DEF Ready, Strayed, Deploying, TypeOK
  <2>4. PICK left \in SUBSET records[FindZone[p][n]][n] : SetRecords(o, FindZone[p][n], n, left)
    BY <2>1
  <2>. QED
    BY <2>1, <2>3, <2>4, HeldElse
<1>15. ASSUME NEW o \in Orders, CleanFails(o) PROVE Held'
  <2>. SUFFICES ASSUME NEW x \in Orders, NEW i \in wanted'[x], Ready(x, i)',
                       NameOf[i] \notin touched'[x], ~Strayed(x, NameOf[i])'
                PROVE  InPlace(x, i)'
    BY DEF Held
  <2>0. CleanFailsEffect(o)
    BY <1>15, CleanFailsIs
  <2>1. PICK n \in Names, z \in Zones : \E left \in SUBSET records[z][n] : SetRecords(o, z, n, left)
    BY <2>0 DEF CleanFailsEffect
  <2>2. UNCHANGED <<pc, wanted, name, values, deployed, went>> /\ pc[o] = "cleanup"
    BY <2>0 DEF CleanFailsEffect
  <2>3. x # o /\ i \in wanted[x] /\ Ready(x, i) /\ ~Strayed(x, NameOf[i])
    BY <2>2 DEF Ready, Strayed, Deploying
  <2>4. PICK left \in SUBSET records[z][n] : SetRecords(o, z, n, left)
    BY <2>1
  <2>. QED
    BY <2>3, <2>4, HeldElse
<1>16. ASSUME NEW o \in Orders, CleanDone(o) PROVE Held'
  <2>1. UNCHANGED <<records, wanted, touched, went>>
    BY <1>16 DEF CleanDone, Goto
  <2>2. \A x \in Orders, i \in Auths : Ready(x, i)' => Ready(x, i)
    BY <1>16 DEF CleanDone, Goto, Ready, TypeOK, Deploying, Ended
  <2>. QED
    BY <2>1, <2>2, HeldQuiet
<1>17. ASSUME NEW o \in Orders, Finalize(o) PROVE Held'
  <2>1. UNCHANGED <<records, wanted, touched, went>>
    BY <1>17 DEF Finalize, Goto
  <2>2. \A x \in Orders, i \in Auths : Ready(x, i)' => Ready(x, i)
    BY <1>17 DEF Finalize, Goto, Ready, TypeOK, Deploying, Ended
  <2>. QED
    BY <2>1, <2>2, HeldQuiet
<1>18. ASSUME NEW o \in Orders, FinalizeFails(o) PROVE Held'
  <2>1. UNCHANGED <<records, wanted, touched, went>>
    BY <1>18 DEF FinalizeFails, Goto, Fault
  <2>2. \A x \in Orders, i \in Auths : Ready(x, i)' => Ready(x, i)
    BY <1>18 DEF FinalizeFails, Goto, Fault, Ready, TypeOK, Deploying, Ended
  <2>. QED
    BY <2>1, <2>2, HeldQuiet
<1>19. ASSUME NEW o \in Orders, NEW i \in Auths, Validate(o, i) PROVE Held'
  <2>1. UNCHANGED <<records, wanted, touched, went>>
    BY <1>19 DEF Validate
  <2>2. \A x \in Orders, j \in Auths : Ready(x, j)' => Ready(x, j)
    BY <1>19 DEF Validate, Ready, TypeOK, Deploying, Ended
  <2>. QED
    BY <2>1, <2>2, HeldQuiet
<1>20. ASSUME Crash PROVE Held'
  <2>1. UNCHANGED <<records, wanted, touched, went>>
    BY <1>20 DEF Crash
  <2>2. \A x \in Orders, i \in Auths : Ready(x, i)' => Ready(x, i)
    BY <1>20 DEF Crash, Fault, Ready, TypeOK, Deploying, Ended
  <2>. QED
    BY <2>1, <2>2, HeldQuiet
<1>21. CASE UNCHANGED vars
  BY <1>21 DEF vars, TypeOK, Places, Held, InPlace, Ready, Strayed, Deploying, ValuesAt,
     Published, Ended
<1>. QED
  BY <1>1, <1>2, <1>3, <1>4, <1>5, <1>6, <1>7, <1>8, <1>9, <1>10, <1>11, <1>12, <1>13, <1>14,
     <1>15, <1>16, <1>17, <1>18, <1>19, <1>20, <1>21 DEF Next, Proceed, Deploy, Errors

\* Records left stay accounted for when they shrink, or grow where their order is.
LEMMA LeftKept ==
    ASSUME Left,
           \A x \in Orders : kept[x] \subseteq kept'[x],
           \A x \in Orders, n \in Names : went[x][n] \subseteq went'[x][n],
           \A x \in Orders, z \in Zones, n \in Names :
               Of(x, records'[z][n]) # {} =>
                   \/ Of(x, records[z][n]) # {}
                   \/ Remains(x, n) /\ \E p \in went[x][n] : Covers(p, n) /\ z = FindZone[p][n],
           \A x \in Orders, n \in Names : Remains(x, n) => Remains(x, n)' \/ n \in kept'[x]
    PROVE  Left'
<1>. SUFFICES ASSUME NEW x \in Orders, NEW z \in Zones, NEW n \in Names,
                     Of(x, records'[z][n]) # {}, n \notin kept'[x], ~Rerouted(x, n)'
              PROVE  /\ Remains(x, n)'
                     /\ \E p \in went'[x][n] : Covers(p, n) /\ z = FindZone[p][n]
  BY DEF Left
<1>1. n \notin kept[x] /\ ~Rerouted(x, n)
  BY DEF Rerouted
<1>2. Remains(x, n) /\ \E p \in went[x][n] : Covers(p, n) /\ z = FindZone[p][n]
  BY <1>1 DEF Left
<1>. QED
  BY <1>2

\* Records are where their order goes again.
LEMMA LeftStep == TypeOK /\ Places /\ Left /\ [Next]_vars => Left'
<1>. SUFFICES ASSUME TypeOK, Places, Left, [Next]_vars PROVE Left'
  OBVIOUS
<1>1. ASSUME NEW o \in Orders, NewOrder(o) PROVE Left'
  <2>1. UNCHANGED records /\ \A x \in Orders : kept[x] \subseteq kept'[x]
    BY <1>1 DEF NewOrder, Goto, TypeOK
  <2>2. \A x \in Orders, n \in Names : went[x][n] \subseteq went'[x][n]
    BY <1>1 DEF NewOrder, Goto, TypeOK
  <2>3. \A x \in Orders, n \in Names : Remains(x, n) => Remains(x, n)' \/ n \in kept'[x]
    BY <1>1 DEF NewOrder, Goto, TypeOK, Remains, Deploying, Ended
  <2>. QED
    BY <2>1, <2>2, <2>3, LeftKept
<1>2. ASSUME NEW o \in Orders, NewOrderFails(o) PROVE Left'
  <2>1. UNCHANGED records /\ \A x \in Orders : kept[x] \subseteq kept'[x]
    BY <1>2 DEF NewOrderFails, Goto, Fault, TypeOK
  <2>2. \A x \in Orders, n \in Names : went[x][n] \subseteq went'[x][n]
    BY <1>2 DEF NewOrderFails, Goto, Fault, TypeOK
  <2>3. \A x \in Orders, n \in Names : Remains(x, n) => Remains(x, n)' \/ n \in kept'[x]
    BY <1>2 DEF NewOrderFails, Goto, Fault, TypeOK, Remains, Deploying, Ended
  <2>. QED
    BY <2>1, <2>2, <2>3, LeftKept
<1>3. ASSUME NEW o \in Orders, DeployRoute(o) PROVE Left'
  <2>1. UNCHANGED records /\ \A x \in Orders : kept[x] \subseteq kept'[x]
    BY <1>3 DEF DeployRoute, Routed, Goto, Fine, Fault, TypeOK
  <2>2. \A x \in Orders, n \in Names : went[x][n] \subseteq went'[x][n]
    BY <1>3 DEF DeployRoute, Routed, Goto, Fine, Fault, TypeOK
  <2>3. \A x \in Orders, n \in Names : Remains(x, n) => Remains(x, n)' \/ n \in kept'[x]
    BY <1>3 DEF DeployRoute, Routed, Goto, Fine, Fault, TypeOK, Remains, Deploying, Ended
  <2>. QED
    BY <2>1, <2>2, <2>3, LeftKept
<1>4. ASSUME NEW o \in Orders, Replace(o) PROVE Left'
  <2>1. pc[o] = "replace"
    BY <1>4 DEF Replace
  <2>2. /\ SetRecords(o, At(o), name[o], {<<o, j>> : j \in values[o]})
        /\ At(o) \in Zones /\ name[o] \in Names
    BY <1>4, <2>1, AtZone DEF Replace
  <2>4. /\ Remains(o, name[o]) /\ provider[o] \in went[o][name[o]]
        /\ Covers(provider[o], name[o]) /\ At(o) = FindZone[provider[o]][name[o]]
    BY <2>1 DEF Places, Remains, At
  <2>5. \A x \in Orders, z \in Zones, n \in Names :
           Of(x, records'[z][n]) # {} =>
               \/ Of(x, records[z][n]) # {}
               \/ Remains(x, n) /\ \E p \in went[x][n] : Covers(p, n) /\ z = FindZone[p][n]
    BY <2>2, <2>4, SetIs DEF Of
  <2>6. \A x \in Orders : kept[x] \subseteq kept'[x]
    BY <1>4 DEF Replace
  <2>7. \A x \in Orders, n \in Names : went[x][n] \subseteq went'[x][n]
    BY <1>4 DEF Replace
  <2>8. \A x \in Orders, n \in Names : Remains(x, n) => Remains(x, n)' \/ n \in kept'[x]
    BY <1>4 DEF Replace, NameDeployed, Goto, Remains, Deploying, TypeOK
  <2>. QED
    BY <2>5, <2>6, <2>7, <2>8, LeftKept
<1>5. ASSUME NEW o \in Orders, Clear(o) PROVE Left'
  <2>0. ClearEffect(o)
    BY <1>5, ClearIs
  <2>1. pc[o] = "clear"
    BY <2>0 DEF ClearEffect
  <2>2. At(o) \in Zones /\ name[o] \in Names
    BY <2>1, AtZone
  <2>3. PICK left \in SUBSET records[At(o)][name[o]] : SetRecords(o, At(o), name[o], left)
    BY <2>0 DEF ClearEffect
  <2>5. \A x \in Orders, z \in Zones, n \in Names :
           Of(x, records'[z][n]) # {} =>
               \/ Of(x, records[z][n]) # {}
               \/ Remains(x, n) /\ \E p \in went[x][n] : Covers(p, n) /\ z = FindZone[p][n]
    BY <2>2, <2>3, SetIs DEF Of
  <2>6. \A x \in Orders : kept[x] \subseteq kept'[x]
    BY <2>0 DEF ClearEffect
  <2>7. \A x \in Orders, n \in Names : went[x][n] \subseteq went'[x][n]
    BY <2>0 DEF ClearEffect
  <2>8. \A x \in Orders, n \in Names : Remains(x, n) => Remains(x, n)' \/ n \in kept'[x]
    BY <2>0 DEF ClearEffect, Goto, Remains, Deploying, TypeOK
  <2>. QED
    BY <2>5, <2>6, <2>7, <2>8, LeftKept
<1>6. ASSUME NEW o \in Orders, Add(o) PROVE Left'
  <2>0. AddEffect(o)
    BY <1>6, AddIs
  <2>1. pc[o] = "add" /\ UNCHANGED <<wanted, went, name>>
    BY <2>0 DEF AddEffect
  <2>2. At(o) \in Zones /\ name[o] \in Names
    BY <2>1, AtZone
  <2>3. PICK j \in values[o] :
           /\ SetRecords(o, At(o), name[o], records[At(o)][name[o]] \cup {<<o, j>>})
           /\ \/ values[o] = {j} /\ NameDeployed(o)
              \/ /\ values' = [values EXCEPT ![o] = @ \ {j}]
                 /\ UNCHANGED <<pc, deployed, todo>>
    BY <2>0 DEF AddEffect
  <2>4. /\ Remains(o, name[o]) /\ provider[o] \in went[o][name[o]]
        /\ Covers(provider[o], name[o]) /\ At(o) = FindZone[provider[o]][name[o]]
    BY <2>1 DEF Places, Remains, At
  <2>5. \A x \in Orders, z \in Zones, n \in Names :
           Of(x, records'[z][n]) # {} =>
               \/ Of(x, records[z][n]) # {}
               \/ Remains(x, n) /\ \E p \in went[x][n] : Covers(p, n) /\ z = FindZone[p][n]
    BY <2>2, <2>3, <2>4, SetIs DEF Of
  <2>6. \A x \in Orders : kept[x] \subseteq kept'[x]
    BY <2>0 DEF AddEffect
  <2>7. \A x \in Orders, n \in Names : went[x][n] \subseteq went'[x][n]
    BY <2>0 DEF AddEffect
  <2>8. \A x \in Orders, n \in Names : Remains(x, n) => Remains(x, n)' \/ n \in kept'[x]
    <3>1. \/ /\ deployed' = [deployed EXCEPT ![o] = @ \cup {name[o]}]
             /\ todo' = [todo EXCEPT ![o] = @ \ {name[o]}]
             /\ \E ph \in {"await", "deploy"} : pc' = [pc EXCEPT ![o] = ph]
          \/ UNCHANGED <<pc, deployed, todo>>
      BY <2>3 DEF NameDeployed, Goto
    <3>2. pc[o] = "add" /\ name' = name
      BY <2>1
    <3>3. ASSUME NEW x \in Orders, x # o, NEW n \in Names PROVE Remains(x, n) => Remains(x, n)'
      BY <3>1, <3>2, <3>3 DEF Remains, TypeOK
    <3>4. ASSUME NEW n \in Names PROVE Remains(o, n) => Remains(o, n)'
      BY <3>1, <3>2 DEF Remains, Deploying, TypeOK
    <3>. QED
      BY <3>3, <3>4
  <2>. QED
    BY <2>5, <2>6, <2>7, <2>8, LeftKept
<1>7. ASSUME NEW o \in Orders, DeployFails(o) PROVE Left'
  <2>0. DeployFailsEffect(o)
    BY <1>7, DeployFailsIs
  <2>5. \A x \in Orders, z \in Zones, n \in Names :
           Of(x, records'[z][n]) # {} =>
               \/ Of(x, records[z][n]) # {}
               \/ Remains(x, n) /\ \E p \in went[x][n] : Covers(p, n) /\ z = FindZone[p][n]
    <3>1. CASE UNCHANGED <<records, touched>>
      BY <3>1
    <3>2. ASSUME pc[o] \in {"replace", "add"},
                 NEW mine \in SUBSET values[o], NEW rest \in SUBSET records[At(o)][name[o]],
                 SetRecords(o, At(o), name[o], rest \cup {<<o, i>> : i \in mine}),
                 NEW x \in Orders, NEW z \in Zones, NEW n \in Names,
                 Of(x, records'[z][n]) # {}
          PROVE  \/ Of(x, records[z][n]) # {}
                 \/ Remains(x, n) /\ \E p \in went[x][n] : Covers(p, n) /\ z = FindZone[p][n]
      <4>1. At(o) \in Zones /\ name[o] \in Names
        BY <3>2, AtZone
      <4>2. /\ Remains(o, name[o]) /\ provider[o] \in went[o][name[o]]
            /\ Covers(provider[o], name[o]) /\ At(o) = FindZone[provider[o]][name[o]]
        BY <3>2 DEF Places, Remains, At
      <4>. QED
        BY <3>2, <4>1, <4>2, SetIs DEF Of
    <3>3. DeployFailsWrites(o)
      BY <2>0 DEF DeployFailsEffect
    <3>. QED
      BY <3>1, <3>2, <3>3 DEF DeployFailsWrites
  <2>1. /\ pc[o] # "deploy" => kept' = [kept EXCEPT ![o] = @ \cup {name[o]}]
        /\ pc[o] = "deploy" => kept' = kept
    BY <2>0 DEF DeployFailsEffect
  <2>2. pc' = [pc EXCEPT ![o] = "cleanup"] /\ todo' = [todo EXCEPT ![o] = deployed[o]]
    BY <2>0 DEF DeployFailsEffect, CleanUp, Goto
  <2>3. pc[o] \in {"deploy", "replace", "add"} /\ UNCHANGED <<name, deployed, went>>
    BY <1>7 DEF DeployFails
  <2>6. \A x \in Orders : kept[x] \subseteq kept'[x]
    <3>1. CASE pc[o] = "deploy"
      BY <2>1, <3>1
    <3>2. CASE pc[o] # "deploy"
      <4>1. kept \in [Orders -> SUBSET Names]
        BY DEF TypeOK
      <4>2. \A x \in Orders : kept'[x] = IF x = o THEN kept[o] \cup {name[o]} ELSE kept[x]
        BY <2>1, <3>2, <4>1
      <4>. QED
        BY <4>2
    <3>. QED
      BY <3>1, <3>2
  <2>7. \A x \in Orders, n \in Names : went[x][n] \subseteq went'[x][n]
    BY <2>3
  <2>8. \A x \in Orders, n \in Names : Remains(x, n) => Remains(x, n)' \/ n \in kept'[x]
    <3>1. pc'[o] = "cleanup" /\ todo'[o] = deployed[o]
      BY <2>2 DEF TypeOK
    <3>2. pc[o] # "deploy" => name[o] \in kept'[o]
      BY <2>1 DEF TypeOK
    <3>3. ASSUME NEW x \in Orders, x # o PROVE pc'[x] = pc[x] /\ todo'[x] = todo[x]
      BY <2>2, <3>3 DEF TypeOK
    <3>. QED
      BY <2>3, <3>1, <3>2, <3>3 DEF Remains, Deploying
  <2>. QED
    BY <2>5, <2>6, <2>7, <2>8, LeftKept
<1>8. ASSUME NEW o \in Orders, Await(o) PROVE Left'
  <2>1. UNCHANGED records /\ \A x \in Orders : kept[x] \subseteq kept'[x]
    BY <1>8 DEF Await, Goto, Fine, Fault, TypeOK
  <2>2. \A x \in Orders, n \in Names : went[x][n] \subseteq went'[x][n]
    BY <1>8 DEF Await, Goto, Fine, Fault, TypeOK
  <2>3. \A x \in Orders, n \in Names : Remains(x, n) => Remains(x, n)' \/ n \in kept'[x]
    BY <1>8 DEF Await, Goto, Fine, Fault, TypeOK, Remains, Deploying, Ended
  <2>. QED
    BY <2>1, <2>2, <2>3, LeftKept
<1>9. ASSUME NEW o \in Orders, Notify(o) PROVE Left'
  <2>1. UNCHANGED records /\ \A x \in Orders : kept[x] \subseteq kept'[x]
    BY <1>9 DEF Notify, Untold, TypeOK
  <2>2. \A x \in Orders, n \in Names : went[x][n] \subseteq went'[x][n]
    BY <1>9 DEF Notify, Untold, TypeOK
  <2>3. \A x \in Orders, n \in Names : Remains(x, n) => Remains(x, n)' \/ n \in kept'[x]
    BY <1>9, FirstIn DEF Notify, Untold, TypeOK, Remains, Deploying, Ended
  <2>. QED
    BY <2>1, <2>2, <2>3, LeftKept
<1>10. ASSUME NEW o \in Orders, NotifyRefused(o) PROVE Left'
  <2>1. UNCHANGED records /\ \A x \in Orders : kept[x] \subseteq kept'[x]
    BY <1>10 DEF NotifyRefused, CleanUp, Goto, Fault, TypeOK
  <2>2. \A x \in Orders, n \in Names : went[x][n] \subseteq went'[x][n]
    BY <1>10 DEF NotifyRefused, CleanUp, Goto, Fault, TypeOK
  <2>3. \A x \in Orders, n \in Names : Remains(x, n) => Remains(x, n)' \/ n \in kept'[x]
    BY <1>10 DEF NotifyRefused, CleanUp, Goto, Fault, TypeOK, Remains, Deploying, Ended
  <2>. QED
    BY <2>1, <2>2, <2>3, LeftKept
<1>11. ASSUME NEW o \in Orders, NotifyFails(o) PROVE Left'
  <2>1. UNCHANGED records /\ \A x \in Orders : kept[x] \subseteq kept'[x]
    BY <1>11 DEF NotifyFails, Goto, Fault, TypeOK
  <2>2. \A x \in Orders, n \in Names : went[x][n] \subseteq went'[x][n]
    BY <1>11 DEF NotifyFails, Goto, Fault, TypeOK
  <2>3. \A x \in Orders, n \in Names : Remains(x, n) => Remains(x, n)' \/ n \in kept'[x]
    BY <1>11 DEF NotifyFails, Goto, Fault, TypeOK, Remains, Deploying, Ended
  <2>. QED
    BY <2>1, <2>2, <2>3, LeftKept
<1>12. ASSUME NEW o \in Orders, Poll(o) PROVE Left'
  <2>0. PollEffect(o)
    BY <1>12, PollIs
  <2>1. UNCHANGED records /\ \A x \in Orders : kept[x] \subseteq kept'[x]
    BY <2>0 DEF PollEffect
  <2>2. \A x \in Orders, n \in Names : went[x][n] \subseteq went'[x][n]
    BY <2>0 DEF PollEffect
  <2>3. \A x \in Orders, n \in Names : Remains(x, n) => Remains(x, n)' \/ n \in kept'[x]
    BY <2>0 DEF PollEffect, CleanUp, Goto, TypeOK, Remains, Deploying
  <2>. QED
    BY <2>1, <2>2, <2>3, LeftKept
<1>13. ASSUME NEW o \in Orders, PollFails(o) PROVE Left'
  <2>1. UNCHANGED records /\ \A x \in Orders : kept[x] \subseteq kept'[x]
    BY <1>13 DEF PollFails, CleanUp, Goto, Fault, TypeOK
  <2>2. \A x \in Orders, n \in Names : went[x][n] \subseteq went'[x][n]
    BY <1>13 DEF PollFails, CleanUp, Goto, Fault, TypeOK
  <2>3. \A x \in Orders, n \in Names : Remains(x, n) => Remains(x, n)' \/ n \in kept'[x]
    BY <1>13 DEF PollFails, CleanUp, Goto, Fault, TypeOK, Remains, Deploying, Ended
  <2>. QED
    BY <2>1, <2>2, <2>3, LeftKept
<1>14. ASSUME NEW o \in Orders, Clean(o) PROVE Left'
  <2>0. CleanEffect(o)
    BY <1>14, CleanIs
  <2>1. PICK n \in todo[o], p \in Providers :
           /\ Covers(p, n) /\ n \in Names /\ FindZone[p][n] \in Zones
           /\ went' = [went EXCEPT ![o][n] = @ \cup {p}]
           /\ todo' = [todo EXCEPT ![o] = @ \ {n}]
           /\ \E left \in SUBSET records[FindZone[p][n]][n] :
                 /\ SetRecords(o, FindZone[p][n], n, left)
                 /\ \/ Of(o, left) = {} /\ kept' = kept
                    \/ kept' = [kept EXCEPT ![o] = @ \cup {n}]
    BY <2>0 DEF CleanEffect
  <2>2. PICK left \in SUBSET records[FindZone[p][n]][n] :
           /\ SetRecords(o, FindZone[p][n], n, left)
           /\ \/ Of(o, left) = {} /\ kept' = kept
              \/ kept' = [kept EXCEPT ![o] = @ \cup {n}]
    BY <2>1
  <2>3. UNCHANGED <<pc, name, deployed>> /\ pc[o] = "cleanup"
    BY <2>0 DEF CleanEffect
  <2>4. \A x \in Orders, m \in Names :
           /\ kept[x] \subseteq kept'[x] /\ went[x][m] \subseteq went'[x][m]
           /\ x # o \/ m # n => (Remains(x, m) => Remains(x, m)')
    BY <2>1, <2>2, <2>3 DEF Remains, Deploying, TypeOK
  <2>5. \A x \in Orders, z \in Zones, m \in Names :
           Of(x, records'[z][m]) # {} => Of(x, records[z][m]) # {}
    BY <2>1, <2>2, SetIs DEF Of
  <2>. SUFFICES ASSUME NEW x \in Orders, NEW z \in Zones, NEW m \in Names,
                       Of(x, records'[z][m]) # {}, m \notin kept'[x], ~Rerouted(x, m)'
                PROVE  /\ Remains(x, m)'
                       /\ \E q \in went'[x][m] : Covers(q, m) /\ z = FindZone[q][m]
    BY DEF Left
  <2>6. m \notin kept[x] /\ ~Rerouted(x, m) /\ Of(x, records[z][m]) # {}
    BY <2>4, <2>5 DEF Rerouted
  <2>7. PICK q \in went[x][m] : Covers(q, m) /\ z = FindZone[q][m] /\ Remains(x, m)
    BY <2>6 DEF Left
  <2>8. ~(x = o /\ m = n)
    <3>. SUFFICES ASSUME x = o, m = n PROVE FALSE
      OBVIOUS
    <3>1. p \in went'[o][n] /\ q \in went'[o][n]
      BY <2>1, <2>4, <2>7 DEF TypeOK
    <3>2. p = q
      BY <3>1 DEF Rerouted
    <3>3. records'[FindZone[p][n]][n] = left
      BY <2>1, <2>2, SetIs
    <3>4. Of(o, left) # {}
      BY <2>7, <3>2, <3>3
    <3>. QED
      BY <2>2, <3>4 DEF TypeOK
  <2>. QED
    BY <2>4, <2>7, <2>8
<1>15. ASSUME NEW o \in Orders, CleanFails(o) PROVE Left'
  <2>0. CleanFailsEffect(o)
    BY <1>15, CleanFailsIs
  <2>1. PICK n \in todo[o], z \in Zones :
           /\ n \in Names
           /\ kept' = [kept EXCEPT ![o] = @ \cup {n}]
           /\ todo' = [todo EXCEPT ![o] = @ \ {n}]
           /\ \E left \in SUBSET records[z][n] : SetRecords(o, z, n, left)
    BY <2>0 DEF CleanFailsEffect
  <2>2. UNCHANGED <<pc, name, deployed, went>>
    BY <2>0 DEF CleanFailsEffect
  <2>3. PICK left \in SUBSET records[z][n] : SetRecords(o, z, n, left)
    BY <2>1
  <2>5. \A x \in Orders, y \in Zones, m \in Names :
           Of(x, records'[y][m]) # {} => Of(x, records[y][m]) # {}
    BY <2>1, <2>3, SetIs DEF Of
  <2>6. \A x \in Orders : kept[x] \subseteq kept'[x]
    BY <2>1, <2>2 DEF TypeOK
  <2>7. \A x \in Orders, m \in Names : went[x][m] \subseteq went'[x][m]
    BY <2>1, <2>2 DEF TypeOK
  <2>8. \A x \in Orders, m \in Names : Remains(x, m) => Remains(x, m)' \/ m \in kept'[x]
    BY <2>1, <2>2 DEF Remains, Deploying, TypeOK
  <2>. QED
    BY <2>5, <2>6, <2>7, <2>8, LeftKept
<1>16. ASSUME NEW o \in Orders, CleanDone(o) PROVE Left'
  <2>1. UNCHANGED records /\ \A x \in Orders : kept[x] \subseteq kept'[x]
    BY <1>16 DEF CleanDone, Goto, TypeOK
  <2>2. \A x \in Orders, n \in Names : went[x][n] \subseteq went'[x][n]
    BY <1>16 DEF CleanDone, Goto, TypeOK
  <2>3. \A x \in Orders, n \in Names : Remains(x, n) => Remains(x, n)' \/ n \in kept'[x]
    BY <1>16 DEF CleanDone, Goto, TypeOK, Remains, Deploying, Ended
  <2>. QED
    BY <2>1, <2>2, <2>3, LeftKept
<1>17. ASSUME NEW o \in Orders, Finalize(o) PROVE Left'
  <2>1. UNCHANGED records /\ \A x \in Orders : kept[x] \subseteq kept'[x]
    BY <1>17 DEF Finalize, Goto, TypeOK
  <2>2. \A x \in Orders, n \in Names : went[x][n] \subseteq went'[x][n]
    BY <1>17 DEF Finalize, Goto, TypeOK
  <2>3. \A x \in Orders, n \in Names : Remains(x, n) => Remains(x, n)' \/ n \in kept'[x]
    BY <1>17 DEF Finalize, Goto, TypeOK, Remains, Deploying, Ended
  <2>. QED
    BY <2>1, <2>2, <2>3, LeftKept
<1>18. ASSUME NEW o \in Orders, FinalizeFails(o) PROVE Left'
  <2>1. UNCHANGED records /\ \A x \in Orders : kept[x] \subseteq kept'[x]
    BY <1>18 DEF FinalizeFails, Goto, Fault, TypeOK
  <2>2. \A x \in Orders, n \in Names : went[x][n] \subseteq went'[x][n]
    BY <1>18 DEF FinalizeFails, Goto, Fault, TypeOK
  <2>3. \A x \in Orders, n \in Names : Remains(x, n) => Remains(x, n)' \/ n \in kept'[x]
    BY <1>18 DEF FinalizeFails, Goto, Fault, TypeOK, Remains, Deploying, Ended
  <2>. QED
    BY <2>1, <2>2, <2>3, LeftKept
<1>19. ASSUME NEW o \in Orders, NEW i \in Auths, Validate(o, i) PROVE Left'
  <2>1. UNCHANGED records /\ \A x \in Orders : kept[x] \subseteq kept'[x]
    BY <1>19 DEF Validate, TypeOK
  <2>2. \A x \in Orders, n \in Names : went[x][n] \subseteq went'[x][n]
    BY <1>19 DEF Validate, TypeOK
  <2>3. \A x \in Orders, n \in Names : Remains(x, n) => Remains(x, n)' \/ n \in kept'[x]
    BY <1>19 DEF Validate, TypeOK, Remains, Deploying, Ended
  <2>. QED
    BY <2>1, <2>2, <2>3, LeftKept
<1>20. ASSUME Crash PROVE Left'
  <2>1. UNCHANGED records /\ \A x \in Orders : kept[x] \subseteq kept'[x]
    BY <1>20 DEF Crash, Fault, TypeOK
  <2>2. \A x \in Orders, n \in Names : went[x][n] \subseteq went'[x][n]
    BY <1>20 DEF Crash, Fault, TypeOK
  <2>3. \A x \in Orders, n \in Names : Remains(x, n) => Remains(x, n)' \/ n \in kept'[x]
    BY <1>20 DEF Crash, Fault, TypeOK, Remains, Deploying, Ended
  <2>. QED
    BY <2>1, <2>2, <2>3, LeftKept
<1>21. CASE UNCHANGED vars
  <2>1. UNCHANGED <<records, kept, went>>
    BY <1>21 DEF vars
  <2>2. \A x \in Orders, n \in Names : Remains(x, n) => Remains(x, n)'
    BY <1>21 DEF vars, Remains
  <2>. QED
    BY <2>1, <2>2, LeftKept
<1>. QED
  BY <1>1, <1>2, <1>3, <1>4, <1>5, <1>6, <1>7, <1>8, <1>9, <1>10, <1>11, <1>12, <1>13, <1>14,
     <1>15, <1>16, <1>17, <1>18, <1>19, <1>20, <1>21 DEF Next, Proceed, Deploy, Errors

\* A lookup that finds nothing has a cause.
LEMMA UndisturbedStep ==
    TypeOK /\ Places /\ Told /\ Held /\ UndisturbedIsValid /\ [Next]_vars => UndisturbedIsValid'
<1>. SUFFICES ASSUME TypeOK, Places, Told, Held, UndisturbedIsValid, [Next]_vars
             PROVE UndisturbedIsValid'
  OBVIOUS
<1>1. ASSUME NEW o \in Orders, NewOrder(o) PROVE UndisturbedIsValid'
  BY <1>1 DEF NewOrder, Goto, TypeOK, Told, UndisturbedIsValid, Strayed, Deploying, Ended
<1>2. ASSUME NEW o \in Orders, NewOrderFails(o) PROVE UndisturbedIsValid'
  BY <1>2 DEF NewOrderFails, Goto, Fault, TypeOK, Told, UndisturbedIsValid, Strayed,
     Deploying, Ended
<1>3. ASSUME NEW o \in Orders, DeployRoute(o) PROVE UndisturbedIsValid'
  <2>0. RouteEffect(o)
    BY <1>3, RouteIs
  <2>1. PICK n \in Names, p \in Providers, ph \in {"replace", "clear"} :
           /\ went' = [went EXCEPT ![o][n] = @ \cup {p}]
           /\ touched' = [touched EXCEPT ![o] = @ \ {n}]
           /\ pc' = [pc EXCEPT ![o] = ph]
    BY <2>0 DEF RouteEffect
  <2>2. UNCHANGED <<verdict, seen>>
    BY <2>0 DEF RouteEffect
  <2>3. pc'[o] = ph
    BY <2>1 DEF TypeOK
  <2>4. ASSUME NEW x \in Orders, x # o
        PROVE  pc'[x] = pc[x] /\ went'[x] = went[x] /\ touched'[x] = touched[x]
    BY <2>1, <2>4 DEF TypeOK
  <2>. QED
    BY <2>2, <2>3, <2>4 DEF UndisturbedIsValid, Strayed
<1>4. ASSUME NEW o \in Orders, Replace(o) PROVE UndisturbedIsValid'
  <2>1. /\ UNCHANGED <<verdict, went, seen>>
        /\ \A x \in Orders : touched[x] \subseteq touched'[x]
    BY <1>4 DEF Replace, SetRecords, TypeOK
  <2>2. \A x \in Orders : pc'[x] = pc[x] \/ pc'[x] \in {"await", "deploy"}
    BY <1>4 DEF Replace, NameDeployed, Goto, TypeOK
  <2>. QED
    BY <2>1, <2>2 DEF UndisturbedIsValid, Strayed
<1>5. ASSUME NEW o \in Orders, Clear(o) PROVE UndisturbedIsValid'
  <2>1. /\ UNCHANGED <<verdict, went, seen>>
        /\ \A x \in Orders : touched[x] \subseteq touched'[x]
    BY <1>5 DEF Clear, SetRecords, TypeOK
  <2>2. \A x \in Orders : pc'[x] = pc[x] \/ pc'[x] = "add"
    BY <1>5 DEF Clear, Goto, TypeOK
  <2>. QED
    BY <2>1, <2>2 DEF UndisturbedIsValid, Strayed
<1>6. ASSUME NEW o \in Orders, Add(o) PROVE UndisturbedIsValid'
  <2>0. AddEffect(o)
    BY <1>6, AddIs
  <2>1. /\ UNCHANGED <<verdict, went, seen>>
        /\ \A x \in Orders : touched[x] \subseteq touched'[x]
    BY <2>0 DEF AddEffect, SetRecords, TypeOK
  <2>2. \A x \in Orders : pc'[x] = pc[x] \/ pc'[x] \in {"await", "deploy"}
    BY <2>0 DEF AddEffect, NameDeployed, Goto, TypeOK
  <2>. QED
    BY <2>1, <2>2 DEF UndisturbedIsValid, Strayed
<1>7. ASSUME NEW o \in Orders, DeployFails(o) PROVE UndisturbedIsValid'
  <2>0. DeployFailsEffect(o)
    BY <1>7, DeployFailsIs
  <2>1. pc' = [pc EXCEPT ![o] = "cleanup"] /\ UNCHANGED <<verdict, went, seen>>
    BY <2>0 DEF DeployFailsEffect, CleanUp, Goto
  <2>2. \A x \in Orders : touched[x] \subseteq touched'[x]
    <3>1. DeployFailsWrites(o)
      BY <2>0 DEF DeployFailsEffect
    <3>2. ASSUME NEW z, NEW n, NEW rrset, SetRecords(o, z, n, rrset)
          PROVE  \A x \in Orders : touched[x] \subseteq touched'[x]
      BY <3>2 DEF SetRecords, TypeOK
    <3>. QED
      BY <3>1, <3>2 DEF DeployFailsWrites
  <2>. QED
    BY <2>1, <2>2 DEF UndisturbedIsValid, Strayed, TypeOK
<1>8. ASSUME NEW o \in Orders, Await(o) PROVE UndisturbedIsValid'
  BY <1>8 DEF Await, Goto, Fine, Fault, TypeOK, Told, UndisturbedIsValid, Strayed, Deploying,
     Ended
<1>9. ASSUME NEW o \in Orders, Notify(o) PROVE UndisturbedIsValid'
  BY <1>9, FirstIn DEF Notify, Untold, TypeOK, Told, UndisturbedIsValid, Strayed, Deploying,
     Ended
<1>10. ASSUME NEW o \in Orders, NotifyRefused(o) PROVE UndisturbedIsValid'
  BY <1>10 DEF NotifyRefused, CleanUp, Goto, Fault, TypeOK, Told, UndisturbedIsValid, Strayed,
     Deploying, Ended
<1>11. ASSUME NEW o \in Orders, NotifyFails(o) PROVE UndisturbedIsValid'
  BY <1>11 DEF NotifyFails, Goto, Fault, TypeOK, Told, UndisturbedIsValid, Strayed, Deploying,
     Ended
<1>12. ASSUME NEW o \in Orders, Poll(o) PROVE UndisturbedIsValid'
  <2>0. PollEffect(o)
    BY <1>12, PollIs
  <2>1. /\ UNCHANGED pc \/ pc' = [pc EXCEPT ![o] = "cleanup"]
        /\ UNCHANGED <<verdict, touched, went, seen>>
    BY <2>0 DEF PollEffect, CleanUp, Goto
  <2>. QED
    BY <2>1 DEF UndisturbedIsValid, Strayed, TypeOK
<1>13. ASSUME NEW o \in Orders, PollFails(o) PROVE UndisturbedIsValid'
  BY <1>13 DEF PollFails, CleanUp, Goto, Fault, TypeOK, Told, UndisturbedIsValid, Strayed,
     Deploying, Ended
<1>14. ASSUME NEW o \in Orders, Clean(o) PROVE UndisturbedIsValid'
  BY <1>14 DEF Clean, SetRecords, Routed, Fine, Fault, TypeOK, Told, UndisturbedIsValid,
     Strayed, Deploying, Ended
<1>15. ASSUME NEW o \in Orders, CleanFails(o) PROVE UndisturbedIsValid'
  BY <1>15 DEF CleanFails, SetRecords, Fault, TypeOK, Told, UndisturbedIsValid, Strayed,
     Deploying, Ended
<1>16. ASSUME NEW o \in Orders, CleanDone(o) PROVE UndisturbedIsValid'
  <2>1. /\ pc' = [pc EXCEPT ![o] = outcome[o]] /\ outcome[o] \in {"finalize", "failed"}
        /\ UNCHANGED <<verdict, touched, went, seen>>
    BY <1>16 DEF CleanDone, Goto, TypeOK
  <2>. QED
    BY <2>1 DEF UndisturbedIsValid, Strayed, TypeOK
<1>17. ASSUME NEW o \in Orders, Finalize(o) PROVE UndisturbedIsValid'
  BY <1>17 DEF Finalize, Goto, TypeOK, Told, UndisturbedIsValid, Strayed, Deploying, Ended
<1>18. ASSUME NEW o \in Orders, FinalizeFails(o) PROVE UndisturbedIsValid'
  BY <1>18 DEF FinalizeFails, Goto, Fault, TypeOK, Told, UndisturbedIsValid, Strayed,
     Deploying, Ended
<1>19. ASSUME NEW o \in Orders, NEW i \in Auths, Validate(o, i) PROVE UndisturbedIsValid'
  <2>1. PICK v \in {"valid", "invalid"} :
           /\ v = "invalid" => ~InPlace(o, i) \/ ~seen[o]
           /\ verdict' = [verdict EXCEPT ![o][i] = v]
    BY <1>19 DEF Validate, InPlace
  <2>2. UNCHANGED <<pc, wanted, deployed, touched, went, seen>> /\ i \in wanted[o]
    BY <1>19 DEF Validate, Told
  <2>3. pc[o] \in {"notify", "poll"} => Ready(o, i)
    BY <2>2 DEF Ready, Places, Published
  <2>4. ASSUME v = "invalid", pc[o] \in {"notify", "poll"}
        PROVE  ~seen[o] \/ NameOf[i] \in touched[o] \/ Strayed(o, NameOf[i])
    BY <2>1, <2>2, <2>3, <2>4 DEF Held
  <2>5. ASSUME NEW x \in Orders, NEW j \in Auths, x # o \/ j # i
        PROVE  verdict'[x][j] = verdict[x][j]
    BY <2>1, <2>5 DEF TypeOK
  <2>6. verdict'[o][i] = v
    BY <2>1 DEF TypeOK
  <2>7. \A x \in Orders, n \in Names : Strayed(x, n)' <=> Strayed(x, n)
    BY <2>2 DEF Strayed
  <2>8. ASSUME NEW x \in Orders, NEW j \in Auths,
               pc'[x] \in {"notify", "poll"}, verdict'[x][j] = "invalid"
        PROVE  ~seen'[x] \/ NameOf[j] \in touched'[x] \/ Strayed(x, NameOf[j])'
    <3>1. NameOf[j] \in Names
      BY OrderAssumption
    <3>2. CASE x = o /\ j = i
      BY <2>2, <2>4, <2>6, <2>7, <2>8, <3>1, <3>2
    <3>3. CASE x # o \/ j # i
      BY <2>2, <2>5, <2>7, <2>8, <3>1, <3>3 DEF UndisturbedIsValid
    <3>. QED
      BY <3>2, <3>3
  <2>. QED
    BY <2>8 DEF UndisturbedIsValid
<1>20. ASSUME Crash PROVE UndisturbedIsValid'
  BY <1>20 DEF Crash, Fault, TypeOK, Told, UndisturbedIsValid, Strayed, Deploying, Ended
<1>21. CASE UNCHANGED vars
  BY <1>21 DEF vars, TypeOK, Told, UndisturbedIsValid, Strayed, Deploying, Ended
<1>. QED
  BY <1>1, <1>2, <1>3, <1>4, <1>5, <1>6, <1>7, <1>8, <1>9, <1>10, <1>11, <1>12, <1>13, <1>14,
     <1>15, <1>16, <1>17, <1>18, <1>19, <1>20, <1>21 DEF Next, Proceed, Deploy, Errors
-----------------------------------------------------------------------------
(* The theorems.                                                           *)

IInv ==
    /\ TypeOK
    /\ Places
    /\ Told
    /\ Proven
    /\ Held
    /\ UndisturbedIsValid
    /\ Left

LEMMA InitInv == Init => IInv
  BY OrderAssumption
  DEF Init, IInv, TypeOK, Places, Told, Proven, Held, UndisturbedIsValid, Left, Deploying, Phases,
      Ended, Of

LEMMA StepInv == IInv /\ [Next]_vars => IInv'
  BY TypeStep, PlacesStep, ToldStep, ProvenStep, HeldStep, UndisturbedStep, LeftStep DEF IInv

LEMMA AlwaysInv == Spec => []IInv
  BY InitInv, StepInv, PTL DEF Spec

\* Orders, records and verdicts keep their types.
THEOREM OrderTypeCorrect == Spec => []TypeOK
<1>1. IInv => TypeOK
  BY DEF IInv
<1>. QED
  BY <1>1, AlwaysInv, PTL

\* A certificate is downloaded only for an order whose authorizations the CA found valid.
THEOREM IssuedAreProven == Spec => []IssuedIsProven
<1>1. IInv => IssuedIsProven
  BY DEF IInv, Proven, IssuedIsProven
<1>. QED
  BY <1>1, AlwaysInv, PTL

\* An authorization fails while its order waits only for a cause outside the order.
THEOREM UndisturbedAreValid == Spec => []UndisturbedIsValid
<1>1. IInv => UndisturbedIsValid
  BY DEF IInv
<1>. QED
  BY <1>1, AlwaysInv, PTL

\* An order that ends leaves a record behind only at the ways out without a working cleanup.
THEOREM LeftoversHaveCause == Spec => []LeftoverHasCause
<1>1. IInv => LeftoverHasCause
  BY DEF IInv, Left, LeftoverHasCause, Remains, Deploying
<1>. QED
  BY <1>1, AlwaysInv, PTL

=============================================================================
