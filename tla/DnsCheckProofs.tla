---------------------------- MODULE DnsCheckProofs ----------------------------
(***************************************************************************)
(* Proofs about the two halves of the DNS check.                           *)
(*                                                                         *)
(* Propagation, for any names, nameservers, addresses, values and times:   *)
(* what the wait knows of a server is what the server said, up to a pass   *)
(* ago.  The invariants say how that relates to the world, which has moved *)
(* on.  A server that served a value still does; an address that had no    *)
(* route is not asked again, and may have one by now.                      *)
(*                                                                         *)
(* Delegation, for any tree of zones: the walk is a stack of calls, so an  *)
(* invariant says of every call on it where it stands, and of the call on  *)
(* top what the one that has just returned told it.  Each step goes on     *)
(* with the call on top, ends it or makes another one, and three lemmas    *)
(* say what these do to the invariant, whatever the handler.               *)
(***************************************************************************)
EXTENDS Propagation, Delegation, FiniteSetTheorems, SequenceTheorems,
        WellFoundedInduction, TLAPS

-----------------------------------------------------------------------------
(* Propagation: what servers have said.                                    *)

Answers == {NoRoute, Failed} \union {Answered(v) : v \in SUBSET Values}

\* An answer is no more than what is served by now.
HeardIsServed ==
    \A p \in Probes : answers[p].kind = "answered" =>
        answers[p].seen \subseteq serves[p[1]][p[3]]

\* No route was found only to an address that had none, and what is no longer
\* asked had no route when it was.
NoRouteIsLost ==
    /\ \A a \in Addrs : path[a] = "none" => a \in lost
    /\ \A p \in Probes : answers[p] = NoRoute => p[3] \in lost
    /\ \A p \in Probes \ live : answers[p] = NoRoute

\* The clock never passes the end of the pass or of the sleep.
OnTime ==
    /\ phase \in {"probing", "sleeping"} => now <= until
    /\ phase = "probing" =>
          until <= 2 * QueryTime \/ until < Timeout + PollInterval + 2 * QueryTime
    /\ phase = "sleeping" => until < Timeout + PollInterval

-----------------------------------------------------------------------------
\* A probe asks a nameserver of the name at one of its addresses.
LEMMA ProbeFields ==
    ASSUME NEW p \in Probes
    PROVE  /\ p[1] \in Names /\ p[2] \in Servers /\ p[3] \in Addrs
           /\ p[2] \in NsOf[p[1]] /\ p[3] \in AddrsOf[p[2]]
  BY DEF Probes

\* A nameserver of a name is asked at all its addresses.
LEMMA ProbeOf ==
    ASSUME NEW n \in Names, NEW s \in NsOf[n], NEW a \in AddrsOf[s]
    PROVE  <<n, s, a>> \in Probes
  BY WaitAssumption DEF Probes, Addrs

\* The kind of an answer tells what it is.
LEMMA Kinds ==
    ASSUME NEW r \in Answers
    PROVE  /\ r.kind = "noroute" <=> r = NoRoute
           /\ r.kind \in {"noroute", "failed", "answered"}
           /\ r.kind = "failed" <=> r = Failed
           /\ r.kind = "answered" => r.seen \in SUBSET Values /\ r = Answered(r.seen)
  BY DEF Answers, NoRoute, Failed, Answered

-----------------------------------------------------------------------------
TypeInv == TypeOK /\ HeardIsServed /\ NoRouteIsLost

\* Every step keeps the types and what answers say of the world.
LEMMA TypeInvStep == TypeInv /\ [Next]_vars => TypeInv'
<1>. SUFFICES ASSUME TypeInv, [Next]_vars PROVE TypeInv'
  OBVIOUS
<1>. USE WaitAssumption DEF TypeInv, TypeOK, HeardIsServed, NoRouteIsLost, Results,
         wait, world
<1>. USE DEF NoRoute, Failed, Answered
<1>1. CASE Probe
  <2>1. PICK p \in pending : /\ answers' = [answers EXCEPT ![p] = Result(p)]
                             /\ pending' = pending \ {p}
    BY <1>1 DEF Probe
  <2>2. p \in Probes /\ p[1] \in Names /\ p[3] \in Addrs
    BY ProbeFields
  <2>3. Result(p) \in {NoRoute, Failed} \union {Answered(v) : v \in SUBSET Values}
    BY <2>2 DEF Result
  <2>4. /\ Result(p).kind = "answered" => Result(p).seen \subseteq serves[p[1]][p[3]]
        /\ Result(p) = NoRoute => p[3] \in lost
    BY <2>2 DEF Result
  <2>. QED
    BY <1>1, <2>1, <2>2, <2>3, <2>4 DEF Probe
<1>2. CASE EndPass
  BY <1>2 DEF EndPass
<1>3. CASE NextPass
  BY <1>3 DEF NextPass
<1>4. CASE Tick
  BY <1>4 DEF Tick
<1>5. CASE CatchUp
  <2>1. PICK n \in Names, a \in Addrs : \E v \in Expected[n] \ serves[n][a] :
             /\ \E s \in NsOf[n] : a \in AddrsOf[s]
             /\ serves' = [serves EXCEPT ![n][a] = @ \union {v}]
    BY <1>5, Zenon DEF CatchUp
  <2>2. PICK v \in Expected[n] : serves' = [serves EXCEPT ![n][a] = @ \union {v}]
    BY <2>1
  <2>5. v \in Values
    BY DEF Values
  <2>3. serves' \in [Names -> [Addrs -> SUBSET Values]]
    BY <2>5, <2>2
  <2>4. \A m \in Names, b \in Addrs : serves[m][b] \subseteq serves'[m][b]
    BY <2>2
  <2>. QED
    BY <1>5, <2>3, <2>4, ProbeFields DEF CatchUp
<1>6. CASE Reroute
  BY <1>6, ProbeFields DEF Reroute
<1>7. CASE UNCHANGED vars
  BY <1>7 DEF vars
<1>. QED
  BY <1>1, <1>2, <1>3, <1>4, <1>5, <1>6, <1>7 DEF Next, Done

-----------------------------------------------------------------------------
(* The verdict.                                                            *)

\* A pass is judged by what every probe of it said.
LEMMA EndPassStep ==
    ASSUME TypeInv, EndPass
    PROVE  ReadyIsServed' /\ GivesUpForCause'
<1>. USE WaitAssumption DEF TypeInv, TypeOK
<1>0. UNCHANGED <<answers, serves, lost>> /\ live' = {p \in live : answers[p] # NoRoute}
  BY DEF EndPass, world
<1>1. \A p \in Probes : answers[p] \in Answers
  BY DEF Answers
<1>2. \A p \in Probes : answers[p].kind = "answered" => p \in live /\ answers[p] # NoRoute
  BY <1>1, Kinds DEF NoRouteIsLost, NoRoute
<1>3. ASSUME NEW n \in Names, NEW s \in NsOf[n],
             \A p \in live : p[1] = n /\ p[2] = s => answers[p] = NoRoute
      PROVE  AddrsOf[s] \subseteq lost
  <2>. SUFFICES ASSUME NEW a \in AddrsOf[s] PROVE a \in lost
    OBVIOUS
  <2>1. <<n, s, a>> \in Probes
    BY ProbeOf
  <2>2. answers[<<n, s, a>>] = NoRoute
    BY <1>3, <2>1 DEF NoRouteIsLost
  <2>. QED
    BY <2>1, <2>2 DEF NoRouteIsLost
<1>4. CASE phase' = "error"
  <2>1. PICK n \in Names : Reachable(n) = {}
    BY <1>4 DEF EndPass
  <2>2. \A p \in live : p[1] = n => answers[p] = NoRoute
    BY <2>1 DEF Reachable
  <2>3. \A s \in NsOf[n] : AddrsOf[s] \subseteq lost
    BY <2>2, <1>3
  <2>. QED
    BY <1>0, <1>4, <2>3 DEF ReadyIsServed, GivesUpForCause
<1>5. CASE phase' = "ready"
  <2>1. ASSUME NEW n \in Names
        PROVE  LET heard == {p \in Probes : p[1] = n /\ answers[p].kind = "answered"}
               IN /\ heard # {}
                  /\ \A p \in heard : Expected[n] \subseteq serves[n][p[3]]
                  /\ \A s \in NsOf[n] : (\E p \in heard : p[2] = s) \/ AddrsOf[s] \subseteq lost
    <3>. DEFINE heard == {p \in Probes : p[1] = n /\ answers[p].kind = "answered"}
                Got(s) == {r \in AnswersOf(n, s) : r.kind = "answered"}
    <3>1. \A s \in NsOf[n] : Assess(n, s) \in {"ready", "unreachable"} /\ Reachable(n) # {}
      BY <1>5 DEF EndPass
    <3>2. ASSUME NEW s \in NsOf[n], NEW p \in live, p[1] = n, p[2] = s, answers[p] # NoRoute
          PROVE  /\ \E q \in heard : q[2] = s
                 /\ answers[p].kind = "answered" => Expected[n] \subseteq answers[p].seen
      <4>1. answers[p] \in AnswersOf(n, s)
        BY <3>2 DEF AnswersOf
      <4>2. Assess(n, s) = "ready"
        BY <3>1, <3>2, <4>1 DEF Assess
      <4>3. Got(s) # {} /\ \A r \in Got(s) : Expected[n] \subseteq r.seen
        BY <4>2 DEF Assess
      <4>4. PICK q \in live : q[1] = n /\ q[2] = s /\ answers[q].kind = "answered"
        BY <4>3 DEF AnswersOf
      <4>. QED
        BY <4>1, <4>3, <4>4
    <3>3. heard # {}
      <4>1. PICK p \in live : p[1] = n /\ answers[p] # NoRoute
        BY <3>1 DEF Reachable
      <4>2. p[2] \in NsOf[n]
        BY <4>1, ProbeFields
      <4>. QED
        BY <4>1, <4>2, <3>2
    <3>4. ASSUME NEW p \in heard PROVE Expected[n] \subseteq serves[n][p[3]]
      <4>1. p[2] \in NsOf[n] /\ p \in live /\ answers[p] # NoRoute /\ p[1] = n
        BY <1>2, ProbeFields
      <4>2. Expected[n] \subseteq answers[p].seen
        BY <4>1, <3>2
      <4>. QED
        BY <4>1, <4>2 DEF HeardIsServed
    <3>5. ASSUME NEW s \in NsOf[n]
          PROVE  (\E p \in heard : p[2] = s) \/ AddrsOf[s] \subseteq lost
      <4>1. CASE \A p \in live : p[1] = n /\ p[2] = s => answers[p] = NoRoute
        BY <4>1, <1>3
      <4>2. CASE \E p \in live : p[1] = n /\ p[2] = s /\ answers[p] # NoRoute
        BY <4>2, <3>2
      <4>. QED
        BY <4>1, <4>2
    <3>. QED
      BY <3>3, <3>4, <3>5
  <2>. QED
    BY <1>0, <1>5, <2>1 DEF ReadyIsServed, GivesUpForCause
<1>6. CASE phase' = "timeout"
  <2>1. PICK n \in Names, s \in Servers :
             s \in NsOf[n] /\ Assess(n, s) \in {"noanswer", "missing"}
    BY <1>6 DEF EndPass, Assess
  <2>2. PICK p \in live : /\ p[1] = n /\ p[2] = s /\ answers[p] # NoRoute
                          /\ \/ answers[p].kind # "answered"
                             \/ ~(Expected[n] \subseteq answers[p].seen)
    <3>1. CASE Assess(n, s) = "noanswer"
      <4>1. PICK r \in AnswersOf(n, s) : r # NoRoute /\ r.kind # "answered"
        BY <3>1 DEF Assess
      <4>. QED
        BY <4>1 DEF AnswersOf
    <3>2. CASE Assess(n, s) = "missing"
      <4>1. PICK r \in AnswersOf(n, s) : r.kind = "answered" /\ ~(Expected[n] \subseteq r.seen)
        BY <3>2 DEF Assess
      <4>2. r # NoRoute
        BY <4>1 DEF NoRoute
      <4>. QED
        BY <4>1, <4>2 DEF AnswersOf
    <3>. QED
      BY <2>1, <3>1, <3>2
  <2>3. answers[p] = Failed \/ ~(Expected[p[1]] \subseteq answers[p].seen)
    BY <2>2, <1>1, Kinds
  <2>. QED
    BY <1>0, <1>6, <2>2, <2>3 DEF ReadyIsServed, GivesUpForCause
<1>7. CASE phase' = "sleeping"
  BY <1>7 DEF ReadyIsServed, GivesUpForCause
<1>. QED
  BY <1>4, <1>5, <1>6, <1>7 DEF EndPass

\* A verdict is final, and before it nothing is claimed.
LEMMA VerdictStep ==
    TypeInv /\ ReadyIsServed /\ GivesUpForCause /\ [Next]_vars
        => ReadyIsServed' /\ GivesUpForCause'
<1>. SUFFICES ASSUME TypeInv, ReadyIsServed, GivesUpForCause, [Next]_vars
              PROVE  ReadyIsServed' /\ GivesUpForCause'
  OBVIOUS
<1>1. ASSUME phase' \notin Results PROVE ReadyIsServed' /\ GivesUpForCause'
  BY <1>1 DEF Results, ReadyIsServed, GivesUpForCause
<1>2. CASE EndPass
  BY <1>2, EndPassStep
<1>3. CASE Probe \/ NextPass \/ Tick \/ CatchUp \/ Reroute
  BY <1>1, <1>3 DEF Probe, NextPass, Tick, CatchUp, Reroute, Results, wait
<1>4. CASE UNCHANGED vars
  BY <1>4 DEF vars, wait, world, ReadyIsServed, GivesUpForCause
<1>. QED
  BY <1>2, <1>3, <1>4 DEF Next, Done

\* Every step keeps to the deadline.
LEMMA OnTimeStep == TypeInv /\ OnTime /\ EndsInTime /\ [Next]_vars => OnTime' /\ EndsInTime'
<1>. SUFFICES ASSUME TypeInv, OnTime, EndsInTime, [Next]_vars PROVE OnTime' /\ EndsInTime'
  OBVIOUS
<1>. USE WaitAssumption DEF TypeInv, TypeOK, OnTime, EndsInTime, Results, wait, world
<1>1. CASE Probe
  BY <1>1 DEF Probe
<1>2. CASE EndPass
  <2>1. now' = now /\ phase' \in Results \union {"sleeping"}
    BY <1>2 DEF EndPass
  <2>2. phase' = "sleeping" => now < Timeout /\ until' = now + PollInterval
    BY <1>2 DEF EndPass
  <2>. QED
    BY <2>1, <2>2
<1>3. CASE NextPass
  BY <1>3 DEF NextPass
<1>4. CASE Tick
  BY <1>4 DEF Tick
<1>5. CASE CatchUp \/ Reroute
  BY <1>5 DEF CatchUp, Reroute
<1>6. CASE UNCHANGED vars
  BY <1>6 DEF vars
<1>. QED
  BY <1>1, <1>2, <1>3, <1>4, <1>5, <1>6 DEF Next, Done

-----------------------------------------------------------------------------
(* The theorems.                                                           *)

\* Types, and what answers say of the world, hold at every time.
LEMMA TypeInvariant == Spec => []TypeInv
<1>1. Init => TypeInv
  <2>. SUFFICES ASSUME Init PROVE TypeInv
    OBVIOUS
  <2>1. TypeOK
    BY WaitAssumption DEF Init, TypeOK, Results
  <2>2. HeardIsServed
    BY DEF Init, HeardIsServed, Failed
  <2>3. NoRouteIsLost
    BY DEF Init, NoRouteIsLost, Failed, NoRoute
  <2>. QED
    BY <2>1, <2>2, <2>3 DEF TypeInv
<1>. QED
  BY <1>1, TypeInvStep, PTL DEF Spec

\* The wait and the world keep their types, and what the wait knows is true.
THEOREM PropagationTypeCorrect == Spec => []TypeOK
<1>1. TypeInv => TypeOK
  BY DEF TypeInv
<1>. QED
  BY <1>1, TypeInvariant, PTL

\* So do both verdicts.
LEMMA Verdicts == Spec => [](ReadyIsServed /\ GivesUpForCause)
<1>1. Init => ReadyIsServed /\ GivesUpForCause
  BY DEF Init, ReadyIsServed, GivesUpForCause
<1>. QED
  BY <1>1, VerdictStep, TypeInvariant, PTL DEF Spec

\* A wait that reports success has seen every value at every server it can
\* reach, and each name has one: for any addresses that answer, fall silent or
\* lose their route, in any order.
THEOREM SuccessIsServed == Spec => []ReadyIsServed
  BY Verdicts, PTL

\* Only a name whose every address lost its route ends the wait early, and only
\* a server that is silent or behind makes it run out of time.
THEOREM FailureHasCause == Spec => []GivesUpForCause
  BY Verdicts, PTL

\* No server and no number of them makes the wait longer than its timeout, one
\* sleep and one pass.
THEOREM WaitIsBounded == Spec => []EndsInTime
<1>1. Init => OnTime /\ EndsInTime
  BY WaitAssumption DEF Init, OnTime, EndsInTime
<1>. QED
  BY <1>1, OnTimeStep, TypeInvariant, PTL DEF Spec

-----------------------------------------------------------------------------
(* Delegation: who has called whom, and what the walk may stand on.        *)

\* Whom a call answers: the name it was asked about.
Asked(f) == IF f.proc = "top" THEN Target ELSE f.name

\* Who has called whom.
Chain ==
    /\ \A k \in 1..Len(stack) :
           /\ stack[k].proc = "top" <=> k = 1
           /\ stack[k].proc = "host" => stack[k].name \in Hosts
    /\ \A k \in 1..(Len(stack) - 1) :
           LET f == stack[k]
               g == stack[k + 1]
           IN /\ g.proc = "walk" =>
                     f.proc # "walk" /\ f.at = "ask" /\ g.name = Asked(f)
              /\ g.proc = "host" =>
                     /\ f.at = "resolve"
                     /\ f.proc = "top" => g.name = f.name /\ g.depth = 1

\* Nothing leads sideways: walks stand on zones that enclose their names, and
\* the call that waits for an answer gets one about what it asked.
WalksEnclose ==
    \A k \in 1..Len(stack) :
        stack[k].proc = "walk" =>
            stack[k].zone = NoZone \/ Encloses(stack[k].zone, stack[k].name)

AnswersFit ==
    stack # <<>> =>
        /\ Here.proc # "walk" /\ Here.at = "ask" /\ ret.kind = "zone" =>
               Encloses(ret.zone, Asked(Here))
        /\ Here.proc = "top" /\ Here.at = "resolve" /\ ret.kind = "addrs" =>
               ret.addrs \subseteq HostAddrs[Here.name]

Looking == Len(stack) > 1 \/ ret # Nothing

TopHolds ==
    stack # <<>> /\ stack[1].at = "resolve" =>
        /\ stack[1].zone \in Zones /\ Encloses(stack[1].zone, Target)
        /\ stack[1].trying \subseteq Nameservers[stack[1].zone]
        /\ Looking => stack[1].name \in Nameservers[stack[1].zone]

WalkInv ==
    /\ WalkTypeOK /\ Chain /\ WalksEnclose /\ AnswersFit /\ TopHolds
    /\ ServersEncloseTarget

\* What the walk to a plain name holds on to as long as nothing fails.
Standing(f) ==
    IF f.zone = NoZone
    THEN f.hops = 0 /\ f.servers = RootHints
    ELSE /\ f.hops <= Len(f.zone)
         /\ Glued[f.zone] # {} /\ f.servers = NsAddrs(Glued[f.zone])

GoesStraight(f) ==
    f.proc # "top" /\ Plain(f.name) =>
        /\ f.at # "resolve"
        /\ f.at = "call" => f.zone = NoZone /\ f.hops = 0
        /\ f.proc = "walk" /\ f.at = "ask" => Standing(f)

PlainGoStraight == \A k \in 1..Len(stack) : GoesStraight(stack[k])

PlainAnswers ==
    stack # <<>> =>
        /\ Here.proc # "walk" /\ Here.at = "ask" /\ ret # Nothing
             /\ Plain(Asked(Here)) => ret = ZoneFound(CutOf(Asked(Here)))
        /\ Here.proc = "host" /\ Here.at = "ask" /\ ret = Nothing
             /\ Plain(Here.name) => Here.servers = NsAddrs(Glued[CutOf(Here.name)])
        /\ Here.proc = "top" /\ Here.at = "resolve" /\ ret # Nothing
             /\ Plain(Here.name) => ret = AddrsFound(HostAddrs[Here.name])

Collecting ==
    stack # <<>> /\ stack[1].at = "resolve" =>
        /\ stack[1].zone = Cut
        /\ \A ns \in Nameservers[Cut] \ stack[1].trying :
              ns \in Glued[Cut] \/ Plain(ns) =>
                  \/ HostAddrs[ns] \subseteq Known
                  \/ /\ Looking /\ ns = stack[1].name
                     /\ ns \notin Glued[Cut]

CutInv ==
    faults = 0 /\ Plain(Target) =>
        PlainGoStraight /\ PlainAnswers /\ Collecting /\ FindsTheCut

-----------------------------------------------------------------------------
(* Names and zones.                                                        *)

\* Names and zones are sequences of labels.
LEMMA NamesAre ==
    /\ \A z \in Zones : z \in Seq(STRING)
    /\ \A n \in Hosts \union {Target} : n \in Seq(STRING)
  BY TreeAssumption

\* What encloses a name is one chain.
LEMMA EnclosesChain ==
    ASSUME NEW a \in Seq(STRING), NEW b \in Seq(STRING), NEW n \in Seq(STRING),
           Encloses(a, n), Encloses(b, n), Len(a) <= Len(b)
    PROVE  Encloses(a, b)
<1>1. /\ Len(a) \in Nat /\ Len(b) \in Nat /\ Len(n) \in Nat /\ Len(b) <= Len(n)
      /\ SubSeq(n, 1, Len(a)) = a /\ SubSeq(n, 1, Len(b)) = b
  BY DEF Encloses
<1>2. CASE Len(a) = 0
  <2>1. a = <<>>
    BY <1>2, EmptySeq
  <2>2. SubSeq(b, 1, 0) = <<>>
    BY SubSeqEmpty
  <2>. QED
    BY <1>1, <1>2, <2>1, <2>2 DEF Encloses
<1>3. CASE Len(a) # 0
  <2>1. /\ 1 \in 1..Len(n) /\ Len(b) \in 1..Len(n)
        /\ 1 \in 1..(Len(b) - 1 + 1) /\ Len(a) \in 1..(Len(b) - 1 + 1)
    BY <1>1, <1>3
  <2>2. SubSeq(SubSeq(n, 1, Len(b)), 1, Len(a)) = SubSeq(n, 1 + 1 - 1, 1 + Len(a) - 1)
    BY <2>1, SubSeqOfSubSeq
  <2>3. 1 + 1 - 1 = 1 /\ 1 + Len(a) - 1 = Len(a)
    BY <1>1
  <2>4. SubSeq(b, 1, Len(a)) = a
    BY <1>1, <2>2, <2>3
  <2>. QED
    BY <2>4 DEF Encloses
<1>. QED
  BY <1>2, <1>3

\* One zone of each length encloses a name.
LEMMA SameLength ==
    ASSUME NEW a, NEW b, NEW n, Encloses(a, n), Encloses(b, n), Len(a) = Len(b)
    PROVE  a = b
  BY DEF Encloses

\* Of some numbers one is the least.
LEMMA LeastIsThere ==
    ASSUME NEW T \in SUBSET Nat, T # {}
    PROVE  \E m \in T : \A k \in T : m <= k
<1>1. PICK m \in T : \A k \in T : ~(<<k, m>> \in OpToRel(<, Nat))
  BY WFMin, NatLessThanWellFounded, Zenon
<1>2. \A k \in T : ~(k < m)
  <2>1. ASSUME NEW k \in T PROVE ~(k < m)
    <3>1. k \in Nat /\ m \in Nat /\ ~(<<k, m>> \in OpToRel(<, Nat))
      BY <1>1, Zenon
    <3>. QED
      BY <3>1, Zenon DEF OpToRel
  <2>. QED
    BY <2>1, Zenon
<1>. QED
  BY <1>2

\* Of some zones there is a shortest.
LEMMA ShortestIsThere ==
    ASSUME NEW S \in SUBSET Zones, S # {}
    PROVE  Shallowest(S) \in S /\ \A y \in S : Len(Shallowest(S)) <= Len(y)
<1>. DEFINE lens == {Len(z) : z \in S}
<1>1. lens \in SUBSET Nat /\ lens # {}
  <2>1. \A z \in S : Len(z) \in Nat
    BY NamesAre, LenProperties
  <2>. QED
    BY <2>1
<1>2. PICK m \in lens : \A k \in lens : m <= k
  <2>. HIDE DEF lens
  <2>. QED
    BY <1>1, LeastIsThere
<1>3. PICK z \in S : m = Len(z)
  OBVIOUS
<1>4. \A y \in S : Len(z) <= Len(y)
  BY <1>2, <1>3
<1>. QED
  BY <1>4 DEF Shallowest

\* Of some zones around a name there is a deepest.
LEMMA DeepestIsThere ==
    ASSUME NEW n \in Hosts \union {Target}, NEW S \in SUBSET Zones, S # {},
           \A z \in S : Encloses(z, n)
    PROVE  Deepest(S) \in S /\ \A y \in S : Len(y) <= Len(Deepest(S))
<1>. DEFINE lens == {Len(n) - Len(z) : z \in S}
<1>1. \A z \in S : Len(z) \in Nat /\ Len(n) \in Nat /\ Len(z) <= Len(n)
  BY NamesAre, LenProperties DEF Encloses
<1>2. lens \in SUBSET Nat /\ lens # {}
  BY <1>1
<1>3. PICK m \in lens : \A k \in lens : m <= k
  <2>. HIDE DEF lens
  <2>. QED
    BY <1>2, LeastIsThere
<1>4. PICK z \in S : m = Len(n) - Len(z)
  OBVIOUS
<1>5. \A y \in S : Len(y) <= Len(z)
  <2>1. ASSUME NEW y \in S PROVE Len(y) <= Len(z)
    <3>1. Len(n) - Len(y) \in lens
      OBVIOUS
    <3>2. m <= Len(n) - Len(y)
      BY <1>3, <3>1, Zenon
    <3>. HIDE DEF lens
    <3>. QED
      BY <1>1, <1>4, <3>2
  <2>. QED
    BY <2>1
<1>. QED
  BY <1>5 DEF Deepest

\* The zone no other zone around the name is deeper than is its cut.
LEMMA CutIs ==
    ASSUME NEW n \in Hosts \union {Target}, NEW z \in Zones, Encloses(z, n),
           \A y \in Zones : Encloses(y, n) => Len(y) <= Len(z)
    PROVE  CutOf(n) = z
<1>. DEFINE S == {y \in Zones : Encloses(y, n)}
            c == CHOOSE x \in S : \A y \in S : Len(y) <= Len(x)
<1>1. z \in S /\ \A y \in S : Len(y) <= Len(z)
  OBVIOUS
<1>2. c \in S /\ \A y \in S : Len(y) <= Len(c)
  <2>. HIDE DEF S
  <2>. QED
    BY <1>1
<1>3. Len(c) \in Nat /\ Len(z) \in Nat
  BY <1>1, <1>2, NamesAre
<1>4. Len(c) = Len(z)
  BY <1>1, <1>2, <1>3
<1>5. c = z
  BY <1>1, <1>2, <1>4, SameLength
<1>. QED
  BY <1>5 DEF CutOf, Deepest

-----------------------------------------------------------------------------
(* The stack of calls.                                                     *)

\* The stack is a sequence of calls, the last one on top.
LEMMA StackIs ==
    ASSUME stack \in Seq(Frames)
    PROVE  /\ Len(stack) \in Nat /\ (stack # <<>> <=> Len(stack) > 0)
           /\ \A k \in 1..Len(stack) : stack[k] \in Frames
           /\ stack # <<>> => Here \in Frames /\ Here = stack[Len(stack)]
           /\ stack # <<>> =>
                  Len(stack) = 1 \/ (Len(stack) > 1 /\ 1 \in 1..(Len(stack) - 1))
<1>1. Len(stack) \in Nat /\ (stack # <<>> <=> Len(stack) > 0)
  BY EmptySeq, LenProperties
<1>2. \A k \in 1..Len(stack) : stack[k] \in Frames
  BY ElementOfSeq
<1>3. \A n \in Nat : n > 0 => n = 1 \/ (n > 1 /\ 1 \in 1..(n - 1))
  OBVIOUS
<1>4. stack # <<>> => Len(stack) \in 1..Len(stack)
  BY <1>1
<1>5. stack # <<>> =>
          Len(stack) = 1 \/ (Len(stack) > 1 /\ 1 \in 1..(Len(stack) - 1))
  BY <1>1, <1>3, Zenon
<1>6. stack # <<>> => Here \in Frames /\ Here = stack[Len(stack)]
  BY <1>2, <1>4, Zenon DEF Here
<1>. QED
  BY <1>1, <1>2, <1>5, <1>6, Zenon

\* The call on top goes on.
LEMMA BecomeIs ==
    ASSUME stack \in Seq(Frames), stack # <<>>, NEW f \in Frames, Become(f)
    PROVE  /\ stack' \in Seq(Frames) /\ Len(stack') = Len(stack)
           /\ stack'[Len(stack)] = f
           /\ \A k \in 1..(Len(stack) - 1) : stack'[k] = stack[k]
<1>1. Len(stack) \in 1..Len(stack) /\ Len(stack) \in Nat
  BY StackIs
<1>2. /\ stack' \in Seq(Frames) /\ Len(stack') = Len(stack)
      /\ \A k \in 1..Len(stack) :
             stack'[k] = IF k = Len(stack) THEN f ELSE stack[k]
  BY <1>1, ExceptSeq DEF Become
<1>. QED
  BY <1>1, <1>2

\* What is below the call on top.
LEMMA BelowIs ==
    ASSUME stack \in Seq(Frames), stack # <<>>
    PROVE  LET below == SubSeq(stack, 1, Len(stack) - 1)
           IN /\ below \in Seq(Frames) /\ Len(below) = Len(stack) - 1
              /\ \A k \in 1..(Len(stack) - 1) : below[k] = stack[k]
<1>. DEFINE n == Len(stack) - 1
            below == SubSeq(stack, 1, n)
<1>1. n \in Nat /\ n \in Int /\ 1 \in Int
  BY StackIs
<1>2. \A k \in 1..n : stack[k] \in Frames
  BY StackIs
<1>. HIDE DEF n
<1>3. /\ below \in Seq(Frames)
      /\ Len(below) = IF 1 <= n THEN n - 1 + 1 ELSE 0
      /\ \A k \in 1..(n - 1 + 1) : below[k] = stack[1 + k - 1]
  BY <1>1, <1>2, SubSeqProperties
<1>. HIDE DEF below
<1>4. Len(below) = n
  BY <1>1, <1>3
<1>5. \A k \in 1..n : below[k] = stack[k]
  <2>1. ASSUME NEW k \in 1..n PROVE below[k] = stack[k]
    <3>1. k \in 1..(n - 1 + 1) /\ 1 + k - 1 = k
      BY <1>1
    <3>. QED
      BY <1>3, <3>1
  <2>. QED
    BY <2>1
<1>. QED
  BY <1>3, <1>4, <1>5 DEF n, below

\* It returns to the call below it.
LEMMA ReturnIs ==
    ASSUME stack \in Seq(Frames), stack # <<>>, NEW v, Return(v)
    PROVE  /\ stack' \in Seq(Frames) /\ Len(stack') = Len(stack) - 1
           /\ \A k \in 1..(Len(stack) - 1) : stack'[k] = stack[k]
           /\ ret' = v
<1>. DEFINE below == SubSeq(stack, 1, Len(stack) - 1)
<1>1. stack' = below /\ ret' = v
  BY DEF Return
<1>2. /\ below \in Seq(Frames) /\ Len(below) = Len(stack) - 1
      /\ \A k \in 1..(Len(stack) - 1) : below[k] = stack[k]
  BY BelowIs
<1>. HIDE DEF below
<1>. QED
  BY <1>1, <1>2

\* It calls another one and waits for it.
LEMMA CallIs ==
    ASSUME stack \in Seq(Frames), stack # <<>>, NEW f \in Frames,
           NEW g \in Frames, Call(f, g)
    PROVE  /\ stack' \in Seq(Frames) /\ Len(stack') = Len(stack) + 1
           /\ stack'[Len(stack)] = f /\ stack'[Len(stack) + 1] = g
           /\ \A k \in 1..(Len(stack) - 1) : stack'[k] = stack[k]
<1>. DEFINE below == SubSeq(stack, 1, Len(stack) - 1)
            waiting == Append(below, f)
<1>1. Len(stack) \in Nat /\ Len(stack) > 0
  BY StackIs
<1>2. /\ below \in Seq(Frames) /\ Len(below) = Len(stack) - 1
      /\ \A k \in 1..(Len(stack) - 1) : below[k] = stack[k]
  BY BelowIs
<1>3. stack' = waiting \o <<g>>
  BY DEF Call
<1>. HIDE DEF below
<1>4. /\ waiting \in Seq(Frames) /\ Len(waiting) = Len(stack)
      /\ \A k \in 1..(Len(stack) - 1) : waiting[k] = stack[k]
      /\ waiting[Len(stack)] = f
  BY <1>1, <1>2, AppendProperties
<1>. HIDE DEF waiting
<1>5. /\ <<g>> \in Seq(Frames) /\ Len(<<g>>) = 1 /\ <<g>>[1] = g
  OBVIOUS
<1>6. /\ stack' \in Seq(Frames) /\ Len(stack') = Len(stack) + 1
      /\ \A k \in 1..(Len(stack) + 1) :
             stack'[k] = IF k <= Len(stack) THEN waiting[k]
                         ELSE <<g>>[k - Len(stack)]
  BY <1>3, <1>4, <1>5, ConcatProperties
<1>. QED
  BY <1>1, <1>4, <1>5, <1>6

Lower == \A k \in 1..(Len(stack) - 1) : stack'[k] = stack[k]
Stays(f) == /\ stack' \in Seq(Frames) /\ Len(stack') = Len(stack)
            /\ stack'[Len(stack)] = f /\ Lower
Ends(v) == stack' \in Seq(Frames) /\ Len(stack') = Len(stack) - 1 /\ Lower /\ ret' = v
Calls(f, g) == /\ stack' \in Seq(Frames) /\ Len(stack') = Len(stack) + 1
               /\ stack'[Len(stack)] = f /\ stack'[Len(stack) + 1] = g /\ Lower

\* The same call, further on.
Same(f, g) ==
    /\ f.proc = g.proc
    /\ f.proc = "top" \/ (f.name = g.name /\ f.depth = g.depth)
\* What a walk, and what the outermost call, may become.
ZoneFits(f) == f.proc = "walk" => f.zone = NoZone \/ Encloses(f.zone, f.name)
TopFits(f) ==
    f.proc = "top" /\ f.at = "resolve" =>
        /\ f.zone \in Zones /\ Encloses(f.zone, Target)
        /\ f.trying \subseteq Nameservers[f.zone]

Fit == Chain /\ WalksEnclose /\ AnswersFit /\ TopHolds

\* The call on top goes on, as a call of the same kind about the same name.
LEMMA StaysFit ==
    ASSUME WalkTypeOK, Fit, stack # <<>>, NEW f \in Frames, Stays(f),
           Same(f, Here), ZoneFits(f), TopFits(f),
           f.proc = "walk" \/ ret' = Nothing
    PROVE  Fit'
<1>1. /\ Len(stack) \in Nat /\ Len(stack) > 0 /\ Here = stack[Len(stack)]
      /\ stack \in Seq(Frames)
  BY StackIs DEF WalkTypeOK
<1>2. /\ Len(stack') = Len(stack) /\ stack' # <<>> /\ Here' = f
      /\ stack'[Len(stack)] = f
      /\ \A k \in 1..(Len(stack) - 1) : stack'[k] = stack[k]
  BY <1>1, EmptySeq DEF Stays, Lower, Here
<1>3. \A k \in 1..Len(stack) : k = Len(stack) \/ k \in 1..(Len(stack) - 1)
  BY <1>1
<1>4. Here.proc = "top" <=> Len(stack) = 1
  <2>1. Len(stack) \in 1..Len(stack)
    BY <1>1
  <2>2. \A k \in 1..Len(stack) : stack[k].proc = "top" <=> k = 1
    BY DEF Fit, Chain
  <2>. QED
    BY <1>1, <2>1, <2>2
<1>5. Chain'
  <2>1. ASSUME NEW k \in 1..Len(stack)
        PROVE  /\ stack'[k].proc = "top" <=> k = 1
               /\ stack'[k].proc = "host" => stack'[k].name \in Hosts
    BY <1>1, <1>2, <1>3 DEF Fit, Chain, Same
  <2>2. ASSUME NEW k \in 1..(Len(stack) - 1)
        PROVE  LET a == stack'[k]
                   b == stack'[k + 1]
               IN /\ b.proc = "walk" =>
                         a.proc # "walk" /\ a.at = "ask" /\ b.name = Asked(a)
                  /\ b.proc = "host" =>
                         /\ a.at = "resolve"
                         /\ a.proc = "top" => b.name = a.name /\ b.depth = 1
    <3>1. CASE k + 1 = Len(stack)
      <4>1. stack'[k] = stack[k] /\ stack'[k + 1] = f /\ stack[k + 1] = Here
        BY <1>1, <1>2, <3>1
      <4>2. f.proc # "top" /\ f.proc = Here.proc /\ f.name = Here.name
            /\ f.depth = Here.depth
        BY <1>1, <1>4, <3>1 DEF Same
      <4>. QED
        BY <4>1, <4>2 DEF Fit, Chain, Asked
    <3>2. CASE k + 1 # Len(stack)
      <4>1. stack'[k] = stack[k] /\ stack'[k + 1] = stack[k + 1]
        BY <1>1, <1>2, <3>2
      <4>. QED
        BY <4>1 DEF Fit, Chain, Asked
    <3>. QED
      BY <3>1, <3>2
  <2>. QED
    BY <1>2, <2>1, <2>2 DEF Chain, Asked
<1>6. WalksEnclose'
  <2>1. ASSUME NEW k \in 1..Len(stack), stack'[k].proc = "walk"
        PROVE  stack'[k].zone = NoZone \/ Encloses(stack'[k].zone, stack'[k].name)
    BY <1>2, <1>3, <2>1 DEF Fit, WalksEnclose, ZoneFits
  <2>. QED
    BY <1>2, <2>1 DEF WalksEnclose
<1>7. AnswersFit'
  BY <1>2 DEF AnswersFit, Nothing
<1>8. TopHolds'
  <2>1. CASE Len(stack) = 1
    <3>1. stack'[1] = f /\ Len(stack') = 1
      BY <1>2, <2>1
    <3>2. f.proc = "top" /\ ret' = Nothing
      BY <1>4, <2>1 DEF Same
    <3>. QED
      BY <3>1, <3>2 DEF TopHolds, TopFits, Looking
  <2>2. CASE Len(stack) # 1
    <3>1. stack'[1] = stack[1] /\ Len(stack') > 1 /\ Len(stack) > 1
      BY <1>1, <1>2, <2>2
    <3>. QED
      BY <1>2, <3>1 DEF Fit, TopHolds, Looking
  <2>. QED
    BY <2>1, <2>2
<1>. QED
  BY <1>5, <1>6, <1>7, <1>8 DEF Fit

\* A call that returns answers what it was asked.
AnswerFits(v) ==
    /\ v.kind = "zone" =>
           Here.proc = "top" \/ (Here.proc = "walk" /\ Encloses(v.zone, Here.name))
    /\ v.kind = "addrs" => Here.proc = "host" /\ v.addrs \subseteq HostAddrs[Here.name]

\* It returns an answer about what it was asked.
LEMMA EndsFit ==
    ASSUME WalkTypeOK, Fit, stack # <<>>, NEW v, Ends(v), AnswerFits(v)
    PROVE  Fit'
<1>1. /\ Len(stack) \in Nat /\ Len(stack) > 0 /\ Here = stack[Len(stack)]
      /\ stack \in Seq(Frames)
  BY StackIs DEF WalkTypeOK
<1>2. /\ Len(stack') = Len(stack) - 1 /\ ret' = v
      /\ \A k \in 1..(Len(stack) - 1) : stack'[k] = stack[k]
      /\ stack' # <<>> <=> Len(stack) > 1
      /\ Here' = stack'[Len(stack')]
  BY <1>1, EmptySeq DEF Ends, Lower, Here
<1>3. Chain'
  <2>1. \A k \in 1..(Len(stack) - 1) :
            /\ stack'[k].proc = "top" <=> k = 1
            /\ stack'[k].proc = "host" => stack'[k].name \in Hosts
    BY <1>1, <1>2 DEF Fit, Chain
  <2>2. ASSUME NEW k \in 1..((Len(stack) - 1) - 1)
        PROVE  /\ stack'[k] = stack[k] /\ stack'[k + 1] = stack[k + 1]
               /\ k \in 1..(Len(stack) - 1)
    BY <1>1, <1>2
  <2>. QED
    BY <1>2, <2>1, <2>2 DEF Fit, Chain, Asked
<1>4. WalksEnclose'
  <2>1. \A k \in 1..(Len(stack) - 1) : k \in 1..Len(stack)
    BY <1>1
  <2>. QED
    BY <1>2, <2>1 DEF Fit, WalksEnclose
<1>5. AnswersFit'
  <2>1. SUFFICES ASSUME Len(stack) > 1
                 PROVE  /\ Here'.proc # "walk" /\ Here'.at = "ask" /\ v.kind = "zone"
                               => Encloses(v.zone, Asked(Here)')
                        /\ Here'.proc = "top" /\ Here'.at = "resolve"
                               /\ v.kind = "addrs"
                               => v.addrs \subseteq HostAddrs[Here'.name]
    BY <1>2 DEF AnswersFit
  <2>. DEFINE k == Len(stack) - 1
  <2>2. /\ k \in 1..(Len(stack) - 1) /\ k + 1 = Len(stack) /\ Here' = stack[k]
        /\ stack[k + 1] = Here /\ Here.proc # "top"
    BY <1>1, <1>2, <2>1 DEF Fit, Chain
  <2>. HIDE DEF k
  <2>3. LET a == stack[k]
        IN /\ Here.proc = "walk" => Here.name = Asked(a)
           /\ Here.proc = "host" => /\ a.at = "resolve"
                                    /\ a.proc = "top" => Here.name = a.name
    BY <2>2 DEF Fit, Chain
  <2>. QED
    BY <2>2, <2>3 DEF AnswerFits, Asked
<1>6. TopHolds'
  <2>1. CASE Len(stack) = 1
    BY <1>2, <2>1 DEF TopHolds
  <2>2. CASE Len(stack) # 1
    <3>1. stack'[1] = stack[1] /\ Len(stack) > 1
      BY <1>1, <1>2, <2>2
    <3>. QED
      BY <1>2, <3>1 DEF Fit, TopHolds, Looking
  <2>. QED
    BY <2>1, <2>2
<1>. QED
  BY <1>3, <1>4, <1>5, <1>6 DEF Fit

\* A caller waits for a call of the right kind.
CallFits(f, g) ==
    \/ /\ g.proc = "walk" /\ f.proc # "walk" /\ f.at = "ask" /\ g.name = Asked(f)
    \/ /\ g.proc = "host" /\ f.at = "resolve" /\ g.name \in Hosts
       /\ f.proc = "top" => /\ g.name = f.name /\ g.depth = 1
                            /\ g.name \in Nameservers[f.zone]

\* It waits for a new call about what it asks.
LEMMA CallsFit ==
    ASSUME WalkTypeOK, Fit, stack # <<>>, NEW f \in Frames, NEW g \in Frames,
           Calls(f, g), Same(f, Here), ZoneFits(f), TopFits(f), CallFits(f, g),
           g.at = "call", g.zone = NoZone
    PROVE  Fit'
<1>1. /\ Len(stack) \in Nat /\ Len(stack) > 0 /\ Here = stack[Len(stack)]
      /\ stack \in Seq(Frames)
  BY StackIs DEF WalkTypeOK
<1>2. /\ Len(stack') = Len(stack) + 1 /\ stack' # <<>> /\ Here' = g
      /\ stack'[Len(stack)] = f /\ stack'[Len(stack) + 1] = g
      /\ \A k \in 1..(Len(stack) - 1) : stack'[k] = stack[k]
  BY <1>1, EmptySeq DEF Calls, Lower, Here
<1>3. \A k \in 1..(Len(stack) + 1) : \/ k = Len(stack) + 1 \/ k = Len(stack)
                                     \/ k \in 1..(Len(stack) - 1)
  BY <1>1
<1>4. Here.proc = "top" <=> Len(stack) = 1
  <2>1. Len(stack) \in 1..Len(stack)
    BY <1>1
  <2>2. \A k \in 1..Len(stack) : stack[k].proc = "top" <=> k = 1
    BY DEF Fit, Chain
  <2>. QED
    BY <1>1, <2>1, <2>2
<1>5. Chain'
  <2>1. ASSUME NEW k \in 1..(Len(stack) + 1)
        PROVE  /\ stack'[k].proc = "top" <=> k = 1
               /\ stack'[k].proc = "host" => stack'[k].name \in Hosts
    <3>1. CASE k = Len(stack) + 1
      BY <1>1, <1>2, <3>1 DEF CallFits
    <3>2. CASE k = Len(stack)
      BY <1>1, <1>2, <1>4, <3>2 DEF Fit, Chain, Same
    <3>3. CASE k \in 1..(Len(stack) - 1)
      <4>1. k \in 1..Len(stack) /\ stack'[k] = stack[k]
        BY <1>1, <1>2, <3>3
      <4>. QED
        BY <4>1 DEF Fit, Chain
    <3>. QED
      BY <1>3, <3>1, <3>2, <3>3
  <2>2. ASSUME NEW k \in 1..Len(stack)
        PROVE  LET a == stack'[k]
                   b == stack'[k + 1]
               IN /\ b.proc = "walk" =>
                         a.proc # "walk" /\ a.at = "ask" /\ b.name = Asked(a)
                  /\ b.proc = "host" =>
                         /\ a.at = "resolve"
                         /\ a.proc = "top" => b.name = a.name /\ b.depth = 1
    <3>1. CASE k = Len(stack)
      BY <1>2, <3>1 DEF CallFits
    <3>2. CASE k + 1 = Len(stack)
      <4>1. /\ stack'[k] = stack[k] /\ stack'[k + 1] = f /\ stack[k + 1] = Here
            /\ k \in 1..(Len(stack) - 1)
        BY <1>1, <1>2, <3>2
      <4>2. f.proc # "top" /\ f.proc = Here.proc /\ f.name = Here.name
            /\ f.depth = Here.depth
        BY <1>1, <1>4, <3>2 DEF Same
      <4>. QED
        BY <4>1, <4>2 DEF Fit, Chain, Asked
    <3>3. CASE k # Len(stack) /\ k + 1 # Len(stack)
      <4>1. /\ stack'[k] = stack[k] /\ stack'[k + 1] = stack[k + 1]
            /\ k \in 1..(Len(stack) - 1)
        BY <1>1, <1>2, <3>3
      <4>. QED
        BY <4>1 DEF Fit, Chain, Asked
    <3>. QED
      BY <3>1, <3>2, <3>3
  <2>3. (Len(stack) + 1) - 1 = Len(stack)
    BY <1>1
  <2>. QED
    BY <1>2, <2>1, <2>2, <2>3 DEF Chain, Asked
<1>6. WalksEnclose'
  <2>1. ASSUME NEW k \in 1..(Len(stack) + 1), stack'[k].proc = "walk"
        PROVE  stack'[k].zone = NoZone \/ Encloses(stack'[k].zone, stack'[k].name)
    <3>1. CASE k \in 1..(Len(stack) - 1)
      <4>1. k \in 1..Len(stack) /\ stack'[k] = stack[k]
        BY <1>1, <1>2, <3>1
      <4>. QED
        BY <2>1, <4>1 DEF Fit, WalksEnclose
    <3>. QED
      BY <1>2, <1>3, <2>1, <3>1 DEF ZoneFits
  <2>. QED
    BY <1>2, <2>1 DEF WalksEnclose
<1>7. AnswersFit'
  BY <1>2 DEF AnswersFit
<1>8. TopHolds'
  <2>1. CASE Len(stack) = 1
    <3>1. stack'[1] = f /\ f.proc = "top"
      BY <1>2, <1>4, <2>1 DEF Same
    <3>2. f.at = "resolve" =>
              /\ f.zone \in Zones /\ Encloses(f.zone, Target)
              /\ f.trying \subseteq Nameservers[f.zone]
              /\ f.name \in Nameservers[f.zone]
      BY <3>1 DEF TopFits, CallFits
    <3>3. stack'[1].at = "resolve" =>
              /\ stack'[1].zone \in Zones /\ Encloses(stack'[1].zone, Target)
              /\ stack'[1].trying \subseteq Nameservers[stack'[1].zone]
              /\ stack'[1].name \in Nameservers[stack'[1].zone]
      BY <3>1, <3>2
    <3>. QED
      BY <3>3 DEF TopHolds, Looking
  <2>2. CASE Len(stack) # 1
    <3>0. Len(stack) > 1 /\ 1 \in 1..(Len(stack) - 1)
      BY StackIs, <2>2, Zenon DEF WalkTypeOK
    <3>1. stack'[1] = stack[1] /\ Len(stack) > 1
      BY <1>2, <3>0
    <3>. QED
      BY <1>2, <3>1 DEF Fit, TopHolds, Looking
  <2>. QED
    BY <2>1, <2>2
<1>. QED
  BY <1>5, <1>6, <1>7, <1>8 DEF Fit

-----------------------------------------------------------------------------
(* The data: what the delegations hold.                                    *)

\* Nameservers, glue and addresses are those of the tree.
LEMMA DataAre ==
    /\ \A z \in Zones : /\ Nameservers[z] \subseteq Hosts
                        /\ Glued[z] \subseteq Hosts
    /\ \A n \in Hosts : HostAddrs[n] \subseteq AllAddrs
    /\ \A S \in SUBSET Hosts : NsAddrs(S) \subseteq AllAddrs
    /\ RootHints \subseteq AllAddrs
<1>1. \A z \in Zones : Nameservers[z] \subseteq Hosts /\ Glued[z] \subseteq Nameservers[z]
  BY TreeAssumption DEF Hosts
<1>2. \A n \in Hosts : HostAddrs[n] \subseteq AllAddrs
  BY DEF AllAddrs
<1>3. \A S \in SUBSET Hosts : NsAddrs(S) \subseteq AllAddrs
  BY <1>2 DEF NsAddrs
<1>4. <<>> \in Zones
  BY TreeAssumption
<1>. QED
  BY <1>1, <1>2, <1>3, <1>4 DEF RootHints

\* A call begins without a zone and without servers.
LEMMA FrameIs ==
    ASSUME NEW p \in {"top", "walk", "host"}, NEW n \in Hosts \union {Target},
           NEW d \in Nat
    PROVE  /\ Frame(p, n, d) \in Frames
           /\ Frame(p, n, d).proc = p /\ Frame(p, n, d).name = n
           /\ Frame(p, n, d).depth = d /\ Frame(p, n, d).at = "call"
           /\ Frame(p, n, d).zone = NoZone /\ Frame(p, n, d).hops = 0
  BY DEF Frame, Frames

\* What a server answers names a zone of the tree.
LEMMA ReferralsAre ==
    ASSUME NEW n \in Hosts \union {Target}, NEW a, NEW r \in NsAnswer(a, n)
    PROVE  r.owner \in Zones
<1>. DEFINE held == {z \in Holding(a) : Encloses(z, n)}
            below == {c \in Zones : Encloses(c, n) /\ Len(c) > Len(Deepest(held))}
<1>1. held \in SUBSET Zones /\ (\A z \in held : Encloses(z, n)) /\ below \in SUBSET Zones
  BY DEF Holding
<1>2. held # {} => Deepest(held) \in Zones
  <2>. HIDE DEF held
  <2>. QED
    BY <1>1, DeepestIsThere
<1>3. below # {} => Shallowest(below) \in Zones
  <2>. HIDE DEF below
  <2>. QED
    BY <1>1, ShortestIsThere
<1>4. \/ /\ held # {} /\ below # {}
         /\ r = [owner |-> Shallowest(below), final |-> FALSE]
      \/ /\ held # {} /\ Deepest(held) = n
         /\ r = [owner |-> n, final |-> TRUE]
  <2>. HIDE DEF held, below
  <2>1. NsAnswer(a, n) =
            IF held = {} THEN {}
            ELSE IF below # {} THEN {[owner |-> Shallowest(below), final |-> FALSE]}
            ELSE IF Deepest(held) = n THEN {[owner |-> n, final |-> TRUE]}
            ELSE {}
    BY DEF NsAnswer, held, below
  <2>. QED
    BY <2>1
<1>. HIDE DEF held, below
<1>. QED
  BY <1>2, <1>3, <1>4

-----------------------------------------------------------------------------
(* Every step is one of these.                                             *)

\* The call on top is a call, and a walk on top stands on a zone of its name.
LEMMA HereIs ==
    ASSUME WalkInv, stack # <<>>
    PROVE  /\ stack \in Seq(Frames) /\ Here \in Frames /\ Here = stack[Len(stack)]
           /\ Len(stack) \in 1..Len(stack) /\ Len(stack) \in Nat
           /\ Here.proc = "top" <=> Len(stack) = 1
           /\ Here.proc = "host" => Here.name \in Hosts
           /\ Here.proc = "walk" =>
                  Here.zone = NoZone \/ Encloses(Here.zone, Here.name)
<1>1. /\ stack \in Seq(Frames) /\ Len(stack) \in Nat /\ Here \in Frames
      /\ Here = stack[Len(stack)]
  BY StackIs DEF WalkInv, WalkTypeOK
<1>2. Len(stack) \in 1..Len(stack)
  BY StackIs DEF WalkInv, WalkTypeOK
<1>3. /\ stack[Len(stack)].proc = "top" <=> Len(stack) = 1
      /\ stack[Len(stack)].proc = "host" => stack[Len(stack)].name \in Hosts
      /\ stack[Len(stack)].proc = "walk" =>
             stack[Len(stack)].zone = NoZone
             \/ Encloses(stack[Len(stack)].zone, stack[Len(stack)].name)
  BY <1>2 DEF WalkInv, Chain, WalksEnclose
<1>. QED
  BY <1>1, <1>2, <1>3

\* What is polled stays as it is, or gains addresses of the zone's nameservers.
Gains == /\ found' \subseteq Hosts \X AllAddrs
         /\ \A p \in found' : p \in found
                \/ /\ stack[1].zone \in Zones /\ Encloses(stack[1].zone, Target)
                   /\ p[1] \in Nameservers[stack[1].zone] /\ p[2] \in HostAddrs[p[1]]
Beside == ret' \in Returns /\ faults' \in 0..MaxFaults /\ Gains

\* Nothing is collected.
LEMMA SameFound ==
    ASSUME WalkTypeOK, found' = found PROVE Gains
  BY DEF WalkTypeOK, Gains

\* What a step does to the stack, and beside it, is enough.
LEMMA BesideHolds ==
    ASSUME WalkInv, Beside, stack' \in Seq(Frames), Fit'
    PROVE  WalkInv'
<1>1. WalkTypeOK'
  BY DEF WalkTypeOK, Beside, Gains
<1>2. ServersEncloseTarget'
  <2>1. ASSUME NEW p \in found'
        PROVE  \E z \in Zones : Encloses(z, Target) /\ p[1] \in Nameservers[z]
                                /\ p[2] \in HostAddrs[p[1]]
    <3>1. CASE p \in found
      BY <3>1 DEF WalkInv, ServersEncloseTarget
    <3>2. CASE p \notin found
      BY <3>2 DEF Beside, Gains
    <3>. QED
      BY <3>1, <3>2
  <2>. QED
    BY <2>1 DEF ServersEncloseTarget
<1>. QED
  BY <1>1, <1>2 DEF WalkInv, Fit

\* The same for a handler that goes on with another frame.
LEMMA BecomeHolds ==
    ASSUME WalkInv, stack # <<>>, NEW f \in Frames, Become(f), Beside,
           Same(f, Here), ZoneFits(f), TopFits(f),
           f.proc = "walk" \/ ret' = Nothing
    PROVE  WalkInv'
<1>1. WalkTypeOK /\ Fit /\ stack \in Seq(Frames)
  BY DEF WalkInv, Fit, WalkTypeOK
<1>2. Stays(f)
  BY <1>1, BecomeIs DEF Stays, Lower
<1>3. Fit' /\ stack' \in Seq(Frames)
  BY <1>1, <1>2, StaysFit DEF Stays
<1>. QED
  BY <1>3, BesideHolds

\* The same for one that only takes note of what came back.
LEMMA RestHolds ==
    ASSUME WalkInv, stack # <<>>, UNCHANGED stack, Beside, ret' = Nothing
    PROVE  WalkInv'
<1>1. WalkTypeOK /\ Fit /\ stack \in Seq(Frames) /\ Here \in Frames
      /\ Here = stack[Len(stack)]
  BY HereIs DEF WalkInv, Fit, WalkTypeOK
<1>2. Stays(Here) /\ Same(Here, Here)
  BY <1>1 DEF Stays, Lower, Same
<1>3. ZoneFits(Here)
  BY HereIs DEF ZoneFits
<1>4. TopFits(Here)
  BY HereIs DEF TopFits, WalkInv, TopHolds
<1>5. Fit'
  BY <1>1, <1>2, <1>3, <1>4, StaysFit
<1>. QED
  BY <1>1, <1>5, BesideHolds

\* The same for one that returns.
LEMMA ReturnHolds ==
    ASSUME WalkInv, stack # <<>>, NEW v \in Returns, Return(v), AnswerFits(v),
           UNCHANGED found, faults' \in 0..MaxFaults
    PROVE  WalkInv'
<1>1. WalkTypeOK /\ Fit /\ stack \in Seq(Frames)
  BY DEF WalkInv, Fit, WalkTypeOK
<1>2. Ends(v)
  BY <1>1, ReturnIs DEF Ends, Lower
<1>3. Fit' /\ stack' \in Seq(Frames) /\ ret' = v
  BY <1>1, <1>2, EndsFit DEF Ends
<1>4. Beside
  BY <1>1, <1>3, SameFound DEF Beside
<1>. QED
  BY <1>3, <1>4, BesideHolds

\* The same for one that calls.
LEMMA CallHolds ==
    ASSUME WalkInv, stack # <<>>, NEW f \in Frames, NEW g \in Frames,
           Call(f, g), Same(f, Here), ZoneFits(f), TopFits(f), CallFits(f, g),
           g.at = "call", g.zone = NoZone, UNCHANGED <<ret, found, faults>>
    PROVE  WalkInv'
<1>1. WalkTypeOK /\ Fit /\ stack \in Seq(Frames)
  BY DEF WalkInv, Fit, WalkTypeOK
<1>2. Calls(f, g)
  BY <1>1, CallIs DEF Calls, Lower
<1>3. Fit' /\ stack' \in Seq(Frames)
  BY <1>1, <1>2, CallsFit DEF Calls
<1>4. Beside
  BY <1>1, SameFound DEF Beside, WalkTypeOK
<1>. QED
  BY <1>3, <1>4, BesideHolds

\* The end of a walk answers a zone that encloses its name.
LEMMA SettleHolds ==
    ASSUME WalkInv, stack # <<>>, Here.proc = "walk",
           NEW z \in Zones \union {NoZone}, z = NoZone \/ Encloses(z, Here.name),
           Settle(z), UNCHANGED found, faults' \in 0..MaxFaults
    PROVE  WalkInv'
<1>1. CASE z = NoZone
  <2>1. Return(Failure) /\ Failure \in Returns /\ AnswerFits(Failure)
    BY <1>1 DEF Settle, Failure, Returns, AnswerFits
  <2>. QED
    BY <2>1, ReturnHolds
<1>2. CASE z # NoZone
  <2>1. Return(ZoneFound(z)) /\ z \in Zones /\ Encloses(z, Here.name)
    BY <1>2 DEF Settle
  <2>2. ZoneFound(z) \in Returns /\ AnswerFits(ZoneFound(z))
    BY <2>1 DEF ZoneFound, Returns, AnswerFits
  <2>. QED
    BY <2>1, <2>2, ReturnHolds
<1>. QED
  BY <1>1, <1>2

\* So does a referral that is followed.
LEMMA DescendHolds ==
    ASSUME WalkInv, stack # <<>>, Here.proc = "walk",
           NEW r, r.owner \in Zones, Descend(r),
           UNCHANGED found, faults' \in 0..MaxFaults
    PROVE  WalkInv'
<1>. DEFINE here == Here
            glue == [Here EXCEPT !.zone = r.owner, !.hops = @ + 1,
                                 !.servers = NsAddrs(Glued[r.owner])]
            look == [Here EXCEPT !.zone = r.owner, !.at = "resolve",
                                 !.servers = {}, !.trying = Nameservers[r.owner]]
<1>1. /\ Here \in Frames /\ Here.zone \in Zones \union {NoZone}
      /\ Here.zone = NoZone \/ Encloses(Here.zone, Here.name)
  BY HereIs DEF Frames
<1>2. CASE ~Acceptable(Here.zone, r.owner, Here.name)
  BY <1>1, <1>2, SettleHolds DEF Descend
<1>3. CASE /\ Acceptable(Here.zone, r.owner, Here.name)
           /\ r.owner = Here.zone \/ r.final
  <2>1. Settle(r.owner) /\ Encloses(r.owner, Here.name)
        /\ r.owner \in Zones \union {NoZone}
    BY <1>3 DEF Descend, Acceptable
  <2>. QED
    BY <2>1, SettleHolds
<1>4. CASE /\ Acceptable(Here.zone, r.owner, Here.name)
           /\ ~(r.owner = Here.zone \/ r.final)
  <2>1. /\ Become(glue) \/ Become(look)
        /\ UNCHANGED ret /\ Encloses(r.owner, Here.name)
    BY <1>4 DEF Descend, Acceptable
  <2>2. /\ NsAddrs(Glued[r.owner]) \in SUBSET AllAddrs
        /\ Nameservers[r.owner] \in SUBSET Hosts
    BY DataAre
  <2>3. glue \in Frames /\ look \in Frames
    <3>1. Here \in Frames /\ Here.hops + 1 \in Nat /\ {} \in SUBSET AllAddrs
      BY <1>1 DEF Frames
    <3>2. glue \in Frames
      BY <2>2, <3>1 DEF Frames
    <3>3. look \in Frames
      BY <2>2, <3>1 DEF Frames
    <3>. QED
      BY <3>2, <3>3
  <2>4. /\ glue.proc = "walk" /\ glue.zone = r.owner /\ glue.name = Here.name
        /\ glue.depth = Here.depth
        /\ look.proc = "walk" /\ look.zone = r.owner /\ look.name = Here.name
        /\ look.depth = Here.depth
    BY <1>1 DEF Frames
  <2>5. Beside
    BY SameFound, <2>1 DEF Beside, WalkInv, WalkTypeOK
  <2>. HIDE DEF glue, look
  <2>6. /\ Same(glue, Here) /\ ZoneFits(glue) /\ TopFits(glue)
        /\ Same(look, Here) /\ ZoneFits(look) /\ TopFits(look)
    BY <2>1, <2>4 DEF Same, ZoneFits, TopFits
  <2>. QED
    BY <2>1, <2>3, <2>4, <2>5, <2>6, BecomeHolds
<1>. QED
  BY <1>2, <1>3, <1>4

\* The first step of a call: authoritative_servers and resolve_host call the walk,
\* the walk begins at the root.
LEMMA StartsHold ==
    ASSUME WalkInv, StartTop \/ StartHost \/ StartWalk
    PROVE  WalkInv'
<1>1. CASE StartTop
  <2>. DEFINE f == [Here EXCEPT !.at = "ask"]
              g == Frame("walk", Target, 0)
  <2>1. /\ stack # <<>> /\ Here.proc = "top" /\ Call(f, g)
        /\ UNCHANGED <<ret, found, faults>>
    BY <1>1 DEF StartTop, At
  <2>2. Here \in Frames
    BY <2>1, HereIs
  <2>3. /\ f \in Frames /\ f.proc = "top" /\ f.at = "ask"
    BY <2>1, <2>2 DEF Frames
  <2>4. /\ g \in Frames /\ g.proc = "walk" /\ g.name = Target /\ g.at = "call"
        /\ g.zone = NoZone
    BY FrameIs
  <2>. HIDE DEF f, g
  <2>5. Same(f, Here) /\ ZoneFits(f) /\ TopFits(f) /\ CallFits(f, g)
    BY <2>1, <2>3, <2>4 DEF Same, ZoneFits, TopFits, CallFits, Asked
  <2>. QED
    BY <2>1, <2>3, <2>4, <2>5, CallHolds
<1>2. CASE StartHost
  <2>. DEFINE f == [Here EXCEPT !.at = "ask"]
              g == Frame("walk", Here.name, Here.depth)
  <2>1. stack # <<>> /\ Here.proc = "host" /\ UNCHANGED <<found, faults>>
    BY <1>2 DEF StartHost, At
  <2>2. Here \in Frames /\ Here.name \in Hosts /\ Here.depth \in Nat
    BY <2>1, HereIs DEF Frames
  <2>3. CASE Here.depth > MaxDepth
    <3>1. Return(Failure)
      BY <1>2, <2>3 DEF StartHost
    <3>2. Failure \in Returns /\ AnswerFits(Failure)
      BY DEF Failure, Returns, AnswerFits
    <3>. QED
      BY <2>1, <3>1, <3>2, ReturnHolds DEF WalkInv, WalkTypeOK
  <2>4. CASE ~(Here.depth > MaxDepth)
    <3>1. Call(f, g) /\ UNCHANGED <<ret, found, faults>>
      BY <1>2, <2>4 DEF StartHost
    <3>2. /\ f \in Frames /\ f.proc = "host" /\ f.at = "ask" /\ f.name = Here.name
          /\ f.depth = Here.depth
      BY <2>1, <2>2 DEF Frames
    <3>3. /\ g \in Frames /\ g.proc = "walk" /\ g.name = Here.name /\ g.at = "call"
          /\ g.zone = NoZone
      BY <2>2, FrameIs
    <3>. HIDE DEF f, g
    <3>4. Same(f, Here) /\ ZoneFits(f) /\ TopFits(f) /\ CallFits(f, g)
      BY <2>1, <3>2, <3>3 DEF Same, ZoneFits, TopFits, CallFits, Asked
    <3>. QED
      BY <2>1, <3>1, <3>2, <3>3, <3>4, CallHolds
  <2>. QED
    BY <2>3, <2>4
<1>3. CASE StartWalk
  <2>. DEFINE f == [Here EXCEPT !.at = "ask", !.servers = RootHints]
  <2>1. /\ stack # <<>> /\ Here.proc = "walk" /\ Become(f)
        /\ UNCHANGED <<ret, found, faults>>
    BY <1>3 DEF StartWalk, At
  <2>2. Here \in Frames /\ (Here.zone = NoZone \/ Encloses(Here.zone, Here.name))
    BY <2>1, HereIs
  <2>3. /\ f \in Frames /\ f.proc = "walk" /\ f.zone = Here.zone
        /\ f.name = Here.name /\ f.depth = Here.depth
    BY <2>1, <2>2, DataAre DEF Frames
  <2>4. Beside
    BY <2>1, SameFound DEF Beside, WalkInv, WalkTypeOK
  <2>. HIDE DEF f
  <2>5. Same(f, Here) /\ ZoneFits(f) /\ TopFits(f)
    BY <2>1, <2>2, <2>3 DEF Same, ZoneFits, TopFits
  <2>. QED
    BY <2>1, <2>3, <2>4, <2>5, BecomeHolds
<1>. QED
  BY <1>1, <1>2, <1>3

\* A query of the walk, answered well, wrongly or not at all.
LEMMA AskingHolds ==
    ASSUME WalkInv, Ask \/ AskLame \/ AskFails \/ OutOfHops
    PROVE  WalkInv'
<1>1. /\ stack # <<>> /\ Here.proc = "walk" /\ UNCHANGED found
      /\ faults' \in 0..MaxFaults
  BY TreeAssumption
     DEF Ask, AskLame, AskFails, OutOfHops, Asking, At, WalkInv, WalkTypeOK
<1>2. /\ Here.zone \in Zones \union {NoZone} /\ Here.name \in Hosts \union {Target}
      /\ Here.zone = NoZone \/ Encloses(Here.zone, Here.name)
  BY <1>1, HereIs DEF Frames
<1>3. CASE Settle(Here.zone)
  BY <1>1, <1>2, <1>3, SettleHolds
<1>4. ASSUME NEW r, r.owner \in Zones, Descend(r) PROVE WalkInv'
  BY <1>1, <1>4, DescendHolds
<1>5. CASE Ask
  <2>1. PICK a \in Here.servers :
            IF NsAnswer(a, Here.name) = {} THEN Settle(Here.zone)
            ELSE \E r \in NsAnswer(a, Here.name) : Descend(r)
    BY <1>5 DEF Ask
  <2>2. CASE NsAnswer(a, Here.name) # {}
    <3>1. PICK r \in NsAnswer(a, Here.name) : Descend(r)
      BY <2>1, <2>2
    <3>2. r.owner \in Zones
      BY <1>2, ReferralsAre
    <3>. QED
      BY <1>4, <3>1, <3>2
  <2>. QED
    BY <1>3, <2>1, <2>2
<1>6. CASE AskLame
  <2>1. PICK z \in Zones, final \in BOOLEAN :
            Descend([owner |-> z, final |-> final])
    BY <1>6 DEF AskLame
  <2>2. [owner |-> z, final |-> final].owner \in Zones
    OBVIOUS
  <2>. QED
    BY <1>4, <2>1, <2>2
<1>7. CASE AskFails \/ OutOfHops
  BY <1>3, <1>7 DEF AskFails, OutOfHops
<1>. QED
  BY <1>5, <1>6, <1>7

\* What a returned call answers.
LEMMA RetIs ==
    ASSUME WalkTypeOK
    PROVE  /\ ret \in Returns
           /\ ret.kind = "zone" => ret.zone \in Zones /\ ret = ZoneFound(ret.zone)
           /\ ret.kind = "addrs" => ret.addrs \in SUBSET AllAddrs
           /\ ret.kind = "err" => ret = Failure
           /\ Nothing \in Returns /\ Failure \in Returns
           /\ Nothing.kind = "none" /\ Failure.kind = "err"
  BY DEF WalkTypeOK, Returns, ZoneFound, AddrsFound, Nothing, Failure

\* resolve_host with its delegation, and with the addresses of its host.
LEMMA HostsHold ==
    ASSUME WalkInv, HostWalked \/ HostAsk \/ HostAskFails
    PROVE  WalkInv'
<1>1. /\ stack # <<>> /\ Here.proc = "host" /\ UNCHANGED found
      /\ faults' \in 0..MaxFaults
  BY TreeAssumption DEF HostWalked, HostAsk, HostAskFails, At, WalkInv, WalkTypeOK
<1>2. Here \in Frames /\ Here.name \in Hosts
  BY <1>1, HereIs
<1>3. CASE HostWalked
  <2>1. CASE ret.kind = "err"
    <3>1. Return(Failure) /\ Failure \in Returns /\ AnswerFits(Failure)
      BY <1>3, <2>1, RetIs DEF HostWalked, WalkInv, Failure, AnswerFits
    <3>. QED
      BY <1>1, <3>1, ReturnHolds
  <2>2. CASE ret.kind # "err"
    <3>. DEFINE glue == [Here EXCEPT !.zone = ret.zone,
                                     !.servers = NsAddrs(Glued[ret.zone])]
                look == [Here EXCEPT !.zone = ret.zone, !.at = "resolve",
                                     !.trying = Nameservers[ret.zone]]
    <3>1. ret' = Nothing /\ (Become(glue) \/ Become(look)) /\ ret.kind = "zone"
      BY <1>3, <2>2 DEF HostWalked
    <3>2. /\ ret.zone \in Zones /\ Nothing \in Returns
          /\ NsAddrs(Glued[ret.zone]) \in SUBSET AllAddrs
          /\ Nameservers[ret.zone] \in SUBSET Hosts
      BY <3>1, RetIs, DataAre DEF WalkInv
    <3>3. glue \in Frames
      BY <1>2, <3>2 DEF Frames
    <3>4. look \in Frames
      BY <1>2, <3>2 DEF Frames
    <3>5. /\ glue.proc = "host" /\ glue.name = Here.name /\ glue.depth = Here.depth
          /\ look.proc = "host" /\ look.name = Here.name /\ look.depth = Here.depth
      BY <1>1, <1>2 DEF Frames
    <3>6. Beside
      BY <1>1, <3>1, <3>2, SameFound DEF Beside, WalkInv
    <3>. HIDE DEF glue, look
    <3>7. /\ Same(glue, Here) /\ ZoneFits(glue) /\ TopFits(glue)
          /\ Same(look, Here) /\ ZoneFits(look) /\ TopFits(look)
      BY <1>1, <3>5 DEF Same, ZoneFits, TopFits
    <3>. QED
      BY <1>1, <3>1, <3>3, <3>4, <3>6, <3>7, BecomeHolds
  <2>. QED
    BY <2>1, <2>2
<1>4. ASSUME NEW s, s \subseteq HostAddrs[Here.name], Return(AddrsFound(s))
      PROVE  WalkInv'
  <2>1. AddrsFound(s) \in Returns /\ AnswerFits(AddrsFound(s))
    BY <1>1, <1>2, <1>4, DataAre DEF AddrsFound, Returns, AnswerFits
  <2>. QED
    BY <1>1, <1>4, <2>1, ReturnHolds
<1>5. CASE HostAsk
  <2>1. PICK a \in Here.servers : Return(AddrsFound(HostAnswer(a, Here.name)))
    BY <1>5 DEF HostAsk
  <2>2. HostAnswer(a, Here.name) \subseteq HostAddrs[Here.name]
    BY DEF HostAnswer
  <2>. QED
    BY <1>4, <2>1, <2>2
<1>6. CASE HostAskFails
  BY <1>4, <1>6 DEF HostAskFails
<1>. QED
  BY <1>3, <1>5, <1>6

\* Nameservers without glue are looked up one after the other.
LEMMA TryingHolds ==
    ASSUME WalkInv, TryNext \/ Tried \/ NoneLeft
    PROVE  WalkInv'
<1>1. /\ Len(stack) > 1 /\ Here.at = "resolve" /\ UNCHANGED <<found, faults>>
  BY DEF TryNext, Tried, NoneLeft
<1>2. /\ stack # <<>> /\ stack \in Seq(Frames)
  BY <1>1, StackIs DEF WalkInv, WalkTypeOK
<1>3. Here \in Frames /\ Here.proc # "top" /\ faults' \in 0..MaxFaults
  BY <1>1, <1>2, HereIs DEF WalkInv, WalkTypeOK
<1>4. /\ Here.proc \in {"walk", "host"} /\ Here.depth \in Nat
      /\ Here.trying \in SUBSET Hosts /\ Here.zone \in Zones \union {NoZone}
      /\ Here.proc = "walk" => Here.zone = NoZone \/ Encloses(Here.zone, Here.name)
  BY <1>2, <1>3, HereIs DEF Frames
<1>5. CASE TryNext
  <2>1. PICK ns \in Here.trying :
            Call([Here EXCEPT !.trying = @ \ {ns}], Frame("host", ns, Here.depth + 1))
    BY <1>5 DEF TryNext
  <2>. DEFINE f == [Here EXCEPT !.trying = @ \ {ns}]
              g == Frame("host", ns, Here.depth + 1)
  <2>2. /\ f \in Frames /\ f.proc = Here.proc /\ f.name = Here.name
        /\ f.depth = Here.depth /\ f.zone = Here.zone /\ f.at = "resolve"
    BY <1>1, <1>3, <1>4 DEF Frames
  <2>3. /\ g \in Frames /\ g.proc = "host" /\ g.name = ns /\ g.at = "call"
        /\ g.zone = NoZone /\ ns \in Hosts
    BY <1>4, FrameIs
  <2>4. Call(f, g) /\ UNCHANGED <<ret, found, faults>>
    BY <1>5, <2>1 DEF TryNext
  <2>. HIDE DEF f, g
  <2>5. Same(f, Here) /\ ZoneFits(f) /\ TopFits(f) /\ CallFits(f, g)
    BY <1>3, <1>4, <2>2, <2>3 DEF Same, ZoneFits, TopFits, CallFits
  <2>. QED
    BY <1>2, <2>2, <2>3, <2>4, <2>5, CallHolds
<1>6. CASE Tried
  <2>1. ret' = Nothing
    BY <1>6 DEF Tried
  <2>2. Beside
    BY <1>1, <1>3, <2>1, RetIs, SameFound DEF Beside, WalkInv
  <2>3. CASE ~(ret.kind = "addrs" /\ ret.addrs # {})
    <3>1. UNCHANGED stack
      BY <1>6, <2>3 DEF Tried
    <3>. QED
      BY <1>2, <2>1, <2>2, <3>1, RestHolds
  <2>4. CASE ret.kind = "addrs" /\ ret.addrs # {}
    <3>. DEFINE hops == IF Here.proc = "walk" THEN Here.hops + 1 ELSE Here.hops
                f == [Here EXCEPT !.at = "ask", !.servers = ret.addrs, !.trying = {},
                                  !.hops = IF Here.proc = "walk" THEN @ + 1 ELSE @]
    <3>1. Become(f)
      BY <1>6, <2>4 DEF Tried
    <3>2. /\ ret.addrs \in SUBSET AllAddrs /\ {} \in SUBSET Hosts /\ hops \in Nat
      BY <1>3, <2>4, RetIs DEF WalkInv, Frames
    <3>3. /\ f \in Frames /\ f.proc = Here.proc /\ f.name = Here.name
          /\ f.depth = Here.depth /\ f.zone = Here.zone
      BY <1>3, <3>2 DEF Frames
    <3>. HIDE DEF f
    <3>4. Same(f, Here) /\ ZoneFits(f) /\ TopFits(f)
      BY <1>3, <1>4, <3>3 DEF Same, ZoneFits, TopFits
    <3>. QED
      BY <1>2, <2>1, <2>2, <3>1, <3>3, <3>4, BecomeHolds
  <2>. QED
    BY <2>3, <2>4
<1>7. CASE NoneLeft
  <2>1. CASE Here.proc = "walk"
    BY <1>1, <1>2, <1>3, <1>4, <1>7, <2>1, SettleHolds DEF NoneLeft
  <2>2. CASE Here.proc # "walk"
    <3>1. Return(Failure) /\ Failure \in Returns /\ AnswerFits(Failure)
      BY <1>7, <2>2, RetIs DEF NoneLeft, WalkInv, Failure, AnswerFits
    <3>. QED
      BY <1>1, <1>2, <1>3, <3>1, ReturnHolds
  <2>. QED
    BY <2>1, <2>2
<1>. QED
  BY <1>5, <1>6, <1>7

\* The outermost call collects addresses of nameservers of its zone only.
LEMMA TopHoldsOn ==
    ASSUME WalkInv, Walked \/ Collect \/ Collected \/ Answer
    PROVE  WalkInv'
<1>1. /\ stack # <<>> /\ Here.proc = "top" /\ faults' \in 0..MaxFaults
  BY DEF Walked, Collect, Collected, Answer, At, WalkInv, WalkTypeOK
<1>2. /\ Here \in Frames /\ Here = stack[1] /\ Len(stack) = 1
      /\ found \subseteq Hosts \X AllAddrs
  BY <1>1, HereIs DEF WalkInv, WalkTypeOK
<1>3. Here.at = "resolve" =>
          /\ Here.zone \in Zones /\ Encloses(Here.zone, Target)
          /\ Here.trying \subseteq Nameservers[Here.zone]
          /\ ret # Nothing => Here.name \in Nameservers[Here.zone]
  BY <1>1, <1>2 DEF WalkInv, TopHolds, Looking
<1>4. CASE Walked
  <2>1. CASE ret.kind = "err"
    <3>1. Return(Failure) /\ UNCHANGED found
      BY <1>4, <2>1 DEF Walked
    <3>2. Failure \in Returns /\ AnswerFits(Failure)
      BY RetIs DEF WalkInv, Failure, AnswerFits
    <3>. QED
      BY <1>1, <3>1, <3>2, ReturnHolds
  <2>2. CASE ret.kind # "err"
    <3>. DEFINE f == [Here EXCEPT !.at = "resolve", !.zone = ret.zone,
                                  !.trying = Nameservers[ret.zone]]
    <3>1. /\ Become(f) /\ ret' = Nothing /\ ret.kind = "zone" /\ Here.at = "ask"
          /\ UNCHANGED found
      BY <1>4, <2>2 DEF Walked, At
    <3>2. /\ ret.zone \in Zones /\ Nameservers[ret.zone] \in SUBSET Hosts
          /\ Encloses(ret.zone, Target) /\ Nothing \in Returns
      BY <1>1, <3>1, RetIs, DataAre DEF WalkInv, AnswersFit, Asked
    <3>3. /\ f \in Frames /\ f.proc = "top" /\ f.zone = ret.zone
          /\ f.trying = Nameservers[ret.zone]
      BY <1>1, <1>2, <3>2 DEF Frames
    <3>4. Beside
      BY <1>1, <3>1, <3>2, SameFound DEF Beside, WalkInv
    <3>. HIDE DEF f
    <3>5. Same(f, Here) /\ ZoneFits(f) /\ TopFits(f)
      BY <1>1, <3>2, <3>3 DEF Same, ZoneFits, TopFits
    <3>. QED
      BY <1>1, <3>1, <3>3, <3>4, <3>5, BecomeHolds
  <2>. QED
    BY <2>1, <2>2
<1>5. ASSUME NEW ns \in Hosts, NEW addrs \in SUBSET HostAddrs[ns],
             Here.at = "resolve", ns \in Nameservers[Here.zone],
             found' = found \union Labelled(ns, addrs)
      PROVE  Gains
  <2>1. addrs \subseteq AllAddrs
    BY DataAre
  <2>2. ASSUME NEW p \in found' PROVE p \in found \/ p \in {ns} \X addrs
    BY <1>5, <2>2 DEF Labelled
  <2>3. ASSUME NEW p \in {ns} \X addrs
        PROVE  p[1] = ns /\ p[2] \in HostAddrs[ns] /\ p \in Hosts \X AllAddrs
    BY <2>1
  <2>. QED
    BY <1>2, <1>3, <1>5, <2>2, <2>3 DEF Gains
<1>6. CASE Collect
  <2>1. PICK ns \in Here.trying :
            IF ns \in Glued[Here.zone]
            THEN /\ Become([Here EXCEPT !.trying = @ \ {ns}])
                 /\ found' = found \union Labelled(ns, HostAddrs[ns])
            ELSE /\ Call([[Here EXCEPT !.trying = @ \ {ns}] EXCEPT !.name = ns],
                         Frame("host", ns, 1))
                 /\ UNCHANGED found
    BY <1>6 DEF Collect
  <2>. DEFINE rest == [Here EXCEPT !.trying = @ \ {ns}]
              f == [rest EXCEPT !.name = ns]
              g == Frame("host", ns, 1)
  <2>2. /\ Here.at = "resolve" /\ ret = Nothing /\ UNCHANGED <<ret, faults>>
        /\ Nothing \in Returns
    BY <1>6, RetIs DEF Collect, At, WalkInv
  <2>3. ns \in Nameservers[Here.zone] /\ ns \in Hosts
    BY <1>2, <1>3, <2>1, <2>2 DEF Frames
  <2>4. /\ rest \in Frames /\ rest.proc = "top" /\ rest.zone = Here.zone
        /\ rest.trying = Here.trying \ {ns}
    BY <1>1, <1>2 DEF Frames
  <2>5. /\ f \in Frames /\ f.proc = "top" /\ f.zone = Here.zone
        /\ f.trying = Here.trying \ {ns} /\ f.name = ns /\ f.at = "resolve"
    BY <1>1, <1>2, <2>2, <2>3 DEF Frames
  <2>6. /\ g \in Frames /\ g.proc = "host" /\ g.name = ns /\ g.at = "call"
        /\ g.zone = NoZone /\ g.depth = 1
    BY <2>3, FrameIs
  <2>. HIDE DEF rest, f, g
  <2>7. /\ Same(rest, Here) /\ ZoneFits(rest) /\ TopFits(rest)
        /\ Same(f, Here) /\ ZoneFits(f) /\ TopFits(f) /\ CallFits(f, g)
    BY <1>1, <1>3, <2>2, <2>3, <2>4, <2>5, <2>6 DEF Same, ZoneFits, TopFits, CallFits
  <2>8. CASE ns \in Glued[Here.zone]
    <3>1. /\ Become(rest) /\ found' = found \union Labelled(ns, HostAddrs[ns])
      BY <2>1, <2>8 DEF rest
    <3>2. Gains
      BY <1>5, <2>2, <2>3, <3>1
    <3>3. Beside
      BY <1>1, <2>2, <3>2 DEF Beside
    <3>. QED
      BY <1>1, <2>2, <2>4, <2>7, <3>1, <3>3, BecomeHolds
  <2>9. CASE ns \notin Glued[Here.zone]
    <3>1. Call(f, g) /\ UNCHANGED <<ret, found, faults>>
      BY <2>1, <2>2, <2>9 DEF rest, f, g
    <3>. QED
      BY <1>1, <2>5, <2>6, <2>7, <3>1, CallHolds
  <2>. QED
    BY <2>8, <2>9
<1>7. CASE Collected
  <2>. DEFINE addrs == IF ret.kind = "addrs" THEN ret.addrs ELSE {}
  <2>1. /\ Here.at = "resolve" /\ ret # Nothing /\ ret' = Nothing /\ UNCHANGED stack
        /\ found' = found \union Labelled(Here.name, addrs)
    BY <1>7 DEF Collected, At
  <2>2. Here.name \in Nameservers[Here.zone] /\ Here.name \in Hosts
    BY <1>3, <2>1, DataAre
  <2>3. addrs \subseteq HostAddrs[Here.name]
    BY <1>1, <2>1 DEF WalkInv, AnswersFit
  <2>. HIDE DEF addrs
  <2>4. Gains
    BY <1>5, <2>1, <2>2, <2>3
  <2>5. Beside
    BY <1>1, <2>1, <2>4, RetIs DEF Beside, WalkInv
  <2>. QED
    BY <1>1, <2>1, <2>5, RestHolds
<1>8. CASE Answer
  <2>1. /\ Return(IF found = {} THEN Failure ELSE ZoneFound(Here.zone))
        /\ Here.at = "resolve" /\ UNCHANGED found
    BY <1>8 DEF Answer, At
  <2>2. CASE found = {}
    <3>1. Return(Failure) /\ Failure \in Returns /\ AnswerFits(Failure)
      BY <2>1, <2>2, RetIs DEF WalkInv, Failure, AnswerFits
    <3>. QED
      BY <1>1, <2>1, <3>1, ReturnHolds
  <2>3. CASE found # {}
    <3>1. /\ Return(ZoneFound(Here.zone)) /\ ZoneFound(Here.zone) \in Returns
          /\ AnswerFits(ZoneFound(Here.zone))
      BY <1>1, <1>3, <2>1, <2>3 DEF Returns, ZoneFound, AnswerFits
    <3>. QED
      BY <1>1, <2>1, <3>1, ReturnHolds
  <2>. QED
    BY <2>2, <2>3
<1>. QED
  BY <1>4, <1>6, <1>7, <1>8

\* Every step keeps the invariant.
LEMMA WalkInvStep ==
    ASSUME WalkInv, [WalkNext]_walkVars
    PROVE  WalkInv'
<1>1. CASE UNCHANGED walkVars
  BY <1>1 DEF walkVars, WalkInv, WalkTypeOK, Chain, WalksEnclose, AnswersFit,
              TopHolds, Looking, Here, ServersEncloseTarget, Asked
<1>2. CASE WalkNext
  BY <1>2, StartsHold, AskingHolds, HostsHold, TryingHolds, TopHoldsOn DEF WalkNext
<1>. QED
  BY <1>1, <1>2

\* Where the walk begins.
LEMMA WalkInvInit ==
    ASSUME WalkInit PROVE WalkInv
<1>. DEFINE f == Frame("top", Target, 0)
<1>1. f \in Frames /\ f.proc = "top" /\ f.at = "call"
  BY FrameIs
<1>2. stack = <<f>> /\ ret = Nothing /\ found = {} /\ faults = 0
  BY DEF WalkInit
<1>. HIDE DEF f
<1>3. /\ stack \in Seq(Frames) /\ Len(stack) = 1 /\ stack[1] = f /\ Here = f
      /\ \A k \in 1..Len(stack) : k = 1
      /\ \A k \in 1..(Len(stack) - 1) : FALSE
  BY <1>1, <1>2 DEF Here
<1>4. WalkTypeOK
  BY <1>2, <1>3, TreeAssumption DEF WalkTypeOK, Returns
<1>5. Chain /\ WalksEnclose
  BY <1>1, <1>3 DEF Chain, WalksEnclose
<1>6. AnswersFit /\ TopHolds
  BY <1>1, <1>3 DEF AnswersFit, TopHolds
<1>7. ServersEncloseTarget
  BY <1>2 DEF ServersEncloseTarget
<1>. QED
  BY <1>4, <1>5, <1>6, <1>7 DEF WalkInv

\* The calls on the stack and the answers between them fit at every time.
LEMMA WalkInvariant == WalkSpec => []WalkInv
  BY WalkInvInit, WalkInvStep, PTL DEF WalkSpec

\* The stack, the answers between calls and what is collected stay in their types,
\* for every tree, order of servers and pattern of failures.
THEOREM WalkTypeCorrect == WalkSpec => []WalkTypeOK
<1>1. WalkInv => WalkTypeOK
  BY DEF WalkInv
<1>. QED
  BY <1>1, WalkInvariant, PTL

\* An address is polled for the challenge name only as an address of a nameserver
\* of a zone around it, whatever lame servers say and whatever fails.
THEOREM NeverSideways == WalkSpec => []ServersEncloseTarget
<1>1. WalkInv => ServersEncloseTarget
  BY DEF WalkInv
<1>. QED
  BY <1>1, WalkInvariant, PTL

-----------------------------------------------------------------------------
(* The walk to the cut.                                                    *)

Straight == PlainGoStraight /\ PlainAnswers /\ Collecting

\* What the call on top leaves to its caller, or goes on with, when it is plain.
HostFits(f) ==
    f.proc = "host" /\ f.at = "ask" /\ Plain(f.name) =>
        ret' = Nothing /\ f.servers = NsAddrs(Glued[CutOf(f.name)])
RightAnswer(v) ==
    Plain(Here.name) =>
        /\ Here.proc = "walk" => v = ZoneFound(CutOf(Here.name))
        /\ Here.proc = "host" /\ Here.depth = 1 => v = AddrsFound(HostAddrs[Here.name])

\* Nothing happens to the outermost call while another is on top of it.
LEMMA CollectingStays ==
    ASSUME Collecting, stack # <<>>, stack' # <<>>, stack'[1] = stack[1],
           Looking, Looking', UNCHANGED found
    PROVE  Collecting'
<1>1. Known' = Known
  BY DEF Known
<1>. QED
  BY <1>1 DEF Collecting

\* A call above the outermost one goes on.
LEMMA StaysStraight ==
    ASSUME WalkInv, Straight, stack # <<>>, Here.proc # "top",
           NEW f \in Frames, Stays(f), Same(f, Here), UNCHANGED found,
           GoesStraight(f), HostFits(f)
    PROVE  Straight' /\ stack' # <<>>
<1>1. /\ Len(stack) \in Nat /\ Len(stack) > 1 /\ Here = stack[Len(stack)]
      /\ 1 \in 1..(Len(stack) - 1)
  BY HereIs, StackIs DEF WalkInv, WalkTypeOK
<1>2. /\ Len(stack') = Len(stack) /\ stack' # <<>> /\ Here' = f
      /\ stack'[Len(stack)] = f /\ stack'[1] = stack[1]
      /\ \A k \in 1..(Len(stack) - 1) : stack'[k] = stack[k]
  BY <1>1, EmptySeq DEF Stays, Lower, Here
<1>3. PlainGoStraight'
  <2>1. ASSUME NEW k \in 1..Len(stack) PROVE GoesStraight(stack'[k])
    <3>1. CASE k = Len(stack)
      BY <1>2, <3>1
    <3>2. CASE k # Len(stack)
      <4>1. stack'[k] = stack[k]
        BY <1>1, <1>2, <3>2
      <4>. QED
        BY <4>1 DEF Straight, PlainGoStraight
    <3>. QED
      BY <3>1, <3>2
  <2>2. ASSUME NEW k \in 1..Len(stack) PROVE GoesStraight(stack[k])'
    BY <2>1 DEF GoesStraight, Standing
  <2>. QED
    BY <1>2, <2>2 DEF PlainGoStraight
<1>4. PlainAnswers'
  <2>1. f.proc # "top" /\ f \in Frames
    BY DEF Same
  <2>2. /\ f.proc \in {"walk", "host"}
        /\ f.proc # "walk" /\ f.at = "ask" /\ Plain(f.name) => ret' = Nothing
        /\ f.proc = "host" /\ f.at = "ask" /\ Plain(f.name) =>
               f.servers = NsAddrs(Glued[CutOf(f.name)])
    BY <2>1 DEF Frames, HostFits
  <2>. QED
    BY <1>2, <2>1, <2>2 DEF PlainAnswers, Asked
<1>5. Looking /\ Looking'
  BY <1>1, <1>2 DEF Looking
<1>6. Collecting'
  BY <1>2, <1>5, CollectingStays DEF Straight
<1>. QED
  BY <1>2, <1>3, <1>4, <1>6 DEF Straight

\* It returns; a plain one tells its caller the cut, or all the addresses.
LEMMA EndsStraight ==
    ASSUME WalkInv, Straight, stack # <<>>, Here.proc # "top",
           NEW v, Ends(v), v # Nothing, UNCHANGED found, RightAnswer(v)
    PROVE  Straight' /\ stack' # <<>>
<1>. DEFINE n == Len(stack) - 1
<1>1. /\ Len(stack) \in Nat /\ Len(stack) > 1 /\ Here = stack[Len(stack)]
      /\ 1 \in 1..(Len(stack) - 1) /\ n \in 1..n /\ n + 1 = Len(stack)
  BY HereIs, StackIs DEF WalkInv, WalkTypeOK
<1>2. /\ Len(stack') = n /\ stack' # <<>> /\ Here' = stack[n]
      /\ stack'[1] = stack[1] /\ ret' = v
      /\ \A k \in 1..n : stack'[k] = stack[k] /\ k \in 1..Len(stack)
  BY <1>1, EmptySeq DEF Ends, Lower, Here
<1>3. LET a == stack[n]
      IN /\ Here.proc = "walk" =>
                a.proc # "walk" /\ a.at = "ask" /\ Here.name = Asked(a)
         /\ Here.proc = "host" =>
                /\ a.at = "resolve"
                /\ a.proc = "top" => Here.name = a.name /\ Here.depth = 1
  BY <1>1 DEF WalkInv, Chain
<1>4. Here.proc \in {"walk", "host"}
  BY HereIs DEF Frames
<1>. HIDE DEF n
<1>5. PlainGoStraight'
  <2>1. ASSUME NEW k \in 1..n PROVE GoesStraight(stack'[k])
    BY <1>2 DEF Straight, PlainGoStraight
  <2>2. ASSUME NEW k \in 1..n PROVE GoesStraight(stack[k])'
    BY <2>1 DEF GoesStraight, Standing
  <2>. QED
    BY <1>2, <2>2 DEF PlainGoStraight
<1>6. PlainAnswers'
  <2>1. CASE Here.proc = "walk"
    BY <1>2, <1>3, <2>1 DEF PlainAnswers, RightAnswer, Asked
  <2>2. CASE Here.proc = "host"
    BY <1>2, <1>3, <2>2 DEF PlainAnswers, RightAnswer, Asked
  <2>. QED
    BY <1>4, <2>1, <2>2
<1>7. Looking /\ Looking'
  BY <1>1, <1>2 DEF Looking
<1>8. Collecting'
  BY <1>2, <1>7, CollectingStays DEF Straight
<1>. QED
  BY <1>2, <1>5, <1>6, <1>8 DEF Straight

\* The callee has yet to begin; the outermost call accounts for whom it looks up.
LEMMA CallsStraight ==
    ASSUME WalkInv, Straight, stack # <<>>, UNCHANGED <<ret, found>>,
           NEW f \in Frames, NEW g \in Frames, Calls(f, g), Same(f, Here),
           GoesStraight(f), GoesStraight(g), g.at = "call", g.proc # "top",
           Len(stack) = 1 => Collecting'
    PROVE  Straight' /\ stack' # <<>>
<1>1. /\ Len(stack) \in Nat /\ Len(stack) > 0 /\ Here = stack[Len(stack)]
      /\ Len(stack) = 1 \/ (Len(stack) > 1 /\ 1 \in 1..(Len(stack) - 1))
  BY HereIs, StackIs DEF WalkInv, WalkTypeOK
<1>2. /\ Len(stack') = Len(stack) + 1 /\ stack' # <<>> /\ Here' = g
      /\ stack'[Len(stack)] = f /\ stack'[Len(stack) + 1] = g
      /\ \A k \in 1..(Len(stack) - 1) : stack'[k] = stack[k]
  BY <1>1, EmptySeq DEF Calls, Lower, Here
<1>3. PlainGoStraight'
  <2>1. ASSUME NEW k \in 1..(Len(stack) + 1) PROVE GoesStraight(stack'[k])
    <3>1. CASE k = Len(stack) \/ k = Len(stack) + 1
      BY <1>2, <3>1
    <3>2. CASE ~(k = Len(stack) \/ k = Len(stack) + 1)
      <4>1. stack'[k] = stack[k] /\ k \in 1..Len(stack)
        BY <1>1, <1>2, <3>2
      <4>. QED
        BY <4>1 DEF Straight, PlainGoStraight
    <3>. QED
      BY <3>1, <3>2
  <2>2. ASSUME NEW k \in 1..(Len(stack) + 1) PROVE GoesStraight(stack[k])'
    BY <2>1 DEF GoesStraight, Standing
  <2>. QED
    BY <1>2, <2>2 DEF PlainGoStraight
<1>4. PlainAnswers'
  BY <1>2 DEF PlainAnswers
<1>5. Collecting'
  <2>1. CASE Len(stack) > 1
    <3>1. Looking /\ Looking' /\ stack'[1] = stack[1]
      BY <1>1, <1>2, <2>1 DEF Looking
    <3>. QED
      BY <1>2, <3>1, CollectingStays DEF Straight
  <2>. QED
    BY <1>1, <2>1
<1>. QED
  BY <1>2, <1>3, <1>4, <1>5 DEF Straight

\* The root is a zone around every name.
LEMMA RootEncloses ==
    /\ <<>> \in Zones /\ Len(<<>>) = 0
    /\ \A n \in Hosts \union {Target} : Encloses(<<>>, n)
    /\ \A z \in Zones : Encloses(<<>>, z)
<1>1. <<>> \in Zones /\ Len(<<>>) = 0
  BY TreeAssumption, EmptySeq
<1>2. \A s \in Seq(STRING) : Encloses(<<>>, s)
  <2>1. ASSUME NEW s \in Seq(STRING) PROVE Encloses(<<>>, s)
    <3>1. SubSeq(s, 1, 0) = <<>> /\ Len(s) \in Nat
      BY SubSeqEmpty, LenProperties
    <3>. QED
      BY <1>1, <3>1 DEF Encloses
  <2>. QED
    BY <2>1
<1>. QED
  BY <1>1, <1>2, NamesAre

\* Server a has NS records r for name n, the next cut below zone z or its own.
Leads(n, z, a, r) ==
    /\ NsAnswer(a, n) = {r}
    /\ r.owner \in Zones /\ Acceptable(z, r.owner, n)
    /\ r.final => r.owner = CutOf(n)
    /\ ~r.final =>
           /\ r.owner # z
           /\ IF z = NoZone THEN Len(r.owner) > 0 ELSE Len(r.owner) > Len(z)

\* A server of the zone a walk stands on refers it one cut further down, or the
\* zone is the cut of the name.
LEMMA OneCutDown ==
    ASSUME BelowRoot, Separate, NEW n \in Hosts \union {Target}, Plain(n),
           NEW z \in Zones \union {NoZone}, NEW a,
           \/ z = NoZone /\ a \in RootHints
           \/ z \in Zones /\ Encloses(z, n) /\ a \in NsAddrs(Glued[z])
    PROVE  \/ NsAnswer(a, n) = {} /\ z = CutOf(n) /\ z \in Zones
           \/ \E r : Leads(n, z, a, r)
<1>. DEFINE y == IF z = NoZone THEN <<>> ELSE z
            held == {x \in Holding(a) : Encloses(x, n)}
            below == {c \in Zones : Encloses(c, n) /\ Len(c) > Len(Deepest(held))}
<1>1. n \in Seq(STRING) /\ Len(n) \in Nat /\ <<>> \in Zones /\ NoZone \notin Zones
  BY NamesAre, LenProperties, TreeAssumption
<1>3. Encloses(<<>>, n)
  BY RootEncloses
<1>4. y \in Zones /\ Encloses(y, n) /\ a \in NsAddrs(Nameservers[y])
  <2>1. CASE z = NoZone
    BY <1>1, <1>3, <2>1 DEF RootHints
  <2>2. CASE z # NoZone
    <3>1. z \in Zones /\ Encloses(z, n) /\ a \in NsAddrs(Glued[z])
      BY <2>2
    <3>2. Glued[z] \subseteq Nameservers[z]
      BY <3>1, TreeAssumption
    <3>. QED
      BY <2>2, <3>1, <3>2 DEF NsAddrs
  <2>. QED
    BY <2>1, <2>2
<1>5. Acceptable(z, y, n) /\ Len(y) \in Nat
  <2>1. Len(y) \in Nat
    BY <1>4, NamesAre, LenProperties
  <2>2. z = NoZone \/ z = y
    OBVIOUS
  <2>3. Encloses(y, y)
    <3>1. y \in Seq(STRING)
      BY <1>4, NamesAre
    <3>. HIDE DEF y
    <3>. QED
      BY <1>1, <1>4, <2>1, <3>1, EnclosesChain
  <2>. HIDE DEF y
  <2>. QED
    BY <1>4, <2>1, <2>2, <2>3 DEF Acceptable
<1>. HIDE DEF y
\* The server has no other zone around the name.
<1>6. held = {y}
  <2>1. y \in held
    BY <1>4 DEF Holding
  <2>2. ASSUME NEW x \in held PROVE x = y
    <3>1. /\ x \in Zones /\ Encloses(x, n) /\ a \in NsAddrs(Nameservers[x])
          /\ x \in Seq(STRING) /\ y \in Seq(STRING) /\ Len(x) \in Nat
      BY <1>4, NamesAre, LenProperties DEF Holding
    <3>2. Encloses(x, y) \/ Encloses(y, x)
      BY <1>1, <1>4, <1>5, <3>1, EnclosesChain
    <3>. QED
      BY <1>4, <3>1, <3>2 DEF Separate
  <2>. HIDE DEF held
  <2>. QED
    BY <2>1, <2>2
<1>7. Deepest(held) = y
  BY <1>6 DEF Deepest
<1>8. below \in SUBSET Zones /\ \A c \in below : Encloses(c, n) /\ Len(c) > Len(y)
  BY <1>7
<1>9. NsAnswer(a, n) =
          IF below # {} THEN {[owner |-> Shallowest(below), final |-> FALSE]}
          ELSE IF y = n THEN {[owner |-> n, final |-> TRUE]} ELSE {}
  <2>1. NsAnswer(a, n) =
            IF held = {} THEN {}
            ELSE IF below # {} THEN {[owner |-> Shallowest(below), final |-> FALSE]}
            ELSE IF Deepest(held) = n THEN {[owner |-> n, final |-> TRUE]}
            ELSE {}
    BY DEF NsAnswer
  <2>. HIDE DEF held, below
  <2>. QED
    BY <1>6, <1>7, <2>1
<1>10. below = {} => y = CutOf(n) /\ z = y
  <2>1. SUFFICES ASSUME below = {} PROVE y = CutOf(n) /\ z = y
    OBVIOUS
  <2>2. \A c \in Zones : Encloses(c, n) => ~(Len(c) > Len(y))
    BY <1>7, <2>1
  <2>3. \A c \in Zones : Encloses(c, n) => Len(c) <= Len(y)
    BY <1>5, <2>2, NamesAre, LenProperties
  <2>4. PICK c \in Zones \ {<<>>} : Encloses(c, n)
    BY DEF BelowRoot
  <2>5. Len(c) > 0
    BY <2>4, NamesAre, LenProperties, EmptySeq
  <2>6. y # <<>>
    BY <2>3, <2>4, <2>5, RootEncloses, NamesAre, LenProperties
  <2>. HIDE DEF held, below
  <2>. QED
    BY <1>4, <2>3, <2>6, CutIs DEF y
<1>11. CASE below # {}
  <2>. DEFINE c == Shallowest(below)
              r == [owner |-> c, final |-> FALSE]
  <2>1. c \in Zones /\ Encloses(c, n) /\ Len(c) > Len(y)
    <3>. HIDE DEF below
    <3>. QED
      BY <1>8, <1>11, ShortestIsThere
  <2>2. NsAnswer(a, n) = {r}
    <3>. HIDE DEF below
    <3>. QED
      BY <1>9, <1>11
  <2>. HIDE DEF c
  <2>3. Encloses(y, c) /\ Len(c) \in Nat
    BY <1>1, <1>4, <1>5, <2>1, NamesAre, LenProperties, EnclosesChain
  <2>4. Acceptable(z, c, n) /\ c # z
    BY <1>1, <1>5, <2>1, <2>3 DEF Acceptable, y
  <2>5. IF z = NoZone THEN Len(c) > 0 ELSE Len(c) > Len(z)
    BY <1>5, <2>1, <2>3 DEF y
  <2>6. r.owner = c /\ r.final = FALSE
    OBVIOUS
  <2>. HIDE DEF r
  <2>. QED
    BY <2>1, <2>2, <2>4, <2>5, <2>6 DEF Leads
<1>12. CASE below = {} /\ y = n
  <2>. DEFINE r == [owner |-> n, final |-> TRUE]
  <2>1. NsAnswer(a, n) = {r} /\ n = CutOf(n) /\ n \in Zones /\ Acceptable(z, n, n)
    <3>. HIDE DEF below
    <3>. QED
      BY <1>4, <1>5, <1>9, <1>10, <1>12
  <2>2. r.owner = n /\ r.final = TRUE
    OBVIOUS
  <2>. HIDE DEF r
  <2>. QED
    BY <2>1, <2>2 DEF Leads
<1>13. CASE below = {} /\ y # n
  <2>. HIDE DEF below
  <2>. QED
    BY <1>4, <1>9, <1>10, <1>13
<1>. QED
  BY <1>11, <1>12, <1>13

\* The call on top goes straight.
LEMMA HereGoesStraight ==
    ASSUME WalkInv, Straight, stack # <<>>
    PROVE  /\ GoesStraight(Here) /\ Here \in Frames /\ Here = stack[Len(stack)]
           /\ stack \in Seq(Frames) /\ Here.name \in Hosts \union {Target}
           /\ Here.zone \in Zones \union {NoZone} /\ Here.depth \in Nat
  BY HereIs DEF Straight, PlainGoStraight, Frames

\* The same for the handlers that go on with another frame.
LEMMA BecomeStraight ==
    ASSUME WalkInv, Straight, stack # <<>>, Here.proc # "top",
           NEW f \in Frames, Become(f), Same(f, Here), UNCHANGED found,
           GoesStraight(f), HostFits(f)
    PROVE  Straight' /\ stack' # <<>>
<1>1. Stays(f)
  BY HereIs, BecomeIs DEF Stays, Lower
<1>. QED
  BY <1>1, StaysStraight

\* The same for those that return.
LEMMA ReturnStraight ==
    ASSUME WalkInv, Straight, stack # <<>>, Here.proc # "top",
           NEW v, Return(v), v # Nothing, UNCHANGED found, RightAnswer(v)
    PROVE  Straight' /\ stack' # <<>>
<1>1. Ends(v)
  BY HereIs, ReturnIs DEF Ends, Lower
<1>. QED
  BY <1>1, EndsStraight

\* The same for the end of a walk: a plain one ends at the cut.
LEMMA SettleStraight ==
    ASSUME WalkInv, Straight, stack # <<>>, Here.proc = "walk", NEW z, Settle(z),
           Plain(Here.name) => z = CutOf(Here.name) /\ z # NoZone, UNCHANGED found
    PROVE  Straight' /\ stack' # <<>>
<1>1. CASE z = NoZone
  <2>1. Return(Failure) /\ Failure # Nothing /\ RightAnswer(Failure)
    BY <1>1 DEF Settle, Failure, Nothing, RightAnswer
  <2>. QED
    BY <2>1, ReturnStraight
<1>2. CASE z # NoZone
  <2>1. Return(ZoneFound(z)) /\ ZoneFound(z) # Nothing /\ RightAnswer(ZoneFound(z))
    BY <1>2 DEF Settle, ZoneFound, Nothing, RightAnswer
  <2>. QED
    BY <2>1, ReturnStraight
<1>. QED
  BY <1>1, <1>2

\* The glue of a zone leads on, one hop for each cut.
LEMMA AskStraight ==
    ASSUME BelowRoot, Separate, WalkInv, Straight, Ask
    PROVE  Straight' /\ stack' # <<>>
<1>1. /\ stack # <<>> /\ Here.proc = "walk" /\ Here.at = "ask"
      /\ UNCHANGED <<found, faults>>
  BY DEF Ask, Asking, At
<1>2. PICK a \in Here.servers :
          IF NsAnswer(a, Here.name) = {} THEN Settle(Here.zone)
          ELSE \E r \in NsAnswer(a, Here.name) : Descend(r)
  BY DEF Ask
<1>3. /\ GoesStraight(Here) /\ Here \in Frames /\ Here.name \in Hosts \union {Target}
      /\ Here.zone \in Zones \union {NoZone} /\ Here.hops \in Nat
      /\ Here.zone = NoZone \/ Encloses(Here.zone, Here.name)
      /\ NoZone \notin Zones
  BY <1>1, HereIs, HereGoesStraight, TreeAssumption DEF Frames
\* A walk to a name that is not plain promises nothing.
<1>4. CASE ~Plain(Here.name)
  <2>1. CASE \E z : Settle(z)
    BY <1>1, <1>4, <2>1, SettleStraight
  <2>2. CASE ~(\E z : Settle(z))
    <3>1. PICK r \in NsAnswer(a, Here.name) : Descend(r)
      BY <1>2, <2>2
    <3>. DEFINE glue == [Here EXCEPT !.zone = r.owner, !.hops = @ + 1,
                                     !.servers = NsAddrs(Glued[r.owner])]
                look == [Here EXCEPT !.zone = r.owner, !.at = "resolve",
                                     !.servers = {}, !.trying = Nameservers[r.owner]]
    <3>2. Become(glue) \/ Become(look)
      BY <2>2, <3>1 DEF Descend
    <3>3. /\ r.owner \in Zones /\ NsAddrs(Glued[r.owner]) \in SUBSET AllAddrs
          /\ Nameservers[r.owner] \in SUBSET Hosts
          /\ Here.hops + 1 \in Nat /\ {} \in SUBSET AllAddrs
      BY <1>3, ReferralsAre, DataAre
    <3>4. /\ glue \in Frames /\ glue.proc = "walk" /\ glue.name = Here.name
          /\ glue.depth = Here.depth
      BY <1>1, <1>3, <3>3 DEF Frames
    <3>5. /\ look \in Frames /\ look.proc = "walk" /\ look.name = Here.name
          /\ look.depth = Here.depth
      BY <1>1, <1>3, <3>3 DEF Frames
    <3>. HIDE DEF glue, look
    <3>6. /\ Same(glue, Here) /\ GoesStraight(glue) /\ HostFits(glue)
          /\ Same(look, Here) /\ GoesStraight(look) /\ HostFits(look)
      BY <1>1, <1>4, <3>4, <3>5 DEF Same, GoesStraight, HostFits
    <3>. QED
      BY <1>1, <3>2, <3>4, <3>5, <3>6, BecomeStraight
  <2>. QED
    BY <2>1, <2>2
<1>5. CASE Plain(Here.name)
  <2>1. Standing(Here)
    BY <1>1, <1>3, <1>5 DEF GoesStraight
  <2>2. \/ Here.zone = NoZone /\ a \in RootHints
        \/ /\ Here.zone \in Zones /\ Encloses(Here.zone, Here.name)
           /\ a \in NsAddrs(Glued[Here.zone])
    BY <1>3, <2>1 DEF Standing
  <2>3. CASE NsAnswer(a, Here.name) = {} /\ Here.zone = CutOf(Here.name)
             /\ Here.zone \in Zones
    BY <1>1, <1>2, <1>3, <2>3, SettleStraight
  <2>4. CASE \E r : Leads(Here.name, Here.zone, a, r)
    <3>. PICK r : Leads(Here.name, Here.zone, a, r)
      BY <2>4
    <3>1. /\ NsAnswer(a, Here.name) = {r}
          /\ r.owner \in Zones /\ Acceptable(Here.zone, r.owner, Here.name)
          /\ r.final => r.owner = CutOf(Here.name)
          /\ ~r.final =>
                 /\ r.owner # Here.zone
                 /\ IF Here.zone = NoZone THEN Len(r.owner) > 0
                    ELSE Len(r.owner) > Len(Here.zone)
      BY DEF Leads
    <3>2. Descend(r)
      BY <1>2, <3>1
    <3>3. CASE r.final
      <4>1. Settle(r.owner)
        BY <3>1, <3>2, <3>3 DEF Descend
      <4>. QED
        BY <1>1, <1>3, <3>1, <3>3, <4>1, SettleStraight
    <3>4. CASE ~r.final
      <4>. DEFINE glue == [Here EXCEPT !.zone = r.owner, !.hops = @ + 1,
                                       !.servers = NsAddrs(Glued[r.owner])]
      <4>1. Encloses(r.owner, Here.name) /\ Glued[r.owner] # {}
        BY <1>5, <3>1 DEF Acceptable, Plain
      <4>2. Become(glue) /\ UNCHANGED ret
        BY <3>1, <3>2, <3>4, <4>1 DEF Descend
      <4>3. /\ NsAddrs(Glued[r.owner]) \in SUBSET AllAddrs /\ Here.hops + 1 \in Nat
            /\ r.owner # NoZone
        BY <1>3, <3>1, DataAre
      <4>4. /\ glue \in Frames /\ glue.proc = "walk" /\ glue.name = Here.name
            /\ glue.depth = Here.depth /\ glue.at = "ask" /\ glue.zone = r.owner
            /\ glue.hops = Here.hops + 1
            /\ glue.servers = NsAddrs(Glued[r.owner])
        BY <1>1, <1>3, <3>1, <4>3 DEF Frames
      <4>5. Here.hops + 1 <= Len(r.owner)
        <5>1. Len(r.owner) \in Nat
          BY <3>1, NamesAre, LenProperties
        <5>2. CASE Here.zone = NoZone
          BY <2>1, <3>1, <3>4, <5>1, <5>2 DEF Standing
        <5>3. CASE Here.zone # NoZone
          <6>1. Here.hops <= Len(Here.zone) /\ Len(Here.zone) \in Nat
            BY <1>3, <2>1, <5>3, NamesAre, LenProperties DEF Standing
          <6>2. Len(r.owner) > Len(Here.zone)
            BY <3>1, <3>4, <5>3
          <6>. QED
            BY <1>3, <5>1, <6>1, <6>2
        <5>. QED
          BY <5>2, <5>3
      <4>. HIDE DEF glue
      <4>6. Standing(glue)
        BY <4>1, <4>3, <4>4, <4>5 DEF Standing
      <4>7. Same(glue, Here) /\ GoesStraight(glue) /\ HostFits(glue)
        BY <1>1, <4>4, <4>6 DEF Same, GoesStraight, HostFits
      <4>. QED
        BY <1>1, <4>2, <4>4, <4>7, BecomeStraight
    <3>. QED
      BY <3>3, <3>4
  <2>5. \/ NsAnswer(a, Here.name) = {} /\ Here.zone = CutOf(Here.name)
           /\ Here.zone \in Zones
        \/ \E r : Leads(Here.name, Here.zone, a, r)
    BY <1>3, <1>5, <2>2, OneCutDown
  <2>. QED
    BY <2>3, <2>4, <2>5
<1>. QED
  BY <1>4, <1>5

\* A walk has hops to make.
LEMMA HopsThere ==
    ASSUME BelowRoot, Shallow
    PROVE  0 < MaxDepth /\ MaxDepth \in Nat
<1>1. PICK z \in Zones \ {<<>>} : Encloses(z, Target)
  BY DEF BelowRoot
<1>2. Len(z) \in Nat /\ Len(z) > 0 /\ Len(z) <= MaxDepth /\ MaxDepth \in Nat
  BY <1>1, NamesAre, LenProperties, EmptySeq, TreeAssumption DEF Shallow
<1>. QED
  BY <1>2

\* A plain walk starts at the root, and a call of the outermost one is not too deep.
LEMMA StartsStraight ==
    ASSUME BelowRoot, Shallow, WalkInv, Straight, StartTop \/ StartHost \/ StartWalk
    PROVE  Straight' /\ stack' # <<>>
<1>1. CASE StartTop
  <2>. DEFINE f == [Here EXCEPT !.at = "ask"]
              g == Frame("walk", Target, 0)
  <2>1. /\ stack # <<>> /\ Here.proc = "top" /\ Call(f, g)
        /\ UNCHANGED <<ret, found>>
    BY <1>1 DEF StartTop, At
  <2>2. Here \in Frames /\ stack \in Seq(Frames) /\ Here = stack[Len(stack)]
    BY <2>1, HereIs
  <2>3. /\ f \in Frames /\ f.proc = "top" /\ f.at = "ask"
    BY <2>1, <2>2 DEF Frames
  <2>4. /\ g \in Frames /\ g.proc = "walk" /\ g.at = "call" /\ g.zone = NoZone
        /\ g.hops = 0
    BY FrameIs
  <2>. HIDE DEF f, g
  <2>5. Same(f, Here) /\ GoesStraight(f) /\ GoesStraight(g)
    BY <2>1, <2>3, <2>4 DEF Same, GoesStraight
  <2>6. Calls(f, g) /\ stack'[Len(stack)] = f
    BY <2>1, <2>2, <2>3, <2>4, CallIs DEF Calls, Lower
  <2>7. Len(stack) = 1 => Collecting'
    BY <2>3, <2>6 DEF Collecting
  <2>. QED
    BY <2>1, <2>3, <2>4, <2>5, <2>6, <2>7, CallsStraight
<1>2. CASE StartHost
  <2>. DEFINE f == [Here EXCEPT !.at = "ask"]
              g == Frame("walk", Here.name, Here.depth)
  <2>1. stack # <<>> /\ Here.proc = "host" /\ Here.at = "call" /\ UNCHANGED found
    BY <1>2 DEF StartHost, At
  <2>2. /\ Here \in Frames /\ Here.name \in Hosts \union {Target}
        /\ Here.depth \in Nat /\ Len(stack) # 1
    BY <2>1, HereIs DEF Frames
  <2>3. CASE Here.depth > MaxDepth
    <3>1. Return(Failure)
      BY <1>2, <2>3 DEF StartHost
    <3>2. 0 < MaxDepth /\ MaxDepth \in Nat
      BY HopsThere
    <3>3. Failure # Nothing /\ RightAnswer(Failure)
      BY <2>1, <2>2, <2>3, <3>2 DEF Failure, Nothing, RightAnswer
    <3>. QED
      BY <2>1, <3>1, <3>3, ReturnStraight
  <2>4. CASE ~(Here.depth > MaxDepth)
    <3>1. Call(f, g) /\ UNCHANGED <<ret, found>>
      BY <1>2, <2>1, <2>4 DEF StartHost
    <3>2. /\ f \in Frames /\ f.proc = "host" /\ f.at = "ask" /\ f.name = Here.name
          /\ f.depth = Here.depth
      BY <2>1, <2>2 DEF Frames
    <3>3. /\ g \in Frames /\ g.proc = "walk" /\ g.at = "call" /\ g.zone = NoZone
          /\ g.hops = 0
      BY <2>2, FrameIs
    <3>. HIDE DEF f, g
    <3>4. Same(f, Here) /\ GoesStraight(f) /\ GoesStraight(g)
      BY <2>1, <3>2, <3>3 DEF Same, GoesStraight
    <3>5. Calls(f, g)
      BY <2>1, <3>1, <3>2, <3>3, HereIs, CallIs DEF Calls, Lower
    <3>. QED
      BY <2>1, <2>2, <3>1, <3>2, <3>3, <3>4, <3>5, CallsStraight
  <2>. QED
    BY <2>3, <2>4
<1>3. CASE StartWalk
  <2>. DEFINE f == [Here EXCEPT !.at = "ask", !.servers = RootHints]
  <2>1. /\ stack # <<>> /\ Here.proc = "walk" /\ Here.at = "call" /\ Become(f)
        /\ UNCHANGED found
    BY <1>3 DEF StartWalk, At
  <2>2. Here \in Frames /\ GoesStraight(Here)
    BY <2>1, HereGoesStraight
  <2>3. /\ f \in Frames /\ f.proc = "walk" /\ f.zone = Here.zone /\ f.at = "ask"
        /\ f.name = Here.name /\ f.depth = Here.depth /\ f.hops = Here.hops
        /\ f.servers = RootHints
    BY <2>1, <2>2, DataAre DEF Frames
  <2>. HIDE DEF f
  <2>4. Same(f, Here) /\ GoesStraight(f) /\ HostFits(f)
    BY <2>1, <2>2, <2>3 DEF Same, GoesStraight, HostFits, Standing
  <2>. QED
    BY <2>1, <2>3, <2>4, BecomeStraight
<1>. QED
  BY <1>1, <1>2, <1>3

\* A plain walk runs out of hops at the cut only.
LEMMA HopsStraight ==
    ASSUME BelowRoot, Shallow, WalkInv, Straight, OutOfHops
    PROVE  Straight' /\ stack' # <<>>
<1>1. /\ stack # <<>> /\ Here.proc = "walk" /\ Here.at = "ask"
      /\ Here.hops = MaxDepth /\ Settle(Here.zone) /\ UNCHANGED found
  BY DEF OutOfHops, At
<1>2. /\ GoesStraight(Here) /\ Here.zone \in Zones \union {NoZone}
      /\ Here.name \in Hosts \union {Target} /\ NoZone \notin Zones
      /\ Here.zone = NoZone \/ Encloses(Here.zone, Here.name)
  BY <1>1, HereIs, HereGoesStraight, TreeAssumption
<1>3. \A z \in Zones : Len(z) \in Nat /\ Len(z) <= MaxDepth
  BY NamesAre, LenProperties DEF Shallow
<1>4. 0 < MaxDepth /\ MaxDepth \in Nat
  BY HopsThere
<1>5. ASSUME Standing(Here) PROVE Here.zone = CutOf(Here.name) /\ Here.zone # NoZone
  <2>1. Here.zone # NoZone
    BY <1>1, <1>4, <1>5 DEF Standing
  <2>2. MaxDepth <= Len(Here.zone)
    BY <1>1, <1>5, <2>1 DEF Standing
  <2>3. \A y \in Zones : Len(y) <= Len(Here.zone)
    BY <1>2, <1>3, <1>4, <2>1, <2>2
  <2>. QED
    BY <1>2, <2>1, <2>3, CutIs
<1>6. Plain(Here.name) => Standing(Here)
  BY <1>1, <1>2 DEF GoesStraight
<1>. QED
  BY <1>1, <1>5, <1>6, SettleStraight

\* The delegation of a plain host has glue, whose servers know its addresses.
LEMMA HostsStraight ==
    ASSUME WalkInv, Straight, HostWalked \/ HostAsk
    PROVE  Straight' /\ stack' # <<>>
<1>1. /\ stack # <<>> /\ Here.proc = "host" /\ Here.at = "ask" /\ UNCHANGED found
  BY DEF HostWalked, HostAsk, At
<1>2. Here \in Frames /\ Here.name \in Hosts /\ GoesStraight(Here)
  BY <1>1, HereIs, HereGoesStraight
<1>3. CASE HostWalked
  <2>1. ret.kind \in {"zone", "err"} /\ ret # Nothing
    BY <1>3 DEF HostWalked, Nothing
  <2>2. Plain(Here.name) => ret = ZoneFound(CutOf(Here.name))
    BY <1>1, <2>1 DEF Straight, PlainAnswers, Asked
  <2>3. CASE ret.kind = "err"
    <3>1. Return(Failure) /\ Failure # Nothing
      BY <1>3, <2>3 DEF HostWalked, Failure, Nothing
    <3>2. RightAnswer(Failure)
      BY <2>2, <2>3 DEF RightAnswer, ZoneFound
    <3>. QED
      BY <1>1, <3>1, <3>2, ReturnStraight
  <2>4. CASE ret.kind # "err"
    <3>. DEFINE glue == [Here EXCEPT !.zone = ret.zone,
                                     !.servers = NsAddrs(Glued[ret.zone])]
                look == [Here EXCEPT !.zone = ret.zone, !.at = "resolve",
                                     !.trying = Nameservers[ret.zone]]
    <3>1. /\ ret' = Nothing
          /\ IF Glued[ret.zone] # {} THEN Become(glue) ELSE Become(look)
      BY <1>3, <2>4 DEF HostWalked
    <3>2. /\ ret.zone \in Zones /\ NsAddrs(Glued[ret.zone]) \in SUBSET AllAddrs
          /\ Nameservers[ret.zone] \in SUBSET Hosts
          /\ Encloses(ret.zone, Here.name)
      BY <1>1, <2>1, <2>4, RetIs, DataAre DEF WalkInv, AnswersFit, Asked
    <3>3. /\ glue \in Frames /\ glue.proc = "host" /\ glue.name = Here.name
          /\ glue.depth = Here.depth /\ glue.at = "ask"
          /\ glue.servers = NsAddrs(Glued[ret.zone])
      BY <1>1, <1>2, <3>2 DEF Frames
    <3>4. /\ look \in Frames /\ look.proc = "host" /\ look.name = Here.name
          /\ look.depth = Here.depth /\ look.at = "resolve"
      BY <1>1, <1>2, <3>2 DEF Frames
    <3>5. Plain(Here.name) => Glued[ret.zone] # {} /\ ret.zone = CutOf(Here.name)
      BY <2>2, <3>2 DEF Plain, ZoneFound
    <3>. HIDE DEF glue, look
    <3>6. Same(glue, Here) /\ GoesStraight(glue) /\ HostFits(glue)
      BY <1>1, <3>1, <3>3, <3>5 DEF Same, GoesStraight, HostFits
    <3>7. CASE Glued[ret.zone] # {}
      BY <1>1, <3>1, <3>3, <3>6, <3>7, BecomeStraight
    <3>8. CASE Glued[ret.zone] = {}
      <4>1. Same(look, Here) /\ GoesStraight(look) /\ HostFits(look)
        BY <1>1, <3>4, <3>5, <3>8 DEF Same, GoesStraight, HostFits
      <4>. QED
        BY <1>1, <3>1, <3>4, <3>8, <4>1, BecomeStraight
    <3>. QED
      BY <3>7, <3>8
  <2>. QED
    BY <2>3, <2>4
<1>4. CASE HostAsk
  <2>1. PICK a \in Here.servers : Return(AddrsFound(HostAnswer(a, Here.name)))
    BY <1>4 DEF HostAsk
  <2>2. ret = Nothing
    BY <1>4 DEF HostAsk
  <2>. DEFINE v == AddrsFound(HostAnswer(a, Here.name))
  <2>3. v # Nothing
    BY DEF AddrsFound, Nothing
  <2>4. Plain(Here.name) => v = AddrsFound(HostAddrs[Here.name])
    <3>1. SUFFICES ASSUME Plain(Here.name)
                   PROVE  HostAnswer(a, Here.name) = HostAddrs[Here.name]
      OBVIOUS
    <3>2. a \in NsAddrs(Glued[CutOf(Here.name)])
      BY <1>1, <2>1, <2>2, <3>1 DEF Straight, PlainAnswers
    <3>3. CutOf(Here.name) \in Zones
      <4>. DEFINE S == {z \in Zones : Encloses(z, Here.name)}
      <4>1. S \in SUBSET Zones /\ \A z \in S : Encloses(z, Here.name)
        OBVIOUS
      <4>2. S # {}
        BY <1>2, RootEncloses
      <4>. HIDE DEF S
      <4>3. Deepest(S) \in Zones
        BY <1>2, <4>1, <4>2, DeepestIsThere
      <4>. QED
        BY <4>3 DEF CutOf, S
    <3>4. Glued[CutOf(Here.name)] \subseteq Nameservers[CutOf(Here.name)]
      BY <3>3, TreeAssumption
    <3>. QED
      BY <3>2, <3>4 DEF HostAnswer, NsAddrs
  <2>. HIDE DEF v
  <2>5. RightAnswer(v)
    BY <1>1, <2>4 DEF RightAnswer
  <2>. QED
    BY <1>1, <2>1, <2>3, <2>5, ReturnStraight DEF v
<1>. QED
  BY <1>3, <1>4

\* What is collected is known.
LEMMA LabelledAre ==
    ASSUME NEW ns, NEW addrs, found' = found \union Labelled(ns, addrs)
    PROVE  Known \subseteq Known' /\ addrs \subseteq Known'
<1>1. ASSUME NEW a \in addrs, a \notin Known PROVE a \in Known'
  <2>1. <<ns, a>> \in found' /\ <<ns, a>>[2] = a
    BY <1>1 DEF Labelled
  <2>. QED
    BY <2>1 DEF Known
<1>2. Known \subseteq Known'
  BY DEF Known
<1>. QED
  BY <1>1, <1>2

\* Only names that are not plain have nameservers looked up for them.
LEMMA TryingStraight ==
    ASSUME WalkInv, Straight, TryNext \/ Tried \/ NoneLeft
    PROVE  Straight' /\ stack' # <<>>
<1>1. /\ Len(stack) > 1 /\ Here.at = "resolve" /\ UNCHANGED found
  BY DEF TryNext, Tried, NoneLeft
<1>2. stack # <<>>
  BY <1>1, StackIs DEF WalkInv, WalkTypeOK
<1>3. /\ Here \in Frames /\ Here.proc # "top" /\ GoesStraight(Here)
      /\ stack \in Seq(Frames) /\ Here = stack[Len(stack)]
  BY <1>1, <1>2, HereIs, HereGoesStraight
<1>4. /\ ~Plain(Here.name) /\ Here.depth + 1 \in Nat /\ Here.trying \in SUBSET Hosts
      /\ Here.hops \in Nat
  BY <1>1, <1>3 DEF GoesStraight, Frames
<1>5. CASE TryNext
  <2>1. PICK ns \in Here.trying :
            Call([Here EXCEPT !.trying = @ \ {ns}], Frame("host", ns, Here.depth + 1))
    BY <1>5 DEF TryNext
  <2>. DEFINE f == [Here EXCEPT !.trying = @ \ {ns}]
              g == Frame("host", ns, Here.depth + 1)
  <2>2. /\ f \in Frames /\ f.proc = Here.proc /\ f.name = Here.name
        /\ f.depth = Here.depth
    BY <1>3, <1>4 DEF Frames
  <2>3. /\ g \in Frames /\ g.proc = "host" /\ g.at = "call" /\ g.zone = NoZone
        /\ g.hops = 0
    BY <1>4, FrameIs
  <2>4. Call(f, g) /\ UNCHANGED <<ret, found>>
    BY <1>5, <2>1 DEF TryNext
  <2>. HIDE DEF f, g
  <2>5. Same(f, Here) /\ GoesStraight(f) /\ GoesStraight(g)
    BY <1>4, <2>2, <2>3 DEF Same, GoesStraight
  <2>6. Calls(f, g)
    BY <1>2, <1>3, <2>2, <2>3, <2>4, CallIs DEF Calls, Lower
  <2>7. g.proc # "top" /\ Len(stack) # 1
    BY <1>2, <1>3, <2>3, HereIs
  <2>. QED
    BY <1>2, <2>2, <2>3, <2>4, <2>5, <2>6, <2>7, CallsStraight
<1>6. CASE Tried
  <2>1. CASE ~(ret.kind = "addrs" /\ ret.addrs # {})
    <3>1. UNCHANGED stack
      BY <1>6, <2>1 DEF Tried
    <3>2. Stays(Here) /\ Same(Here, Here) /\ HostFits(Here)
      BY <1>3, <1>4, <3>1 DEF Stays, Lower, Same, HostFits
    <3>. QED
      BY <1>1, <1>2, <1>3, <3>2, StaysStraight
  <2>2. CASE ret.kind = "addrs" /\ ret.addrs # {}
    <3>. DEFINE hops == IF Here.proc = "walk" THEN Here.hops + 1 ELSE Here.hops
                f == [Here EXCEPT !.at = "ask", !.servers = ret.addrs, !.trying = {},
                                  !.hops = IF Here.proc = "walk" THEN @ + 1 ELSE @]
    <3>1. Become(f)
      BY <1>6, <2>2 DEF Tried
    <3>2. /\ ret.addrs \in SUBSET AllAddrs /\ {} \in SUBSET Hosts /\ hops \in Nat
      BY <1>4, <2>2, RetIs DEF WalkInv
    <3>3. /\ f \in Frames /\ f.proc = Here.proc /\ f.name = Here.name
          /\ f.depth = Here.depth
      BY <1>3, <3>2 DEF Frames
    <3>. HIDE DEF f
    <3>4. Same(f, Here) /\ GoesStraight(f) /\ HostFits(f)
      BY <1>4, <3>3 DEF Same, GoesStraight, HostFits
    <3>. QED
      BY <1>1, <1>2, <1>3, <3>1, <3>3, <3>4, BecomeStraight
  <2>. QED
    BY <2>1, <2>2
<1>7. CASE NoneLeft
  <2>1. CASE Here.proc = "walk"
    <3>1. Settle(Here.zone)
      BY <1>7, <2>1 DEF NoneLeft
    <3>. QED
      BY <1>1, <1>2, <1>4, <2>1, <3>1, SettleStraight
  <2>2. CASE Here.proc # "walk"
    <3>1. Return(Failure) /\ Failure # Nothing /\ RightAnswer(Failure)
      BY <1>4, <1>7, <2>2 DEF NoneLeft, Failure, Nothing, RightAnswer
    <3>. QED
      BY <1>1, <1>2, <1>3, <3>1, ReturnStraight
  <2>. QED
    BY <2>1, <2>2
<1>. QED
  BY <1>5, <1>6, <1>7

\* The outermost call has every address it went for.
LEMMA TopStraight ==
    ASSUME Len(stack) = 1, NEW f \in Frames, Stays(f), f.proc = "top",
           f.at = "resolve", ret' = Nothing, f.zone = Cut,
           \A ns \in Nameservers[Cut] \ f.trying :
               ns \in Glued[Cut] \/ Plain(ns) => HostAddrs[ns] \subseteq Known'
    PROVE  Straight' /\ stack' # <<>>
<1>1. /\ Len(stack') = 1 /\ stack'[1] = f /\ Here' = f /\ stack' # <<>>
  <2>1. Len(stack') = 1 /\ stack'[1] = f /\ stack' \in Seq(Frames)
    BY DEF Stays
  <2>2. Len(<<>>) # 1
    BY EmptySeq
  <2>3. stack' # <<>>
    BY <2>1, <2>2, Zenon
  <2>. QED
    BY <2>1, <2>3 DEF Here
<1>2. PlainGoStraight'
  <2>1. \A k \in 1..Len(stack') : k = 1
    BY <1>1
  <2>. QED
    BY <1>1, <2>1 DEF PlainGoStraight, GoesStraight
<1>3. PlainAnswers'
  BY <1>1 DEF PlainAnswers
<1>4. Collecting'
  BY <1>1 DEF Collecting
<1>. QED
  BY <1>1, <1>2, <1>3, <1>4 DEF Straight

\* The outermost call goes for every nameserver of the cut, and keeps what it gets.
LEMMA CollectsStraight ==
    ASSUME Plain(Target), WalkInv, Straight,
           Walked \/ Collect \/ Collected \/ Answer
    PROVE  \/ Straight' /\ stack' # <<>>
           \/ stack' = <<>> /\ FindsTheCut'
<1>1. stack # <<>> /\ Here.proc = "top"
  BY DEF Walked, Collect, Collected, Answer, At
<1>2. /\ Here \in Frames /\ Here = stack[1] /\ Len(stack) = 1
      /\ stack \in Seq(Frames) /\ Here = stack[Len(stack)]
  BY <1>1, HereIs
<1>3. ret = Nothing => ~Looking
  BY <1>2 DEF Looking
<1>4. Here.at = "resolve" =>
          /\ Here.zone = Cut /\ Cut \in Zones
          /\ Here.trying \subseteq Nameservers[Cut]
          /\ ret # Nothing => Here.name \in Nameservers[Cut]
          /\ \A ns \in Nameservers[Cut] \ Here.trying :
                ns \in Glued[Cut] \/ Plain(ns) =>
                    \/ HostAddrs[ns] \subseteq Known
                    \/ /\ ret # Nothing /\ ns = Here.name /\ ns \notin Glued[Cut]
  <2>1. Here.at = "resolve" =>
            /\ Here.zone = Cut
            /\ \A ns \in Nameservers[Cut] \ Here.trying :
                  ns \in Glued[Cut] \/ Plain(ns) =>
                      \/ HostAddrs[ns] \subseteq Known
                      \/ Looking /\ ns = Here.name /\ ns \notin Glued[Cut]
    BY <1>1, <1>2 DEF Straight, Collecting
  <2>2. Here.at = "resolve" =>
            /\ Here.zone \in Zones /\ Here.trying \subseteq Nameservers[Here.zone]
            /\ ret # Nothing => Here.name \in Nameservers[Here.zone]
    BY <1>1, <1>2 DEF WalkInv, TopHolds, Looking
  <2>. QED
    BY <1>3, <2>1, <2>2, Zenon
<1>5. CASE Walked
  <2>1. ret.kind \in {"zone", "err"} /\ ret # Nothing /\ Here.at = "ask"
    BY <1>5 DEF Walked, At, Nothing
  <2>2. ret = ZoneFound(CutOf(Target))
    BY <1>1, <2>1 DEF Straight, PlainAnswers, Asked
  <2>3. ret.kind = "zone" /\ ret.zone = Cut
    BY <2>2 DEF ZoneFound, Cut
  <2>. DEFINE f == [Here EXCEPT !.at = "resolve", !.zone = ret.zone,
                                !.trying = Nameservers[ret.zone]]
  <2>4. Become(f) /\ ret' = Nothing
    BY <1>5, <2>3 DEF Walked
  <2>5. ret.zone \in Zones /\ Nameservers[ret.zone] \in SUBSET Hosts
    BY <2>3, RetIs, DataAre DEF WalkInv
  <2>6. /\ f \in Frames /\ f.proc = "top" /\ f.at = "resolve" /\ f.zone = Cut
        /\ f.trying = Nameservers[Cut]
    BY <1>1, <1>2, <2>3, <2>5 DEF Frames
  <2>. HIDE DEF f
  <2>7. Stays(f)
    BY <1>1, <1>2, <2>4, <2>6, BecomeIs DEF Stays, Lower
  <2>. QED
    BY <1>2, <2>4, <2>6, <2>7, TopStraight
<1>6. CASE Collect
  <2>1. PICK ns \in Here.trying :
            IF ns \in Glued[Here.zone]
            THEN /\ Become([Here EXCEPT !.trying = @ \ {ns}])
                 /\ found' = found \union Labelled(ns, HostAddrs[ns])
            ELSE /\ Call([[Here EXCEPT !.trying = @ \ {ns}] EXCEPT !.name = ns],
                         Frame("host", ns, 1))
                 /\ UNCHANGED found
    BY <1>6 DEF Collect
  <2>. DEFINE rest == [Here EXCEPT !.trying = @ \ {ns}]
              f == [rest EXCEPT !.name = ns]
              g == Frame("host", ns, 1)
  <2>2. Here.at = "resolve" /\ ret = Nothing /\ UNCHANGED ret
    BY <1>6 DEF Collect, At
  <2>3. ns \in Hosts
    BY <1>2, <2>1 DEF Frames
  <2>4. /\ rest \in Frames /\ rest.proc = "top" /\ rest.zone = Here.zone
        /\ rest.trying = Here.trying \ {ns} /\ rest.at = "resolve"
    BY <1>1, <1>2, <2>2 DEF Frames
  <2>5. /\ f \in Frames /\ f.proc = "top" /\ f.zone = Here.zone
        /\ f.trying = Here.trying \ {ns} /\ f.name = ns /\ f.at = "resolve"
    BY <1>1, <1>2, <2>2, <2>3 DEF Frames
  <2>6. /\ g \in Frames /\ g.proc = "host" /\ g.at = "call" /\ g.zone = NoZone
        /\ g.hops = 0
    BY <2>3, FrameIs
  <2>. HIDE DEF rest, f, g
  <2>7. \A m \in Nameservers[Cut] \ (Here.trying \ {ns}) :
            m \in Glued[Cut] \/ Plain(m) => m = ns \/ HostAddrs[m] \subseteq Known
    BY <1>4, <2>2
  <2>8. CASE ns \in Glued[Here.zone]
    <3>1. Become(rest) /\ found' = found \union Labelled(ns, HostAddrs[ns])
      BY <2>1, <2>8 DEF rest
    <3>2. Known \subseteq Known' /\ HostAddrs[ns] \subseteq Known'
      BY <3>1, LabelledAre
    <3>3. Stays(rest)
      BY <1>1, <1>2, <2>4, <3>1, BecomeIs DEF Stays, Lower
    <3>4. \A m \in Nameservers[Cut] \ rest.trying :
              m \in Glued[Cut] \/ Plain(m) => HostAddrs[m] \subseteq Known'
      BY <2>4, <2>7, <3>2
    <3>. QED
      BY <1>2, <1>4, <2>2, <2>4, <3>3, <3>4, TopStraight
  <2>9. CASE ns \notin Glued[Here.zone]
    <3>1. Call(f, g) /\ UNCHANGED <<ret, found>>
      BY <2>1, <2>2, <2>9 DEF rest, f, g
    <3>2. Calls(f, g)
      BY <1>1, <1>2, <2>5, <2>6, <3>1, CallIs DEF Calls, Lower
    <3>3. Same(f, Here) /\ GoesStraight(f) /\ GoesStraight(g)
      BY <1>1, <2>5, <2>6 DEF Same, GoesStraight
    <3>4. Collecting'
      <4>1. stack'[1] = f /\ Looking' /\ Known' = Known
        BY <1>2, <3>1, <3>2 DEF Calls, Looking, Known
      <4>2. \A m \in Nameservers[Cut] \ f.trying :
                m \in Glued[Cut] \/ Plain(m) =>
                    \/ HostAddrs[m] \subseteq Known'
                    \/ m = f.name /\ m \notin Glued[Cut]
        BY <1>4, <2>2, <2>5, <2>7, <2>9, <4>1
      <4>. QED
        BY <1>4, <2>2, <2>5, <4>1, <4>2 DEF Collecting
    <3>. QED
      BY <1>1, <2>5, <2>6, <3>1, <3>2, <3>3, <3>4, CallsStraight
  <2>. QED
    BY <2>8, <2>9
<1>7. CASE Collected
  <2>. DEFINE addrs == IF ret.kind = "addrs" THEN ret.addrs ELSE {}
  <2>1. /\ Here.at = "resolve" /\ ret # Nothing /\ ret' = Nothing /\ UNCHANGED stack
        /\ found' = found \union Labelled(Here.name, addrs)
    BY <1>7 DEF Collected, At
  <2>2. Plain(Here.name) => addrs = HostAddrs[Here.name]
    BY <1>1, <2>1 DEF Straight, PlainAnswers, AddrsFound
  <2>. HIDE DEF addrs
  <2>3. Known \subseteq Known' /\ addrs \subseteq Known'
    BY <2>1, LabelledAre
  <2>4. Stays(Here)
    BY <1>2, <2>1 DEF Stays, Lower
  <2>5. \A m \in Nameservers[Cut] \ Here.trying :
            m \in Glued[Cut] \/ Plain(m) => HostAddrs[m] \subseteq Known'
    BY <1>4, <2>1, <2>2, <2>3
  <2>. QED
    BY <1>1, <1>2, <1>4, <2>1, <2>4, <2>5, TopStraight
<1>8. CASE Answer
  <2>1. /\ Return(IF found = {} THEN Failure ELSE ZoneFound(Here.zone))
        /\ Here.at = "resolve" /\ UNCHANGED found /\ Here.trying = {} /\ ret = Nothing
    BY <1>8 DEF Answer, At
  <2>2. ret'.kind = "zone" => ret'.zone = Cut
    BY <1>4, <2>1 DEF Return, Failure, ZoneFound
  <2>3. stack' = <<>>
    <3>. DEFINE v == IF found = {} THEN Failure ELSE ZoneFound(Here.zone)
    <3>1. Ends(v)
      <4>. HIDE DEF v
      <4>. QED
        BY <1>1, <1>2, <2>1, ReturnIs DEF Ends, Lower, v
    <3>2. stack' \in Seq(Frames) /\ Len(stack') = 0
      BY <1>2, <3>1 DEF Ends
    <3>. QED
      BY <3>2, EmptySeq
  <2>4. \A ns \in Nameservers[Cut] :
            ns \in Glued[Cut] \/ Plain(ns) => HostAddrs[ns] \subseteq Known'
    BY <1>4, <2>1 DEF Known
  <2>. QED
    BY <2>2, <2>3, <2>4 DEF FindsTheCut
<1>. QED
  BY <1>5, <1>6, <1>7, <1>8

\* Every step keeps the invariant: a failure ends what it promises.
LEMMA CutInvStep ==
    ASSUME BelowRoot, Shallow, Separate, WalkInv, CutInv, [WalkNext]_walkVars
    PROVE  CutInv'
<1>1. CASE UNCHANGED walkVars
  BY <1>1 DEF walkVars, CutInv, PlainGoStraight, GoesStraight, Standing, PlainAnswers,
              Collecting, FindsTheCut, Looking, Here, Asked, Known, Returned
<1>2. CASE WalkNext
  <2>1. SUFFICES ASSUME faults' = 0, Plain(Target)
                 PROVE  (PlainGoStraight /\ PlainAnswers /\ Collecting /\ FindsTheCut)'
    BY DEF CutInv
  <2>2. ~AskLame /\ ~AskFails /\ ~HostAskFails /\ faults = 0
    <3>1. faults \in Nat
      BY TreeAssumption DEF WalkInv, WalkTypeOK
    <3>2. faults' = faults + 1 => FALSE
      BY <2>1, <3>1
    <3>3. ~AskLame /\ ~AskFails /\ ~HostAskFails
      BY <3>2 DEF AskLame, AskFails, HostAskFails
    <3>4. UNCHANGED faults
      BY <1>2, <3>3
         DEF WalkNext, StartTop, StartHost, StartWalk, Ask, OutOfHops, HostWalked,
             HostAsk, TryNext, Tried, NoneLeft, Walked, Collect, Collected, Answer
    <3>. QED
      BY <2>1, <3>3, <3>4
  <2>3. Straight
    BY <2>1, <2>2 DEF CutInv, Straight
  <2>4. \/ Straight' /\ stack' # <<>>
        \/ stack' = <<>> /\ FindsTheCut'
    BY <1>2, <2>1, <2>2, <2>3, StartsStraight, AskStraight, HopsStraight,
       HostsStraight, TryingStraight, CollectsStraight DEF WalkNext
  <2>5. CASE Straight' /\ stack' # <<>>
    BY <2>5 DEF Straight, FindsTheCut, Returned
  <2>6. CASE stack' = <<>> /\ FindsTheCut'
    <3>1. PlainGoStraight'
      <4>1. Len(stack') = 0
        BY <2>6, RootEncloses
      <4>. QED
        BY <4>1 DEF PlainGoStraight
    <3>. QED
      BY <2>6, <3>1 DEF PlainAnswers, Collecting
  <2>. QED
    BY <2>4, <2>5, <2>6
<1>. QED
  BY <1>1, <1>2

\* It holds before the first query.
LEMMA CutInvInit ==
    ASSUME WalkInit PROVE CutInv
<1>. DEFINE f == Frame("top", Target, 0)
<1>1. f \in Frames /\ f.proc = "top" /\ f.at = "call"
  BY FrameIs
<1>2. stack = <<f>> /\ ret = Nothing
  BY DEF WalkInit
<1>. HIDE DEF f
<1>3. /\ stack # <<>> /\ stack[1] = f /\ Here = f
      /\ \A k \in 1..Len(stack) : stack[k].proc = "top"
  BY <1>1, <1>2 DEF Here
<1>4. PlainGoStraight
  BY <1>3 DEF PlainGoStraight, GoesStraight
<1>5. PlainAnswers /\ Collecting /\ FindsTheCut
  BY <1>1, <1>3 DEF PlainAnswers, Collecting, FindsTheCut, Returned
<1>. QED
  BY <1>4, <1>5 DEF CutInv

\* If no server has both a zone and one inside it, every name is below a top-level
\* domain and no zone is deeper than MAX_DEPTH, then a walk in which nothing fails
\* ends at the zone of a plain challenge name, and every plain or glued nameserver
\* of it is polled at all its addresses.
THEOREM CutIsFound ==
    ASSUME BelowRoot, Shallow, Separate
    PROVE  WalkSpec => []FindsTheCut
<1>1. CutInv => FindsTheCut
  BY DEF CutInv, FindsTheCut
<1>2. WalkInv /\ CutInv /\ [WalkNext]_walkVars => CutInv'
  BY CutInvStep
<1>. QED
  BY <1>1, <1>2, WalkInvariant, CutInvInit, PTL DEF WalkSpec

-----------------------------------------------------------------------------
(* How deep the calls nest.                                                *)

\* A call is at most two places further up the stack for each level.
LevelOf(k, f) ==
    /\ f.proc = "walk" => k <= 2 * f.depth + 2 /\ f.depth <= MaxDepth
    /\ f.proc = "host" => k <= 2 * f.depth + 1 /\ f.depth <= MaxDepth + 1
    /\ f.proc = "host" /\ f.at # "call" => f.depth <= MaxDepth

Levels == \A k \in 1..Len(stack) : LevelOf(k, stack[k])

\* However nameservers without glue lead to one another, calls nest no deeper
\* than two for each of the levels MAX_DEPTH allows, and the outermost.
NestingIsBounded == Len(stack) <= 2 * MaxDepth + 3

\* The call on top, and what its level is made of.
LEMMA HereLevel ==
    ASSUME WalkInv, Levels, stack # <<>>
    PROVE  /\ LevelOf(Len(stack), Here)
           /\ Len(stack) \in Nat /\ MaxDepth \in Nat /\ Here.depth \in Nat
           /\ Here.proc \in {"top", "walk", "host"}
           /\ \A k \in 1..(Len(stack) - 1) : k \in 1..Len(stack)
           /\ \A k \in 1..Len(stack) : k = Len(stack) \/ k \in 1..(Len(stack) - 1)
<1>1. /\ Len(stack) \in 1..Len(stack) /\ Len(stack) \in Nat
      /\ Here = stack[Len(stack)] /\ Here \in Frames
  BY HereIs
<1>2. LevelOf(Len(stack), Here)
  BY <1>1 DEF Levels
<1>3. Here.depth \in Nat /\ Here.proc \in {"top", "walk", "host"}
  BY <1>1 DEF Frames
<1>4. /\ \A k \in 1..(Len(stack) - 1) : k \in 1..Len(stack)
      /\ \A k \in 1..Len(stack) : k = Len(stack) \/ k \in 1..(Len(stack) - 1)
  BY <1>1
<1>. QED
  BY <1>1, <1>2, <1>3, <1>4, TreeAssumption

\* One that goes on stays where it is.
LEMMA BecomeLevel ==
    ASSUME WalkInv, Levels, stack # <<>>, NEW f \in Frames, Become(f),
           Same(f, Here), Here.at # "call" \/ f.proc = "walk"
    PROVE  Levels'
<1>1. Stays(f)
  BY BecomeIs DEF WalkInv, WalkTypeOK, Stays, Lower
<1>2. LevelOf(Len(stack), f)
  BY HereLevel DEF LevelOf, Same
<1>3. ASSUME NEW k \in 1..Len(stack) PROVE LevelOf(k, stack'[k])
  <2>1. CASE k = Len(stack)
    BY <1>1, <1>2, <2>1 DEF Stays
  <2>2. CASE k \in 1..(Len(stack) - 1)
    BY <1>1, <2>2, HereLevel DEF Stays, Lower, Levels
  <2>. QED
    BY <2>1, <2>2, HereLevel
<1>4. ASSUME NEW k \in 1..Len(stack) PROVE LevelOf(k, stack[k])'
  BY <1>3 DEF LevelOf
<1>. QED
  BY <1>1, <1>4 DEF Stays, Levels

\* One that returns leaves the others where they are.
LEMMA ReturnLevel ==
    ASSUME WalkInv, Levels, stack # <<>>, NEW v, Return(v)
    PROVE  Levels'
<1>1. Len(stack') = Len(stack) - 1 /\ Lower
  BY ReturnIs DEF WalkInv, WalkTypeOK, Lower
<1>2. ASSUME NEW k \in 1..(Len(stack) - 1) PROVE LevelOf(k, stack[k])'
  <2>1. LevelOf(k, stack'[k])
    BY <1>1, HereLevel DEF Lower, Levels
  <2>. QED
    BY <2>1 DEF LevelOf
<1>. QED
  BY <1>1, <1>2 DEF Levels

\* So does a walk that ends.
LEMMA SettleLevel ==
    ASSUME WalkInv, Levels, stack # <<>>, NEW z, Settle(z)
    PROVE  Levels'
  BY ReturnLevel DEF Settle

\* One that calls puts the called one on the place above it.
LEMMA CallLevel ==
    ASSUME WalkInv, Levels, stack # <<>>, NEW f \in Frames, NEW g \in Frames,
           Call(f, g), Same(f, Here), f.proc = "host" => f.depth <= MaxDepth,
           LevelOf(Len(stack) + 1, g)
    PROVE  Levels'
<1>1. Calls(f, g)
  BY CallIs DEF WalkInv, WalkTypeOK, Calls, Lower
<1>2. LevelOf(Len(stack), f)
  BY HereLevel DEF LevelOf, Same
<1>3. ASSUME NEW k \in 1..(Len(stack) + 1) PROVE LevelOf(k, stack'[k])
  <2>1. CASE k = Len(stack) \/ k = Len(stack) + 1
    BY <1>1, <1>2, <2>1 DEF Calls
  <2>2. CASE k \in 1..(Len(stack) - 1)
    BY <1>1, <2>2, HereLevel DEF Calls, Lower, Levels
  <2>3. k \in 1..Len(stack) \/ k = Len(stack) + 1
    BY HereLevel
  <2>. QED
    BY <2>1, <2>2, <2>3, HereLevel
<1>4. ASSUME NEW k \in 1..(Len(stack) + 1) PROVE LevelOf(k, stack[k])'
  BY <1>3 DEF LevelOf
<1>. QED
  BY <1>1, <1>4 DEF Calls, Levels

\* The first step of a call; resolve_host stops at the limit.
LEMMA StartsLevel ==
    ASSUME WalkInv, Levels, StartTop \/ StartHost \/ StartWalk
    PROVE  Levels'
<1>1. stack # <<>> /\ Here.at = "call"
  BY DEF StartTop, StartHost, StartWalk, At
<1>2. Here \in Frames /\ (Here.proc = "top" <=> Len(stack) = 1)
      /\ (Here.proc = "host" => Here.name \in Hosts)
  BY <1>1, HereIs
<1>3. /\ LevelOf(Len(stack), Here) /\ Len(stack) \in Nat /\ MaxDepth \in Nat
      /\ Here.depth \in Nat
  BY <1>1, HereLevel
<1>. DEFINE f == [Here EXCEPT !.at = "ask"]
<1>4. f \in Frames /\ Same(f, Here) /\ f.proc = Here.proc /\ f.depth = Here.depth
  BY <1>2 DEF Frames, Same
<1>5. CASE StartTop
  <2>. DEFINE g == Frame("walk", Target, 0)
  <2>1. Here.proc = "top" /\ Call(f, g)
    BY <1>5 DEF StartTop, At
  <2>2. g \in Frames /\ g.proc = "walk" /\ g.depth = 0
    BY FrameIs
  <2>. HIDE DEF f, g
  <2>3. Len(stack) = 1 /\ f.proc # "host"
    BY <1>2, <1>4, <2>1
  <2>4. LevelOf(Len(stack) + 1, g)
    BY <1>3, <2>2, <2>3 DEF LevelOf
  <2>. QED
    BY <1>1, <1>4, <2>1, <2>2, <2>3, <2>4, CallLevel
<1>6. CASE StartHost
  <2>. DEFINE g == Frame("walk", Here.name, Here.depth)
  <2>1. Here.proc = "host"
    BY <1>6 DEF StartHost, At
  <2>2. CASE Here.depth > MaxDepth
    BY <1>1, <1>6, <2>2, ReturnLevel DEF StartHost
  <2>3. CASE ~(Here.depth > MaxDepth)
    <3>1. Call(f, g)
      BY <1>6, <2>3 DEF StartHost
    <3>2. g \in Frames /\ g.proc = "walk" /\ g.depth = Here.depth
      BY <1>2, <1>3, <2>1, FrameIs
    <3>. HIDE DEF f, g
    <3>3. Here.depth <= MaxDepth
      BY <1>3, <2>3
    <3>4. LevelOf(Len(stack) + 1, g)
      BY <1>3, <2>1, <3>2, <3>3 DEF LevelOf
    <3>. QED
      BY <1>1, <1>4, <3>1, <3>2, <3>3, <3>4, CallLevel
  <2>. QED
    BY <2>2, <2>3
<1>7. CASE StartWalk
  <2>. DEFINE w == [Here EXCEPT !.at = "ask", !.servers = RootHints]
  <2>1. Here.proc = "walk" /\ Become(w)
    BY <1>7 DEF StartWalk, At
  <2>2. w \in Frames /\ Same(w, Here) /\ w.proc = "walk"
    BY <1>2, <2>1, DataAre DEF Frames, Same
  <2>. HIDE DEF w
  <2>. QED
    BY <1>1, <2>1, <2>2, BecomeLevel
<1>. QED
  BY <1>5, <1>6, <1>7

\* A query of the walk makes no call.
LEMMA AskingLevel ==
    ASSUME WalkInv, Levels, Ask \/ AskLame \/ AskFails \/ OutOfHops
    PROVE  Levels'
<1>1. stack # <<>> /\ Here.proc = "walk" /\ Here \in Frames
  <2>1. stack # <<>> /\ Here.proc = "walk"
    BY DEF Ask, AskLame, AskFails, OutOfHops, Asking, At
  <2>. QED
    BY <2>1, HereIs
<1>2. Here.name \in Hosts \union {Target} /\ Here.hops \in Nat
  BY <1>1 DEF Frames
<1>3. ASSUME NEW z, Settle(z) PROVE Levels'
  BY <1>1, <1>3, SettleLevel
<1>4. ASSUME NEW r, r.owner \in Zones, Descend(r) PROVE Levels'
  <2>. DEFINE glue == [Here EXCEPT !.zone = r.owner, !.hops = @ + 1,
                                   !.servers = NsAddrs(Glued[r.owner])]
              look == [Here EXCEPT !.zone = r.owner, !.at = "resolve",
                                   !.servers = {}, !.trying = Nameservers[r.owner]]
  <2>1. \/ Settle(Here.zone) \/ Settle(r.owner)
        \/ Become(glue) \/ Become(look)
    BY <1>4 DEF Descend
  <2>2. /\ NsAddrs(Glued[r.owner]) \in SUBSET AllAddrs
        /\ Nameservers[r.owner] \in SUBSET Hosts /\ {} \in SUBSET AllAddrs
    BY <1>4, DataAre
  <2>3. glue \in Frames /\ glue.proc = "walk" /\ Same(glue, Here)
    <3>1. Here.hops + 1 \in Nat
      BY <1>2
    <3>. QED
      BY <1>1, <1>4, <2>2, <3>1 DEF Frames, Same
  <2>4. look \in Frames /\ look.proc = "walk" /\ Same(look, Here)
    BY <1>1, <1>4, <2>2 DEF Frames, Same
  <2>. HIDE DEF glue, look
  <2>. QED
    BY <1>1, <1>3, <2>1, <2>3, <2>4, BecomeLevel
<1>5. CASE Ask
  <2>1. PICK a \in Here.servers :
            IF NsAnswer(a, Here.name) = {} THEN Settle(Here.zone)
            ELSE \E r \in NsAnswer(a, Here.name) : Descend(r)
    BY <1>5 DEF Ask
  <2>2. ASSUME NEW r \in NsAnswer(a, Here.name) PROVE r.owner \in Zones
    BY <1>2, ReferralsAre
  <2>. QED
    BY <1>3, <1>4, <2>1, <2>2
<1>6. CASE AskLame
  <2>1. PICK z \in Zones, final \in BOOLEAN :
            Descend([owner |-> z, final |-> final])
    BY <1>6 DEF AskLame
  <2>2. [owner |-> z, final |-> final].owner \in Zones
    OBVIOUS
  <2>. QED
    BY <1>4, <2>1, <2>2
<1>7. CASE AskFails \/ OutOfHops
  BY <1>3, <1>7 DEF AskFails, OutOfHops
<1>. QED
  BY <1>5, <1>6, <1>7

\* Nor does resolve_host before it knows that it has to look a server up.
LEMMA HostsLevel ==
    ASSUME WalkInv, Levels, HostWalked \/ HostAsk \/ HostAskFails
    PROVE  Levels'
<1>1. stack # <<>> /\ Here.at # "call" /\ Here \in Frames
  <2>1. stack # <<>> /\ Here.at # "call"
    BY DEF HostWalked, HostAsk, HostAskFails, At
  <2>. QED
    BY <2>1, HereIs
<1>2. ASSUME NEW v, Return(v) PROVE Levels'
  BY <1>1, <1>2, ReturnLevel
<1>3. CASE HostWalked
  <2>. DEFINE glue == [Here EXCEPT !.zone = ret.zone,
                                   !.servers = NsAddrs(Glued[ret.zone])]
              look == [Here EXCEPT !.zone = ret.zone, !.at = "resolve",
                                   !.trying = Nameservers[ret.zone]]
  <2>1. CASE ret.kind = "err"
    BY <1>2, <1>3, <2>1 DEF HostWalked
  <2>2. CASE ret.kind # "err"
    <3>1. (Become(glue) \/ Become(look)) /\ ret.kind = "zone"
      BY <1>3, <2>2 DEF HostWalked
    <3>2. /\ ret.zone \in Zones /\ NsAddrs(Glued[ret.zone]) \in SUBSET AllAddrs
          /\ Nameservers[ret.zone] \in SUBSET Hosts
      BY <3>1, RetIs, DataAre DEF WalkInv
    <3>3. glue \in Frames /\ Same(glue, Here)
      BY <1>1, <3>2 DEF Frames, Same
    <3>4. look \in Frames /\ Same(look, Here)
      BY <1>1, <3>2 DEF Frames, Same
    <3>. HIDE DEF glue, look
    <3>. QED
      BY <1>1, <3>1, <3>3, <3>4, BecomeLevel
  <2>. QED
    BY <2>1, <2>2
<1>. QED
  BY <1>2, <1>3 DEF HostAsk, HostAskFails

\* A call that changes nothing on the stack.
LEMMA RestLevel ==
    ASSUME Levels, UNCHANGED stack PROVE Levels'
  BY DEF Levels, LevelOf

\* A nameserver is looked up one level further down.
LEMMA TryingLevel ==
    ASSUME WalkInv, Levels, TryNext \/ Tried \/ NoneLeft
    PROVE  Levels'
<1>1. Len(stack) > 1 /\ Here.at = "resolve" /\ stack # <<>>
  <2>1. Len(stack) > 1 /\ Here.at = "resolve"
    BY DEF TryNext, Tried, NoneLeft
  <2>. QED
    BY <2>1, StackIs DEF WalkInv, WalkTypeOK
<1>2. Here \in Frames /\ Here.proc # "top" /\ Here.hops \in Nat
      /\ Here.trying \in SUBSET Hosts
  BY <1>1, HereIs DEF Frames
<1>3. /\ LevelOf(Len(stack), Here) /\ Len(stack) \in Nat /\ MaxDepth \in Nat
      /\ Here.depth \in Nat /\ Here.proc \in {"walk", "host"}
  BY <1>1, <1>2, HereLevel
<1>4. CASE TryNext
  <2>1. PICK ns \in Here.trying :
            Call([Here EXCEPT !.trying = @ \ {ns}], Frame("host", ns, Here.depth + 1))
    BY <1>4 DEF TryNext
  <2>. DEFINE f == [Here EXCEPT !.trying = @ \ {ns}]
              g == Frame("host", ns, Here.depth + 1)
  <2>2. f \in Frames /\ Same(f, Here) /\ f.depth = Here.depth /\ f.proc = Here.proc
    BY <1>2 DEF Frames, Same
  <2>3. g \in Frames /\ g.proc = "host" /\ g.at = "call" /\ g.depth = Here.depth + 1
    BY <1>2, <1>3, FrameIs
  <2>4. Call(f, g)
    BY <2>1
  <2>. HIDE DEF f, g
  <2>5. Here.depth <= MaxDepth /\ Len(stack) <= 2 * Here.depth + 2
    BY <1>1, <1>3 DEF LevelOf
  <2>6. LevelOf(Len(stack) + 1, g)
    BY <1>3, <2>3, <2>5 DEF LevelOf
  <2>. QED
    BY <1>1, <2>2, <2>3, <2>4, <2>5, <2>6, CallLevel
<1>5. CASE Tried
  <2>1. CASE ~(ret.kind = "addrs" /\ ret.addrs # {})
    BY <1>5, <2>1, RestLevel DEF Tried
  <2>2. CASE ret.kind = "addrs" /\ ret.addrs # {}
    <3>. DEFINE hops == IF Here.proc = "walk" THEN Here.hops + 1 ELSE Here.hops
                f == [Here EXCEPT !.at = "ask", !.servers = ret.addrs, !.trying = {},
                                  !.hops = IF Here.proc = "walk" THEN @ + 1 ELSE @]
    <3>1. Become(f)
      BY <1>5, <2>2 DEF Tried
    <3>2. ret.addrs \in SUBSET AllAddrs /\ {} \in SUBSET Hosts /\ hops \in Nat
      BY <1>2, <2>2, RetIs DEF WalkInv
    <3>3. f \in Frames /\ Same(f, Here)
      BY <1>2, <3>2 DEF Frames, Same
    <3>. HIDE DEF f
    <3>. QED
      BY <1>1, <3>1, <3>3, BecomeLevel
  <2>. QED
    BY <2>1, <2>2
<1>6. CASE NoneLeft
  BY <1>1, <1>6, SettleLevel, ReturnLevel DEF NoneLeft
<1>. QED
  BY <1>4, <1>5, <1>6

\* The outermost call looks nameservers up on the first level.
LEMMA TopLevel ==
    ASSUME WalkInv, Levels, Walked \/ Collect \/ Collected \/ Answer
    PROVE  Levels'
<1>1. stack # <<>> /\ Here.proc = "top" /\ Here.at # "call"
  BY DEF Walked, Collect, Collected, Answer, At
<1>2. Here \in Frames /\ Len(stack) = 1 /\ Here.trying \in SUBSET Hosts
  BY <1>1, HereIs DEF Frames
<1>3. CASE Walked
  <2>. DEFINE f == [Here EXCEPT !.at = "resolve", !.zone = ret.zone,
                                !.trying = Nameservers[ret.zone]]
  <2>1. CASE ret.kind = "err"
    BY <1>1, <1>3, <2>1, ReturnLevel DEF Walked
  <2>2. CASE ret.kind # "err"
    <3>1. Become(f) /\ ret.kind = "zone"
      BY <1>3, <2>2 DEF Walked
    <3>2. ret.zone \in Zones /\ Nameservers[ret.zone] \in SUBSET Hosts
      BY <3>1, RetIs, DataAre DEF WalkInv
    <3>3. f \in Frames /\ Same(f, Here)
      BY <1>1, <1>2, <3>2 DEF Frames, Same
    <3>. HIDE DEF f
    <3>. QED
      BY <1>1, <3>1, <3>3, BecomeLevel
  <2>. QED
    BY <2>1, <2>2
<1>4. CASE Collect
  <2>1. PICK ns \in Here.trying :
            \/ Become([Here EXCEPT !.trying = @ \ {ns}])
            \/ Call([[Here EXCEPT !.trying = @ \ {ns}] EXCEPT !.name = ns],
                    Frame("host", ns, 1))
    BY <1>4 DEF Collect
  <2>. DEFINE rest == [Here EXCEPT !.trying = @ \ {ns}]
              f == [rest EXCEPT !.name = ns]
              g == Frame("host", ns, 1)
  <2>2. rest \in Frames /\ Same(rest, Here)
    BY <1>1, <1>2 DEF Frames, Same
  <2>3. f \in Frames /\ Same(f, Here) /\ f.proc = "top"
    BY <1>1, <1>2 DEF Frames, Same
  <2>4. g \in Frames /\ g.proc = "host" /\ g.at = "call" /\ g.depth = 1
    BY <1>2, FrameIs
  <2>5. Become(rest) \/ Call(f, g)
    BY <2>1
  <2>. HIDE DEF rest, f, g
  <2>6. LevelOf(Len(stack) + 1, g)
    BY <1>2, <2>4, TreeAssumption DEF LevelOf
  <2>. QED
    BY <1>1, <2>2, <2>3, <2>4, <2>5, <2>6, BecomeLevel, CallLevel
<1>5. CASE Collected
  BY <1>5, RestLevel DEF Collected
<1>6. CASE Answer
  BY <1>1, <1>6, ReturnLevel DEF Answer
<1>. QED
  BY <1>3, <1>4, <1>5, <1>6

\* No call is further up than its level allows.
LEMMA LevelsInvariant == WalkSpec => []Levels
<1>1. ASSUME WalkInit PROVE Levels
  <2>1. Frame("top", Target, 0).proc = "top"
    BY FrameIs
  <2>2. Len(stack) = 1 /\ stack[1].proc = "top"
    BY <1>1, <2>1 DEF WalkInit
  <2>3. \A k \in 1..Len(stack) : stack[k].proc = "top"
    BY <2>2
  <2>. QED
    BY <2>3 DEF Levels, LevelOf
<1>2. ASSUME WalkInv, Levels, [WalkNext]_walkVars PROVE Levels'
  <2>1. CASE UNCHANGED walkVars
    BY <1>2, <2>1, RestLevel DEF walkVars
  <2>2. CASE WalkNext
    BY <1>2, <2>2, StartsLevel, AskingLevel, HostsLevel, TryingLevel, TopLevel
       DEF WalkNext
  <2>. QED
    BY <1>2, <2>1, <2>2
<1>. QED
  BY <1>1, <1>2, WalkInvariant, PTL DEF WalkSpec

\* For every tree, zones whose nameservers need one another included: the calls
\* of delegation_for and resolve_host never nest deeper than MAX_DEPTH allows.
THEOREM CallsNestShallow == WalkSpec => []NestingIsBounded
<1>1. ASSUME WalkInv, Levels PROVE NestingIsBounded
  <2>1. CASE stack = <<>>
    <3>1. Len(stack) = 0 /\ MaxDepth \in Nat
      BY <2>1, EmptySeq, TreeAssumption
    <3>. QED
      BY <3>1 DEF NestingIsBounded
  <2>2. CASE stack # <<>>
    <3>1. Here.proc = "top" => Len(stack) = 1
      BY <1>1, <2>2, HereIs
    <3>2. /\ LevelOf(Len(stack), Here) /\ Len(stack) \in Nat /\ MaxDepth \in Nat
          /\ Here.depth \in Nat /\ Here.proc \in {"top", "walk", "host"}
      BY <1>1, <2>2, HereLevel
    <3>. QED
      BY <3>1, <3>2 DEF LevelOf, NestingIsBounded
  <2>. QED
    BY <2>1, <2>2
<1>. QED
  BY <1>1, WalkInvariant, LevelsInvariant, PTL
=============================================================================
