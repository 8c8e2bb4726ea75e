------------------------------ MODULE Delegation ------------------------------
(***************************************************************************)
(* Who is authoritative for a challenge name: the walk down the delegations *)
(* that authoritative_servers makes from the root hints                     *)
(* (services/dns_check.rs), with the recursion that looks up the addresses  *)
(* of nameservers whose referral carried none.                              *)
(*                                                                         *)
(* A name is the sequence of its labels from the root, so that a zone       *)
(* encloses a name when it is a prefix of it.  The delegations are          *)
(* constants; what varies is which server of a list answers first, in what  *)
(* order NS names are tried, which queries fail and what lame servers say.  *)
(* The recursive calls are frames of a stack, the callee on top.            *)
(***************************************************************************)
EXTENDS Naturals, Sequences, FiniteSets

CONSTANTS
    Target,     \* the challenge name
    Zones,      \* the zone cuts, the root <<>> among them
    Nameservers, \* [Zones -> set of nameserver names]
    Glued,      \* [Zones -> the nameserver names whose addresses come along]
    HostAddrs,  \* [nameserver names -> set of addresses]
    MaxDepth,   \* MAX_DEPTH: referral hops, and nested address lookups
    MaxFaults,  \* bound on failed queries and stray referrals
    NoZone

Encloses(z, n) == Len(z) <= Len(n) /\ SubSeq(n, 1, Len(z)) = z

Hosts == UNION {Nameservers[z] : z \in Zones}
AllAddrs == UNION {HostAddrs[n] : n \in Hosts}

ASSUME TreeAssumption ==
    /\ <<>> \in Zones /\ Zones \subseteq Seq(STRING) /\ Target \in Seq(STRING)
    /\ Hosts \subseteq Seq(STRING) /\ IsFiniteSet(Zones) /\ IsFiniteSet(Hosts)
    /\ \A z \in Zones : Nameservers[z] # {} /\ Glued[z] \subseteq Nameservers[z]
    /\ DOMAIN Nameservers = Zones /\ DOMAIN Glued = Zones /\ DOMAIN HostAddrs = Hosts
    /\ \A n \in Hosts : HostAddrs[n] # {}
    /\ NoZone \notin Zones
    /\ MaxDepth \in Nat /\ MaxFaults \in Nat

VARIABLES
    stack,   \* the calls under way: "top", "walk" and "host" frames
    ret,     \* what the call that just returned answered
    found,   \* out of authoritative_servers: <<nameserver, address>> pairs
    faults

walkVars == <<stack, ret, found, faults>>

Nothing == [kind |-> "none"]
Failure == [kind |-> "err"]
ZoneFound(z) == [kind |-> "zone", zone |-> z]
AddrsFound(s) == [kind |-> "addrs", addrs |-> s]

\* One call: `at` is "call" before it does anything, "ask" when it queries
\* `servers`, "resolve" while it looks for the address of one of `trying`.
Frame(proc, name, depth) ==
    [proc |-> proc, name |-> name, depth |-> depth, at |-> "call", hops |-> 0,
     zone |-> NoZone, servers |-> {}, trying |-> {}]

NsAddrs(ns) == UNION {HostAddrs[n] : n \in ns}
RootHints == NsAddrs(Nameservers[<<>>])

Frames == [proc : {"top", "walk", "host"}, name : Hosts \union {Target},
           depth : Nat, at : {"call", "ask", "resolve"}, hops : Nat,
           zone : Zones \union {NoZone}, servers : SUBSET AllAddrs,
           trying : SUBSET Hosts]
Returns == {Nothing, Failure} \union {ZoneFound(z) : z \in Zones}
           \union {AddrsFound(s) : s \in SUBSET AllAddrs}

WalkTypeOK ==
    /\ stack \in Seq(Frames) /\ ret \in Returns
    /\ found \subseteq Hosts \X AllAddrs
    /\ faults \in 0..MaxFaults

--------------------------------------------------------------------------
(* What a server answers, and what the client makes of it *)

Holding(a) == {z \in Zones : a \in NsAddrs(Nameservers[z])}
Deepest(S) == CHOOSE z \in S : \A y \in S : Len(y) <= Len(z)
Shallowest(S) == CHOOSE z \in S : \A y \in S : Len(z) <= Len(y)
\* The zone a name is in.
CutOf(n) == Deepest({z \in Zones : Encloses(z, n)})

\* The NS record set server a has for name n: a referral to the next cut below
\* what it holds, the set of the name itself, or none.
NsAnswer(a, n) ==
    LET held == {z \in Holding(a) : Encloses(z, n)}
        below == {c \in Zones : Encloses(c, n) /\ Len(c) > Len(Deepest(held))}
    IN IF held = {} THEN {}
       ELSE IF below # {} THEN {[owner |-> Shallowest(below), final |-> FALSE]}
       ELSE IF Deepest(held) = n THEN {[owner |-> n, final |-> TRUE]}
       ELSE {}

\* The addresses server a has for host n: only the deepest zone's own servers
\* know them, any other refers further.
HostAnswer(a, n) ==
    IF a \in NsAddrs(Nameservers[CutOf(n)])
    THEN HostAddrs[n] ELSE {}

\* Mutant: any zone below the last one is followed, the name's or not.
Acceptable_Sideways(zone, owner, n) == zone = NoZone \/ Encloses(zone, owner)

\* A referral is followed only downwards and only towards the name.
Acceptable(zone, owner, n) ==
    Encloses(owner, n) /\ (zone = NoZone \/ Encloses(zone, owner))

--------------------------------------------------------------------------
WalkInit ==
    /\ stack = <<Frame("top", Target, 0)>>
    /\ ret = Nothing
    /\ found = {}
    /\ faults = 0

Here == stack[Len(stack)]
At(proc, at) == stack # <<>> /\ Here.proc = proc /\ Here.at = at

Become(f) == stack' = [stack EXCEPT ![Len(stack)] = f]
Return(v) == stack' = SubSeq(stack, 1, Len(stack) - 1) /\ ret' = v
Call(f, callee) == stack' = Append(SubSeq(stack, 1, Len(stack) - 1), f) \o <<callee>>

\* The end of delegation_for: the last delegation seen, if there was one.
Settle(zone) == Return(IF zone = NoZone THEN Failure ELSE ZoneFound(zone))

\* authoritative_servers calls delegation_for(name, 0); resolve_host does so
\* one level deeper each time, and stops at the limit.
StartTop ==
    /\ At("top", "call")
    /\ Call([Here EXCEPT !.at = "ask"], Frame("walk", Target, 0))
    /\ UNCHANGED <<ret, found, faults>>

StartHost ==
    /\ At("host", "call")
    /\ IF Here.depth > MaxDepth
       THEN Return(Failure)
       ELSE /\ Call([Here EXCEPT !.at = "ask"], Frame("walk", Here.name, Here.depth))
            /\ UNCHANGED ret
    /\ UNCHANGED <<found, faults>>

StartWalk ==
    /\ At("walk", "call")
    /\ Become([Here EXCEPT !.at = "ask", !.servers = RootHints])
    /\ UNCHANGED <<ret, found, faults>>

\* A referral or answer with NS records for `owner`: the end of the walk, or
\* the servers to ask next - those of the glue, or one that has to be looked
\* up first.
Descend(r) ==
    IF ~Acceptable(Here.zone, r.owner, Here.name) THEN Settle(Here.zone)
    ELSE IF r.owner = Here.zone \/ r.final THEN Settle(r.owner)
    ELSE /\ IF Glued[r.owner] # {}
            THEN Become([Here EXCEPT !.zone = r.owner, !.hops = @ + 1,
                                     !.servers = NsAddrs(Glued[r.owner])])
            ELSE Become([Here EXCEPT !.zone = r.owner, !.at = "resolve",
                                     !.servers = {}, !.trying = Nameservers[r.owner]])
         /\ UNCHANGED ret

Asking == At("walk", "ask") /\ Here.hops < MaxDepth

\* query_any: the first server of the rotated list that gives a real answer.
Ask ==
    /\ Asking
    /\ \E a \in Here.servers :
          IF NsAnswer(a, Here.name) = {} THEN Settle(Here.zone)
          ELSE \E r \in NsAnswer(a, Here.name) : Descend(r)
    /\ UNCHANGED <<found, faults>>

\* A lame server refers wherever it likes.
AskLame ==
    /\ Asking
    /\ faults < MaxFaults
    /\ faults' = faults + 1
    /\ \E z \in Zones, final \in BOOLEAN : Descend([owner |-> z, final |-> final])
    /\ UNCHANGED found

\* No server of the level answers.
AskFails ==
    /\ Asking
    /\ faults < MaxFaults
    /\ faults' = faults + 1
    /\ Settle(Here.zone)
    /\ UNCHANGED found

OutOfHops ==
    /\ At("walk", "ask")
    /\ Here.hops = MaxDepth
    /\ Settle(Here.zone)
    /\ UNCHANGED <<found, faults>>

\* resolve_host has its delegation: query the glue, or look one server up.
HostWalked ==
    /\ At("host", "ask")
    /\ ret.kind \in {"zone", "err"}
    /\ IF ret.kind = "err" THEN Return(Failure)
       ELSE /\ ret' = Nothing
            /\ IF Glued[ret.zone] # {}
               THEN Become([Here EXCEPT !.zone = ret.zone,
                                        !.servers = NsAddrs(Glued[ret.zone])])
               ELSE Become([Here EXCEPT !.zone = ret.zone, !.at = "resolve",
                                        !.trying = Nameservers[ret.zone]])
    /\ UNCHANGED <<found, faults>>

\* The A and AAAA queries; a failed one counts as no address.
HostAsk ==
    /\ At("host", "ask")
    /\ ret = Nothing
    /\ \E a \in Here.servers : Return(AddrsFound(HostAnswer(a, Here.name)))
    /\ UNCHANGED <<found, faults>>

HostAskFails ==
    /\ At("host", "ask")
    /\ ret = Nothing
    /\ faults < MaxFaults
    /\ faults' = faults + 1
    /\ \E s \in SUBSET HostAddrs[Here.name] : Return(AddrsFound(s))
    /\ UNCHANGED found

\* Mutant: a nameserver that has no address is tried again.
TryNext_Again ==
    /\ Len(stack) > 1 /\ Here.at = "resolve"
    /\ ret = Nothing
    /\ \E ns \in Here.trying :
          Call(Here, Frame("host", ns, Here.depth + 1))
    /\ UNCHANGED <<ret, found, faults>>

\* A nameserver without glue is looked up from the root, one NS name after the
\* other until one has an address.
TryNext ==
    /\ Len(stack) > 1 /\ Here.at = "resolve"
    /\ ret = Nothing
    /\ \E ns \in Here.trying :
          Call([Here EXCEPT !.trying = @ \ {ns}], Frame("host", ns, Here.depth + 1))
    /\ UNCHANGED <<ret, found, faults>>

Tried ==
    /\ Len(stack) > 1 /\ Here.at = "resolve"
    /\ ret # Nothing
    /\ ret' = Nothing
    /\ IF ret.kind = "addrs" /\ ret.addrs # {}
       THEN Become([Here EXCEPT !.at = "ask", !.servers = ret.addrs, !.trying = {},
                                !.hops = IF Here.proc = "walk" THEN @ + 1 ELSE @])
       ELSE UNCHANGED stack
    /\ UNCHANGED <<found, faults>>

NoneLeft ==
    /\ Len(stack) > 1 /\ Here.at = "resolve"
    /\ ret = Nothing
    /\ Here.trying = {}
    /\ IF Here.proc = "walk" THEN Settle(Here.zone) ELSE Return(Failure)
    /\ UNCHANGED <<found, faults>>

\* authoritative_servers has the delegation: collect the addresses of each of
\* its nameservers, an address only once.
Known == {p[2] : p \in found}
Labelled(ns, addrs) == {ns} \X (addrs \ Known)

Walked ==
    /\ At("top", "ask")
    /\ ret.kind \in {"zone", "err"}
    /\ IF ret.kind = "err" THEN Return(Failure)
       ELSE /\ Become([Here EXCEPT !.at = "resolve", !.zone = ret.zone,
                                   !.trying = Nameservers[ret.zone]])
            /\ ret' = Nothing
    /\ UNCHANGED <<found, faults>>

Collect ==
    /\ At("top", "resolve")
    /\ ret = Nothing
    /\ \E ns \in Here.trying :
          LET rest == [Here EXCEPT !.trying = @ \ {ns}] IN
          IF ns \in Glued[Here.zone]
          THEN Become(rest) /\ found' = found \union Labelled(ns, HostAddrs[ns])
          ELSE Call([rest EXCEPT !.name = ns], Frame("host", ns, 1)) /\ UNCHANGED found
    /\ UNCHANGED <<ret, faults>>

\* Mutant: a nameserver that cannot be resolved ends the call with an error.
Collected_Bails ==
    /\ At("top", "resolve")
    /\ ret # Nothing
    /\ IF ret.kind = "addrs"
       THEN ret' = Nothing /\ found' = found \union Labelled(Here.name, ret.addrs)
                           /\ UNCHANGED stack
       ELSE Return(Failure) /\ UNCHANGED found
    /\ UNCHANGED faults

Collected ==
    /\ At("top", "resolve")
    /\ ret # Nothing
    /\ ret' = Nothing
    /\ found' = found \union
                   Labelled(Here.name, IF ret.kind = "addrs" THEN ret.addrs ELSE {})
    /\ UNCHANGED <<stack, faults>>

Answer ==
    /\ At("top", "resolve")
    /\ ret = Nothing
    /\ Here.trying = {}
    /\ Return(IF found = {} THEN Failure ELSE ZoneFound(Here.zone))
    /\ UNCHANGED <<found, faults>>

WalkNext ==
    \/ StartTop \/ StartHost \/ StartWalk
    \/ Ask \/ AskLame \/ AskFails \/ OutOfHops
    \/ HostWalked \/ HostAsk \/ HostAskFails
    \/ TryNext \/ Tried \/ NoneLeft
    \/ Walked \/ Collect \/ Collected \/ Answer

WalkSpec == WalkInit /\ [][WalkNext]_walkVars

\* The walk is one task; each of its queries ends within its time limit.
FairWalkSpec == WalkSpec /\ WF_walkVars(WalkNext)

--------------------------------------------------------------------------
(* Properties *)

Returned == stack = <<>>

\* Whatever fails and whatever lame servers say, an address is polled for the
\* challenge name only as an address of a nameserver of a zone that encloses
\* the name: a stray referral never leads the propagation check sideways, to
\* servers whose answers would say nothing about what the CA will see.
ServersEncloseTarget ==
    \A p \in found : \E z \in Zones :
        Encloses(z, Target) /\ p[1] \in Nameservers[z] /\ p[2] \in HostAddrs[p[1]]

\* The zone the challenge name is in.
Cut == CutOf(Target)
\* A host whose address takes no further lookup to find.
Plain(n) == \A z \in Zones : Encloses(z, n) => Glued[z] # {}

\* When nothing fails the walk ends at the challenge name's own zone, not at a
\* parent of it, and every nameserver of the zone that came with its address,
\* or that glue leads to, is polled at all its addresses - also when another
\* nameserver of the zone cannot be resolved at all.
FindsTheCut ==
    Returned /\ faults = 0 /\ Plain(Target) =>
        /\ ret.kind = "zone" => ret.zone = Cut
        /\ \A ns \in Nameservers[Cut] :
              ns \in Glued[Cut] \/ Plain(ns) => HostAddrs[ns] \subseteq Known

\* What the theorem about FindsTheCut asks of the delegations.  Every name is
\* below a top-level domain; a walk has a hop for each cut; and no server has
\* both a zone and one inside it.
BelowRoot ==
    \A n \in Hosts \union {Target} : \E z \in Zones \ {<<>>} : Encloses(z, n)
Shallow == \A z \in Zones : Len(z) <= MaxDepth
Separate ==
    \A y, z \in Zones : y # z /\ Encloses(y, z) =>
        NsAddrs(Nameservers[y]) \intersect NsAddrs(Nameservers[z]) = {}

\* The walk returns, an answer or an error, for every delegation and every
\* pattern of failures: the issuance that waits for it is not held up for ever.
WalkReturns == <>Returned

=============================================================================
