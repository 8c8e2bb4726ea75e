------------------------------ MODULE Propagation ------------------------------
(***************************************************************************)
(* wait_for_propagation (services/dns_check.rs): every nameserver of every  *)
(* challenge name is asked for the TXT values, at all its addresses in      *)
(* parallel, pass after pass until they all serve them or the time is up.   *)
(* Meanwhile the nameservers catch up one by one, stop answering, and lose  *)
(* and regain their route from this host.                                   *)
(*                                                                         *)
(* Module Delegation finds the addresses a wait starts with.                *)
(***************************************************************************)
EXTENDS Naturals, FiniteSets

CONSTANTS
    Names,          \* the challenge names
    Servers,        \* the nameservers
    NsOf,           \* [Names -> nameservers whose addresses were found]
    AddrsOf,        \* [Servers -> their addresses]
    Expected,       \* [Names -> TXT values that must be visible]
    Timeout,        \* of the whole wait
    QueryTime,      \* QUERY_TIMEOUT, for the UDP and then the TCP attempt
    PollInterval,
    MaxTurns        \* bound on changes of reachability

Addrs == UNION {AddrsOf[s] : s \in Servers}
Values == UNION {Expected[n] : n \in Names}
Probes == {p \in Names \X Servers \X Addrs : p[2] \in NsOf[p[1]] /\ p[3] \in AddrsOf[p[2]]}

ASSUME WaitAssumption ==
    /\ DOMAIN NsOf = Names /\ DOMAIN Expected = Names /\ DOMAIN AddrsOf = Servers
    /\ \A n \in Names : NsOf[n] \subseteq Servers /\ NsOf[n] # {} /\ Expected[n] # {}
    /\ \A s \in Servers : AddrsOf[s] # {}
    /\ Timeout \in Nat /\ QueryTime \in Nat /\ PollInterval \in Nat /\ MaxTurns \in Nat
    /\ IsFiniteSet(Probes)

VARIABLES
    phase,    \* "probing" or "sleeping", then the result
    live,     \* the probes of each pass: addresses not given up on
    pending,  \* probes of this pass that have not come back
    answers,  \* what the ones of the last pass said
    now,      \* the clock; the wait starts at 0
    until,    \* when the probes of the pass time out, or the sleep ends
    serves,   \* [Names -> [Addrs -> values its server has by now]]
    path,     \* [Addrs -> "open", "mute" or "none"] as seen from this host
    lost,     \* addresses that had no route at some time
    turns

wait == <<phase, live, pending, answers, until>>
world == <<serves, path, lost, turns>>
vars == <<wait, now, world>>

Results == {"ready", "timeout", "error"}

NoRoute == [kind |-> "noroute"]
Failed == [kind |-> "failed"]
Answered(seen) == [kind |-> "answered", seen |-> seen]

--------------------------------------------------------------------------
(* One nameserver after a pass *)

AnswersOf(n, s) == {answers[p] : p \in {q \in live : q[1] = n /\ q[2] = s}}

\* Mutant: one address with all the values is enough.
Assess_AnyAddress(n, s) ==
    LET got == {r \in AnswersOf(n, s) : r.kind = "answered"}
    IN IF \A r \in AnswersOf(n, s) : r = NoRoute THEN "unreachable"
       ELSE IF got = {} THEN "noanswer"
       ELSE IF \E r \in got : Expected[n] \subseteq r.seen THEN "ready"
       ELSE "missing"

\* Mutant: a server none of whose addresses has a route is waited for.
Assess_Unreachable(n, s) ==
    LET got == {r \in AnswersOf(n, s) : r.kind = "answered"}
    IN IF got = {} THEN "noanswer"
       ELSE IF \A r \in got : Expected[n] \subseteq r.seen THEN "ready"
       ELSE "missing"

\* Ready: an address answered, and all that did serve every value.  A server
\* without an address this host can reach is not waited for.
Assess(n, s) ==
    LET got == {r \in AnswersOf(n, s) : r.kind = "answered"}
    IN IF \A r \in AnswersOf(n, s) : r = NoRoute THEN "unreachable"
       ELSE IF got = {} THEN "noanswer"
       ELSE IF \A r \in got : Expected[n] \subseteq r.seen THEN "ready"
       ELSE "missing"

Reachable(n) == {p \in live : p[1] = n /\ answers[p] # NoRoute}

--------------------------------------------------------------------------
Init ==
    /\ phase = (IF Names = {} THEN "ready" ELSE "probing")
    /\ live = Probes
    /\ pending = Probes
    /\ answers = [p \in Probes |-> Failed]
    /\ now = 0
    /\ until = 2 * QueryTime
    /\ serves = [n \in Names |-> [a \in Addrs |-> {}]]
    /\ path \in [Addrs -> {"open", "none"}]
    /\ lost = {a \in Addrs : path[a] = "none"}
    /\ turns = 0

\* query_txt: NOERROR and NXDOMAIN are answers, anything else is a failure,
\* except that an address without a route is told apart.
Result(p) ==
    IF path[p[3]] = "none" THEN NoRoute
    ELSE IF path[p[3]] = "mute" THEN Failed
    ELSE Answered(serves[p[1]][p[3]])

Probe ==
    /\ phase = "probing"
    /\ \E p \in pending :
          /\ answers' = [answers EXCEPT ![p] = Result(p)]
          /\ pending' = pending \ {p}
    /\ UNCHANGED <<phase, live, until, now, world>>

\* Mutant: the deadline is missed by one.
EndPass_OffByOne ==
    /\ phase = "probing"
    /\ pending = {}
    /\ live' = {p \in live : answers[p] # NoRoute}
    /\ phase' = IF \E n \in Names : Reachable(n) = {} THEN "error"
                ELSE IF \A n \in Names : \A s \in NsOf[n] :
                           Assess(n, s) \in {"ready", "unreachable"} THEN "ready"
                ELSE IF now > Timeout THEN "timeout"
                ELSE "sleeping"
    /\ until' = IF phase' = "sleeping" THEN now + PollInterval ELSE until
    /\ UNCHANGED <<pending, answers, now, world>>

\* All probes of the pass are back: forget the addresses without a route, give
\* up on a name none of whose servers can be reached, else judge every server.
EndPass ==
    /\ phase = "probing"
    /\ pending = {}
    /\ live' = {p \in live : answers[p] # NoRoute}
    /\ phase' = IF \E n \in Names : Reachable(n) = {} THEN "error"
                ELSE IF \A n \in Names : \A s \in NsOf[n] :
                           Assess(n, s) \in {"ready", "unreachable"} THEN "ready"
                ELSE IF now >= Timeout THEN "timeout"
                ELSE "sleeping"
    /\ until' = IF phase' = "sleeping" THEN now + PollInterval ELSE until
    /\ UNCHANGED <<pending, answers, now, world>>

NextPass ==
    /\ phase = "sleeping"
    /\ now = until
    /\ phase' = "probing"
    /\ pending' = live
    /\ answers' = [p \in Probes |-> IF p \in live THEN Failed ELSE answers[p]]
    /\ until' = now + 2 * QueryTime
    /\ UNCHANGED <<live, now, world>>

\* Time passes while the wait waits: for its probes or for the next pass.
Tick ==
    /\ phase = "sleeping" \/ (phase = "probing" /\ pending # {})
    /\ now < until
    /\ now' = now + 1
    /\ UNCHANGED <<wait, world>>

\* The server at an address gets another of the values (external).
CatchUp ==
    /\ phase \notin Results
    /\ \E n \in Names, a \in Addrs : \E v \in Expected[n] \ serves[n][a] :
          /\ \E s \in NsOf[n] : a \in AddrsOf[s]
          /\ serves' = [serves EXCEPT ![n][a] = @ \union {v}]
    /\ UNCHANGED <<wait, now, path, lost, turns>>

\* An address becomes reachable, silent or unroutable (external).
Reroute ==
    /\ phase \notin Results
    /\ turns < MaxTurns
    /\ turns' = turns + 1
    /\ \E a \in Addrs, w \in {"open", "mute", "none"} :
          /\ path' = [path EXCEPT ![a] = w]
          /\ lost' = IF w = "none" THEN lost \union {a} ELSE lost
    /\ UNCHANGED <<wait, now, serves>>

Done == phase \in Results /\ UNCHANGED vars

Next == Probe \/ EndPass \/ NextPass \/ Tick \/ CatchUp \/ Reroute \/ Done

Spec == Init /\ [][Next]_vars

--------------------------------------------------------------------------
(* Properties *)

TypeOK ==
    /\ phase \in {"probing", "sleeping"} \union Results
    /\ live \subseteq Probes /\ pending \subseteq live
    /\ answers \in [Probes -> {NoRoute, Failed} \union {Answered(v) : v \in SUBSET Values}]
    /\ now \in Nat /\ until \in Nat
    /\ serves \in [Names -> [Addrs -> SUBSET Values]]
    /\ path \in [Addrs -> {"open", "mute", "none"}]
    /\ lost \subseteq Addrs
    /\ turns \in 0..MaxTurns

\* The wait reports that the records are visible only if they are: for every
\* name at least one server has all the values, no server that answered in the
\* last pass lacks one, and a server nothing was heard from is one whose every
\* address was without a route at some time.
ReadyIsServed ==
    phase = "ready" => \A n \in Names :
        LET heard == {p \in Probes : p[1] = n /\ answers[p].kind = "answered"}
        IN /\ heard # {}
           /\ \A p \in heard : Expected[n] \subseteq serves[n][p[3]]
           /\ \A s \in NsOf[n] : (\E p \in heard : p[2] = s) \/ AddrsOf[s] \subseteq lost

\* It gives up early only on a name that has not had a route to any of its
\* servers throughout, and runs out of time only because of a server it can
\* reach: one address without a route, such as an AAAA on an IPv4-only host,
\* never makes an order wait.
GivesUpForCause ==
    /\ phase = "error" => \E n \in Names : \A s \in NsOf[n] : AddrsOf[s] \subseteq lost
    /\ phase = "timeout" => \E p \in live :
          answers[p] = Failed \/ ~(Expected[p[1]] \subseteq answers[p].seen)

\* The wait is over one sleep and one pass after its timeout at the latest,
\* however many addresses stay silent.
EndsInTime == now <= 2 * QueryTime \/ now < Timeout + PollInterval + 2 * QueryTime
=============================================================================
