----------------------------- MODULE AcmeOrder ------------------------------
(***************************************************************************)
(* ACME orders and the TXT records they put at the DNS providers:          *)
(* AcmeClient::issue_certificate, from newOrder to the certificate, over   *)
(* MultiDnsProvider, which routes a name to one of the integrations, and   *)
(* the five providers.                                                     *)
(*                                                                         *)
(* An order runs in a task of its own.  Orders of different rows, or of    *)
(* successive attempts on one row, may need the same name: a domain and its*)
(* wildcard share one challenge name.  The value an order publishes for an *)
(* authorization is <<order, authorization>>.  The CA looks up the values  *)
(* whenever it likes once it has been told.                                *)
(***************************************************************************)
EXTENDS Integers, Sequences

CONSTANTS
    Orders,
    Auths,
    Names,       \* domains, as sequences of labels from the top down
    NameOf,      \* where the challenge of an authorization is published
    Needs,       \* the authorizations an order is for
    Reusable,    \* those the CA may hold valid from an earlier order
    Providers,
    Kind,        \* of an integration: pdns, gandi, cloudflare, ...
    Rank,        \* the order in which the integrations were created
    Zones,
    Holder,      \* the integration a zone is at
    Crowded,     \* integrations whose zone takes more than a page to list
    NoProvider, NoName,
    MaxPolls,    \* bound: polls before a deadline
    MaxFaults    \* bound: failed requests, late records, crashes

Replacing == {"pdns", "gandi"}
Adding    == {"cloudflare", "digitalocean", "hetzner"}

Encloses(z, n) == Len(z) <= Len(n) /\ SubSeq(n, 1, Len(z)) = z

\* Where the record of a name goes.
Challenge(n) == Append(n, "_acme-challenge")

ASSUME OrderAssumption ==
    /\ NameOf \in [Auths -> Names]
    /\ Needs \in [Orders -> SUBSET Auths]
    /\ Kind \in [Providers -> Replacing \cup Adding]
    /\ Rank \in [Providers -> Nat]
    /\ \A p, q \in Providers : p # q => Rank[p] # Rank[q]
    /\ Names \subseteq Seq(STRING)
    /\ Zones \subseteq Seq(STRING)
    /\ Holder \in [Zones -> Providers]
    /\ \A n \in Names : \E z \in Zones : Encloses(z, n)
    /\ Crowded \subseteq Providers
    /\ NoProvider \notin Providers /\ NoName \notin Names
    /\ MaxPolls \in Nat /\ MaxFaults \in Nat

VARIABLES
    records,   \* the values in a zone under a name
    pc,
    wanted,    \* authorizations the order has to prove
    todo,      \* names still to deploy, or to clean up
    name, provider,  \* the one it is at, and where it was routed
    values,    \* what is still to be added there
    deployed,
    verdict,   \* the CA's, by order and authorization
    polls,
    outcome,   \* what follows the cleanup
    \* observation only
    faults,
    touched,   \* names of an order that others wrote to since it set out to deploy them
    went,      \* the integrations an order went to with a name
    seen,      \* were the records seen everywhere before the CA was told?
    kept       \* names whose records an order could not, or does not, remove

vars == <<records, pc, wanted, todo, name, provider, values, deployed, verdict, polls,
          outcome, faults, touched, went, seen, kept>>

Values == Orders \X Auths
Ended  == {"issued", "failed", "gone"}
Phases == {"new", "deploy", "replace", "clear", "add", "await", "notify", "poll", "cleanup",
           "finalize"} \cup Ended

TypeOK ==
    /\ records \in [Zones -> [Names -> SUBSET Values]]
    /\ pc \in [Orders -> Phases]
    /\ wanted \in [Orders -> SUBSET Auths]
    /\ todo \in [Orders -> SUBSET Names]
    /\ name \in [Orders -> Names \cup {NoName}]
    /\ provider \in [Orders -> Providers \cup {NoProvider}]
    /\ values \in [Orders -> SUBSET Auths]
    /\ deployed \in [Orders -> SUBSET Names]
    /\ verdict \in [Orders -> [Auths -> {"pending", "told", "valid", "invalid"}]]
    /\ polls \in [Orders -> 0..MaxPolls]
    /\ outcome \in [Orders -> {"finalize", "failed"}]
    /\ faults \in 0..MaxFaults
    /\ touched \in [Orders -> SUBSET Names]
    /\ went \in [Orders -> [Names -> SUBSET Providers]]
    /\ seen \in [Orders -> BOOLEAN]
    /\ kept \in [Orders -> SUBSET Names]

Init ==
    /\ records = [z \in Zones |-> [n \in Names |-> {}]]
    /\ pc = [o \in Orders |-> "new"]
    /\ wanted = [o \in Orders |-> {}]
    /\ todo = [o \in Orders |-> {}]
    /\ name = [o \in Orders |-> NoName]
    /\ provider = [o \in Orders |-> NoProvider]
    /\ values = [o \in Orders |-> {}]
    /\ deployed = [o \in Orders |-> {}]
    /\ verdict = [o \in Orders |-> [i \in Auths |-> "pending"]]
    /\ polls = [o \in Orders |-> 0]
    /\ outcome = [o \in Orders |-> "failed"]
    /\ faults = 0
    /\ touched = [o \in Orders |-> {}]
    /\ went = [o \in Orders |-> [n \in Names |-> {}]]
    /\ seen = [o \in Orders |-> TRUE]
    /\ kept = [o \in Orders |-> {}]

-----------------------------------------------------------------------------
(* Zones.                                                                  *)

Longest(S, n) ==
    CHOOSE z \in S : Encloses(z, n) /\ \A y \in S : Encloses(y, n) => Len(y) <= Len(z)

ZonesOf(p) == {z \in Zones : Holder[z] = p}

Covers(p, n) == \E z \in ZonesOf(p) : Encloses(z, n)

\* An integration puts the record in its most specific zone ...
FindZone == [p \in Providers |->
               [n \in {m \in Names : Covers(p, m)} |-> Longest(ZonesOf(p), Challenge(n))]]

\* ... and the CA is referred to the most specific of all.
Home == [n \in Names |-> Longest(Zones, Challenge(n))]

\* The integration a name is routed to: the oldest that covers it, whatever the others have.
FirstFor == [n \in Names |->
               CHOOSE p \in Providers :
                   Covers(p, n) /\ \A q \in Providers : Covers(q, n) => Rank[p] <= Rank[q]]

-----------------------------------------------------------------------------
(* Providers.                                                              *)

\* What clean_challenge leaves of an RRset when no request fails.  PowerDNS and Gandi
\* delete it as a whole, Cloudflare lists it by name.  DigitalOcean deletes while it pages
\* through the zone, which moves the pages; Hetzner looks at the first page only.
PdnsLeaves(p, rrset)         == {{}}
GandiLeaves(p, rrset)        == {{}}
CloudflareLeaves(p, rrset)   == {{}}
DigitalOceanLeaves(p, rrset) == IF p \in Crowded THEN SUBSET rrset ELSE {{}}
HetznerLeaves(p, rrset)      == IF p \in Crowded THEN SUBSET rrset ELSE {{}}

Leaves(p, rrset) ==
    CASE Kind[p] = "pdns"         -> PdnsLeaves(p, rrset)
      [] Kind[p] = "gandi"        -> GandiLeaves(p, rrset)
      [] Kind[p] = "cloudflare"   -> CloudflareLeaves(p, rrset)
      [] Kind[p] = "digitalocean" -> DigitalOceanLeaves(p, rrset)
      [] Kind[p] = "hetzner"      -> HetznerLeaves(p, rrset)

Of(o, rrset) == {v \in rrset : v[1] = o}

\* Some of the RRset is replaced, added or deleted by order o.
SetRecords(o, z, n, rrset) ==
    /\ records' = [records EXCEPT ![z][n] = rrset]
    /\ touched' = [x \in Orders |->
                     IF x # o /\ z = Home[n] /\ rrset # records[z][n]
                     THEN touched[x] \cup {n} ELSE touched[x]]

\* The loops go through their collections in a fixed order, which nothing depends on.
First(S) == CHOOSE x \in S : TRUE

Fault == faults < MaxFaults /\ faults' = faults + 1
Fine  == UNCHANGED faults

\* The first integration whose zones cover the name; one that cannot list its zones now is
\* passed over.
Routed(o, n, p) ==
    /\ Covers(p, n)
    /\ IF p = FirstFor[n] THEN Fine ELSE Fault
    /\ went' = [went EXCEPT ![o][n] = @ \cup {p}]

-----------------------------------------------------------------------------
(* The order.                                                              *)

Goto(o, phase) == pc' = [pc EXCEPT ![o] = phase]

CleanUp(o, next) ==
    /\ Goto(o, "cleanup")
    /\ outcome' = [outcome EXCEPT ![o] = next]
    /\ todo' = [todo EXCEPT ![o] = deployed[o]]

\* newOrder and the authorizations, some of which the CA still holds valid.
NewOrder(o) ==
    /\ pc[o] = "new"
    /\ \E valid \in SUBSET (Needs[o] \cap Reusable) :
          /\ wanted' = [wanted EXCEPT ![o] = Needs[o] \ valid]
          /\ todo' = [todo EXCEPT ![o] = {NameOf[i] : i \in Needs[o] \ valid}]
          /\ Goto(o, IF valid = Needs[o] THEN "poll" ELSE "deploy")
    /\ UNCHANGED <<records, name, provider, values, deployed, verdict, polls, outcome, faults,
                   touched, went, seen, kept>>

NewOrderFails(o) ==
    /\ pc[o] = "new"
    /\ Fault
    /\ Goto(o, "failed")
    /\ UNCHANGED <<records, wanted, todo, name, provider, values, deployed, verdict, polls,
                   outcome, touched, went, seen, kept>>

\* The zone the name it is at goes to.
At(o) == FindZone[provider[o]][name[o]]

\* The values of all authorizations of one name are published together.
ValuesAt(o, n) == {i \in wanted[o] : NameOf[i] = n}

DeployRoute(o) ==
    /\ pc[o] = "deploy"
    /\ todo[o] # {}
    /\ \E n \in {First(todo[o])}, p \in Providers :
          /\ Routed(o, n, p)
          /\ name' = [name EXCEPT ![o] = n]
          /\ provider' = [provider EXCEPT ![o] = p]
          /\ values' = [values EXCEPT ![o] = ValuesAt(o, n)]
          /\ touched' = [touched EXCEPT ![o] = @ \ {n}]
          /\ Goto(o, IF Kind[p] \in Replacing THEN "replace" ELSE "clear")
    /\ UNCHANGED <<records, wanted, todo, deployed, verdict, polls, outcome, seen, kept>>

\* The name is deployed; the next one, or the wait for propagation.
NameDeployed(o) ==
    /\ deployed' = [deployed EXCEPT ![o] = @ \cup {name[o]}]
    /\ todo' = [todo EXCEPT ![o] = @ \ {name[o]}]
    /\ values' = [values EXCEPT ![o] = {}]
    /\ Goto(o, IF todo[o] = {name[o]} THEN "await" ELSE "deploy")

\* PowerDNS, Gandi: one request swaps the RRset.
Replace(o) ==
    /\ pc[o] = "replace"
    /\ SetRecords(o, At(o), name[o], {<<o, i>> : i \in values[o]})
    /\ NameDeployed(o)
    /\ UNCHANGED <<wanted, name, provider, verdict, polls, outcome, faults, went, seen, kept>>

\* Cloudflare, DigitalOcean, Hetzner: clean_challenge, whose failure is ignored ...
Clear(o) ==
    /\ pc[o] = "clear"
    /\ \E left \in SUBSET records[At(o)][name[o]] :
          /\ IF left \in Leaves(provider[o], records[At(o)][name[o]]) THEN Fine ELSE Fault
          /\ SetRecords(o, At(o), name[o], left)
    /\ Goto(o, "add")
    /\ UNCHANGED <<wanted, todo, name, provider, values, deployed, verdict, polls, outcome,
                   went, seen, kept>>

Add_CleansEach(o) ==
    /\ pc[o] = "add" /\ values[o] # {}
    /\ \E i \in {First(values[o])} :
          /\ SetRecords(o, At(o), name[o], {<<o, i>>})
          /\ IF values[o] = {i}
             THEN NameDeployed(o)
             ELSE /\ values' = [values EXCEPT ![o] = @ \ {i}]
                  /\ UNCHANGED <<pc, deployed, todo>>
    /\ UNCHANGED <<wanted, name, provider, verdict, polls, outcome, faults, went, seen, kept>>

\* ... then one request for each value.
Add(o) ==
    /\ pc[o] = "add" /\ values[o] # {}
    /\ \E i \in {First(values[o])} :
          /\ SetRecords(o, At(o), name[o],
                        records[At(o)][name[o]] \cup {<<o, i>>})
          /\ IF values[o] = {i}
             THEN NameDeployed(o)
             ELSE /\ values' = [values EXCEPT ![o] = @ \ {i}]
                  /\ UNCHANGED <<pc, deployed, todo>>
    /\ UNCHANGED <<wanted, name, provider, verdict, polls, outcome, faults, went, seen, kept>>

DeployFails_Returns(o) ==
    /\ pc[o] \in {"deploy", "replace", "add"}
    /\ Fault
    /\ Goto(o, "failed")
    /\ UNCHANGED <<records, wanted, todo, name, provider, values, deployed, verdict, polls,
                   outcome, touched, went, seen, kept>>

\* No route, or a request fails, whether or not it reached the provider: the names before
\* this one are cleaned up, the values of this one stay.
DeployFails(o) ==
    /\ pc[o] \in {"deploy", "replace", "add"}
    /\ Fault
    /\ \/ UNCHANGED <<records, touched>>
       \/ /\ pc[o] = "replace"
          /\ SetRecords(o, At(o), name[o], {<<o, i>> : i \in values[o]})
       \/ /\ pc[o] = "add" /\ values[o] # {}
          /\ SetRecords(o, At(o), name[o],
                        records[At(o)][name[o]] \cup {<<o, First(values[o])>>})
    /\ kept' = IF pc[o] = "deploy" THEN kept ELSE [kept EXCEPT ![o] = @ \cup {name[o]}]
    /\ CleanUp(o, "failed")
    /\ UNCHANGED <<wanted, name, provider, values, deployed, verdict, polls, went, seen>>

\* Best effort: the records are seen on every authoritative server, or they are not, or the
\* check cannot run; the CA is told in any case.
Await(o) ==
    /\ pc[o] = "await"
    /\ \/ Fine /\ UNCHANGED seen
       \/ Fault /\ seen' = [seen EXCEPT ![o] = FALSE]
    /\ Goto(o, "notify")
    /\ UNCHANGED <<records, wanted, todo, name, provider, values, deployed, verdict, polls,
                   outcome, touched, went, kept>>

Untold(o) == {i \in wanted[o] : verdict[o][i] = "pending"}

Notify(o) ==
    /\ pc[o] = "notify"
    /\ Untold(o) # {}
    /\ verdict' = [verdict EXCEPT ![o][First(Untold(o))] = "told"]
    /\ pc' = [pc EXCEPT ![o] = IF Untold(o) = {First(Untold(o))} THEN "poll" ELSE @]
    /\ UNCHANGED <<records, wanted, todo, name, provider, values, deployed, polls, outcome,
                   faults, touched, went, seen, kept>>

\* The CA refuses: cleanup.
NotifyRefused(o) ==
    /\ pc[o] = "notify"
    /\ Fault
    /\ CleanUp(o, "failed")
    /\ UNCHANGED <<records, wanted, name, provider, values, deployed, verdict, polls, touched,
                   went, seen, kept>>

\* The request itself fails: the `?` returns without one.
NotifyFails(o) ==
    /\ pc[o] = "notify"
    /\ Fault
    /\ kept' = [kept EXCEPT ![o] = @ \cup deployed[o]]
    /\ Goto(o, "failed")
    /\ UNCHANGED <<records, wanted, todo, name, provider, values, deployed, verdict, polls,
                   outcome, touched, went, seen>>

Poll_Patient(o) ==
    /\ pc[o] = "poll"
    /\ IF \A i \in wanted[o] : verdict[o][i] = "valid"
       THEN CleanUp(o, "finalize") /\ UNCHANGED polls
       ELSE IF \E i \in wanted[o] : verdict[o][i] = "invalid"
       THEN CleanUp(o, "failed") /\ UNCHANGED polls
       ELSE UNCHANGED <<pc, outcome, todo, polls>>
    /\ UNCHANGED <<records, wanted, name, provider, values, deployed, verdict, faults, touched,
                   went, seen, kept>>

\* poll_order_ready: ready, invalid, or once more until the deadline.
Poll(o) ==
    /\ pc[o] = "poll"
    /\ IF \A i \in wanted[o] : verdict[o][i] = "valid"
       THEN CleanUp(o, "finalize") /\ UNCHANGED polls
       ELSE IF (\E i \in wanted[o] : verdict[o][i] = "invalid") \/ polls[o] = MaxPolls
       THEN CleanUp(o, "failed") /\ UNCHANGED polls
       ELSE polls' = [polls EXCEPT ![o] = @ + 1] /\ UNCHANGED <<pc, outcome, todo>>
    /\ UNCHANGED <<records, wanted, name, provider, values, deployed, verdict, faults, touched,
                   went, seen, kept>>

PollFails(o) ==
    /\ pc[o] = "poll"
    /\ Fault
    /\ CleanUp(o, "failed")
    /\ UNCHANGED <<records, wanted, name, provider, values, deployed, verdict, polls, touched,
                   went, seen, kept>>

\* One name is routed again and cleaned.
Clean(o) ==
    /\ pc[o] = "cleanup"
    /\ todo[o] # {}
    /\ \E n \in {First(todo[o])}, p \in Providers :
          /\ Routed(o, n, p)
          /\ \E left \in Leaves(p, records[FindZone[p][n]][n]) :
                /\ SetRecords(o, FindZone[p][n], n, left)
                /\ kept' = IF Of(o, left) = {} THEN kept ELSE [kept EXCEPT ![o] = @ \cup {n}]
          /\ todo' = [todo EXCEPT ![o] = @ \ {n}]
    /\ UNCHANGED <<pc, wanted, name, provider, values, deployed, verdict, polls, outcome, seen>>

\* A request of it fails, which is logged.
CleanFails(o) ==
    /\ pc[o] = "cleanup"
    /\ Fault
    /\ todo[o] # {}
    /\ \E n \in {First(todo[o])} :
          /\ LET z == FindZone[FirstFor[n]][n]
             IN  \E left \in SUBSET records[z][n] : SetRecords(o, z, n, left)
          /\ kept' = [kept EXCEPT ![o] = @ \cup {n}]
          /\ todo' = [todo EXCEPT ![o] = @ \ {n}]
    /\ UNCHANGED <<pc, wanted, name, provider, values, deployed, verdict, polls, outcome,
                   went, seen>>

CleanDone(o) ==
    /\ pc[o] = "cleanup"
    /\ todo[o] = {}
    /\ Goto(o, outcome[o])
    /\ UNCHANGED <<records, wanted, todo, name, provider, values, deployed, verdict, polls,
                   outcome, faults, touched, went, seen, kept>>

\* The key is generated, the CSR sent, and the certificate polled for and downloaded.
Finalize(o) ==
    /\ pc[o] = "finalize"
    /\ Goto(o, "issued")
    /\ UNCHANGED <<records, wanted, todo, name, provider, values, deployed, verdict, polls,
                   outcome, faults, touched, went, seen, kept>>

FinalizeFails(o) ==
    /\ pc[o] = "finalize"
    /\ Fault
    /\ Goto(o, "failed")
    /\ UNCHANGED <<records, wanted, todo, name, provider, values, deployed, verdict, polls,
                   outcome, touched, went, seen, kept>>

\* The server stops: its tasks are gone, the records stay.
Crash ==
    /\ \E o \in Orders : pc[o] \notin Ended \cup {"new"}
    /\ Fault
    /\ pc' = [o \in Orders |-> IF pc[o] \in Ended \cup {"new"} THEN pc[o] ELSE "gone"]
    /\ UNCHANGED <<records, wanted, todo, name, provider, values, deployed, verdict, polls,
                   outcome, touched, went, seen, kept>>

\* The CA looks up the challenge name; it may do so in a zone copy that is behind.
Validate(o, i) ==
    /\ verdict[o][i] = "told"
    /\ \E v \in {"valid", "invalid"} :
          /\ v = "valid" => <<o, i>> \in records[Home[NameOf[i]]][NameOf[i]]
          /\ v = "invalid" => \/ <<o, i>> \notin records[Home[NameOf[i]]][NameOf[i]]
                              \/ ~seen[o]
          /\ verdict' = [verdict EXCEPT ![o][i] = v]
    /\ UNCHANGED <<records, pc, wanted, todo, name, provider, values, deployed, polls, outcome,
                   faults, touched, went, seen, kept>>

Deploy(o)  == DeployRoute(o) \/ Replace(o) \/ Clear(o) \/ Add(o)
Errors(o)  == \/ NewOrderFails(o) \/ DeployFails(o) \/ NotifyRefused(o) \/ NotifyFails(o)
              \/ PollFails(o) \/ CleanFails(o) \/ FinalizeFails(o)
Proceed(o) == \/ Deploy(o) \/ Await(o) \/ Notify(o) \/ Poll(o) \/ Clean(o) \/ CleanDone(o)
              \/ Finalize(o)

Next ==
    \/ \E o \in Orders : NewOrder(o) \/ Proceed(o) \/ Errors(o)
    \/ \E o \in Orders, i \in Auths : Validate(o, i)
    \/ Crash

Spec == Init /\ [][Next]_vars

\* The runtime runs a task; nobody has to start one, and the CA owes nothing.
FairSpec == Spec /\ \A o \in Orders : WF_vars(Proceed(o) \/ Errors(o))

-----------------------------------------------------------------------------
(* Properties.                                                             *)

\* An integration that holds a less specific zone, or none now, is in charge of the name.
Strayed(o, n) == \E p \in went[o][n] : FindZone[p][n] # Home[n]

\* Another integration was in charge later.
Rerouted(o, n) == \E p, q \in went[o][n] : p # q

\* An authorization fails while its order waits only for a cause outside the order: somebody
\* else wrote to the challenge name, the name was routed past its most specific zone, or the
\* records were not seen everywhere.  In particular the values of a domain and of its wildcard
\* are there together.
UndisturbedIsValid ==
    \A o \in Orders, i \in Auths :
        pc[o] \in {"notify", "poll"} /\ verdict[o][i] = "invalid"
            => ~seen[o] \/ NameOf[i] \in touched[o] \/ Strayed(o, NameOf[i])

\* An order that ends, well or not, leaves a record behind only at the ways out that have no
\* cleanup or whose cleanup failed: the name at which the deployment failed, an order whose
\* notification was lost in transport, a zone that takes several pages, a name that was routed
\* elsewhere by the time it was cleaned up.
LeftoverHasCause ==
    \A o \in Orders, z \in Zones, n \in Names :
        pc[o] \in {"issued", "failed"} /\ Of(o, records[z][n]) # {}
            => n \in kept[o] \/ Rerouted(o, n)

\* A certificate is downloaded only for an order all of whose authorizations the CA found
\* valid.
IssuedIsProven ==
    \A o \in Orders : pc[o] \in {"finalize", "issued"}
        => \A i \in wanted[o] : verdict[o][i] = "valid"

\* Whatever fails or is never answered, orders come to an end.
Running(o) == pc[o] \notin Ended \cup {"new"}
OrderEnds == []<>(\A o \in Orders : ~Running(o))

=============================================================================
