---------------------------- MODULE MCAcmeOrder -----------------------------
(* Instances of AcmeOrder for TLC. *)
EXTENDS AcmeOrder, TLC

CONSTANTS o1, o2, apex, wildcard, other, p1, p2

base == <<"corp", "example">>
sub  == <<"corp", "example", "sub">>
TheDomains == {base, sub}

\* A domain, its wildcard and another name; the second order shares a name with the first.
TheNames == [i \in Auths |-> IF i = other THEN sub ELSE base]
TheNeeds == [o \in Orders |-> IF o = o1 THEN Auths ELSE {wildcard}]

\* The older integration replaces RRsets and holds the zone of the other name.  The younger
\* takes one record at a time and holds the zone of the domain and the one above it.
TheKinds  == [p \in Providers |-> IF p = p1 THEN "digitalocean" ELSE "pdns"]
TheRanks  == [p \in Providers |-> IF p = p1 THEN 2 ELSE 1]
TheZones  == {<<"corp">>, base, sub}
TheHolder == [z \in TheZones |-> IF z = sub THEN p2 ELSE p1]

=============================================================================
