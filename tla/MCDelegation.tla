----------------------------- MODULE MCDelegation -----------------------------
(* example.com is served by a nameserver inside it, one inside prov.net and   *)
(* one inside loop.net, whose own delegation and that of ring.net name only   *)
(* each other's hosts and carry no addresses.  The tree has what the theorem   *)
(* about it asks for.                                                         *)
EXTENDS Delegation

com == <<"com">>
net == <<"net">>
ex == <<"com", "ex">>
prov == <<"net", "prov">>
loop == <<"net", "loop">>
ring == <<"net", "ring">>

TheTarget == ex \o <<"challenge">>
TheZones == {<<>>, com, net, ex, prov, loop, ring}

rootNs == <<"net", "root">>
tldNs == <<"com", "tld">>
netNs == <<"net", "tld">>
exNs == ex \o <<"ns">>
provNs == prov \o <<"ns">>
loopNs == loop \o <<"ns">>
ringNs == ring \o <<"ns">>

TheNameservers == [z \in TheZones |->
    CASE z = <<>> -> {rootNs}
      [] z = com -> {tldNs}
      [] z = net -> {tldNs, netNs}
      [] z = ex -> {exNs, provNs, loopNs}
      [] z = prov -> {provNs}
      [] z = loop -> {ringNs}
      [] z = ring -> {loopNs}]

TheGlued == [z \in TheZones |->
    CASE z = ex -> {exNs} [] z \in {loop, ring} -> {} [] OTHER -> TheNameservers[z]]

TheHostAddrs == [n \in UNION {TheNameservers[z] : z \in TheZones} |->
    CASE n = rootNs -> {"r"} [] n = tldNs -> {"t"} [] n = netNs -> {"n"} [] n = exNs -> {"e4", "e6"}
      [] n = provNs -> {"p"} [] n = loopNs -> {"l"} [] n = ringNs -> {"g"}]

ASSUME TheTreeIsPlain == BelowRoot /\ Shallow /\ Separate
=============================================================================
