----------------------------- MODULE MCPropagation -----------------------------
(* Two challenge names, one of which needs two values (a name and its         *)
(* wildcard); two nameservers, one with an A and an AAAA.                     *)
EXTENDS Propagation, TLC

TheNames == {"base", "sub"}
TheServers == {"ns1", "ns2"}
TheNsOf == ("base" :> {"ns1", "ns2"}) @@ ("sub" :> {"ns2"})
TheAddrsOf == ("ns1" :> {"a4", "a6"}) @@ ("ns2" :> {"b4"})
TheExpected == ("base" :> {"v", "w"}) @@ ("sub" :> {"x"})
=============================================================================
