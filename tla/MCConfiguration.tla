---------------------------- MODULE MCConfiguration ----------------------------
(* Ids and requests are interchangeable. *)
EXTENDS Configuration, TLC

Symmetry == Permutations(Ids) \union Permutations(Reqs)
=============================================================================
