------------------------------ MODULE MCSignIn ------------------------------
(* Instances of SignIn for TLC. *)
EXTENDS SignIn, TLC

Symmetry == Permutations(Requests) \cup Permutations(Secrets) \cup Permutations(Sessions)

=============================================================================
