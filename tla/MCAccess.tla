------------------------------ MODULE MCAccess ------------------------------
(* Instances of Access for TLC. *)
EXTENDS Access, TLC

\* User ids and request slots are interchangeable, and so are groups.
Symmetry == Permutations(Users) \cup Permutations(Reqs)

=============================================================================
