--------------------------- MODULE MCSecretStore ---------------------------
(* Rows and workers are interchangeable. *)
EXTENDS SecretStore, TLC

Symmetry == Permutations(Certs) \cup Permutations(Workers)

=============================================================================
