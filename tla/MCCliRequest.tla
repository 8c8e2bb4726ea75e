---------------------------- MODULE MCCliRequest ----------------------------
(* Instances of CliRequest for TLC. *)
EXTENDS CliRequest

Files == <<"fullchain", "chain", "privkey">>

\* The third certificate comes from another intermediate.
Intermediates == [g \in Gens |-> IF g <= 2 THEN 1 ELSE 2]

=============================================================================
