-------------------------- MODULE MCCertLifecycle --------------------------
(* Instances of CertLifecycle for TLC. *)
EXTENDS CertLifecycle, TLC

\* Row ids and request slots are interchangeable, names and algorithms are
\* not (DefaultAlgo is one of them).  Used for safety only.
Symmetry == Permutations(Certs) \cup Permutations(Reqs)

\* Only POST /api/certificates is called, and nothing fails.
PostsOnly ==
    \/ \E r \in Reqs, n \in Names : CreateBegin(r, n)
    \/ \E r \in Reqs : Handler(r) \/ RunIssuance(r)

PostsOnlySpec == Init /\ [][PostsOnly]_vars

=============================================================================
