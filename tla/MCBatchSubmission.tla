------------------------- MODULE MCBatchSubmission --------------------------
(***************************************************************************)
(* Instances of BatchSubmission.  Clients are interchangeable.             *)
(***************************************************************************)
EXTENDS BatchSubmission, TLC

CONSTANTS u1, u2

Valids == {r \in Request : /\ r.size <= MaxBatchVariants /\ r.allowed
                           /\ r.key = NoKey => r.size = 1}
Invalids == {r \in Request : /\ r.key = NoKey
                             /\ \/ r.size = 1 /\ ~r.allowed
                                \/ r.size > MaxBatchVariants /\ r.allowed}

\* One user submits two variants under a key, or something without one; the other
\* one variant under that key.
TwoUsers ==
  {r \in Valids \cup Invalids : IF r.user = u1 THEN r.key = NoKey \/ r.size = 2
                                ELSE r.key # NoKey /\ r.size = 1}

Symmetry == Permutations(Clients)
=============================================================================
