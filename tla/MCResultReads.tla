--------------------------- MODULE MCResultReads ----------------------------
(* A finite instance of ResultReads for TLC: a row with an input of any kind, *)
(* asked for with a key of its owner and one of another user.                *)
EXTENDS ResultReads, TLC

CONSTANTS s1, r1, r2, u1, u2, k1, k2, f1, f2, c1, c2

OwnerOf    == [s \in Sims |-> u1]
KeyOwnerOf == [k \in Keys |-> IF k = k1 THEN u1 ELSE u2]

\* Bound: the portal creates one of the two keys only.
OneKey == \E k \in Keys : \A j \in Keys \ {k} : key[j] = "absent"

Symmetric == Permutations({r1, r2}) \cup Permutations({f1, f2}) \cup Permutations({c1, c2})
=============================================================================
