--------------------------- MODULE MCResultCache ----------------------------
(* Finite instances of ResultCache for TLC. *)
EXTENDS ResultCache, TLC

CONSTANTS c1, c2, r1, r2, s1, s2, n1

Err(marks) == [written |-> TRUE, marks |-> marks]
NoErr      == [written |-> FALSE, marks |-> {}]

\* An engine that always says the same of the same inputs: one input runs with
\* warnings, the other ends with a severe error.
Deterministic ==
  [c \in Contents |-> IF c = c1 THEN {Err({"Warning"})} ELSE {Err({"Warning", "Severe"})}]

\* Runs of the second input may also be cut short before their .err exists.
Flaky ==
  [c \in Contents |-> IF c = c1 THEN {Err({"Warning"})}
                      ELSE {Err({}), NoErr, Err({"Fatal", "Severe"})}]

Symmetric == Permutations({r1, r2}) \cup Permutations({s1, s2})
=============================================================================
