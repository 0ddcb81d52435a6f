---------------------------- MODULE MCRunnerPool ----------------------------
(***************************************************************************)
(* Instances of RunnerPool: an unset spec that takes every default, one    *)
(* that sets everything, and one whose quantities do not parse.            *)
(***************************************************************************)
EXTENDS RunnerPool

Unset == [version |-> "24.1.0", image |-> "", resources |-> "ok",
          cap |-> 0, min |-> 0, max |-> 0]
Pinned == [version |-> "24.1.0", image |-> "pinned", resources |-> "ok",
           cap |-> 1, min |-> 1, max |-> 1]
Broken == [Pinned EXCEPT !.resources = "unparsable"]

TwoSpecs  == {Unset, Pinned}
LiveSpecs == {Unset, Broken}
=============================================================================
