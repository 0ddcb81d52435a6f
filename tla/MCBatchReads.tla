---------------------------- MODULE MCBatchReads ----------------------------
(* An instance of BatchReads for TLC: limits in range, at its ends, out of it. *)
EXTENDS BatchReads

AnyLimits == {Unset} \cup -1..(MaxLimit + 1)
=============================================================================
