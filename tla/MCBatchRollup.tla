--------------------------- MODULE MCBatchRollup ----------------------------
(* Finite instances of BatchRollup for TLC. *)
EXTENDS BatchRollup
=============================================================================
