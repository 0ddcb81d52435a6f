------------------------------ MODULE BatchRows -----------------------------
(***************************************************************************)
(* What a batch promises to whoever reads it, with the transactions, the   *)
(* snapshots, the triggers and the sweep forgotten: its rows appear one    *)
(* after the other, settle for good, and the batch is called done in the   *)
(* transaction that settles the last of them or at some later time, never  *)
(* before.  Module BatchRollup implements this specification; BatchReads   *)
(* reads a batch that behaves by it.                                       *)
(***************************************************************************)
EXTENDS Integers

CONSTANT N     \* batches.total

VARIABLES
  rows,      \* how many rows of the batch exist
  settled,   \* the rows in a terminal state
  done       \* whether batches.state is 'done'

batchVars == <<rows, settled, done>>

BatchInit == rows = 0 /\ settled = {} /\ done = FALSE

DoneWhenNoneIsLeft == rows > 0 /\ settled = 1..rows

Complete == rows = N /\ settled = 1..N

\* The trigger at the end of every transaction: it may come with counts that are
\* too old to call the batch done.
sync_batch_counts == done' \in {done, done \/ Complete'}

\* A row is inserted, already succeeded if its result is cached.
InsertSimulation ==
  /\ rows < N
  /\ rows' = rows + 1
  /\ settled' \in {settled, settled \cup {rows + 1}}
  /\ sync_batch_counts

\* A Runner's finish settles one row, the sweep as many as have no attempt left.
Settle ==
  /\ \E S \in SUBSET ((1..rows) \ settled) : S # {} /\ settled' = settled \cup S
  /\ UNCHANGED rows
  /\ sync_batch_counts

\* The resync calls a complete batch done.
ResyncStuckBatches ==
  /\ ~done /\ Complete
  /\ done' = TRUE
  /\ UNCHANGED <<rows, settled>>

BatchNext == InsertSimulation \/ Settle \/ ResyncStuckBatches

BatchSpec == BatchInit /\ [][BatchNext]_batchVars
=============================================================================
