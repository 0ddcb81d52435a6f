----------------------------- MODULE BatchRollup ----------------------------
(***************************************************************************)
(* One batch and its simulations: the expander that inserts the rows, the  *)
(* claims and finishes that move them, the Reaper's sweep, and the trigger *)
(* app.sync_batch_counts that each of them fires, at the granularity of    *)
(* READ COMMITTED transactions.                                            *)
(*                                                                         *)
(* The trigger's UPDATE counts the children in the snapshot its statement  *)
(* takes, then needs the batch row's lock.  If it has to wait for the      *)
(* lock, Postgres re-reads the batch row but not the counted children, so  *)
(* it writes counts as old as its snapshot.  A transaction therefore is a  *)
(* step that writes its row and takes the snapshot, and a later step that  *)
(* locks the batch row, writes the rollup and commits.  Until it commits   *)
(* it holds the lock of its simulation row.                                *)
(*                                                                         *)
(* Every boot of the apiserver applies migration 0003, whose trigger it    *)
(* supersedes, and then 0004, in two transactions and while an earlier     *)
(* apiserver and the Runners are at work.                                  *)
(***************************************************************************)
EXTENDS Naturals, FiniteSets

CONSTANTS
  N,            \* batches.total: the number of variants, fixed at creation
  MaxAttempts   \* the column max_attempts

ASSUME TotalAssumption == N \in Nat \ {0}
ASSUME AttemptsAssumption == MaxAttempts \in Nat \ {0}

Sims == 1..N    \* the variants, in the order Expand inserts them

RowState == {"absent", "queued", "running", "succeeded", "failed"}
Terminal == {"succeeded", "failed"}
Views    == [Sims -> RowState]

VARIABLES
  sims,       \* committed state of each child row
  attempts,   \* its attempts column
  batch,      \* columns state, succeeded and failed of the batch row
  tx,         \* per row: its open insert, claim or finish, or NoTx
  expander,   \* "running", or "stopped" when Expand returned
  reaper,     \* the Reaper's tick
  trigger     \* the migration whose sync_batch_counts is installed

vars == <<sims, attempts, batch, tx, expander, reaper, trigger>>

NewBatch == [state |-> "expanding", succeeded |-> 0, failed |-> 0]

\* A one-row transaction: what it writes and the snapshot of its trigger.
Tx   == [to : RowState, snap : Views]
NoTx == [to |-> "absent", snap |-> [s \in Sims |-> "absent"]]
Open(s) == tx[s] # NoTx

(***************************************************************************)
(* The Reaper's tick: pc is "idle", "take" (an UPDATE of the sweep locks   *)
(* and writes its rows), "roll" (the triggers of that UPDATE), "next" (it  *)
(* is over) or "resync"; stmt says which of the two UPDATEs it is; todo    *)
(* are the rows it has yet to lock, now those it wrote, rows everything    *)
(* the open transaction wrote; snap is the children its first trigger      *)
(* counted; held is TRUE once it has locked the batch row, and row is what *)
(* its triggers have made of it.                                           *)
(***************************************************************************)
Unwritten == [s \in Sims |-> "none"]
IdleReaper == [pc |-> "idle", stmt |-> "requeue", todo |-> {}, rows |-> Unwritten,
               now |-> {}, snap |-> [s \in Sims |-> "absent"], held |-> FALSE,
               row |-> NewBatch]

LockedByReaper(s) == reaper.rows[s] # "none"
Locked(s) == Open(s) \/ LockedByReaper(s)

-----------------------------------------------------------------------------
(* The rollup. *)

Count(view, S) == Cardinality({s \in Sims : view[s] \in S})

Inserted(view)  == Count(view, RowState \ {"absent"})
Succeeded(view) == Count(view, {"succeeded"})
Failed(view)    == Count(view, {"failed"})

\* The CASE of sync_batch_counts in migration 0004.
BatchState(view) ==
  CASE Inserted(view) < N -> "expanding"
    [] Inserted(view) >= N /\ Count(view, Terminal) >= N -> "done"
    [] Inserted(view) >= N /\ Count(view, Terminal) < N
         /\ Count(view, {"running"}) > 0 -> "running"
    [] OTHER -> "queued"

\* Its CASE in migration 0003, on a batch row that is in state cur: the rows
\* inserted so far are all there will be, and 'expanding' is left to others.
OldBatchState(view, cur) ==
  LET finished == Inserted(view) > 0 /\ Count(view, Terminal) >= Inserted(view)
  IN  CASE cur = "expanding" -> "expanding"
        [] cur # "expanding" /\ finished -> "done"
        [] cur # "expanding" /\ ~finished /\ Count(view, {"running"}) > 0 -> "running"
        [] OTHER -> cur

\* What the installed trigger makes of batch row b when it counted view.
Rollup(view, b) ==
  [state     |-> IF trigger = "0004" THEN BatchState(view) ELSE OldBatchState(view, b.state),
   succeeded |-> Succeeded(view),
   failed    |-> Failed(view)]

-----------------------------------------------------------------------------

Init ==
  /\ sims     = [s \in Sims |-> "absent"]
  /\ attempts = [s \in Sims |-> 0]
  /\ batch    = NewBatch
  /\ tx       = [s \in Sims |-> NoTx]
  /\ expander = "running"
  /\ reaper   = IdleReaper
  /\ trigger  \in {"0003", "0004"}

\* A statement writes row s and its trigger takes a snapshot, in which the
\* transaction's own write is visible and no other uncommitted one is.
Write(s, st) ==
  tx' = [tx EXCEPT ![s] = [to |-> st, snap |-> [sims EXCEPT ![s] = st]]]

InsertInAnyOrder(s) ==
  /\ expander = "running"
  /\ sims[s] = "absent" /\ ~Open(s)
  /\ \E st \in {"queued", "succeeded"} : Write(s, st)
  /\ UNCHANGED <<sims, attempts, batch, expander, reaper, trigger>>

\* Expand inserts the variants one after the other: queued, or succeeded on a
\* cache hit.
InsertSimulation(s) ==
  /\ expander = "running"
  /\ sims[s] = "absent" /\ ~Open(s)
  /\ \A x \in Sims : x < s => sims[x] # "absent"
  /\ \E st \in {"queued", "succeeded"} : Write(s, st)
  /\ UNCHANGED <<sims, attempts, batch, expander, reaper, trigger>>

\* Expand returns an error half way: the database, the request's context, the
\* 30-minute timeout, or the apiserver's end.  Nothing resumes it.
ExpandFails ==
  /\ expander = "running"
  /\ \E s \in Sims : sims[s] = "absent"
  /\ expander' = "stopped"
  /\ tx' = [s \in Sims |-> IF sims[s] = "absent" THEN NoTx ELSE tx[s]]
  /\ UNCHANGED <<sims, attempts, batch, reaper, trigger>>

\* The advisory lock lets one claim be open at a time.
Claim(s) ==
  /\ sims[s] = "queued" /\ ~Locked(s)
  /\ \A x \in Sims : ~(Open(x) /\ tx[x].to = "running")
  /\ Write(s, "running")
  /\ UNCHANGED <<sims, attempts, batch, expander, reaper, trigger>>

FinishUnfenced(s) ==
  /\ sims[s] \in {"running"} \cup Terminal /\ ~Locked(s)
  /\ \E t \in Terminal : Write(s, t)
  /\ UNCHANGED <<sims, attempts, batch, expander, reaper, trigger>>

\* The owner's finish_simulation.
Finish(s) ==
  /\ sims[s] = "running" /\ ~Locked(s)
  /\ \E t \in Terminal : Write(s, t)
  /\ UNCHANGED <<sims, attempts, batch, expander, reaper, trigger>>

\* The trigger gets the batch row, writes the rollup of its snapshot, and the
\* transaction commits.
Commit(s) ==
  /\ Open(s) /\ ~reaper.held
  /\ sims'     = [sims EXCEPT ![s] = tx[s].to]
  /\ attempts' = [attempts EXCEPT ![s] = IF tx[s].to = "running" THEN @ + 1 ELSE @]
  /\ batch'    = Rollup(tx[s].snap, batch)
  /\ tx'       = [tx EXCEPT ![s] = NoTx]
  /\ UNCHANGED <<expander, reaper, trigger>>

\* A claim or a finish is rolled back: an error or a crash, or it is the victim
\* Postgres chooses in a deadlock with the Reaper.
Rollback(s) ==
  /\ Open(s) /\ sims[s] # "absent"
  /\ tx' = [tx EXCEPT ![s] = NoTx]
  /\ UNCHANGED <<sims, attempts, batch, expander, reaper, trigger>>

-----------------------------------------------------------------------------
(* The Reaper's tick: one transaction of two UPDATEs, then the resync. *)

ExhaustedOffByOne(s) == attempts[s] > MaxAttempts

Exhausted(s) == attempts[s] >= MaxAttempts

\* The first UPDATE finds the expired rows with attempts left in its snapshot.
SweepBegin ==
  /\ reaper.pc = "idle"
  /\ \E E \in SUBSET {s \in Sims : sims[s] = "running" /\ ~Exhausted(s)} :
       reaper' = [IdleReaper EXCEPT !.pc = "take", !.todo = E]
  /\ UNCHANGED <<sims, attempts, batch, tx, expander, trigger>>

\* It locks one of them, waiting while another transaction has it, and writes
\* it unless the row has changed meanwhile.
SweepRow(s) ==
  LET new == IF reaper.stmt = "requeue" THEN "queued" ELSE "failed"
  IN  /\ reaper.pc = "take" /\ s \in reaper.todo /\ ~Open(s)
      /\ reaper' =
           IF sims[s] = "running" /\ (Exhausted(s) <=> reaper.stmt = "fail")
           THEN [reaper EXCEPT !.todo = @ \ {s}, !.now = @ \cup {s}, !.rows[s] = new]
           ELSE [reaper EXCEPT !.todo = @ \ {s}]
      /\ UNCHANGED <<sims, attempts, batch, tx, expander, trigger>>

\* Committed children, with the sweep's own writes over them.
SweepView == [s \in Sims |-> IF LockedByReaper(s) THEN reaper.rows[s] ELSE sims[s]]

\* The UPDATE is over: its first trigger takes its snapshot.
SweepTrigger ==
  /\ reaper.pc = "take" /\ reaper.todo = {}
  /\ reaper' = IF reaper.now = {} THEN [reaper EXCEPT !.pc = "next"]
               ELSE [reaper EXCEPT !.pc = "roll", !.snap = SweepView]
  /\ UNCHANGED <<sims, attempts, batch, tx, expander, trigger>>

\* The triggers write the batch row one after the other.  The sweep keeps its
\* lock, so only a first trigger that had to wait works from an old snapshot.
SweepRoll ==
  LET first == IF reaper.held THEN Rollup(SweepView, reaper.row)
                              ELSE Rollup(reaper.snap, batch)
  IN  /\ reaper.pc = "roll"
      /\ reaper' = [reaper EXCEPT !.pc = "next", !.held = TRUE, !.row =
                      IF Cardinality(reaper.now) > 1 THEN Rollup(SweepView, first) ELSE first]
      /\ UNCHANGED <<sims, attempts, batch, tx, expander, trigger>>

\* The second UPDATE finds the expired rows with no attempts left.
SweepSecond ==
  /\ reaper.pc = "next" /\ reaper.stmt = "requeue"
  /\ \E E \in SUBSET {s \in Sims : sims[s] = "running" /\ Exhausted(s)} :
       reaper' = [reaper EXCEPT !.pc = "take", !.stmt = "fail", !.todo = E, !.now = {}]
  /\ UNCHANGED <<sims, attempts, batch, tx, expander, trigger>>

SweepCommit ==
  /\ reaper.pc = "next" /\ reaper.stmt = "fail"
  /\ sims'   = SweepView
  /\ batch'  = IF reaper.held THEN reaper.row ELSE batch
  /\ reaper' = [IdleReaper EXCEPT !.pc = "resync"]
  /\ UNCHANGED <<attempts, tx, expander, trigger>>

\* The sweep fails: an error, or it is the deadlock's victim.
SweepFails ==
  /\ reaper.pc \in {"take", "roll", "next"}
  /\ reaper' = [IdleReaper EXCEPT !.pc = "resync"]
  /\ UNCHANGED <<sims, attempts, batch, tx, expander, trigger>>

ResyncUnlessPending ==
  /\ reaper.pc = "resync"
  /\ batch' = IF /\ batch.state \in {"expanding", "queued", "running"}
                 /\ Inserted(sims) >= N
              THEN [state |-> "done", succeeded |-> Succeeded(sims), failed |-> Failed(sims)]
              ELSE batch
  /\ reaper' = IdleReaper
  /\ UNCHANGED <<sims, attempts, tx, expander, trigger>>

ResyncNotExpanding ==
  /\ reaper.pc = "resync"
  /\ batch' = IF /\ batch.state \in {"queued", "running"}
                 /\ Inserted(sims) >= N
                 /\ Count(sims, {"queued", "running"}) = 0
              THEN [state |-> "done", succeeded |-> Succeeded(sims), failed |-> Failed(sims)]
              ELSE batch
  /\ reaper' = IdleReaper
  /\ UNCHANGED <<sims, attempts, tx, expander, trigger>>

\* Force-finish the batch when every child is present and terminal.
ResyncStuckBatches ==
  /\ reaper.pc = "resync"
  /\ batch' = IF /\ batch.state \in {"expanding", "queued", "running"}
                 /\ Inserted(sims) >= N
                 /\ Count(sims, {"queued", "running"}) = 0
              THEN [state |-> "done", succeeded |-> Succeeded(sims), failed |-> Failed(sims)]
              ELSE batch
  /\ reaper' = IdleReaper
  /\ UNCHANGED <<sims, attempts, tx, expander, trigger>>

\* The resync failed: an error, logged.
ResyncFails ==
  /\ reaper.pc = "resync"
  /\ reaper' = IdleReaper
  /\ UNCHANGED <<sims, attempts, batch, tx, expander, trigger>>

Sweep == \/ SweepBegin \/ (\E s \in Sims : SweepRow(s)) \/ SweepTrigger
         \/ SweepRoll \/ SweepSecond \/ SweepCommit

-----------------------------------------------------------------------------
(* A boot's migrations.  DROP TRIGGER needs app.simulations to itself, so  *)
(* it waits for every transaction that has written a row of it; a boot may *)
(* end between the two, and the next one starts again at 0003.             *)

TableFreeOfReaper == reaper.pc \in {"idle", "resync"}

TableFree == (\A s \in Sims : ~Open(s)) /\ reaper.pc \in {"idle", "resync"}

Migrate3 ==
  /\ trigger = "0004" /\ TableFree
  /\ trigger' = "0003"
  /\ UNCHANGED <<sims, attempts, batch, tx, expander, reaper>>

Migrate4 ==
  /\ trigger = "0003" /\ TableFree
  /\ trigger' = "0004"
  /\ UNCHANGED <<sims, attempts, batch, tx, expander, reaper>>

-----------------------------------------------------------------------------

Next ==
  \/ \E s \in Sims : \/ InsertSimulation(s) \/ Claim(s) \/ Finish(s)
                     \/ Commit(s) \/ Rollback(s)
  \/ ExpandFails
  \/ Sweep \/ SweepFails \/ ResyncStuckBatches \/ ResyncFails
  \/ Migrate3 \/ Migrate4

Spec == Init /\ [][Next]_vars

\* The sweep holds the batch row and waits for child s, whose finish holds the
\* child and waits for the batch row.
Deadlocked(s) == reaper.held /\ reaper.pc = "take" /\ s \in reaper.todo /\ Open(s)

(***************************************************************************)
(* Fairness: the expander and the Reaper keep going; among the claims and  *)
(* finishes that the Runners keep trying, and among the transactions that  *)
(* wait for the batch row, some get through (a failed finish is tried      *)
(* again by the except clause or by the next attempt), though not any one  *)
(* of them in particular; Postgres serves those who wait for a row's lock  *)
(* in their order and breaks a deadlock; and sweeps, one of which starts   *)
(* at every tick, do not for ever fail with rows already written.  Nothing *)
(* is assumed of the boots: 0003's trigger may stay installed.             *)
(***************************************************************************)
Fairness ==
  /\ WF_vars(Sweep) /\ SF_vars(ResyncStuckBatches)
  /\ <>[][SweepFails => reaper.rows = Unwritten]_vars
  /\ SF_vars(\E s \in Sims : SweepRow(s))
  /\ WF_vars(\E s \in Sims : InsertSimulation(s))
  /\ SF_vars(\E s \in Sims : Claim(s) \/ Finish(s))
  /\ SF_vars(\E s \in Sims : Commit(s))
  /\ WF_vars(\E s \in Sims : Deadlocked(s) /\ (Rollback(s) \/ SweepFails))

FairSpec == Spec /\ Fairness

-----------------------------------------------------------------------------
(* Properties. *)

BatchRow == [state     : {"expanding", "queued", "running", "done"},
             succeeded : 0..N,
             failed    : 0..N]

Tick == [pc   : {"idle", "take", "roll", "next", "resync"}, stmt : {"requeue", "fail"},
         todo : SUBSET Sims, rows : [Sims -> {"none", "queued", "failed"}],
         now  : SUBSET Sims, snap : Views, held : BOOLEAN, row : BatchRow]

\* Every variable holds a value its column or its transaction can hold; in
\* particular no child is started more than max_attempts times.
TypeOK ==
  /\ sims     \in Views
  /\ attempts \in [Sims -> 0..MaxAttempts]
  /\ batch    \in BatchRow
  /\ tx       \in [Sims -> Tx]
  /\ expander \in {"running", "stopped"}
  /\ reaper   \in Tick
  /\ trigger  \in {"0003", "0004"}

\* However old the snapshot a trigger worked from, the batch never shows an
\* outcome that no child has: its counts lag behind the children, at worst.
CountsNeverOverstate ==
  batch.succeeded <= Succeeded(sims) /\ batch.failed <= Failed(sims)

\* The contract of migration 0004: a batch out of 'expanding' has all its
\* rows, and a 'done' batch has them all terminal and counts each of them,
\* whichever writer (a trigger with an old snapshot, the sweep, the resync)
\* wrote it.
DoneIsExact ==
  /\ batch.state # "expanding" => Inserted(sims) = N
  /\ batch.state = "done" => /\ Count(sims, Terminal) = N
                             /\ batch.succeeded = Succeeded(sims)
                             /\ batch.failed = Failed(sims)

\* 'done' is final: no transaction that was in flight when the batch was
\* finished, by the last trigger or by the resync, writes it again.
DoneIsAbsorbing ==
  [][batch.state = "done" => batch' = batch /\ sims' = sims]_vars

\* A batch whose rows all exist is finished, although triggers lose each
\* other's counts and the sweep and a finish may deadlock.
EventuallyDone == Inserted(sims) = N ~> batch.state = "done"

\* What a reader sees of the batch.
RowsThere   == Inserted(sims)
RowsSettled == {s \in Sims : sims[s] \in Terminal}
IsDone      == batch.state = "done"

Reader == INSTANCE BatchRows WITH rows <- RowsThere, settled <- RowsSettled, done <- IsDone

\* Everything above together implements what a reader is promised of a batch:
\* rows appear in order, settle for good, and 'done' comes with or after the
\* last of them, although the batch row is written from old snapshots, by two
\* versions of the trigger, by the sweep and by the resync.
ImplementsBatchRows == Reader!BatchSpec

-----------------------------------------------------------------------------
(* The inductive invariant of the proofs. *)

\* View v is a past of view w: rows are not removed and settled ones not changed.
Past(v, w) == \A s \in Sims : /\ v[s] # "absent" => w[s] # "absent"
                              /\ v[s] \in Terminal => w[s] = v[s]

Full(view)    == \A s \in Sims : view[s] # "absent"
Settled(view) == \A s \in Sims : view[s] \in Terminal

\* Batch row b is no further than the children of view.
Lags(b, view) ==
  /\ b.succeeded <= Succeeded(view) /\ b.failed <= Failed(view)
  /\ b.state # "expanding" => Full(view)
  /\ b.state = "done" => /\ Settled(view)
                         /\ b.succeeded = Succeeded(view) /\ b.failed = Failed(view)

\* 0003's trigger takes the rows it counts for all there are; it only acts on a
\* batch that is out of 'expanding', and then they are.
OldCounts(view) == trigger = "0003" /\ batch.state # "expanding" => Full(view)

RowInv == \A s \in Sims : sims[s] \in {"absent", "queued"} => ~Exhausted(s)

TxOK(s) ==
  /\ sims[s] = "absent"  => tx[s].to \in {"queued", "succeeded"}
  /\ sims[s] = "queued"  => tx[s].to = "running"
  /\ sims[s] = "running" => tx[s].to \in Terminal
  /\ sims[s] \notin Terminal /\ ~LockedByReaper(s)
  /\ Past(tx[s].snap, [sims EXCEPT ![s] = tx[s].to]) /\ OldCounts(tx[s].snap)

TxInv == \A s \in Sims : Open(s) => TxOK(s)

ReaperInv ==
  /\ reaper.pc \in {"idle", "resync"} => reaper.rows = Unwritten /\ ~reaper.held
  /\ \A s \in reaper.now : LockedByReaper(s)
  /\ \A s \in Sims : LockedByReaper(s) =>
       /\ sims[s] = "running"
       /\ reaper.rows[s] = "queued" => ~Exhausted(s)
       /\ reaper.stmt = "requeue" => reaper.rows[s] = "queued"
  /\ reaper.pc = "roll" => /\ reaper.now # {}
                           /\ Past(reaper.snap, SweepView) /\ OldCounts(reaper.snap)
  /\ reaper.held => /\ \E s \in Sims : LockedByReaper(s)
                    /\ Lags(reaper.row, SweepView)
                    /\ reaper.pc \in {"take", "roll"} => reaper.row.state # "done"
                    /\ trigger = "0003" /\ reaper.row.state # "expanding"
                         => batch.state # "expanding"

IInv == TypeOK /\ RowInv /\ TxInv /\ ReaperInv /\ Lags(batch, sims)

-----------------------------------------------------------------------------
(* What the repository says and the code does not do. *)

\* What migration 0003 says of the trigger ("concurrent Runners can't
\* race/lose updates"): with no transaction open, the counts are right.
CountsMatchAtRest ==
  (reaper.pc = "idle" /\ \A s \in Sims : ~Open(s)) =>
    batch.succeeded = Succeeded(sims) /\ batch.failed = Failed(sims)

\* What CONTEXT.md says of a batch ("briefly Expanding before all its
\* Simulations exist"): it does not stay there.
LeavesExpanding == <>(batch.state # "expanding")
=============================================================================
