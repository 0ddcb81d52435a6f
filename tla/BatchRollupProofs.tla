-------------------------- MODULE BatchRollupProofs -------------------------
(***************************************************************************)
(* Safety of the batch rollup, for every number of children and every      *)
(* MaxAttempts.  The snapshots of open transactions are pasts of the       *)
(* children that agree with them on every settled one, which is what makes *)
(* an old rollup harmless.                                                 *)
(***************************************************************************)
EXTENDS BatchRollup, FiniteSetTheorems, TLAPS

-----------------------------------------------------------------------------
(* Counting. *)

\* There are N children.
LEMMA SimsFinite == IsFiniteSet(Sims) /\ Cardinality(Sims) = N
BY FS_Interval, TotalAssumption DEF Sims

\* A count is between 0 and N.
LEMMA CountRange ==
  ASSUME NEW v, NEW S
  PROVE  Count(v, S) \in 0..N
BY SimsFinite, FS_Subset, FS_CardinalityType, TotalAssumption DEF Count

\* Where every child in S is in T in another view, there are at least as many.
LEMMA CountMono ==
  ASSUME NEW v, NEW w, NEW S, NEW T,
         \A s \in Sims : v[s] \in S => w[s] \in T
  PROVE  Count(v, S) <= Count(w, T)
<1> DEFINE A == {s \in Sims : v[s] \in S}
           B == {s \in Sims : w[s] \in T}
<1>1. A \subseteq B
  OBVIOUS
<1>2. IsFiniteSet(B)
  BY SimsFinite, FS_Subset
<1> QED
  BY <1>1, <1>2, FS_Subset DEF Count

\* All N are counted exactly when every child is in S.
LEMMA CountAll ==
  ASSUME NEW v, NEW S
  PROVE  Count(v, S) >= N <=> \A s \in Sims : v[s] \in S
<1> DEFINE A == {s \in Sims : v[s] \in S}
<1>1. A \in SUBSET Sims
  OBVIOUS
<1>2. Cardinality(A) \in 0..N
  BY CountRange DEF Count
<1>3. Cardinality(A) >= N => A = Sims
  BY <1>1, <1>2, SimsFinite, FS_Subset, TotalAssumption
<1>4. A = Sims => Cardinality(A) >= N
  BY SimsFinite, TotalAssumption
<1> QED
  BY <1>3, <1>4 DEF Count

-----------------------------------------------------------------------------
(* Pasts of a view, and what a trigger that counted one may write. *)

\* A past never counts more settled children than there are now.
LEMMA PastCounts ==
  ASSUME NEW v \in Views, NEW w \in Views, Past(v, w)
  PROVE  /\ Succeeded(v) <= Succeeded(w) /\ Failed(v) <= Failed(w)
         /\ Full(v) => Full(w)
         /\ Settled(v) => v = w
<1>1. Succeeded(v) <= Succeeded(w)
  BY CountMono DEF Succeeded, Past, Terminal
<1>2. Failed(v) <= Failed(w)
  BY CountMono DEF Failed, Past, Terminal
<1>3. Full(v) => Full(w)
  BY DEF Full, Past
<1>4. Settled(v) => v = w
  BY DEF Settled, Past, Views
<1> QED
  BY <1>1, <1>2, <1>3, <1>4

\* A trigger that counted a past of the children, on a batch row it may act on,
\* writes a row that lags behind them at worst.
LEMMA RollupLags ==
  ASSUME NEW v \in Views, NEW w \in Views, NEW b \in BatchRow, Past(v, w),
         trigger \in {"0003", "0004"},
         trigger = "0003" /\ b.state # "expanding" => Full(v),
         b.state = "done" => Settled(v)
  PROVE  /\ Rollup(v, b) \in BatchRow
         /\ Lags(Rollup(v, b), w)
         /\ trigger = "0003" /\ Rollup(v, b).state # "expanding" => b.state # "expanding"
<1> DEFINE r == Rollup(v, b)
<1>1. /\ r.succeeded = Succeeded(v) /\ r.failed = Failed(v)
      /\ r.succeeded \in 0..N /\ r.failed \in 0..N
  BY CountRange DEF Rollup, Succeeded, Failed
<1>2. /\ Inserted(v) >= N <=> Full(v)
      /\ Count(v, Terminal) >= N <=> Settled(v)
      /\ Inserted(v) \in 0..N /\ Count(v, Terminal) \in 0..N
  <2>1. Inserted(v) >= N <=> Full(v)
    BY CountAll DEF Inserted, Full, Views
  <2>2. Count(v, Terminal) >= N <=> Settled(v)
    BY CountAll DEF Settled
  <2> QED
    BY <2>1, <2>2, CountRange DEF Inserted
<1>3. Settled(v) => Full(v)
  BY DEF Settled, Full, Terminal
<1>4. CASE trigger = "0004"
  <2>1. r.state = BatchState(v)
    BY <1>4 DEF Rollup
  <2>2. /\ BatchState(v) \in {"expanding", "queued", "running", "done"}
        /\ BatchState(v) # "expanding" => Full(v)
        /\ BatchState(v) = "done" => Settled(v)
    BY <1>2, TotalAssumption DEF BatchState
  <2> QED
    BY <1>1, <1>4, <2>1, <2>2, PastCounts DEF Lags, BatchRow, Rollup
<1>5. CASE trigger = "0003"
  <2>1. r.state = OldBatchState(v, b.state)
    BY <1>5 DEF Rollup
  <2>2. b.state \in {"expanding", "queued", "running", "done"}
    BY DEF BatchRow
  <2>3. b.state # "expanding" => Inserted(v) = N
    BY <1>2, <1>5, TotalAssumption
  <2>4. /\ r.state \in {"expanding", "queued", "running", "done"}
        /\ r.state # "expanding" => b.state # "expanding"
        /\ r.state = "done" => Settled(v)
    BY <1>2, <2>1, <2>2, <2>3, TotalAssumption DEF OldBatchState
  <2>5. r.state # "expanding" => Full(v)
    BY <1>5, <2>4
  <2> QED
    BY <1>1, <2>4, <2>5, PastCounts DEF Lags, BatchRow, Rollup
<1> QED
  BY <1>4, <1>5

\* A row that lags behind a view and is not 'done' lags behind what follows it.
LEMMA LagsExtends ==
  ASSUME NEW v \in Views, NEW w \in Views, NEW b \in BatchRow, Past(v, w),
         Lags(b, v), b.state # "done"
  PROVE  Lags(b, w)
<1>1. /\ Succeeded(v) \in Nat /\ Succeeded(w) \in Nat
      /\ Failed(v) \in Nat /\ Failed(w) \in Nat
      /\ b.succeeded \in Nat /\ b.failed \in Nat
  BY CountRange, TotalAssumption DEF Succeeded, Failed, BatchRow
<1> QED
  BY <1>1, PastCounts DEF Lags

-----------------------------------------------------------------------------
(* One lemma for each kind of step. *)

\* A view stays a past when a row that is not settled in it moves on.
LEMMA PastExtends ==
  ASSUME NEW v \in Views, NEW w \in Views, NEW x \in Views, Past(v, w), Past(w, x)
  PROVE  Past(v, x)
BY DEF Past, Views

\* An insert, a claim or a finish writes its row: its snapshot is of now.
LEMMA WritePreserves ==
  ASSUME IInv, NEW s \in Sims, NEW st \in RowState, Write(s, st),
         ~Open(s), ~LockedByReaper(s),
         \/ sims[s] = "absent" /\ st \in {"queued", "succeeded"}
         \/ sims[s] = "queued" /\ st = "running"
         \/ sims[s] = "running" /\ st \in Terminal,
         UNCHANGED <<sims, attempts, batch, expander, reaper, trigger>>
  PROVE  IInv'
<1> USE DEF IInv
<1> DEFINE v == [sims EXCEPT ![s] = st]
<1>1. v \in Views /\ st # "absent" /\ sims[s] \notin Terminal
  BY DEF TypeOK, Tick, Views, RowState, Terminal
<1>2. tx' \in [Sims -> Tx] /\ tx'[s] = [to |-> st, snap |-> v]
      /\ \A x \in Sims \ {s} : tx'[x] = tx[x]
  BY <1>1 DEF TypeOK, Tick, Write, Tx
<1>3. TypeOK'
  BY <1>2 DEF TypeOK, Tick
<1>4. RowInv'
  BY DEF RowInv, Exhausted
<1>5. TxInv'
  <2> SUFFICES ASSUME NEW x \in Sims, Open(x)' PROVE TxOK(x)'
    BY DEF TxInv
  <2>1. CASE x = s
    <3>1. Past(v, v)
      BY DEF Past
    <3>2. OldCounts(v)
      BY <1>1, TotalAssumption DEF OldCounts, Lags, Full, TypeOK, Tick, Views
    <3>3. tx'[x].to = st /\ tx'[x].snap = v /\ [sims EXCEPT ![x] = tx'[x].to] = v
      <4>1. tx'[x] = [to |-> st, snap |-> v]
        BY <1>2, <2>1
      <4> QED
        BY <4>1, <2>1
    <3>4. Past(tx'[x].snap, [sims EXCEPT ![x] = tx'[x].to]) /\ OldCounts(tx'[x].snap)
      BY <3>1, <3>2, <3>3
    <3> QED
      BY <1>1, <2>1, <3>3, <3>4 DEF TxOK, Terminal, OldCounts, LockedByReaper
  <2>2. CASE x # s
    BY <1>2, <2>2 DEF TxInv, TxOK, Open, NoTx, OldCounts, LockedByReaper
  <2> QED
    BY <2>1, <2>2
<1>6. ReaperInv'
  BY DEF ReaperInv, LockedByReaper, Exhausted, OldCounts, SweepView
<1>7. Lags(batch, sims)'
  BY DEF Lags, Full, Settled, Succeeded, Failed, Count
<1> QED
  BY <1>3, <1>4, <1>5, <1>6, <1>7

\* A transaction that ends without effect.
LEMMA RollbackPreserves ==
  ASSUME IInv, NEW R \in SUBSET Sims,
         tx' = [s \in Sims |-> IF s \in R THEN NoTx ELSE tx[s]],
         expander' \in {"running", "stopped"},
         UNCHANGED <<sims, attempts, batch, reaper, trigger>>
  PROVE  IInv'
<1> USE DEF IInv
<1>1. NoTx \in Tx
  BY DEF NoTx, Tx, RowState, Views
<1>2. TypeOK'
  BY <1>1 DEF TypeOK, Tick
<1>3. RowInv'
  BY DEF RowInv, Exhausted
<1>4. TxInv'
  BY DEF TxInv, TxOK, Open, OldCounts, LockedByReaper
<1>5. ReaperInv'
  BY DEF ReaperInv, LockedByReaper, Exhausted, OldCounts, SweepView
<1>6. Lags(batch, sims)'
  BY DEF Lags, Full, Settled, Succeeded, Failed, Count
<1> QED
  BY <1>2, <1>3, <1>4, <1>5, <1>6

\* A commit: the row moves on, and the rollup of a past of the children is
\* written over the batch row.
LEMMA CommitPreserves ==
  ASSUME IInv, NEW s \in Sims, Commit(s)
  PROVE  IInv'
<1> USE DEF IInv
<1> DEFINE to == tx[s].to
           w  == [sims EXCEPT ![s] = to]
           b  == Rollup(tx[s].snap, batch)
<1>0. /\ Open(s) /\ ~reaper.held /\ sims' = w /\ batch' = b
      /\ attempts' = [attempts EXCEPT ![s] = IF to = "running" THEN @ + 1 ELSE @]
      /\ tx' = [tx EXCEPT ![s] = NoTx]
      /\ UNCHANGED <<expander, reaper, trigger>>
  BY DEF Commit
<1>1. /\ to \in RowState \ {"absent"} /\ tx[s].snap \in Views /\ w \in Views
      /\ sims[s] \notin Terminal /\ ~LockedByReaper(s)
      /\ Past(tx[s].snap, w) /\ OldCounts(tx[s].snap)
  BY <1>0 DEF TypeOK, Tick, TxInv, TxOK, Tx, Views, RowState, Terminal
<1>2. batch.state # "done"
  BY <1>1 DEF Lags, Settled
<1>3. /\ b \in BatchRow /\ Lags(b, w)
      /\ trigger = "0003" /\ b.state # "expanding" => batch.state # "expanding"
  BY <1>1, <1>2, RollupLags DEF TypeOK, Tick, OldCounts
<1>4. Past(sims, w)
  BY <1>1 DEF Past, TypeOK, Tick, Views
<1>5. /\ attempts' \in [Sims -> 0..MaxAttempts]
      /\ \A x \in Sims : sims'[x] \in {"absent", "queued"} => attempts'[x] < MaxAttempts
      /\ \A x \in Sims \ {s} : attempts'[x] = attempts[x]
  <2>1. sims[s] \in {"absent", "queued"} \/ to \in Terminal
    BY <1>0, <1>1 DEF TypeOK, Tick, TxInv, TxOK, Views, RowState, Terminal
  <2>2. to \in {"queued", "running"} => attempts[s] < MaxAttempts
    BY <2>1, AttemptsAssumption DEF TypeOK, Tick, RowInv, Exhausted, Terminal
  <2>3. \A x \in Sims : sims[x] \in {"absent", "queued"} => attempts[x] < MaxAttempts
    BY AttemptsAssumption DEF TypeOK, Tick, RowInv, Exhausted
  <2>4. /\ attempts' \in [Sims -> 0..MaxAttempts]
        /\ \A x \in Sims \ {s} : attempts'[x] = attempts[x]
        /\ to = "queued" => attempts'[s] = attempts[s]
    BY <1>0, <2>2, AttemptsAssumption DEF TypeOK, Tick
  <2>5. \A x \in Sims : sims'[x] = IF x = s THEN to ELSE sims[x]
    BY <1>0 DEF TypeOK, Tick, Views
  <2> QED
    BY <1>1, <2>2, <2>3, <2>4, <2>5
<1>6. TypeOK'
  <2>1. NoTx \in Tx
    BY DEF NoTx, Tx, RowState, Views
  <2> QED
    BY <1>0, <1>1, <1>3, <1>5, <2>1 DEF TypeOK, Tick
<1>7. RowInv'
  BY <1>5, <1>6, AttemptsAssumption DEF RowInv, Exhausted, TypeOK, Tick
<1>8. TxInv'
  <2> SUFFICES ASSUME NEW x \in Sims, Open(x)' PROVE TxOK(x)'
    BY DEF TxInv
  <2>1. x # s /\ tx'[x] = tx[x] /\ TxOK(x) /\ sims'[x] = sims[x]
    BY <1>0, <1>1 DEF Open, TypeOK, Tick, NoTx, Views, TxInv
  <2>2. Past(tx[x].snap, [w EXCEPT ![x] = tx[x].to])
    BY <1>1, <2>1 DEF TxOK, Past, TypeOK, Tick, Tx, Views, Terminal
  <2>3. OldCounts(tx[x].snap)'
    BY <1>0, <1>3, <2>1 DEF OldCounts, TxOK, Full
  <2> QED
    BY <1>0, <2>1, <2>2, <2>3 DEF TxOK, LockedByReaper, OldCounts
<1>9. ReaperInv'
  <2>1. /\ SweepView  = [x \in Sims |-> IF reaper.rows[x] # "none" THEN reaper.rows[x] ELSE sims[x]]
        /\ SweepView' = [x \in Sims |-> IF reaper.rows[x] # "none" THEN reaper.rows[x] ELSE w[x]]
        /\ SweepView \in Views /\ SweepView' \in Views
    BY <1>0, <1>1 DEF SweepView, LockedByReaper, TypeOK, Tick, Views, RowState
  <2>2. reaper.pc = "roll" => Past(reaper.snap, SweepView') /\ OldCounts(reaper.snap)'
    <3> SUFFICES ASSUME reaper.pc = "roll"
                 PROVE  Past(reaper.snap, SweepView') /\ OldCounts(reaper.snap)'
      OBVIOUS
    <3>1. Past(SweepView, SweepView')
      BY <1>1, <1>4, <2>1 DEF Past
    <3>2. OldCounts(reaper.snap)'
      BY <1>0, <1>3 DEF OldCounts, ReaperInv, Full
    <3> QED
      BY <2>1, <3>1, <3>2, PastExtends DEF ReaperInv, TypeOK, Tick
  <2>3. \A x \in Sims : LockedByReaper(x) => x # s /\ attempts'[x] = attempts[x] /\ sims'[x] = sims[x]
    BY <1>0, <1>1, <1>5 DEF TypeOK, Tick, Views
  <2> QED
    BY <1>0, <2>2, <2>3 DEF ReaperInv, LockedByReaper, Exhausted
<1>10. Lags(batch, sims)'
  BY <1>0, <1>3 DEF Lags, Full, Settled, Succeeded, Failed, Count
<1> QED
  BY <1>6, <1>7, <1>8, <1>9, <1>10

\* The sweep takes a row, which moves on in its own view only.
LEMMA SweepRowPreserves ==
  ASSUME IInv, NEW s \in Sims, SweepRow(s)
  PROVE  IInv'
<1> USE DEF IInv
<1> DEFINE new == IF reaper.stmt = "requeue" THEN "queued" ELSE "failed"
<1>0. /\ reaper.pc = "take" /\ s \in reaper.todo /\ ~Open(s)
      /\ UNCHANGED <<sims, attempts, batch, tx, expander, trigger>>
  BY DEF SweepRow
<1>1. CASE ~(sims[s] = "running" /\ (Exhausted(s) <=> reaper.stmt = "fail"))
  <2>1. reaper' = [reaper EXCEPT !.todo = @ \ {s}]
    BY <1>1 DEF SweepRow
  <2>2. /\ reaper' = [reaper EXCEPT !.todo = reaper'.todo] /\ reaper'.todo \in SUBSET Sims
        /\ SweepView' = SweepView
    BY <1>0, <2>1 DEF TypeOK, Tick, SweepView, LockedByReaper
  <2>3. TypeOK'
    BY <1>0, <2>2 DEF TypeOK, Tick
  <2>4. RowInv'
    BY <1>0 DEF RowInv, Exhausted
  <2>5. TxInv'
    BY <1>0, <2>2 DEF TxInv, TxOK, Open, OldCounts, LockedByReaper, TypeOK, Tick
  <2>6. ReaperInv'
    BY <1>0, <2>2 DEF ReaperInv, TypeOK, Tick, LockedByReaper, Exhausted, OldCounts
  <2>7. Lags(batch, sims)'
    BY <1>0 DEF Lags, Full, Settled, Succeeded, Failed, Count
  <2> QED
    BY <2>3, <2>4, <2>5, <2>6, <2>7
<1>2. CASE sims[s] = "running" /\ (Exhausted(s) <=> reaper.stmt = "fail")
  <2>1. reaper' = [reaper EXCEPT !.todo = @ \ {s}, !.now = @ \cup {s}, !.rows[s] = new]
    BY <1>2 DEF SweepRow
  <2>2. /\ reaper'.pc = "take" /\ reaper'.stmt = reaper.stmt
        /\ reaper'.held = reaper.held /\ reaper'.row = reaper.row
        /\ reaper'.now = reaper.now \cup {s}
        /\ reaper'.rows = [reaper.rows EXCEPT ![s] = new]
        /\ reaper'.rows[s] = new /\ new \in {"queued", "failed"}
        /\ \A x \in Sims \ {s} : reaper'.rows[x] = reaper.rows[x]
    BY <1>0, <2>1 DEF TypeOK, Tick
  <2>3. TypeOK'
    BY <1>0, <2>1, <2>2 DEF TypeOK, Tick
  <2>4. RowInv'
    BY <1>0 DEF RowInv, Exhausted
  <2>5. TxInv'
    BY <1>0, <2>2 DEF TxInv, TxOK, Open, OldCounts, LockedByReaper
  <2>6. /\ SweepView \in Views /\ SweepView' \in Views
        /\ SweepView[s] \in {"queued", "running", "failed"}
        /\ \A x \in Sims \ {s} : SweepView'[x] = SweepView[x]
        /\ SweepView'[s] = new
    BY <1>0, <1>2, <2>2, <2>3 DEF TypeOK, Tick, SweepView, LockedByReaper, Views, RowState
  <2>7. ReaperInv'
    <3>1. \A x \in Sims : LockedByReaper(x)' =>
            /\ sims[x] = "running"
            /\ reaper'.rows[x] = "queued" => ~Exhausted(x)
            /\ reaper'.stmt = "requeue" => reaper'.rows[x] = "queued"
      BY <1>2, <2>2 DEF ReaperInv, LockedByReaper
    <3>2. Past(SweepView, SweepView')
      <4>1. SweepView[s] = "failed" => reaper.stmt # "requeue"
        BY <1>2 DEF ReaperInv, SweepView, LockedByReaper
      <4> QED
        BY <2>2, <2>6, <4>1 DEF Past, Terminal
    <3>3. reaper.held => Lags(reaper.row, SweepView')
      BY <1>0, <2>6, <3>2, LagsExtends DEF ReaperInv, TypeOK, Tick
    <3>4. reaper.held => \E x \in Sims : LockedByReaper(x)'
      BY <2>2 DEF LockedByReaper
    <3> QED
      BY <1>0, <2>2, <3>1, <3>3, <3>4 DEF ReaperInv, LockedByReaper, Exhausted
  <2>8. Lags(batch, sims)'
    BY <1>0 DEF Lags, Full, Settled, Succeeded, Failed, Count
  <2> QED
    BY <2>3, <2>4, <2>5, <2>7, <2>8
<1> QED
  BY <1>1, <1>2

\* The sweep moves on without touching a child: whatever it does to its own
\* record, the rest of the invariant is left as it was.
LEMMA ReaperMoves ==
  ASSUME IInv, reaper' \in Tick,
         \A s \in Sims : reaper'.rows[s] \in {"none", reaper.rows[s]},
         ReaperInv',
         UNCHANGED <<sims, attempts, batch, tx, expander, trigger>>
  PROVE  IInv'
<1> USE DEF IInv
<1>1. TypeOK'
  BY DEF TypeOK, Tick
<1>2. RowInv'
  BY DEF RowInv, Exhausted
<1>3. TxInv'
  BY DEF TxInv, TxOK, Open, OldCounts, LockedByReaper
<1>4. Lags(batch, sims)'
  BY DEF Lags, Full, Settled, Succeeded, Failed, Count
<1> QED
  BY <1>1, <1>2, <1>3, <1>4

\* A tick with nothing written, at label p and with rows E to lock.
NewTick(p, E) == [pc |-> p, stmt |-> "requeue", todo |-> E, rows |-> Unwritten,
                  now |-> {}, snap |-> [s \in Sims |-> "absent"], held |-> FALSE,
                  row |-> NewBatch]

\* It is a tick.
LEMMA NewTickType ==
  ASSUME NEW p \in {"idle", "take", "resync"}, NEW E \in SUBSET Sims
  PROVE  NewTick(p, E) \in Tick
<1>1. Unwritten \in [Sims -> {"none", "queued", "failed"}]
  BY DEF Unwritten
<1>2. [s \in Sims |-> "absent"] \in Views /\ NewBatch \in BatchRow
  BY TotalAssumption DEF Views, RowState, NewBatch, BatchRow
<1>3. p \in {"idle", "take", "roll", "next", "resync"} /\ {} \in SUBSET Sims
  OBVIOUS
<1> QED
  BY <1>1, <1>2, <1>3 DEF NewTick, Tick

\* It satisfies the Reaper's invariant, whatever the children.
LEMMA NewTickInv ==
  ASSUME NEW p \in {"idle", "take", "resync"}, NEW E \in SUBSET Sims,
         reaper' = NewTick(p, E)
  PROVE  /\ ReaperInv'
         /\ \A s \in Sims : reaper'.rows[s] = "none"
<1>1. /\ reaper'.rows = Unwritten /\ reaper'.now = {} /\ reaper'.held = FALSE
      /\ reaper'.pc = p
  BY DEF NewTick
<1>2. \A s \in Sims : reaper'.rows[s] = "none"
  BY <1>1 DEF Unwritten
<1> QED
  BY <1>1, <1>2 DEF ReaperInv, LockedByReaper

\* A tick begins, fails, or ends with the resync having done nothing.
LEMMA IdlePreserves ==
  ASSUME IInv, NEW p \in {"idle", "take", "resync"}, NEW E \in SUBSET Sims,
         reaper' = NewTick(p, E),
         UNCHANGED <<sims, attempts, batch, tx, expander, trigger>>
  PROVE  IInv'
BY NewTickType, NewTickInv, ReaperMoves

\* The UPDATE is over and its first trigger counts what the sweep sees.
LEMMA SweepTriggerPreserves ==
  ASSUME IInv, SweepTrigger
  PROVE  IInv'
<1> USE DEF IInv
<1>0. SweepView \in Views /\ Past(SweepView, SweepView)
  BY DEF TypeOK, Tick, SweepView, Views, RowState, Past, LockedByReaper
<1>1. OldCounts(SweepView)
  BY DEF OldCounts, Lags, Full, SweepView, LockedByReaper, ReaperInv, TypeOK, Tick
<1>2. CASE reaper.now = {}
  <2>1. reaper' = [reaper EXCEPT !.pc = "next"]
    BY <1>2 DEF SweepTrigger
  <2>2. reaper'.rows = reaper.rows /\ SweepView' = SweepView
    BY <2>1 DEF TypeOK, Tick, SweepTrigger, SweepView, LockedByReaper
  <2>3. ReaperInv'
    BY <2>1, <2>2 DEF SweepTrigger, ReaperInv, TypeOK, Tick, LockedByReaper, Exhausted
  <2> QED
    BY <2>1, <2>2, <2>3, ReaperMoves DEF SweepTrigger, TypeOK, Tick
<1>3. CASE reaper.now # {}
  <2>1. reaper' = [reaper EXCEPT !.pc = "roll", !.snap = SweepView]
    BY <1>3 DEF SweepTrigger
  <2>2. reaper'.rows = reaper.rows /\ SweepView' = SweepView /\ reaper'.snap = SweepView
    BY <2>1 DEF TypeOK, Tick, SweepTrigger, SweepView, LockedByReaper
  <2>3. ReaperInv'
    BY <1>0, <1>1, <1>3, <2>1, <2>2
       DEF SweepTrigger, ReaperInv, TypeOK, Tick, LockedByReaper, Exhausted, OldCounts
  <2> QED
    BY <1>0, <2>1, <2>2, <2>3, ReaperMoves DEF SweepTrigger, TypeOK, Tick
<1> QED
  BY <1>2, <1>3

\* The triggers write the batch row the sweep holds.
LEMMA SweepRollPreserves ==
  ASSUME IInv, SweepRoll
  PROVE  IInv'
<1> USE DEF IInv
<1> DEFINE v     == SweepView
           first == IF reaper.held THEN Rollup(v, reaper.row) ELSE Rollup(reaper.snap, batch)
           row   == IF Cardinality(reaper.now) > 1 THEN Rollup(v, first) ELSE first
           Good(b) == /\ b \in BatchRow /\ Lags(b, v)
                      /\ trigger = "0003" /\ b.state # "expanding" => batch.state # "expanding"
<1>0. /\ reaper.pc = "roll" /\ reaper' = [reaper EXCEPT !.pc = "next", !.held = TRUE, !.row = row]
      /\ UNCHANGED <<sims, attempts, batch, tx, expander, trigger>>
  BY DEF SweepRoll
<1>1. v \in Views /\ Past(v, v) /\ trigger \in {"0003", "0004"}
  BY DEF TypeOK, Tick, SweepView, Views, RowState, Past, LockedByReaper
<1>2. \E s \in Sims : LockedByReaper(s) /\ sims[s] = "running"
  BY <1>0 DEF ReaperInv, TypeOK, Tick
<1>3. ASSUME NEW b, Good(b) PROVE Good(Rollup(v, b))
  BY <1>1, <1>3, RollupLags DEF Lags
<1>4. Good(first)
  <2>1. CASE reaper.held
    BY <1>0, <1>3, <2>1 DEF ReaperInv, TypeOK, Tick
  <2>2. CASE ~reaper.held
    <3>1. batch.state # "done"
      BY <1>2 DEF Lags, Settled, Terminal
    <3>2. reaper.snap \in Views /\ batch \in BatchRow /\ Past(reaper.snap, v)
          /\ OldCounts(reaper.snap)
      BY <1>0 DEF ReaperInv, TypeOK, Tick
    <3> QED
      BY <1>1, <2>2, <3>1, <3>2, RollupLags DEF OldCounts
  <2> QED
    BY <2>1, <2>2
<1>5. Good(row)
  BY <1>3, <1>4
<1>6. /\ reaper'.rows = reaper.rows /\ SweepView' = v /\ reaper'.row = row
      /\ reaper'.now = reaper.now /\ reaper'.pc = "next" /\ reaper'.stmt = reaper.stmt
  BY <1>0 DEF TypeOK, Tick, SweepView, LockedByReaper
<1>7. ReaperInv'
  <2>1. (Lags(reaper.row, SweepView))'
    BY <1>5, <1>6 DEF Lags, Full, Settled, Succeeded, Failed, Count
  <2> QED
    BY <1>0, <1>2, <1>5, <1>6, <2>1 DEF ReaperInv, LockedByReaper, Exhausted
<1> QED
  BY <1>0, <1>5, <1>6, <1>7, ReaperMoves DEF TypeOK, Tick

\* The second UPDATE begins: what the first wrote is queued again, so the row
\* the sweep holds is not 'done'.
LEMMA SweepSecondPreserves ==
  ASSUME IInv, SweepSecond
  PROVE  IInv'
<1> USE DEF IInv
<1>1. PICK E \in SUBSET Sims :
        reaper' = [reaper EXCEPT !.pc = "take", !.stmt = "fail", !.todo = E, !.now = {}]
  BY DEF SweepSecond
<1>2. /\ reaper' \in Tick /\ reaper'.rows = reaper.rows /\ reaper'.now = {}
      /\ reaper'.held = reaper.held /\ reaper'.row = reaper.row
      /\ reaper'.pc = "take" /\ reaper'.stmt = "fail"
  BY <1>1 DEF TypeOK, Tick
<1>3. SweepView' = SweepView
  BY <1>2 DEF SweepSecond, SweepView, LockedByReaper
<1>4. reaper.held => reaper.row.state # "done"
  BY DEF SweepSecond, ReaperInv, Lags, Settled, SweepView, LockedByReaper, Terminal
<1>5. ReaperInv'
  BY <1>2, <1>3, <1>4 DEF SweepSecond, ReaperInv, LockedByReaper, Exhausted
<1> QED
  BY <1>2, <1>5, ReaperMoves DEF SweepSecond

\* The sweep commits its rows and the batch row it holds.
LEMMA SweepCommitPreserves ==
  ASSUME IInv, SweepCommit
  PROVE  IInv'
<1> USE DEF IInv
<1>0. /\ sims' = SweepView /\ batch' = IF reaper.held THEN reaper.row ELSE batch
      /\ reaper.pc = "next" /\ UNCHANGED <<attempts, tx, expander, trigger>>
  BY DEF SweepCommit
<1>1. reaper' = NewTick("resync", {}) /\ reaper' \in Tick
  <2>1. reaper' = NewTick("resync", {})
    BY DEF SweepCommit, NewTick, IdleReaper
  <2> QED
    BY <2>1, NewTickType
<1>2. SweepView \in Views /\ Past(sims, SweepView)
  BY DEF TypeOK, Tick, SweepView, Views, RowState, Past, LockedByReaper, ReaperInv, Terminal
<1>3. TypeOK'
  BY <1>0, <1>1, <1>2 DEF TypeOK, Tick
<1>4. RowInv'
  BY <1>0 DEF RowInv, Exhausted, SweepView, LockedByReaper, ReaperInv, TypeOK, Tick
<1>5. Lags(batch, sims)'
  <2>1. CASE reaper.held
    BY <1>0, <2>1 DEF ReaperInv, Lags, Full, Settled, Succeeded, Failed, Count
  <2>2. CASE ~reaper.held
    <3>1. CASE batch.state # "done"
      BY <1>0, <1>2, <2>2, <3>1, LagsExtends
         DEF TypeOK, Tick, Lags, Full, Settled, Succeeded, Failed, Count
    <3>2. CASE batch.state = "done"
      <4>1. \A s \in Sims : ~LockedByReaper(s)
        BY <3>2 DEF Lags, Settled, ReaperInv, Terminal
      <4>2. SweepView = sims
        BY <4>1 DEF SweepView, TypeOK, Tick, Views
      <4> QED
        BY <1>0, <2>2, <4>2 DEF Lags, Full, Settled, Succeeded, Failed, Count
    <3> QED
      BY <3>1, <3>2
  <2> QED
    BY <2>1, <2>2 DEF TypeOK, Tick
<1>6. TxInv'
  <2> SUFFICES ASSUME NEW x \in Sims, Open(x)' PROVE TxOK(x)'
    BY DEF TxInv
  <2>1. tx'[x] = tx[x] /\ TxOK(x) /\ sims'[x] = sims[x]
    BY <1>0 DEF Open, TxInv, TxOK, SweepView
  <2>2. Past(tx[x].snap, [SweepView EXCEPT ![x] = tx[x].to])
    <3>1. Past([sims EXCEPT ![x] = tx[x].to], [SweepView EXCEPT ![x] = tx[x].to])
      BY <1>2 DEF Past, TypeOK, Tick, Views
    <3> QED
      BY <1>2, <2>1, <3>1 DEF TxOK, Past, TypeOK, Tick, Views
  <2>3. OldCounts(tx[x].snap)'
    BY <1>0, <2>1 DEF OldCounts, TxOK, Full, ReaperInv
  <2>4. ~LockedByReaper(x)'
    BY <1>1, NewTickInv DEF LockedByReaper
  <2> QED
    BY <1>0, <2>1, <2>2, <2>3, <2>4 DEF TxOK, OldCounts
<1>7. ReaperInv'
  BY <1>1, NewTickInv
<1> QED
  BY <1>3, <1>4, <1>5, <1>6, <1>7

\* The resync writes the batch row only when every child is settled, so nothing
\* is open that could write it again.
LEMMA ResyncPreserves ==
  ASSUME IInv, ResyncStuckBatches
  PROVE  IInv'
<1> USE DEF IInv
<1>0. /\ reaper' = NewTick("idle", {}) /\ reaper' \in Tick
      /\ UNCHANGED <<sims, attempts, tx, expander, trigger>>
  <2>1. reaper' = NewTick("idle", {})
    BY DEF ResyncStuckBatches, NewTick, IdleReaper
  <2> QED
    BY <2>1, NewTickType DEF ResyncStuckBatches
<1> DEFINE done == [state |-> "done", succeeded |-> Succeeded(sims), failed |-> Failed(sims)]
<1>1. CASE batch' = batch
  BY <1>0, <1>1, IdlePreserves
<1>2. CASE batch' = done /\ Inserted(sims) >= N /\ Count(sims, {"queued", "running"}) = 0
  <2>1. Settled(sims)
    <3>1. Full(sims)
      BY <1>2, CountAll DEF Inserted, Full
    <3>2. \A s \in Sims : sims[s] \notin {"queued", "running"}
      <4> SUFFICES ASSUME NEW s \in Sims, sims[s] \in {"queued", "running"} PROVE FALSE
        OBVIOUS
      <4> DEFINE A == {x \in Sims : sims[x] \in {"queued", "running"}}
      <4>1. IsFiniteSet(A) /\ s \in A
        BY SimsFinite, FS_Subset
      <4>2. Cardinality(A) # 0
        BY <4>1, FS_EmptySet
      <4> QED
        BY <1>2, <4>2 DEF Count
    <3> QED
      BY <3>1, <3>2 DEF Full, Settled, TypeOK, Tick, Views, RowState, Terminal
  <2>2. \A s \in Sims : ~Open(s)
    BY <2>1 DEF Settled, TxInv, TxOK
  <2>3. Full(sims) /\ done \in BatchRow
    BY <2>1, CountRange DEF Settled, Full, Terminal, BatchRow, Succeeded, Failed
  <2>4. Lags(done, sims)
    BY <2>1, <2>3, CountRange DEF Lags, Succeeded, Failed
  <2>6. TypeOK' /\ RowInv'
    BY <1>0, <1>2, <2>3 DEF TypeOK, Tick, RowInv, Exhausted
  <2>7. TxInv'
    BY <1>0, <2>2 DEF TxInv, Open
  <2>8. ReaperInv'
    BY <1>0, NewTickInv
  <2>9. Lags(batch, sims)'
    BY <1>0, <1>2, <2>4 DEF Lags, Full, Settled, Succeeded, Failed, Count
  <2> QED
    BY <2>6, <2>7, <2>8, <2>9
<1> QED
  BY <1>1, <1>2 DEF ResyncStuckBatches

\* A migration changes the trigger when nobody is counting.
LEMMA MigratePreserves ==
  ASSUME IInv, Migrate3 \/ Migrate4
  PROVE  IInv'
<1> USE DEF IInv
<1>0. /\ TableFree /\ trigger' \in {"0003", "0004"}
      /\ UNCHANGED <<sims, attempts, batch, tx, expander, reaper>>
  BY DEF Migrate3, Migrate4
<1>1. TypeOK' /\ RowInv'
  BY <1>0 DEF TypeOK, RowInv, Exhausted
<1>2. TxInv'
  BY <1>0 DEF TxInv, Open, TableFree
<1>3. ReaperInv'
  BY <1>0 DEF ReaperInv, LockedByReaper, Exhausted, TableFree
<1>4. Lags(batch, sims)'
  BY <1>0 DEF Lags, Full, Settled, Succeeded, Failed, Count
<1> QED
  BY <1>1, <1>2, <1>3, <1>4

-----------------------------------------------------------------------------
(* The theorems. *)

\* The invariant is established and kept by every step: snapshots are pasts of
\* the children, and the batch row lags behind them at worst.
THEOREM RollupInvariance == Spec => []IInv
<1>1. Init => IInv
  <2> SUFFICES ASSUME Init PROVE IInv
    OBVIOUS
  <2>1. reaper = NewTick("idle", {}) /\ reaper \in Tick
    <3>1. reaper = NewTick("idle", {})
      BY DEF Init, NewTick, IdleReaper
    <3> QED
      BY <3>1, NewTickType
  <2>2. /\ \A s \in Sims : ~Open(s) /\ ~LockedByReaper(s)
        /\ reaper.rows = Unwritten /\ reaper.now = {} /\ reaper.held = FALSE /\ reaper.pc = "idle"
    BY <2>1 DEF Init, Open, LockedByReaper, NewTick, Unwritten
  <2>3. NoTx \in Tx /\ NewBatch \in BatchRow
    BY TotalAssumption DEF NoTx, Tx, RowState, Views, NewBatch, BatchRow
  <2>4. TypeOK
    BY <2>1, <2>3, AttemptsAssumption DEF Init, TypeOK, Views, RowState
  <2>5. RowInv
    BY AttemptsAssumption DEF Init, RowInv, Exhausted
  <2>6. Lags(batch, sims)
    BY CountRange DEF Init, NewBatch, Lags, Succeeded, Failed
  <2> QED
    BY <2>2, <2>4, <2>5, <2>6 DEF IInv, TxInv, ReaperInv
<1>2. IInv /\ [Next]_vars => IInv'
  <2> SUFFICES ASSUME IInv, [Next]_vars PROVE IInv'
    OBVIOUS
  <2>1. ASSUME NEW s \in Sims, InsertSimulation(s) PROVE IInv'
    <3>1. ~LockedByReaper(s)
      BY <2>1 DEF InsertSimulation, IInv, ReaperInv
    <3> QED
      BY <2>1, <3>1, WritePreserves DEF InsertSimulation, RowState
  <2>2. ASSUME NEW s \in Sims, Claim(s) PROVE IInv'
    BY <2>2, WritePreserves DEF Claim, Locked, RowState
  <2>3. ASSUME NEW s \in Sims, Finish(s) PROVE IInv'
    BY <2>3, WritePreserves DEF Finish, Locked, RowState, Terminal
  <2>4. ASSUME NEW s \in Sims, Commit(s) PROVE IInv'
    BY <2>4, CommitPreserves
  <2>5. ASSUME NEW s \in Sims, Rollback(s) PROVE IInv'
    <3>1. tx' = [x \in Sims |-> IF x \in {s} THEN NoTx ELSE tx[x]]
      BY <2>5 DEF Rollback, IInv, TypeOK
    <3>2. expander' \in {"running", "stopped"}
      BY <2>5 DEF Rollback, IInv, TypeOK
    <3> QED
      BY <2>5, <3>1, <3>2, RollbackPreserves DEF Rollback
  <2>6. CASE ExpandFails
    <3> DEFINE R == {s \in Sims : sims[s] = "absent"}
    <3>1. tx' = [x \in Sims |-> IF x \in R THEN NoTx ELSE tx[x]]
      BY <2>6 DEF ExpandFails
    <3> QED
      BY <2>6, <3>1, RollbackPreserves DEF ExpandFails
  <2>7. CASE SweepBegin
    <3>1. PICK E \in SUBSET Sims : reaper' = [IdleReaper EXCEPT !.pc = "take", !.todo = E]
      BY <2>7 DEF SweepBegin
    <3>2. reaper' = NewTick("take", E)
      BY <3>1 DEF NewTick, IdleReaper
    <3> QED
      BY <2>7, <3>2, IdlePreserves DEF SweepBegin
  <2>8. ASSUME NEW s \in Sims, SweepRow(s) PROVE IInv'
    BY <2>8, SweepRowPreserves
  <2>9. CASE SweepFails
    <3>1. reaper' = NewTick("resync", {})
      BY <2>9 DEF SweepFails, NewTick, IdleReaper
    <3> QED
      BY <2>9, <3>1, IdlePreserves DEF SweepFails
  <2>10. CASE ResyncFails
    <3>1. reaper' = NewTick("idle", {})
      BY <2>10 DEF ResyncFails, NewTick, IdleReaper
    <3> QED
      BY <2>10, <3>1, IdlePreserves DEF ResyncFails
  <2>11. CASE UNCHANGED vars
    <3>1. TypeOK' /\ RowInv'
      BY <2>11 DEF vars, IInv, TypeOK, RowInv, Exhausted
    <3>2. TxInv'
      BY <2>11 DEF vars, IInv, TxInv, TxOK, Open, OldCounts, LockedByReaper
    <3>3. ReaperInv'
      BY <2>11 DEF vars, IInv, ReaperInv, LockedByReaper, Exhausted, OldCounts, SweepView
    <3>4. Lags(batch, sims)'
      BY <2>11 DEF vars, IInv, Lags, Full, Settled, Succeeded, Failed, Count
    <3> QED
      BY <3>1, <3>2, <3>3, <3>4 DEF IInv
  <2> QED
    BY <2>1, <2>2, <2>3, <2>4, <2>5, <2>6, <2>7, <2>8, <2>9, <2>10, <2>11,
       SweepTriggerPreserves, SweepRollPreserves, SweepSecondPreserves,
       SweepCommitPreserves, ResyncPreserves, MigratePreserves
       DEF Next, Sweep
<1> QED
  BY <1>1, <1>2, PTL DEF Spec

\* Types, and with them: no child is started more than MaxAttempts times.
THEOREM RollupTypeCorrect == Spec => []TypeOK
<1>1. IInv => TypeOK
  BY DEF IInv
<1> QED
  BY <1>1, RollupInvariance, PTL

\* However old the snapshot a trigger counted, the batch never shows an outcome
\* that no child has.
THEOREM CountsAreNeverAhead == Spec => []CountsNeverOverstate
<1>1. IInv => CountsNeverOverstate
  BY DEF IInv, Lags, CountsNeverOverstate
<1> QED
  BY <1>1, RollupInvariance, PTL

\* A batch out of 'expanding' has its rows and a 'done' one counts each of them,
\* whichever of the two triggers, the sweep or the resync wrote it.
THEOREM DoneBatchesAreExact == Spec => []DoneIsExact
<1>1. IInv => DoneIsExact
  <2> SUFFICES ASSUME IInv PROVE DoneIsExact
    OBVIOUS
  <2>1. Inserted(sims) \in 0..N /\ Count(sims, Terminal) \in 0..N
    BY CountRange DEF Inserted
  <2>2. Full(sims) => Inserted(sims) = N
    <3>1. Full(sims) => Inserted(sims) >= N
      BY CountAll DEF IInv, TypeOK, Views, Full, Inserted
    <3> QED
      BY <2>1, <3>1, TotalAssumption
  <2>3. Settled(sims) => Count(sims, Terminal) = N
    <3>1. Settled(sims) => Count(sims, Terminal) >= N
      BY CountAll DEF Settled
    <3> QED
      BY <2>1, <3>1, TotalAssumption
  <2> QED
    BY <2>2, <2>3 DEF IInv, Lags, DoneIsExact
<1> QED
  BY <1>1, RollupInvariance, PTL

\* A batch that is done has no transaction left that could write it.
LEMMA DoneStays ==
  ASSUME IInv, [Next]_vars, batch.state = "done" PROVE batch' = batch /\ sims' = sims
<1>1. Settled(sims)
  BY DEF IInv, Lags
<1>2. \A s \in Sims : ~Open(s) /\ ~LockedByReaper(s)
  BY <1>1 DEF IInv, TxInv, TxOK, ReaperInv, Settled, Terminal
<1>3. ~reaper.held /\ SweepView = sims
  BY <1>2 DEF IInv, ReaperInv, SweepView, TypeOK, Views
<1> QED
  BY <1>2, <1>3 DEF Next, vars, Sweep, InsertSimulation, Claim, Finish, Commit, Rollback,
     ExpandFails, SweepBegin, SweepRow, SweepTrigger, SweepRoll, SweepSecond, SweepCommit,
     SweepFails, ResyncStuckBatches, ResyncFails, Migrate3, Migrate4

\* 'done' is final: no transaction that was under way writes the batch or one of
\* its children again.
THEOREM DoneBatchesAreFinal == Spec => DoneIsAbsorbing
<1>1. IInv /\ [Next]_vars => (batch.state = "done" => batch' = batch /\ sims' = sims)
  BY DoneStays
<1> QED
  BY <1>1, RollupInvariance, PTL DEF Spec, DoneIsAbsorbing

-----------------------------------------------------------------------------
(* The refinement of BatchRows. *)

\* The rows that exist are the first so many, and an insert under way is that of
\* the next one.
OrderInv == \A s \in Sims :
  /\ sims[s] # "absent" <=> s <= Inserted(sims)
  /\ sims[s] = "absent" /\ Open(s) => s = Inserted(sims) + 1

\* What a step does to the children, as far as it is committed.
Appended(s) == /\ s = Inserted(sims) + 1
               /\ sims'[s] \in RowState \ {"absent"}
               /\ \A x \in Sims : x # s => sims'[x] = sims[x]
Moved == \A s \in Sims : /\ sims'[s] \in RowState
                         /\ sims[s] = "absent" <=> sims'[s] = "absent"
                         /\ sims[s] \in Terminal => sims'[s] = sims[s]

\* Only commits show, and they append the next row or move rows that exist.
LEMMA StepEffect ==
  ASSUME IInv, OrderInv, [Next]_vars
  PROVE  Moved \/ \E s \in Sims : Appended(s)
<1> USE DEF IInv, TypeOK
<1>1. ASSUME NEW s \in Sims, Commit(s) PROVE Moved \/ Appended(s)
  <2>1. tx[s] \in Tx /\ tx[s].to \in RowState /\ TxOK(s) /\ Open(s)
    BY <1>1 DEF Commit, TxInv, Tx
  <2>2. sims' = [sims EXCEPT ![s] = tx[s].to] /\ \A x \in Sims : sims[x] \in RowState
    BY <1>1, <2>1 DEF Commit, Views
  <2>3. CASE sims[s] = "absent"
    BY <2>1, <2>2, <2>3 DEF Appended, OrderInv, TxOK, Views
  <2>4. CASE sims[s] # "absent"
    <3>1. tx[s].to # "absent" /\ sims[s] \notin Terminal
      BY <2>1, <2>2, <2>4 DEF TxOK, RowState, Terminal
    <3> QED BY <2>1, <2>2, <2>4, <3>1 DEF Moved, Views
  <2> QED BY <2>3, <2>4
<1>2. CASE SweepCommit
  <2>1. \A s \in Sims : LockedByReaper(s) =>
          sims[s] = "running" /\ reaper.rows[s] \in {"queued", "failed"}
    BY DEF ReaperInv, LockedByReaper, Tick
  <2> QED BY <1>2, <2>1 DEF SweepCommit, Moved, SweepView, Terminal, Views, RowState
<1>3. CASE UNCHANGED sims
  BY <1>3 DEF Moved, Views
<1>4. UNCHANGED sims \/ SweepCommit \/ \E s \in Sims : Commit(s)
  BY DEF Next, vars, Sweep, InsertSimulation, Claim, Finish, Rollback,
     ExpandFails, SweepBegin, SweepRow, SweepTrigger, SweepRoll, SweepSecond,
     SweepFails, ResyncStuckBatches, ResyncFails, Migrate3, Migrate4
<1> QED BY <1>1, <1>2, <1>3, <1>4

\* How many rows there are afterwards.
LEMMA AppendedCounts ==
  ASSUME sims \in Views, OrderInv, NEW s \in Sims, Appended(s)
  PROVE  Inserted(sims)' = s
<1>1. {x \in Sims : sims'[x] \in RowState \ {"absent"}} = 1..s
  <2>1. ASSUME NEW x \in Sims PROVE sims'[x] \in RowState \ {"absent"} <=> x <= s
    <3>1. sims[x] \in RowState /\ (sims[x] # "absent" <=> x <= s - 1)
      <4>1. Inserted(sims) \in 0..N /\ s = Inserted(sims) + 1
        BY CountRange DEF Inserted, Appended
      <4>2. Inserted(sims) = s - 1
        BY <4>1, TotalAssumption
      <4> QED BY <4>2 DEF Views, OrderInv
    <3> QED BY <3>1, TotalAssumption DEF Appended, Sims
  <2> QED BY <2>1, TotalAssumption DEF Sims
<1>2. Cardinality(1..s) = s
  BY FS_Interval, TotalAssumption DEF Sims
<1> QED BY <1>1, <1>2 DEF Inserted, Count

\* A step that moves rows adds none.
LEMMA MovedCounts ==
  ASSUME sims \in Views, Moved PROVE Inserted(sims)' = Inserted(sims)
<1>1. {x \in Sims : sims'[x] \in RowState \ {"absent"}} = {x \in Sims : sims[x] \in RowState \ {"absent"}}
  BY DEF Moved, Views
<1> QED BY <1>1 DEF Inserted, Count

\* A transaction that opens on an absent row is the insert of the next variant.
LEMMA OpensInOrder ==
  ASSUME IInv, OrderInv, [Next]_vars, NEW s \in Sims, ~Open(s), Open(s)', sims[s] = "absent"
  PROVE  s = Inserted(sims) + 1 /\ UNCHANGED sims
<1> USE DEF Open, IInv, TypeOK
<1>1. ASSUME NEW y \in Sims, InsertSimulation(y) PROVE s = Inserted(sims) + 1 /\ UNCHANGED sims
  <2>1. s = y /\ UNCHANGED sims
    BY <1>1 DEF InsertSimulation, Write
  <2>2. \A x \in Sims : x < s => x <= Inserted(sims)
    BY <1>1, <2>1 DEF InsertSimulation, OrderInv
  <2>3. ~(s <= Inserted(sims)) /\ Inserted(sims) \in 0..N
    BY CountRange DEF OrderInv, Inserted
  <2>4. s = Inserted(sims) + 1
    BY <2>2, <2>3, TotalAssumption DEF Sims
  <2> QED BY <2>1, <2>4
<1>2. ASSUME NEW y \in Sims, Claim(y) \/ Finish(y) PROVE FALSE
  BY <1>2 DEF Claim, Finish, Write
<1>3. ASSUME NEW y \in Sims, Commit(y) \/ Rollback(y) PROVE FALSE
  BY <1>3 DEF Commit, Rollback
<1>4. ~ExpandFails
  BY DEF ExpandFails
<1>5. ~UNCHANGED tx
  OBVIOUS
<1> QED
  BY <1>1, <1>2, <1>3, <1>4, <1>5 DEF Next, vars, Sweep, SweepBegin, SweepRow, SweepTrigger, SweepRoll,
     SweepSecond, SweepCommit, SweepFails, ResyncStuckBatches, ResyncFails, Migrate3, Migrate4

\* Every step keeps the order.
LEMMA OrderStep == IInv /\ OrderInv /\ [Next]_vars => OrderInv'
<1> SUFFICES ASSUME IInv, OrderInv, [Next]_vars PROVE OrderInv'
  OBVIOUS
<1>0. sims \in Views /\ Inserted(sims) \in 0..N
  BY CountRange DEF IInv, TypeOK, Inserted
<1>1. CASE Moved
  <2>1. Inserted(sims)' = Inserted(sims)
    BY <1>0, <1>1, MovedCounts
  <2> SUFFICES ASSUME NEW s \in Sims
               PROVE  /\ sims'[s] # "absent" <=> s <= Inserted(sims)
                      /\ sims'[s] = "absent" /\ Open(s)' => s = Inserted(sims) + 1
    BY <2>1 DEF OrderInv
  <2>2. sims'[s] # "absent" <=> s <= Inserted(sims)
    BY <1>1 DEF Moved, OrderInv
  <2>3. sims'[s] = "absent" /\ Open(s)' => s = Inserted(sims) + 1
    BY <1>1, OpensInOrder DEF Moved, OrderInv
  <2> QED BY <2>2, <2>3
<1>2. ASSUME NEW s \in Sims, Appended(s) PROVE OrderInv'
  <2>1. Inserted(sims)' = s
    BY <1>0, <1>2, AppendedCounts
  <2> SUFFICES ASSUME NEW x \in Sims
               PROVE  /\ sims'[x] # "absent" <=> x <= s
                      /\ ~(sims'[x] = "absent" /\ Open(x)')
    BY <2>1 DEF OrderInv
  <2>2. sims'[x] # "absent" <=> x <= s
    BY <1>0, <1>2, TotalAssumption DEF Appended, OrderInv, Sims
  <2>3. sims[s] = "absent" /\ sims'[s] # "absent"
    BY <1>0, <1>2, TotalAssumption DEF Appended, OrderInv, Sims
  <2>4. ASSUME sims'[x] = "absent", Open(x)' PROVE FALSE
    <3>1. sims[x] = "absent" /\ x # s
      BY <1>2, <2>3, <2>4 DEF Appended
    <3>2. CASE Open(x)
      BY <1>2, <3>1, <3>2 DEF Appended, OrderInv
    <3>3. CASE ~Open(x)
      BY <2>3, <2>4, <3>1, <3>3, OpensInOrder
    <3> QED BY <3>2, <3>3
  <2> QED BY <2>2, <2>4
<1> QED BY <1>1, <1>2, StepEffect

\* A new batch has no rows.
LEMMA OrderInit == Init => OrderInv
<1> SUFFICES ASSUME Init PROVE OrderInv
  OBVIOUS
<1>1. {s \in Sims : sims[s] \in RowState \ {"absent"}} = {}
  BY DEF Init
<1>2. Inserted(sims) = 0
  BY <1>1, FS_EmptySet DEF Inserted, Count
<1> QED BY <1>2, TotalAssumption DEF OrderInv, Init, Open, Sims

\* The rows of a batch exist in the order of its variants, whatever fails.
THEOREM RowsAreInOrder == Spec => []OrderInv
BY OrderInit, OrderStep, RollupInvariance, PTL DEF Spec

\* A batch row that says done speaks of a complete batch.
LEMMA DoneIsComplete == IInv /\ OrderInv /\ IsDone => Reader!Complete
<1> SUFFICES ASSUME IInv, OrderInv, IsDone PROVE Reader!Complete
  OBVIOUS
<1>1. Settled(sims)
  BY DEF IInv, Lags, IsDone
<1>2. RowsSettled = 1..N
  BY <1>1 DEF Settled, RowsSettled, Sims
<1>3. N <= RowsThere
  BY <1>1, TotalAssumption DEF Settled, OrderInv, RowsThere, Sims, Terminal
<1>4. RowsThere \in 0..N
  BY CountRange DEF RowsThere, Inserted
<1> QED BY <1>2, <1>3, <1>4, TotalAssumption DEF Reader!Complete

\* What a step of the rollup is to a reader.
LEMMA ReaderSees ==
  ASSUME IInv, OrderInv, [Next]_vars, IInv', OrderInv'
  PROVE  /\ RowsThere \in 0..N /\ RowsSettled \subseteq 1..RowsThere
         /\ \/ /\ RowsThere < N /\ RowsThere' = RowsThere + 1
               /\ RowsSettled' \in {RowsSettled, RowsSettled \cup {RowsThere + 1}}
            \/ /\ RowsThere' = RowsThere
               /\ RowsSettled \subseteq RowsSettled' /\ RowsSettled' \subseteq 1..RowsThere
<1>0. sims \in Views /\ RowsThere \in 0..N
  BY CountRange DEF IInv, TypeOK, RowsThere, Inserted
<1>1. RowsSettled \subseteq 1..RowsThere
  BY <1>0, TotalAssumption DEF OrderInv, RowsThere, RowsSettled, Sims, Terminal
<1>2. RowsSettled' \subseteq 1..RowsThere'
  BY <1>0, TotalAssumption DEF OrderInv, RowsThere, RowsSettled, Sims, Terminal
<1>3. ASSUME NEW s \in Sims, Appended(s)
      PROVE  /\ RowsThere < N /\ RowsThere' = RowsThere + 1
             /\ RowsSettled' \in {RowsSettled, RowsSettled \cup {RowsThere + 1}}
  <2>1. RowsThere' = s /\ s = RowsThere + 1
    BY <1>0, <1>3, AppendedCounts DEF RowsThere, Appended
  <2>2. sims[s] = "absent"
    BY <1>0, <2>1, TotalAssumption DEF OrderInv, RowsThere, Sims
  <2>3. RowsSettled' = IF sims'[s] \in Terminal THEN RowsSettled \cup {s} ELSE RowsSettled
    BY <1>3, <2>2 DEF RowsSettled, Appended, Terminal
  <2>4. RowsThere < N
    BY <1>0, <2>1, TotalAssumption DEF Sims
  <2> QED BY <2>1, <2>3, <2>4
<1>4. CASE Moved
  <2>1. RowsThere' = RowsThere
    BY <1>0, <1>4, MovedCounts DEF RowsThere
  <2>2. RowsSettled \subseteq RowsSettled'
    BY <1>4 DEF Moved, RowsSettled
  <2> QED BY <1>0, <1>1, <1>2, <2>1, <2>2
<1> QED BY <1>0, <1>1, <1>3, <1>4, StepEffect

\* Whichever transaction writes it and however old its snapshot, a reader sees a
\* batch of BatchRows: the rollup, the sweep, the resync and the migrations
\* implement what the pages of a batch rely on.
THEOREM RollupRefinesRows == Spec => ImplementsBatchRows
<1>1. Init => Reader!BatchInit
  <2> SUFFICES ASSUME Init PROVE Reader!BatchInit
    OBVIOUS
  <2>1. {s \in Sims : sims[s] \in RowState \ {"absent"}} = {}
    BY DEF Init
  <2>2. RowsThere = 0
    BY <2>1, FS_EmptySet DEF RowsThere, Inserted, Count
  <2>3. RowsSettled = {} /\ ~IsDone
    BY DEF Init, RowsSettled, IsDone, Terminal, NewBatch
  <2> QED BY <2>2, <2>3 DEF Reader!BatchInit, IsDone
<1>2. IInv' /\ OrderInv' /\ IsDone' => Reader!Complete'
  BY DoneIsComplete, PTL
<1>3. ASSUME IInv, OrderInv, [Next]_vars, IInv', OrderInv'
      PROVE  [Reader!BatchNext]_(Reader!batchVars)
  <2>1. IsDone => IsDone'
    BY <1>3, DoneStays DEF IsDone
  <2>2. IsDone' => Reader!Complete'
    BY <1>2, <1>3
  <2>3. IsDone \in BOOLEAN /\ IsDone' \in BOOLEAN
    BY DEF IsDone
  <2>4. Reader!sync_batch_counts
    BY <2>1, <2>2, <2>3, Zenon DEF Reader!sync_batch_counts
  <2>5. CASE /\ RowsThere < N /\ RowsThere' = RowsThere + 1
             /\ RowsSettled' \in {RowsSettled, RowsSettled \cup {RowsThere + 1}}
    BY <2>4, <2>5 DEF Reader!BatchNext, Reader!InsertSimulation
  <2>6. CASE /\ RowsThere' = RowsThere /\ RowsSettled' # RowsSettled
             /\ RowsSettled \subseteq RowsSettled' /\ RowsSettled' \subseteq 1..RowsThere
    <3> DEFINE S == RowsSettled' \ RowsSettled
    <3>1. S \in SUBSET ((1..RowsThere) \ RowsSettled) /\ S # {} /\ RowsSettled' = RowsSettled \cup S
      BY <2>6
    <3> HIDE DEF S
    <3>2. Reader!Settle
      BY <2>4, <2>6, <3>1 DEF Reader!Settle
    <3> QED BY <3>2 DEF Reader!BatchNext
  <2>7. CASE RowsThere' = RowsThere /\ RowsSettled' = RowsSettled
    <3>1. CASE IsDone' = IsDone
      BY <2>7, <3>1 DEF Reader!batchVars
    <3>2. CASE IsDone' /\ ~IsDone
      <4>1. Reader!Complete
        BY <2>2, <2>7, <3>2 DEF Reader!Complete
      <4>2. Reader!ResyncStuckBatches
        BY <2>3, <2>7, <3>2, <4>1 DEF Reader!ResyncStuckBatches
      <4> QED BY <4>2 DEF Reader!BatchNext
    <3> QED BY <2>1, <2>3, <3>1, <3>2, Zenon
  <2> QED BY <1>3, <2>5, <2>6, <2>7, ReaderSees
<1> QED
  BY <1>1, <1>3, RollupInvariance, RowsAreInOrder, PTL
     DEF Spec, ImplementsBatchRows, Reader!BatchSpec
=============================================================================
