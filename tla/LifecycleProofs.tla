--------------------------- MODULE LifecycleProofs --------------------------
(* Machine-checked safety of module Lifecycle, for every set of rows, users *)
(* and Runners, every cap and every max_attempts.                           *)
EXTENDS Lifecycle, FiniteSetTheorems, TLAPS

\* Every step keeps every variable within its type.
LEMMA TypeStep == TypeOK /\ [Next]_vars => TypeOK'
<1> SUFFICES ASSUME TypeOK, [Next]_vars PROVE TypeOK'
  OBVIOUS
<1> USE DEF TypeOK, RowState, PC, rowVars, runnerVars
<1>1. ASSUME NEW s \in Sims, InsertSimulation(s) \/ LeaseExpires(s) PROVE TypeOK'
  BY <1>1 DEF InsertSimulation, LeaseExpires
<1>2. ASSUME NEW r \in Runners, Claim(r) PROVE TypeOK'
  <2>1. CASE ClaimBegin(r)
    BY <2>1 DEF ClaimBegin, Pickable, eligible_simulations
  <2>2. CASE ClaimCommit(r)
    BY <2>2 DEF ClaimCommit, ClaimRow
  <2>3. CASE ClaimNothing(r) \/ ClaimRollback(r)
    BY <2>3 DEF ClaimNothing, ClaimRollback
  <2>4. CASE ClaimReplyLost(r)
    BY <2>4 DEF ClaimReplyLost, ClaimRow
  <2> QED BY <1>2, <2>1, <2>2, <2>3, <2>4 DEF Claim
<1>3. ASSUME NEW r \in Runners, Work(r) PROVE TypeOK'
  <2>1. CASE StartWork(r) \/ WorkRaises(r) \/ StopHeartbeat(r)
    BY <2>1 DEF StartWork, WorkRaises, StopHeartbeat
  <2>2. CASE Finish(r)
    <3>1. PICK t \in Terminal : FinishRow(r, cur[r], t)
      BY <2>2 DEF Finish
    <3>2. PICK next \in {"stopping", "handler"} : pc' = [pc EXCEPT ![r] = next]
      BY <2>2 DEF Finish
    <3>3. /\ state' \in [Sims -> RowState] /\ req' = req /\ runner_id' = runner_id
          /\ lease' \in [Sims -> {"null", "live", "expired"}] /\ attempts' = attempts
      BY <3>1 DEF FinishRow, Terminal
    <3>4. pc' \in [Runners -> PC] /\ lock' = lock /\ cur' = cur /\ att' = att /\ hb' = hb
      BY <2>2, <3>2 DEF Finish
    <3> QED BY <3>3, <3>4
  <2>3. CASE HandleFailure(r)
    BY <2>3 DEF HandleFailure, FinishRow
  <2> QED BY <1>3, <2>1, <2>2, <2>3 DEF Work
<1>4. ASSUME NEW r \in Runners, renew_lease(r) PROVE TypeOK'
  <2>1. PICK s \in hb[r] :
          /\ lease' = IF Fenced(s, r) THEN [lease EXCEPT ![s] = "live"] ELSE lease
          /\ hb' = IF Attending(r, s) THEN hb ELSE [hb EXCEPT ![r] = @ \ {s}]
    BY <1>4 DEF renew_lease
  <2>2. lease' \in [Sims -> {"null", "live", "expired"}]
    BY <2>1
  <2>3. hb' \in [Runners -> SUBSET (Sims \cup {None})]
    BY <2>1
  <2>4. QED
    BY <1>4, <2>2, <2>3 DEF renew_lease
<1>5. ASSUME NEW r \in Runners, Die(r) \/ Restart(r) PROVE TypeOK'
  BY <1>5 DEF Die, Restart
<1>6. CASE reap_expired_leases
  BY <1>6 DEF reap_expired_leases
<1>7. CASE UNCHANGED vars
  BY <1>7 DEF vars
<1> QED
  BY <1>1, <1>2, <1>3, <1>4, <1>5, <1>6, <1>7 DEF Next

\* Type correctness: no interleaving of claims, finishes, heartbeats, reaps
\* and crashes leaves a column or a Runner in a state the code does not know.
THEOREM TypeCorrect == Spec => []TypeOK
<1>1. Init => TypeOK
  BY NoneAssumption, AttemptsAssumption DEF Init, TypeOK, RowState, PC
<1> QED
  BY <1>1, TypeStep, PTL DEF Spec

-----------------------------------------------------------------------------
(* Counting a user's running rows. *)

\* The count the cap compares is a natural number, before and after a step.
LEMMA RunningFinite ==
  ASSUME NEW u
  PROVE  /\ IsFiniteSet(RunningOf(u))  /\ Cardinality(RunningOf(u)) \in Nat
         /\ IsFiniteSet(RunningOf(u)') /\ Cardinality(RunningOf(u)') \in Nat
<1>1. RunningOf(u) \in SUBSET Sims /\ RunningOf(u)' \in SUBSET Sims
  BY DEF RunningOf
<1> QED
  BY <1>1, SimsAssumption, FS_Subset, FS_CardinalityType

\* A step that starts no row of u leaves u with no more rows running.
LEMMA RunningShrinks ==
  ASSUME NEW u,
         \A s \in Sims : state'[s] = "running" /\ req'[s].user = u
                        => state[s] = "running" /\ req[s].user = u
  PROVE  /\ RunningOf(u)' \subseteq RunningOf(u)
         /\ Cardinality(RunningOf(u)') <= Cardinality(RunningOf(u))
<1>1. RunningOf(u)' \subseteq RunningOf(u)
  BY DEF RunningOf
<1> QED
  BY <1>1, RunningFinite, FS_Subset

\* Starting one row adds exactly one.
LEMMA RunningGrows ==
  ASSUME NEW x \in Sims, NEW r, TypeOK, ClaimRow(r, x), state[x] # "running"
  PROVE  \A u : Cardinality(RunningOf(u)') =
                 IF req[x].user = u THEN Cardinality(RunningOf(u)) + 1
                                    ELSE Cardinality(RunningOf(u))
<1> TAKE u
<1>1. req' = req /\ \A s \in Sims : state'[s] = IF s = x THEN "running" ELSE state[s]
  BY DEF TypeOK, ClaimRow
<1>2. RunningOf(u)' = IF req[x].user = u THEN RunningOf(u) \cup {x} ELSE RunningOf(u)
  BY <1>1 DEF RunningOf
<1>3. x \notin RunningOf(u)
  BY DEF RunningOf
<1> QED
  BY <1>2, <1>3, RunningFinite, FS_AddElement

-----------------------------------------------------------------------------
(* What a step can do to the rows. *)

\* A claim's row update takes effect: at COMMIT, whether or not the reply is lost.
Claimed(r) ==
  /\ pc[r] = "txn" /\ cur[r] \in Sims
  /\ ClaimRow(r, cur[r])
  /\ lock' = None /\ pc' \in [Runners -> PC] /\ hb' = hb
  /\ \A z \in Runners : z # r => pc'[z] = pc[z] /\ cur'[z] = cur[z] /\ att'[z] = att[z]
  /\ \/ pc'[r] = "idle"
     \/ pc'[r] = "claimed" /\ cur'[r] = cur[r] /\ att'[r] = attempts[cur[r]] + 1

\* A Runner's call of finish_simulation reaches the database.
Finished(r) ==
  /\ pc[r] \in {"working", "handler"}
  /\ \E t \in Terminal : FinishRow(r, cur[r], t)
  /\ pc' \in [Runners -> PC] /\ pc'[r] \in {"handler", "stopping"} /\ pc'[r] # pc[r]
  /\ \A z \in Runners : z # r => pc'[z] = pc[z]
  /\ UNCHANGED <<lock, cur, att, hb>>

\* No column but the lease changes, and only a running row's lease.
RowsKept ==
  /\ UNCHANGED <<state, req, runner_id, attempts>>
  /\ \A s \in Sims : \/ lease'[s] = lease[s]
                     \/ state[s] = "running" /\ lease'[s] # "null"

\* Every step inserts, claims, finishes, reaps, or leaves the rows alone.
LEMMA StepEffect ==
  ASSUME TypeOK, RowInv, [Next]_vars
  PROVE  \/ RowsKept
         \/ \E s \in Sims : InsertSimulation(s)
         \/ \E r \in Runners : Claimed(r)
         \/ \E r \in Runners : Finished(r)
         \/ reap_expired_leases
<1>1. ASSUME NEW s \in Sims, LeaseExpires(s) PROVE RowsKept
  BY <1>1 DEF LeaseExpires, RowsKept, RowInv, TypeOK
<1>2. ASSUME NEW r \in Runners, ClaimCommit(r) PROVE Claimed(r)
  BY <1>2 DEF ClaimCommit, Claimed, TypeOK, PC
<1>3. ASSUME NEW r \in Runners, ClaimReplyLost(r) PROVE Claimed(r)
  BY <1>3 DEF ClaimReplyLost, Claimed, TypeOK, PC
<1>4. ASSUME NEW r \in Runners, ClaimBegin(r) \/ ClaimNothing(r) \/ ClaimRollback(r)
      PROVE  RowsKept
  BY <1>4 DEF ClaimBegin, ClaimNothing, ClaimRollback, RowsKept, rowVars
<1>5. ASSUME NEW r \in Runners, Finish(r) PROVE Finished(r)
  <2>1. PICK next \in {"stopping", "handler"} : pc' = [pc EXCEPT ![r] = next]
    BY <1>5 DEF Finish
  <2>2. /\ pc' \in [Runners -> PC] /\ pc'[r] \in {"handler", "stopping"} /\ pc'[r] # pc[r]
        /\ \A z \in Runners : z # r => pc'[z] = pc[z]
    BY <1>5, <2>1 DEF Finish, TypeOK, PC
  <2> QED BY <1>5, <2>2 DEF Finish, Finished
<1>6. ASSUME NEW r \in Runners, HandleFailure(r) PROVE Finished(r) \/ RowsKept
  <2>1. /\ pc' \in [Runners -> PC] /\ pc'[r] = "stopping" /\ pc[r] = "handler"
        /\ \A z \in Runners : z # r => pc'[z] = pc[z]
    BY <1>6 DEF HandleFailure, TypeOK, PC
  <2>2. CASE FinishRow(r, cur[r], "failed")
    BY <1>6, <2>1, <2>2 DEF HandleFailure, Finished, Terminal
  <2>3. CASE UNCHANGED rowVars
    BY <2>3 DEF RowsKept, rowVars
  <2> QED BY <1>6, <2>2, <2>3 DEF HandleFailure
<1>7. ASSUME NEW r \in Runners, StartWork(r) \/ WorkRaises(r) \/ StopHeartbeat(r)
      PROVE  RowsKept
  BY <1>7 DEF StartWork, WorkRaises, StopHeartbeat, RowsKept, rowVars
<1>8. ASSUME NEW r \in Runners, renew_lease(r) PROVE RowsKept
  BY <1>8 DEF renew_lease, RowsKept, Fenced, TypeOK
<1>9. ASSUME NEW r \in Runners, Die(r) \/ Restart(r) PROVE RowsKept
  BY <1>9 DEF Die, Restart, RowsKept, rowVars
<1>10. CASE UNCHANGED vars
  BY <1>10 DEF vars, rowVars, RowsKept
<1> QED
  BY <1>1, <1>2, <1>3, <1>4, <1>5, <1>6, <1>7, <1>8, <1>9, <1>10 DEF Next, Claim, Work
-----------------------------------------------------------------------------
(* The conjuncts of the inductive invariant, one lemma each. *)

\* The advisory lock serialises claims: entering and leaving a claim
\* transaction are taking and releasing the lock.
LEMMA LockStep == TypeOK /\ LockInv /\ [Next]_vars => LockInv'
<1> SUFFICES ASSUME TypeOK, LockInv, [Next]_vars, NEW r \in Runners
             PROVE  pc'[r] = "txn" <=> lock' = r
  BY DEF LockInv
<1> USE NoneAssumption DEF TypeOK, LockInv, PC
<1>1. ASSUME NEW s \in Sims, InsertSimulation(s) \/ LeaseExpires(s)
      PROVE  pc'[r] = "txn" <=> lock' = r
  BY <1>1 DEF InsertSimulation, LeaseExpires, runnerVars
<1>2. ASSUME NEW z \in Runners, Claim(z) PROVE pc'[r] = "txn" <=> lock' = r
  BY <1>2 DEF Claim, ClaimBegin, ClaimCommit, ClaimNothing, ClaimRollback, ClaimReplyLost
<1>3. ASSUME NEW z \in Runners, Work(z) PROVE pc'[r] = "txn" <=> lock' = r
  <2>1. lock' = lock
    BY <1>3 DEF Work, StartWork, Finish, WorkRaises, HandleFailure, StopHeartbeat
  <2>2. pc[z] # "txn" /\ pc'[z] # "txn" /\ (r # z => pc'[r] = pc[r])
    BY <1>3 DEF Work, StartWork, Finish, WorkRaises, HandleFailure, StopHeartbeat
  <2> QED BY <2>1, <2>2
<1>4. ASSUME NEW z \in Runners, renew_lease(z) \/ Die(z) \/ Restart(z)
      PROVE  pc'[r] = "txn" <=> lock' = r
  BY <1>4 DEF renew_lease, Die, Restart
<1>5. CASE reap_expired_leases
  BY <1>5 DEF reap_expired_leases, runnerVars
<1>6. CASE UNCHANGED vars
  BY <1>6 DEF vars, runnerVars
<1> QED
  BY <1>1, <1>2, <1>3, <1>4, <1>5, <1>6 DEF Next

\* Rows keep their request, and a running row its owner and its lease.
LEMMA RowStep ==
  ASSUME TypeOK, RowInv, PickInv, [Next]_vars
  PROVE  RowInv'
<1> SUFFICES ASSUME NEW s \in Sims
             PROVE  /\ state'[s] = "absent" => attempts'[s] = 0
                    /\ state'[s] # "absent" => req'[s] \in Request
                    /\ state'[s] = "running" => runner_id'[s] # None /\ lease'[s] # "null"
                    /\ lease'[s] = "live" => state'[s] = "running"
  BY DEF RowInv
<1> USE NoneAssumption DEF TypeOK, RowInv
<1>1. CASE RowsKept
  BY <1>1 DEF RowsKept
<1>2. ASSUME NEW x \in Sims, InsertSimulation(x)
      PROVE  /\ state'[s] = "absent" => attempts'[s] = 0
             /\ state'[s] # "absent" => req'[s] \in Request
             /\ state'[s] = "running" => runner_id'[s] # None /\ lease'[s] # "null"
             /\ lease'[s] = "live" => state'[s] = "running"
  BY <1>2 DEF InsertSimulation
<1>3. ASSUME NEW r \in Runners, Claimed(r)
      PROVE  /\ state'[s] = "absent" => attempts'[s] = 0
             /\ state'[s] # "absent" => req'[s] \in Request
             /\ state'[s] = "running" => runner_id'[s] # None /\ lease'[s] # "null"
             /\ lease'[s] = "live" => state'[s] = "running"
  <2>1. cur[r] # None /\ state[cur[r]] = "queued"
    BY <1>3 DEF Claimed, PickInv
  <2> QED BY <1>3, <2>1 DEF Claimed, ClaimRow
<1>4. ASSUME NEW r \in Runners, Finished(r)
      PROVE  /\ state'[s] = "absent" => attempts'[s] = 0
             /\ state'[s] # "absent" => req'[s] \in Request
             /\ state'[s] = "running" => runner_id'[s] # None /\ lease'[s] # "null"
             /\ lease'[s] = "live" => state'[s] = "running"
  BY <1>4 DEF Finished, FinishRow, Fenced, Terminal
<1>5. CASE reap_expired_leases
  BY <1>5 DEF reap_expired_leases, Expired
<1> QED
  BY <1>1, <1>2, <1>3, <1>4, <1>5, StepEffect
\* The runner_id fence works as an epoch fence: the Runner whose id is on a
\* row and who is in possession of it made the row's newest attempt.
LEMMA EpochStep ==
  ASSUME TypeOK, RowInv, PickInv, EpochInv, [Next]_vars
  PROVE  EpochInv'
<1> SUFFICES ASSUME NEW r \in Runners, pc'[r] \in {"claimed", "working", "handler"}
             PROVE  /\ cur'[r] # None
                    /\ Fenced(cur[r], r)' => att'[r] = attempts'[cur'[r]]
  BY DEF EpochInv, Fenced
<1> DEFINE Goal == /\ cur'[r] # None
                   /\ Fenced(cur[r], r)' => att'[r] = attempts'[cur'[r]]
<1> USE NoneAssumption DEF TypeOK, PC
\* Steps after which r possesses what it possessed, on rows that kept their owner.
<1>0. ASSUME pc[r] \in {"claimed", "working", "handler"}, cur'[r] = cur[r], att'[r] = att[r],
             Fenced(cur[r], r)' => Fenced(cur[r], r) /\ attempts'[cur[r]] = attempts[cur[r]]
      PROVE  Goal
  BY <1>0 DEF EpochInv, Fenced
<1>1. ASSUME NEW s \in Sims, InsertSimulation(s) PROVE Goal
  BY <1>0, <1>1 DEF InsertSimulation, Fenced, runnerVars, EpochInv
<1>2. ASSUME NEW s \in Sims, LeaseExpires(s) PROVE Goal
  BY <1>0, <1>2 DEF LeaseExpires, Fenced, runnerVars
<1>3. ASSUME NEW z \in Runners, Claimed(z) PROVE Goal
  <2>1. CASE z = r
    BY <1>3, <2>1 DEF Claimed, ClaimRow, Fenced
  <2>2. CASE z # r
    <3>1. /\ pc[r] \in {"claimed", "working", "handler"}
          /\ cur'[r] = cur[r] /\ att'[r] = att[r]
      BY <1>3, <2>2 DEF Claimed
    <3>2. Fenced(cur[r], r)' => Fenced(cur[r], r) /\ attempts'[cur[r]] = attempts[cur[r]]
      <4>1. cur[r] \in Sims
        BY <3>1 DEF EpochInv
      <4> QED BY <1>3, <2>2, <3>1, <4>1 DEF Claimed, ClaimRow, Fenced
    <3> QED BY <1>0, <3>1, <3>2
  <2> QED BY <2>1, <2>2
<1>4. ASSUME NEW z \in Runners, ClaimBegin(z) \/ ClaimNothing(z) \/ ClaimRollback(z)
      PROVE  Goal
  <2>1. pc[r] \in {"claimed", "working", "handler"} /\ cur'[r] = cur[r] /\ att'[r] = att[r]
    BY <1>4 DEF ClaimBegin, ClaimNothing, ClaimRollback
  <2>2. UNCHANGED rowVars
    BY <1>4 DEF ClaimBegin, ClaimNothing, ClaimRollback
  <2> QED BY <1>0, <2>1, <2>2 DEF Fenced, rowVars
<1>5. ASSUME NEW z \in Runners, Finished(z) PROVE Goal
  <2>1. pc[r] \in {"claimed", "working", "handler"} /\ cur'[r] = cur[r] /\ att'[r] = att[r]
    BY <1>5 DEF Finished
  <2>2. Fenced(cur[r], r)' => Fenced(cur[r], r) /\ attempts'[cur[r]] = attempts[cur[r]]
    <3>1. cur[r] \in Sims /\ runner_id' = runner_id /\ attempts' = attempts
      BY <1>5, <2>1 DEF EpochInv, Finished, FinishRow
    <3>2. \A s \in Sims : state'[s] = "running" => state[s] = "running"
      BY <1>5 DEF Finished, FinishRow, Terminal
    <3> QED BY <2>1, <3>1, <3>2 DEF Fenced
  <2> QED BY <1>0, <2>1, <2>2
<1>6. ASSUME NEW z \in Runners, StartWork(z) \/ WorkRaises(z) \/ StopHeartbeat(z)
      PROVE  Goal
  <2>1. pc[r] \in {"claimed", "working", "handler"} /\ cur'[r] = cur[r] /\ att'[r] = att[r]
    BY <1>6 DEF StartWork, WorkRaises, StopHeartbeat
  <2>2. UNCHANGED rowVars
    BY <1>6 DEF StartWork, WorkRaises, StopHeartbeat
  <2> QED BY <1>0, <2>1, <2>2 DEF Fenced, rowVars
<1>7. ASSUME NEW z \in Runners, HandleFailure(z), UNCHANGED rowVars PROVE Goal
  <2>1. pc[r] \in {"claimed", "working", "handler"} /\ cur'[r] = cur[r] /\ att'[r] = att[r]
    BY <1>7 DEF HandleFailure
  <2> QED BY <1>0, <1>7, <2>1 DEF Fenced, rowVars
<1>8. ASSUME NEW z \in Runners, renew_lease(z) PROVE Goal
  BY <1>0, <1>8 DEF renew_lease, Fenced
<1>9. ASSUME NEW z \in Runners, Die(z) \/ Restart(z) PROVE Goal
  <2>1. pc[r] \in {"claimed", "working", "handler"} /\ cur'[r] = cur[r] /\ att'[r] = att[r]
    BY <1>9 DEF Die, Restart
  <2>2. UNCHANGED rowVars
    BY <1>9 DEF Die, Restart
  <2> QED BY <1>0, <2>1, <2>2 DEF Fenced, rowVars
<1>10. CASE reap_expired_leases
  <2>1. pc[r] \in {"claimed", "working", "handler"} /\ cur'[r] = cur[r] /\ att'[r] = att[r]
    BY <1>10 DEF reap_expired_leases, runnerVars
  <2>2. cur[r] \in Sims
    BY <2>1 DEF EpochInv
  <2>3. Fenced(cur[r], r)' => Fenced(cur[r], r) /\ attempts'[cur[r]] = attempts[cur[r]]
    BY <1>10, <2>1, <2>2 DEF reap_expired_leases, Fenced
  <2> QED BY <1>0, <2>1, <2>3
<1>11. CASE UNCHANGED vars
  BY <1>0, <1>11 DEF vars, rowVars, runnerVars, Fenced
<1>12. ASSUME NEW z \in Runners, ClaimCommit(z) \/ ClaimReplyLost(z) PROVE Claimed(z)
  BY <1>12 DEF ClaimCommit, ClaimReplyLost, Claimed
<1>13. ASSUME NEW z \in Runners, Finish(z) PROVE Finished(z)
  <2>1. PICK next \in {"stopping", "handler"} : pc' = [pc EXCEPT ![z] = next]
    BY <1>13 DEF Finish
  <2> QED BY <1>13, <2>1 DEF Finish, Finished
<1>14. ASSUME NEW z \in Runners, HandleFailure(z) PROVE Finished(z) \/ UNCHANGED rowVars
  BY <1>14 DEF HandleFailure, Finished, Terminal
<1> QED
  BY <1>1, <1>2, <1>3, <1>4, <1>5, <1>6, <1>7, <1>8, <1>9, <1>10, <1>11, <1>12, <1>13, <1>14
     DEF Next, Claim, Work
\* Steps other than the COMMIT of a claim start no row.
LEMMA OthersShrink ==
  ASSUME TypeOK, RowInv, [Next]_vars, \A r \in Runners : ~Claimed(r)
  PROVE  \A s \in Sims :
           /\ state'[s] = "running" => state[s] = "running" /\ req'[s] = req[s]
           /\ state[s] = "queued" => state'[s] = "queued" /\ req'[s] = req[s]
<1> SUFFICES ASSUME NEW s \in Sims
             PROVE  /\ state'[s] = "running" => state[s] = "running" /\ req'[s] = req[s]
                    /\ state[s] = "queued" => state'[s] = "queued" /\ req'[s] = req[s]
  OBVIOUS
<1> USE DEF TypeOK
<1>1. CASE RowsKept
  BY <1>1 DEF RowsKept
<1>2. CASE \E x \in Sims : InsertSimulation(x)
  BY <1>2 DEF InsertSimulation
<1>3. CASE \E r \in Runners : Finished(r)
  BY <1>3 DEF Finished, FinishRow, Fenced, Terminal
<1>4. CASE reap_expired_leases
  BY <1>4 DEF reap_expired_leases, Expired
<1> QED BY <1>1, <1>2, <1>3, <1>4, StepEffect

\* A claim is open after a step if it began in it or was open and kept its row.
LEMMA OpenClaim ==
  ASSUME TypeOK, [Next]_vars, NEW r \in Runners, pc'[r] = "txn"
  PROVE  ClaimBegin(r) \/ (pc[r] = "txn" /\ cur'[r] = cur[r])
<1> USE DEF TypeOK, PC
<1>1. ASSUME NEW s \in Sims, InsertSimulation(s) \/ LeaseExpires(s)
      PROVE  pc[r] = "txn" /\ cur'[r] = cur[r]
  BY <1>1 DEF InsertSimulation, LeaseExpires, runnerVars
<1>2. ASSUME NEW z \in Runners, Claim(z)
      PROVE  ClaimBegin(r) \/ (pc[r] = "txn" /\ cur'[r] = cur[r])
  BY <1>2 DEF Claim, ClaimBegin, ClaimCommit, ClaimNothing, ClaimRollback, ClaimReplyLost
<1>3. ASSUME NEW z \in Runners, Work(z) PROVE pc[r] = "txn" /\ cur'[r] = cur[r]
  BY <1>3 DEF Work, StartWork, Finish, WorkRaises, HandleFailure, StopHeartbeat
<1>4. ASSUME NEW z \in Runners, renew_lease(z) \/ Die(z) \/ Restart(z)
      PROVE  pc[r] = "txn" /\ cur'[r] = cur[r]
  BY <1>4 DEF renew_lease, Die, Restart
<1>5. CASE reap_expired_leases
  BY <1>5 DEF reap_expired_leases, runnerVars
<1>6. CASE UNCHANGED vars
  BY <1>6 DEF vars, runnerVars
<1> QED BY <1>1, <1>2, <1>3, <1>4, <1>5, <1>6 DEF Next

\* The row an open claim picked stays queued and its user stays below the cap,
\* because only the lock holder starts rows.
LEMMA PickStep ==
  ASSUME TypeOK, LockInv, RowInv, PickInv, [Next]_vars
  PROVE  PickInv'
<1> SUFFICES ASSUME NEW r \in Runners, pc'[r] = "txn", cur'[r] # None
             PROVE  /\ state'[cur'[r]] = "queued"
                    /\ Cardinality(RunningOf(req[cur[r]].user)') < UserCap[r]
  BY DEF PickInv, RunningOf
<1>1. UserCap[r] \in Nat
  BY RunnerAssumption
<1>2. CASE ClaimBegin(r)
  <2>1. UNCHANGED rowVars
    BY <1>2 DEF ClaimBegin
  <2>2. cur'[r] \in eligible_simulations(Version[r], UserCap[r])
    BY <1>2 DEF ClaimBegin, Pickable, TypeOK
  <2>3. state[cur'[r]] = "queued" /\ Cardinality(RunningOf(req[cur'[r]].user)) < UserCap[r]
    BY <2>2 DEF eligible_simulations
  <2>4. RunningOf(req[cur[r]].user)' = RunningOf(req[cur'[r]].user)
    BY <2>1 DEF RunningOf, rowVars
  <2> QED BY <2>1, <2>3, <2>4 DEF rowVars
<1>3. CASE pc[r] = "txn" /\ cur'[r] = cur[r]
  <2> DEFINE x == cur[r]
  <2>1. x \in Sims /\ state[x] = "queued" /\ Cardinality(RunningOf(req[x].user)) < UserCap[r]
    BY <1>3 DEF PickInv, TypeOK
  <2>2. \A z \in Runners : ~Claimed(z)
    BY <1>3, NoneAssumption DEF LockInv, Claimed
  <2>3. \A s \in Sims : /\ state'[s] = "running" => state[s] = "running" /\ req'[s] = req[s]
                        /\ state[s] = "queued" => state'[s] = "queued" /\ req'[s] = req[s]
    BY <2>2, OthersShrink
  <2>4. state'[x] = "queued" /\ req'[x] = req[x]
    BY <2>1, <2>3
  <2>5. RunningOf(req[cur[r]].user)' \in SUBSET RunningOf(req[x].user)
    BY <1>3, <2>3, <2>4 DEF RunningOf
  <2>6. /\ Cardinality(RunningOf(req[x].user)) \in Nat
        /\ Cardinality(RunningOf(req[cur[r]].user)') \in Nat
        /\ Cardinality(RunningOf(req[cur[r]].user)') <= Cardinality(RunningOf(req[x].user))
    <3>1. IsFiniteSet(RunningOf(req[x].user))
      BY RunningFinite
    <3> QED BY <2>5, <3>1, FS_Subset, FS_CardinalityType
  <2> HIDE DEF x
  <2>7. Cardinality(RunningOf(req[cur[r]].user)') < UserCap[r]
    BY <1>1, <2>1, <2>6
  <2> QED BY <1>3, <2>4, <2>7 DEF x
<1> QED BY <1>2, <1>3, OpenClaim
\* H-2: the COMMIT of a claim adds one row to a count that is still below the
\* claimer's cap; every other step leaves each user with no more rows running.
LEMMA CapStep ==
  ASSUME TypeOK, LockInv, RowInv, PickInv, UserCapHolds, [Next]_vars
  PROVE  UserCapHolds'
<1> SUFFICES ASSUME NEW u \in Users, RunningOf(u)' # {}
             PROVE  \E r \in Runners : Cardinality(RunningOf(u)') <= UserCap[r]
  BY DEF UserCapHolds
<1>0. /\ Cardinality(RunningOf(u)) \in Nat /\ Cardinality(RunningOf(u)') \in Nat
      /\ \A r \in Runners : UserCap[r] \in Nat
  BY RunningFinite, RunnerAssumption
<1>1. CASE \A r \in Runners : ~Claimed(r)
  <2>1. /\ RunningOf(u)' \subseteq RunningOf(u)
        /\ Cardinality(RunningOf(u)') <= Cardinality(RunningOf(u))
    BY <1>1, OthersShrink, RunningShrinks
  <2>2. PICK r \in Runners : Cardinality(RunningOf(u)) <= UserCap[r]
    BY <2>1 DEF UserCapHolds
  <2> QED BY <1>0, <2>1, <2>2
<1>2. ASSUME NEW r \in Runners, Claimed(r)
      PROVE  \E z \in Runners : Cardinality(RunningOf(u)') <= UserCap[z]
  <2>1. /\ cur[r] \in Sims /\ state[cur[r]] = "queued" /\ ClaimRow(r, cur[r])
        /\ Cardinality(RunningOf(req[cur[r]].user)) < UserCap[r]
    BY <1>2, NoneAssumption DEF Claimed, PickInv
  <2>2. Cardinality(RunningOf(u)') = IF req[cur[r]].user = u
                                     THEN Cardinality(RunningOf(u)) + 1
                                     ELSE Cardinality(RunningOf(u))
    BY <2>1, RunningGrows
  <2>3. CASE req[cur[r]].user = u
    BY <1>0, <2>1, <2>2, <2>3
  <2>4. CASE req[cur[r]].user # u
    <3>1. RunningOf(u) # {}
      BY <2>1, <2>4 DEF RunningOf, ClaimRow, TypeOK
    <3> QED BY <2>2, <2>4, <3>1 DEF UserCapHolds
  <2> QED BY <2>3, <2>4
<1> QED BY <1>1, <1>2

\* The Reaper's attempts test is what bounds the attempts of a claim.
LEMMA AttemptsStep ==
  ASSUME TypeOK, RowInv, PickInv, AttemptsBounded, [Next]_vars
  PROVE  AttemptsBounded'
<1> SUFFICES ASSUME NEW s \in Sims
             PROVE  /\ attempts'[s] <= MaxAttempts
                    /\ state'[s] = "queued" => attempts'[s] < MaxAttempts
  BY DEF AttemptsBounded
<1> USE AttemptsAssumption DEF TypeOK, AttemptsBounded
<1>1. CASE RowsKept
  BY <1>1 DEF RowsKept
<1>2. CASE \E x \in Sims : InsertSimulation(x)
  <2>1. PICK x \in Sims : InsertSimulation(x)
    BY <1>2
  <2>2. attempts' = attempts /\ (s # x => state'[s] = state[s])
    BY <2>1 DEF InsertSimulation
  <2>3. state[x] = "absent"
    BY <2>1 DEF InsertSimulation
  <2> QED BY <2>2, <2>3 DEF RowInv
<1>3. ASSUME NEW r \in Runners, Claimed(r)
      PROVE  /\ attempts'[s] <= MaxAttempts
             /\ state'[s] = "queued" => attempts'[s] < MaxAttempts
  <2>1. cur[r] \in Sims /\ state[cur[r]] = "queued"
    BY <1>3, NoneAssumption DEF Claimed, PickInv
  <2> QED BY <1>3, <2>1 DEF Claimed, ClaimRow
<1>4. CASE \E r \in Runners : Finished(r)
  BY <1>4 DEF Finished, FinishRow, Terminal
<1>5. CASE reap_expired_leases
  BY <1>5 DEF reap_expired_leases, Retryable
<1> QED BY <1>1, <1>2, <1>3, <1>4, <1>5, StepEffect
-----------------------------------------------------------------------------
(* The results. *)

\* IInv holds initially and every step of Runners, heartbeats, Reaper, time
\* and the outside world preserves it.
THEOREM Invariance == Spec => []IInv
<1>1. Init => IInv
  <2> SUFFICES ASSUME Init PROVE IInv
    OBVIOUS
  <2>1. TypeOK
    BY NoneAssumption, AttemptsAssumption DEF Init, TypeOK, RowState, PC
  <2>2. LockInv /\ PickInv /\ RowInv /\ EpochInv /\ AttemptsBounded
    BY NoneAssumption, AttemptsAssumption
    DEF Init, LockInv, PickInv, RowInv, EpochInv, AttemptsBounded
  <2>3. UserCapHolds
    BY DEF Init, UserCapHolds, RunningOf
  <2> QED BY <2>1, <2>2, <2>3 DEF IInv
<1>2. IInv /\ [Next]_vars => IInv'
  BY TypeStep, LockStep, RowStep, PickStep, EpochStep, CapStep, AttemptsStep DEF IInv
<1> QED
  BY <1>1, <1>2, PTL DEF Spec

\* H-2: no user ever has more rows running than some pool's cap allows.
THEOREM UserCapIsHard == Spec => []UserCapHolds
<1>1. IInv => UserCapHolds
  BY DEF IInv
<1> QED BY <1>1, Invariance, PTL

\* No row is started more than max_attempts times.
THEOREM AttemptsAreBounded == Spec => []AttemptsBounded
<1>1. IInv => AttemptsBounded
  BY DEF IInv
<1> QED BY <1>1, Invariance, PTL

\* A terminal row never changes again in the columns the lifecycle owns.
THEOREM TerminalFinality == Spec => TerminalIsFinal
<1>1. ASSUME IInv, [Next]_vars, NEW s \in Sims, state[s] \in Terminal
      PROVE  /\ state'[s] = state[s] /\ attempts'[s] = attempts[s]
             /\ runner_id'[s] = runner_id[s] /\ lease'[s] = lease[s]
  <2> USE <1>1 DEF IInv, TypeOK, Terminal
  <2>1. CASE RowsKept
    BY <2>1 DEF RowsKept
  <2>2. CASE \E x \in Sims : InsertSimulation(x)
    BY <2>2 DEF InsertSimulation
  <2>3. ASSUME NEW r \in Runners, Claimed(r)
        PROVE  /\ state'[s] = state[s] /\ attempts'[s] = attempts[s]
               /\ runner_id'[s] = runner_id[s] /\ lease'[s] = lease[s]
    <3>1. cur[r] \in Sims /\ state[cur[r]] = "queued"
      BY <2>3, NoneAssumption DEF Claimed, PickInv
    <3> QED BY <2>3, <3>1 DEF Claimed, ClaimRow
  <2>4. CASE \E r \in Runners : Finished(r)
    BY <2>4 DEF Finished, FinishRow, Fenced
  <2>5. CASE reap_expired_leases
    BY <2>5 DEF reap_expired_leases, Expired
  <2> QED BY <2>1, <2>2, <2>3, <2>4, <2>5, StepEffect
<1>2. IInv /\ [Next]_vars =>
        [\A s \in Sims : state[s] \in Terminal =>
           /\ state'[s] = state[s] /\ attempts'[s] = attempts[s]
           /\ runner_id'[s] = runner_id[s] /\ lease'[s] = lease[s]]_vars
  BY <1>1
<1> QED BY <1>2, Invariance, PTL DEF Spec, TerminalIsFinal

\* M-4: only the current attempt, or the Reaper on an expired lease, settles a
\* running row.
THEOREM CurrentAttemptSettles == Spec => OnlyCurrentAttemptSettles
<1>1. ASSUME IInv, [Next]_vars, NEW s \in Sims,
             state[s] = "running", state'[s] \in Terminal
      PROVE  \/ \E r \in Runners : /\ pc[r] \in {"working", "handler"} /\ pc'[r] # pc[r]
                                   /\ cur[r] = s /\ runner_id[s] = r
                                   /\ att[r] = attempts[s]
             \/ UNCHANGED pc /\ lease[s] = "expired"
  <2> USE <1>1 DEF IInv, TypeOK, Terminal
  <2>1. ~RowsKept
    BY DEF RowsKept
  <2>2. ~ \E x \in Sims : InsertSimulation(x)
    BY DEF InsertSimulation
  <2>3. ASSUME NEW r \in Runners, Claimed(r) PROVE FALSE
    BY <2>3 DEF Claimed, ClaimRow
  <2>4. ASSUME NEW r \in Runners, Finished(r)
        PROVE  /\ pc[r] \in {"working", "handler"} /\ pc'[r] # pc[r]
               /\ cur[r] = s /\ runner_id[s] = r
               /\ att[r] = attempts[s]
    <3>1. cur[r] = s /\ Fenced(s, r)
      BY <2>4 DEF Finished, FinishRow, Fenced
    <3> QED BY <2>4, <3>1 DEF Finished, EpochInv, Fenced
  <2>5. CASE reap_expired_leases
    BY <2>5 DEF reap_expired_leases, Expired, runnerVars
  <2> QED BY <2>1, <2>2, <2>3, <2>4, <2>5, StepEffect
<1>2. IInv /\ [Next]_vars =>
        [\A s \in Sims : (state[s] = "running" /\ state'[s] \in Terminal) =>
           \/ \E r \in Runners : /\ pc[r] \in {"working", "handler"} /\ pc'[r] # pc[r]
                                 /\ cur[r] = s /\ runner_id[s] = r
                                 /\ att[r] = attempts[s]
           \/ UNCHANGED pc /\ lease[s] = "expired"]_vars
  BY <1>1
<1> QED BY <1>2, Invariance, PTL DEF Spec, OnlyCurrentAttemptSettles

\* The COMMIT of a claim is the abstract Start.
LEMMA StartRefines ==
  ASSUME NEW x \in Sims, NEW r \in Runners, ClaimRow(r, x),
         state[x] = "queued", attempts[x] < MaxAttempts,
         Cardinality(RunningOf(req[x].user)) < UserCap[r]
  PROVE  Queue!Start(x)
<1>1. Queue!RunningOf(req[x].user) = RunningOf(req[x].user)
  BY DEF Queue!RunningOf, RunningOf
<1>2. Queue!Cardinality(RunningOf(req[x].user)) = Cardinality(RunningOf(req[x].user))
  BY DEF Cardinality, Queue!Cardinality
<1>3. \E c \in {UserCap[z] : z \in Runners} :
        Queue!Cardinality(Queue!RunningOf(req[x].user)) < c
  BY <1>1, <1>2
<1> QED
  BY <1>3 DEF Queue!Start, ClaimRow

\* The detailed system implements the abstract queue: its two-step claim under
\* the advisory lock is the abstract atomic Start.
THEOREM Refinement == Spec => ImplementsQueue
<1>1. Init => Queue!QueueInit
  BY DEF Init, Queue!QueueInit
<1>2. IInv /\ [Next]_vars => [Queue!QueueNext]_(Queue!queueVars)
  <2> SUFFICES ASSUME IInv, [Next]_vars
               PROVE  Queue!QueueNext \/ UNCHANGED Queue!queueVars
    OBVIOUS
  <2> USE DEF IInv, TypeOK
  <2>1. CASE RowsKept
    BY <2>1 DEF RowsKept, Queue!queueVars
  <2>2. ASSUME NEW s \in Sims, InsertSimulation(s) PROVE Queue!QueueNext
    <3>1. Queue!Insert(s)
      BY <2>2 DEF InsertSimulation, Queue!Insert
    <3> QED BY <3>1 DEF Queue!QueueNext
  <2>3. ASSUME NEW r \in Runners, Claimed(r) PROVE Queue!QueueNext
    <3>1. /\ cur[r] \in Sims /\ state[cur[r]] = "queued" /\ ClaimRow(r, cur[r])
          /\ Cardinality(RunningOf(req[cur[r]].user)) < UserCap[r]
      BY <2>3, NoneAssumption DEF Claimed, PickInv
    <3>2. attempts[cur[r]] < MaxAttempts
      BY <3>1 DEF AttemptsBounded
    <3>3. Queue!Start(cur[r])
      BY <3>1, <3>2, StartRefines
    <3> QED BY <3>1, <3>3 DEF Queue!QueueNext
  <2>4. ASSUME NEW r \in Runners, Finished(r)
        PROVE  Queue!QueueNext \/ UNCHANGED Queue!queueVars
    <3>1. CASE cur[r] \in Sims /\ Fenced(cur[r], r)
      <4>1. Queue!Settle(cur[r])
        BY <2>4, <3>1 DEF Finished, FinishRow, Fenced, Queue!Settle, Terminal, Queue!Terminal
      <4> QED BY <3>1, <4>1 DEF Queue!QueueNext
    <3>2. CASE ~Fenced(cur[r], r)
      BY <2>4, <3>2 DEF Finished, FinishRow, Queue!queueVars
    <3> QED BY <2>4, <3>1, <3>2 DEF Finished, EpochInv
  <2>5. CASE reap_expired_leases
    <3> DEFINE S == {s \in Sims : Expired(s)}
    <3>1. Queue!GiveUp(S)
      <4>1. state' = [s \in Sims |->
                        IF s \notin S THEN state[s]
                        ELSE IF attempts[s] < MaxAttempts THEN "queued" ELSE "failed"]
        BY <2>5 DEF reap_expired_leases, Retryable
      <4>2. UNCHANGED <<attempts, req>> /\ \A s \in S : state[s] = "running"
        BY <2>5 DEF reap_expired_leases, Expired
      <4> HIDE DEF S
      <4> QED BY <4>1, <4>2 DEF Queue!GiveUp
    <3>2. S \in SUBSET Sims
      OBVIOUS
    <3> HIDE DEF S
    <3> QED BY <3>1, <3>2 DEF Queue!QueueNext
  <2> QED BY <2>1, <2>2, <2>3, <2>4, <2>5, StepEffect
<1> QED
  BY <1>1, <1>2, Invariance, PTL DEF Spec, ImplementsQueue, Queue!QueueSpec
=============================================================================
