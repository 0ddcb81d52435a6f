------------------------------ MODULE SimQueue ------------------------------
(***************************************************************************)
(* What the run queue promises about app.simulations, with every Runner,   *)
(* heartbeat, lease and transaction forgotten: a row is inserted, started  *)
(* at most MaxAttempts times, never while its user is already at a cap,    *)
(* and settled once.  Module Lifecycle implements this specification.      *)
(***************************************************************************)
EXTENDS Naturals, FiniteSets

CONSTANTS
  Sims,         \* the rows; a row's number is its rank in created_at
  Request,      \* what a submission fixes: [user, version, priority]
  NoRequest,    \* the columns of a row that does not exist yet
  Caps,         \* the per-user caps in force, one per RunnerPool
  MaxAttempts   \* the column max_attempts, which no code writes

VARIABLES state, attempts, req

queueVars == <<state, attempts, req>>

Terminal == {"succeeded", "failed"}

\* The rows a user has running now: the subquery of app.eligible_simulations.
RunningOf(u) == {s \in Sims : state[s] = "running" /\ req[s].user = u}

QueueInit ==
  /\ state    = [s \in Sims |-> "absent"]
  /\ attempts = [s \in Sims |-> 0]
  /\ req      = [s \in Sims |-> NoRequest]

\* A row appears: queued, or succeeded at once when the cache holds its result.
Insert(s) ==
  /\ state[s] = "absent"
  /\ \E st \in {"queued", "succeeded"}, q \in Request :
       /\ state' = [state EXCEPT ![s] = st]
       /\ req'   = [req EXCEPT ![s] = q]
  /\ UNCHANGED attempts

\* A row starts running, in one step, under a cap its user has not reached.
Start(s) ==
  /\ state[s] = "queued"
  /\ attempts[s] < MaxAttempts
  /\ \E c \in Caps : Cardinality(RunningOf(req[s].user)) < c
  /\ state'    = [state EXCEPT ![s] = "running"]
  /\ attempts' = [attempts EXCEPT ![s] = @ + 1]
  /\ UNCHANGED req

\* A run ends with an outcome.
Settle(s) ==
  /\ state[s] = "running"
  /\ \E t \in Terminal : state' = [state EXCEPT ![s] = t]
  /\ UNCHANGED <<attempts, req>>

\* Runs given up: each goes back to the queue, or fails on its last attempt.
GiveUp(S) ==
  /\ \A s \in S : state[s] = "running"
  /\ state' = [s \in Sims |->
                 IF s \notin S THEN state[s]
                 ELSE IF attempts[s] < MaxAttempts THEN "queued" ELSE "failed"]
  /\ UNCHANGED <<attempts, req>>

QueueNext ==
  \/ \E s \in Sims : Insert(s) \/ Start(s) \/ Settle(s)
  \/ \E S \in SUBSET Sims : GiveUp(S)

QueueSpec == QueueInit /\ [][QueueNext]_queueVars
=============================================================================
