------------------------------ MODULE Lifecycle -----------------------------
(***************************************************************************)
(* The running phase of a Simulation: the guarded SQL functions of         *)
(* migration 0007 over app.simulations, the Runner loop that calls them,   *)
(* its heartbeat thread, and the apiserver's Reaper.                       *)
(*                                                                         *)
(* A claim is a transaction of two steps, because it is the one operation  *)
(* whose decision (the per-user count) and whose effect (the row update)   *)
(* other transactions may separate.  renew_lease, finish_simulation and    *)
(* reap_expired_leases are single UPDATEs whose WHERE clause Postgres      *)
(* re-evaluates under the row lock, so each is one step.                   *)
(*                                                                         *)
(* Time is abstracted to what the SQL compares: a lease is live or expired *)
(* and may expire at any moment, so a Runner that is merely slow or        *)
(* partitioned loses its row exactly as a dead one does.                   *)
(***************************************************************************)
EXTENDS Naturals, FiniteSets

CONSTANTS
  Sims,         \* row numbers in created_at order
  Users,
  Versions,     \* engine versions
  Priorities,   \* 0 low, 1 normal, 2 high
  Runners,      \* runner ids; a restarted process keeps its id
  Version,      \* [Runners -> Versions]  SP_ENGINE_VERSION
  UserCap,      \* [Runners -> Nat]       SP_PER_USER_CAP
  MaxAttempts,  \* the column max_attempts
  None,         \* SQL NULL, and "no simulation"
  NoRequest

ASSUME SimsAssumption == Sims \subseteq Nat /\ IsFiniteSet(Sims)
ASSUME PriorityAssumption == Priorities \subseteq Nat
ASSUME RunnerAssumption ==
  /\ Version \in [Runners -> Versions]
  /\ UserCap \in [Runners -> Nat]
ASSUME AttemptsAssumption == MaxAttempts \in Nat \ {0}
ASSUME NoneAssumption == None \notin Runners /\ None \notin Sims

Request == [user : Users, version : Versions, priority : Priorities]
ASSUME NoRequestAssumption == NoRequest \notin Request

VARIABLES
  \* The columns of app.simulations.
  state,        \* "absent" until the row is inserted
  req,          \* user_id, engine_version, priority
  runner_id,
  lease,        \* lease_expires_at: "null", "live" or "expired"
  attempts,
  \* Postgres: who holds pg_advisory_xact_lock(42).
  lock,
  \* Each Runner process.
  pc,           \* where run_forever / process_simulation stands
  cur,          \* the simulation in its hands (or picked by its claim)
  att,          \* sim["attempts"] as its claim returned it
  hb            \* the simulations its heartbeat threads renew

rowVars    == <<state, req, runner_id, lease, attempts>>
runnerVars == <<pc, cur, att, hb>>
vars       == <<rowVars, lock, runnerVars>>

RowState == {"absent", "queued", "running", "succeeded", "failed"}
Terminal == {"succeeded", "failed"}
PC == {"idle", "txn", "claimed", "working", "handler", "stopping", "down"}

Init ==
  /\ state     = [s \in Sims |-> "absent"]
  /\ req       = [s \in Sims |-> NoRequest]
  /\ runner_id = [s \in Sims |-> None]
  /\ lease     = [s \in Sims |-> "null"]
  /\ attempts  = [s \in Sims |-> 0]
  /\ lock      = None
  /\ pc        = [r \in Runners |-> "idle"]
  /\ cur       = [r \in Runners |-> None]
  /\ att       = [r \in Runners |-> 0]
  /\ hb        = [r \in Runners |-> {}]

-----------------------------------------------------------------------------
(* Submission: handleCreateSimulation and Expand insert a row, "succeeded" *)
(* when the cache holds its result (which module ResultCache decides).     *)

InsertSimulation(s) ==
  /\ state[s] = "absent"
  /\ \E st \in {"queued", "succeeded"}, q \in Request :
       /\ state' = [state EXCEPT ![s] = st]
       /\ req'   = [req EXCEPT ![s] = q]
  /\ UNCHANGED <<runner_id, lease, attempts, lock, runnerVars>>

-----------------------------------------------------------------------------
(* The claim. *)

RunningOf(u) == {s \in Sims : state[s] = "running" /\ req[s].user = u}

EligibleAtCap(v, cap) ==
  {s \in Sims : /\ state[s] = "queued"
                /\ req[s].version = v
                /\ Cardinality(RunningOf(req[s].user)) <= cap}

eligible_simulations(v, cap) ==
  {s \in Sims : /\ state[s] = "queued"
                /\ req[s].version = v
                /\ Cardinality(RunningOf(req[s].user)) < cap}

\* ORDER BY priority DESC, created_at ASC
Before(s, t) == \/ req[s].priority > req[t].priority
                \/ req[s].priority = req[t].priority /\ s < t

\* SKIP LOCKED: a former owner still computing may hold a queued row's lock,
\* because it back-fills the row's hashes without a fence.
MayBeLocked(s) == \E z \in Runners : pc[z] = "working" /\ cur[z] = s

\* What the claim's SELECT ... FOR UPDATE SKIP LOCKED LIMIT 1 may return.
Pickable(S) ==
  {s \in S : \A t \in S : Before(t, s) => MayBeLocked(t)}
    \cup (IF \A t \in S : MayBeLocked(t) THEN {None} ELSE {})

ClaimBeginUnlocked(r) ==
  /\ pc[r] = "idle"
  /\ lock' = r
  /\ \E s \in Pickable(eligible_simulations(Version[r], UserCap[r])) :
       cur' = [cur EXCEPT ![r] = s]
  /\ pc' = [pc EXCEPT ![r] = "txn"]
  /\ UNCHANGED <<rowVars, att, hb>>

\* BEGIN, pg_advisory_xact_lock(42), and the subquery on a fresh snapshot.
ClaimBegin(r) ==
  /\ pc[r] = "idle"
  /\ lock = None
  /\ lock' = r
  /\ \E s \in Pickable(eligible_simulations(Version[r], UserCap[r])) :
       cur' = [cur EXCEPT ![r] = s]
  /\ pc' = [pc EXCEPT ![r] = "txn"]
  /\ UNCHANGED <<rowVars, att, hb>>

ClaimRowWithoutLease(r, s) ==
  /\ state'     = [state EXCEPT ![s] = "running"]
  /\ runner_id' = [runner_id EXCEPT ![s] = r]
  /\ attempts'  = [attempts EXCEPT ![s] = @ + 1]
  /\ UNCHANGED <<lease, req>>

\* The row update of a claim; it becomes visible when the claim commits.
ClaimRow(r, s) ==
  /\ state'     = [state EXCEPT ![s] = "running"]
  /\ runner_id' = [runner_id EXCEPT ![s] = r]
  /\ lease'     = [lease EXCEPT ![s] = "live"]
  /\ attempts'  = [attempts EXCEPT ![s] = @ + 1]
  /\ UNCHANGED req

\* COMMIT: the lock is released and the Runner receives the row.
ClaimCommit(r) ==
  /\ pc[r] = "txn" /\ cur[r] # None
  /\ ClaimRow(r, cur[r])
  /\ lock' = None
  /\ pc'   = [pc EXCEPT ![r] = "claimed"]
  /\ att'  = [att EXCEPT ![r] = attempts[cur[r]] + 1]
  /\ UNCHANGED <<cur, hb>>

\* COMMIT of a claim that found nothing: sleep and poll again.
ClaimNothing(r) ==
  /\ pc[r] = "txn" /\ cur[r] = None
  /\ lock' = None
  /\ pc'   = [pc EXCEPT ![r] = "idle"]
  /\ UNCHANGED <<rowVars, cur, att, hb>>

\* An error before COMMIT: rollback, reconnect, poll again.
ClaimRollback(r) ==
  /\ pc[r] = "txn"
  /\ lock' = None
  /\ pc'   = [pc EXCEPT ![r] = "idle"]
  /\ cur'  = [cur EXCEPT ![r] = None]
  /\ UNCHANGED <<rowVars, att, hb>>

\* COMMIT took effect and its reply was lost: claim raises, the Runner
\* reconnects and polls, and nobody works on the row it now owns.
ClaimReplyLost(r) ==
  /\ pc[r] = "txn" /\ cur[r] # None
  /\ ClaimRow(r, cur[r])
  /\ lock' = None
  /\ pc'   = [pc EXCEPT ![r] = "idle"]
  /\ cur'  = [cur EXCEPT ![r] = None]
  /\ UNCHANGED <<att, hb>>

-----------------------------------------------------------------------------
(* process_simulation and its heartbeat. *)

\* hb.start(): the workspace exists and the heartbeat thread runs.
StartWork(r) ==
  /\ pc[r] = "claimed"
  /\ pc' = [pc EXCEPT ![r] = "working"]
  /\ hb' = [hb EXCEPT ![r] = @ \cup {cur[r]}]
  /\ UNCHANGED <<rowVars, lock, cur, att>>

FencedByState(s, r) == state[s] = "running"
FencedByOwner(s, r) == runner_id[s] = r

\* The M-4 fence of renew_lease and finish_simulation.
Fenced(s, r) == runner_id[s] = r /\ state[s] = "running"

\* Runner r has s in its hands, and a heartbeat thread for it.
Attending(r, s) == cur[r] = s /\ pc[r] \in {"working", "handler", "stopping"}

\* A heartbeat thread calls renew_lease.  A thread that outlived the join of
\* Heartbeat.stop renews once more and ends.
renew_lease(r) ==
  /\ \E s \in hb[r] :
       /\ lease' = IF Fenced(s, r) THEN [lease EXCEPT ![s] = "live"] ELSE lease
       /\ hb' = IF Attending(r, s) THEN hb ELSE [hb EXCEPT ![r] = @ \ {s}]
  /\ UNCHANGED <<state, req, runner_id, attempts, lock, pc, cur, att>>

FinishRowAsDone(r, s, t) ==
  /\ state' = IF Fenced(s, r) THEN [state EXCEPT ![s] = "done"] ELSE state
  /\ lease' = IF Fenced(s, r) THEN [lease EXCEPT ![s] = "null"] ELSE lease
  /\ UNCHANGED <<req, runner_id, attempts>>

\* The UPDATE of finish_simulation: no row when the fence is lost.
FinishRow(r, s, t) ==
  /\ state' = IF Fenced(s, r) THEN [state EXCEPT ![s] = t] ELSE state
  /\ lease' = IF Fenced(s, r) THEN [lease EXCEPT ![s] = "null"] ELSE lease
  /\ UNCHANGED <<req, runner_id, attempts>>

\* The run ended with a verdict and finish_simulation was called: its reply
\* came back, or the call raised after the database had applied it.
Finish(r) ==
  /\ pc[r] = "working"
  /\ \E t \in Terminal : FinishRow(r, cur[r], t)
  /\ \E next \in {"stopping", "handler"} : pc' = [pc EXCEPT ![r] = next]
  /\ UNCHANGED <<lock, cur, att, hb>>

\* Something raised before finish took effect: a fetch, the database, the disk.
WorkRaises(r) ==
  /\ pc[r] = "working"
  /\ pc' = [pc EXCEPT ![r] = "handler"]
  /\ UNCHANGED <<rowVars, lock, cur, att, hb>>

\* The except clause: finish_simulation(failed), or that call raised too.
HandleFailure(r) ==
  /\ pc[r] = "handler"
  /\ FinishRow(r, cur[r], "failed") \/ UNCHANGED rowVars
  /\ pc' = [pc EXCEPT ![r] = "stopping"]
  /\ UNCHANGED <<lock, cur, att, hb>>

\* The finally clause: hb.stop() joins the thread or gives up waiting for it.
StopHeartbeat(r) ==
  /\ pc[r] = "stopping"
  /\ pc'  = [pc EXCEPT ![r] = "idle"]
  /\ cur' = [cur EXCEPT ![r] = None]
  /\ att' = [att EXCEPT ![r] = 0]
  /\ \E h \in {hb[r] \ {cur[r]}, hb[r]} : hb' = [hb EXCEPT ![r] = h]
  /\ UNCHANGED <<rowVars, lock>>

\* The process ends: killed, told to stop, or an uncaught error (reconnect, or
\* hb.start() outside the try).  Postgres rolls its open transaction back.
Die(r) ==
  /\ pc[r] # "down"
  /\ lock' = IF lock = r THEN None ELSE lock
  /\ pc'   = [pc EXCEPT ![r] = "down"]
  /\ cur'  = [cur EXCEPT ![r] = None]
  /\ att'  = [att EXCEPT ![r] = 0]
  /\ hb'   = [hb EXCEPT ![r] = {}]
  /\ UNCHANGED rowVars

Restart(r) ==
  /\ pc[r] = "down"
  /\ pc' = [pc EXCEPT ![r] = "idle"]
  /\ UNCHANGED <<rowVars, lock, cur, att, hb>>

-----------------------------------------------------------------------------
(* Time and the Reaper. *)

LeaseExpires(s) ==
  /\ lease[s] = "live"
  /\ lease' = [lease EXCEPT ![s] = "expired"]
  /\ UNCHANGED <<state, req, runner_id, attempts, lock, runnerVars>>

Expired(s) == state[s] = "running" /\ lease[s] = "expired"

RetryableOffByOne(s) == attempts[s] <= MaxAttempts

Retryable(s) == attempts[s] < MaxAttempts

\* Both UPDATEs of reap_expired_leases, which commit together.  The second
\* leaves runner_id and lease_expires_at as they were.
reap_expired_leases ==
  LET requeued == {s \in Sims : Expired(s) /\ Retryable(s)}
      failed   == {s \in Sims : Expired(s) /\ ~Retryable(s)}
  IN  /\ requeued \cup failed # {}
      /\ state' = [s \in Sims |-> IF s \in requeued THEN "queued"
                                  ELSE IF s \in failed THEN "failed" ELSE state[s]]
      /\ runner_id' = [s \in Sims |-> IF s \in requeued THEN None ELSE runner_id[s]]
      /\ lease' = [s \in Sims |-> IF s \in requeued THEN "null" ELSE lease[s]]
      /\ UNCHANGED <<req, attempts, lock, runnerVars>>

-----------------------------------------------------------------------------

Claim(r) == \/ ClaimBegin(r) \/ ClaimCommit(r) \/ ClaimNothing(r)
            \/ ClaimRollback(r) \/ ClaimReplyLost(r)

\* What a Runner process does next once it has a row.
Work(r) == \/ StartWork(r) \/ Finish(r) \/ WorkRaises(r)
           \/ HandleFailure(r) \/ StopHeartbeat(r)

Next ==
  \/ \E s \in Sims : InsertSimulation(s) \/ LeaseExpires(s)
  \/ \E r \in Runners : Claim(r) \/ Work(r) \/ renew_lease(r) \/ Die(r) \/ Restart(r)
  \/ reap_expired_leases

Spec == Init /\ [][Next]_vars

\* Nobody renews the lease of s any more, so time alone will expire it.
Orphaned(s) ==
  \A r \in Runners : ~(Attending(r, s) /\ Fenced(s, r))

(***************************************************************************)
(* Fairness: the Reaper ticks; time passes; a live process takes its next  *)
(* step (so the engine, which has no timeout, is assumed to return); a     *)
(* dead container is restarted and is not killed over and over for ever;   *)
(* and a Runner that polls for ever gets the lock (Postgres queues waiters *)
(* first come, first served) and does not have every one of its claims     *)
(* fail.                                                                   *)
(***************************************************************************)
Fairness ==
  /\ WF_vars(reap_expired_leases)
  /\ \A s \in Sims : WF_vars(LeaseExpires(s) /\ Orphaned(s))
  /\ \A r \in Runners : /\ WF_vars(Work(r))
                        /\ WF_vars(Restart(r))
                        /\ WF_vars(ClaimNothing(r))
                        /\ SF_vars(ClaimBegin(r))
                        /\ SF_vars(ClaimCommit(r))
                        /\ <>[][~Die(r)]_vars

FairSpec == Spec /\ Fairness

-----------------------------------------------------------------------------
(* Properties. *)

\* Every variable holds a value its column or its Python attribute can hold.
TypeOK ==
  /\ state     \in [Sims -> RowState]
  /\ req       \in [Sims -> Request \cup {NoRequest}]
  /\ runner_id \in [Sims -> Runners \cup {None}]
  /\ lease     \in [Sims -> {"null", "live", "expired"}]
  /\ attempts  \in [Sims -> Nat]
  /\ lock      \in Runners \cup {None}
  /\ pc        \in [Runners -> PC]
  /\ cur       \in [Runners -> Sims \cup {None}]
  /\ att       \in [Runners -> Nat]
  /\ hb        \in [Runners -> SUBSET (Sims \cup {None})]

\* H-2, the hard ceiling: whatever claims, lost replies, crashes and requeues
\* interleave, a user never has more rows running than the cap of some pool
\* allows (the one cap, when all pools are configured alike).
UserCapHolds ==
  \A u \in Users : RunningOf(u) # {} =>
    \E r \in Runners : Cardinality(RunningOf(u)) <= UserCap[r]

\* A row is started at most max_attempts times although claim_simulation never
\* looks at attempts: the Reaper alone keeps exhausted rows out of the queue.
AttemptsBounded ==
  \A s \in Sims : /\ attempts[s] <= MaxAttempts
                  /\ state[s] = "queued" => attempts[s] < MaxAttempts

\* M-4: a row leaves the running phase by the Runner that made its current
\* attempt, or by the Reaper after the lease ran out; never by a zombie of an
\* earlier attempt.  The fence compares runner_id only, so this needs that no
\* Runner ever holds an attempt older than the one its id is written on.
OnlyCurrentAttemptSettles ==
  [][\A s \in Sims : (state[s] = "running" /\ state'[s] \in Terminal) =>
       \/ \E r \in Runners : /\ pc[r] \in {"working", "handler"} /\ pc'[r] # pc[r]
                             /\ cur[r] = s /\ runner_id[s] = r
                             /\ att[r] = attempts[s]
       \/ UNCHANGED pc /\ lease[s] = "expired"]_vars

\* A terminal row is final: a zombie's finish, the second finish of a Runner
\* whose first reply was lost, a late heartbeat or the Reaper leave it alone.
TerminalIsFinal ==
  [][\A s \in Sims : state[s] \in Terminal =>
       /\ state'[s] = state[s] /\ attempts'[s] = attempts[s]
       /\ runner_id'[s] = runner_id[s] /\ lease'[s] = lease[s]]_vars

\* Every queued row is eventually settled, through crashes, lost replies and
\* restarts, because a lost attempt is reaped and attempts are bounded.
EventuallySettled ==
  \A s \in Sims : state[s] = "queued" ~> state[s] \in Terminal

\* The claims, Runners and Reaper together implement the abstract run queue,
\* in which starting a row and checking its user's cap are one step.
Queue == INSTANCE SimQueue WITH Caps <- {UserCap[r] : r \in Runners}
ImplementsQueue == Queue!QueueSpec

-----------------------------------------------------------------------------
(* The inductive invariant behind the safety properties. *)

\* The open claim transaction is the lock holder's.
LockInv == \A r \in Runners : pc[r] = "txn" <=> lock = r

\* While a claim is open, the row it picked stays claimable: nobody else can
\* start a row, and what ends a run only lowers a count.
PickInv ==
  \A r \in Runners : (pc[r] = "txn" /\ cur[r] # None) =>
    /\ state[cur[r]] = "queued"
    /\ Cardinality(RunningOf(req[cur[r]].user)) < UserCap[r]

\* Rows that exist carry a request; running rows have an owner and a lease.
RowInv ==
  \A s \in Sims :
    /\ state[s] = "absent" => attempts[s] = 0
    /\ state[s] # "absent" => req[s] \in Request
    /\ state[s] = "running" => runner_id[s] # None /\ lease[s] # "null"
    /\ lease[s] = "live" => state[s] = "running"

\* A Runner in possession of a row holds its newest attempt or none.
EpochInv ==
  \A r \in Runners : pc[r] \in {"claimed", "working", "handler"} =>
    /\ cur[r] # None
    /\ Fenced(cur[r], r) => att[r] = attempts[cur[r]]

IInv == /\ TypeOK /\ LockInv /\ PickInv /\ RowInv /\ EpochInv
        /\ UserCapHolds /\ AttemptsBounded
=============================================================================
