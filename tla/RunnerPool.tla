----------------------------- MODULE RunnerPool -----------------------------
(***************************************************************************)
(* The operator: RunnerPoolReconciler turns one RunnerPool into a          *)
(* Deployment of Runners and a KEDA ScaledObject, while users edit, delete *)
(* and recreate the pool, KEDA writes the Deployment's replicas, and the   *)
(* garbage collector removes what a deleted pool owned.                    *)
(*                                                                         *)
(* Each API call of Reconcile is one step.  RunnerPools and Deployments    *)
(* are read from the informer cache, which may lag; ScaledObjects, being   *)
(* unstructured, from the API server.  A write carries the resourceVersion *)
(* of the copy it was made from and is refused when the object was written *)
(* since.  Versions only ever matter through that comparison, so the model *)
(* keeps the set of copies that are still current.                         *)
(***************************************************************************)
EXTENDS Integers, FiniteSets

CONSTANTS
  Specs,         \* what users write in RunnerPool.spec
  Envs,          \* the operator's environment: Runner env, account, tolerations
  OthersDelete,  \* whether others may delete the ScaledObject
  DefaultCap,    \* 50
  DefaultMax,    \* 200
  RetrySteps,    \* retry.DefaultRetry.Steps: 5
  MaxReplicas,   \* bound on the replicas KEDA asks for in the model
  MaxUid,        \* bound on the pools created, one after the other
  Absent         \* no such object

ASSUME SpecsAssumption == \A s \in Specs :
  /\ s.resources \in {"ok", "unparsable"}
  /\ s.cap \in Int /\ s.min \in Nat /\ s.max \in Int
ASSUME BoundsAssumption ==
  /\ RetrySteps \in Nat \ {0} /\ MaxReplicas \in Nat \ {0} /\ MaxUid \in Nat \ {0}
  /\ DefaultCap \in Nat \ {0} /\ DefaultMax \in Nat \ {0}
  /\ OthersDelete \in BOOLEAN

VARIABLES
  \* The API server.
  pool,        \* the RunnerPool: spec, status.readyReplicas, uid
  dep,         \* the Deployment: template, replicas, readyReplicas, owner
  so,          \* the ScaledObject: spec, owner
  lastUid,     \* the uid of the latest pool
  \* The operator process.
  env,
  cpool, cdep, \* the informer cache
  queue,       \* whether the work queue holds the pool's name
  pc,          \* where Reconcile stands
  rpool, rdep, \* Reconcile's own copies of the pool and of the Deployment
  found,       \* whether its Get found the object it is about to write
  tries,       \* the attempts RetryOnConflict has made
  current,     \* the copies no write has outdated
  statusLost,  \* the last write of the status failed, which is only logged
  taken        \* others deleted the ScaledObject after the operator wrote it

cluster  == <<pool, dep, so, lastUid>>
operator == <<env, cpool, cdep, queue, pc, rpool, rdep, found, tries, statusLost>>
vars     == <<cluster, operator, current, taken>>

-----------------------------------------------------------------------------
(* What a pool asks for. *)

orDefault(v, def) == IF v <= 0 THEN def ELSE v

runnerImage(s) == IF s.image # "" THEN <<s.image>> ELSE <<"synergyplus-runner", s.version>>

\* The Pod template, and the spec of the ScaledObject with the version and the
\* cap of its eligible-depth query.
Template(s, e) == [image |-> runnerImage(s), version |-> s.version, env |-> e,
                   cap   |-> orDefault(s.cap, DefaultCap)]
Scaler(s) == [version |-> s.version, cap |-> orDefault(s.cap, DefaultCap),
              min |-> s.min, max |-> orDefault(s.max, DefaultMax)]

Pools         == [spec : Specs, ready : Nat, uid : 1..MaxUid]
Deployments   == [template : {Template(s, e) : s \in Specs, e \in Envs},
                  replicas : Nat, ready : Nat, owner : 1..MaxUid]
ScaledObjects == [spec : {Scaler(s) : s \in Specs}, owner : 1..MaxUid]

ASSUME AbsentAssumption == Absent \notin Pools \cup Deployments \cup ScaledObjects

Init ==
  /\ pool = Absent /\ dep = Absent /\ so = Absent /\ lastUid = 0
  /\ env \in Envs
  /\ cpool = Absent /\ cdep = Absent
  /\ queue = FALSE /\ pc = "idle"
  /\ rpool = Absent /\ rdep = Absent /\ found = FALSE /\ tries = 0
  /\ current = {"cpool", "cdep"}
  /\ statusLost = FALSE /\ taken = FALSE

-----------------------------------------------------------------------------
(* Writes.  Every write of an object outdates the copies made of it. *)

WritePool(p) == pool' = p /\ current' = current \ {"cpool", "rpool"}

\* A write that changes nothing is dropped by the API server.
WriteDep(d) == /\ dep' = d
               /\ current' = IF d = dep THEN current ELSE current \ {"cdep", "rdep"}

WriteScaler(o) == so' = o /\ current' = current \ {"so"}

-----------------------------------------------------------------------------
(* The others: users, KEDA, the Deployment controller, the collector. *)

CreatePool ==
  /\ pool = Absent /\ lastUid < MaxUid
  /\ lastUid' = lastUid + 1
  /\ \E s \in Specs : WritePool([spec |-> s, ready |-> 0, uid |-> lastUid + 1])
  /\ UNCHANGED <<dep, so, operator, taken>>

EditPool ==
  /\ pool # Absent
  /\ \E s \in Specs \ {pool.spec} : WritePool([pool EXCEPT !.spec = s])
  /\ UNCHANGED <<dep, so, lastUid, operator, taken>>

DeletePool ==
  /\ pool # Absent
  /\ WritePool(Absent)
  /\ UNCHANGED <<dep, so, lastUid, operator, taken>>

\* KEDA sets .spec.replicas within the bounds of the ScaledObject.
KedaScales ==
  /\ so # Absent /\ dep # Absent
  /\ \E n \in 0..MaxReplicas :
       /\ n >= so.spec.min /\ n <= so.spec.max /\ n # dep.replicas
       /\ WriteDep([dep EXCEPT !.replicas = n])
  /\ UNCHANGED <<pool, so, lastUid, operator, taken>>

\* KEDA writes the ScaledObject's status and finalizer.
KedaMarks ==
  /\ so # Absent /\ "so" \in current
  /\ WriteScaler(so)
  /\ UNCHANGED <<pool, dep, lastUid, operator, taken>>

\* Somebody else than the collector deletes it.
DeleteScaler ==
  /\ OthersDelete /\ so # Absent
  /\ WriteScaler(Absent)
  /\ taken' = TRUE
  /\ UNCHANGED <<pool, dep, lastUid, operator>>

PodsChange ==
  /\ dep # Absent
  /\ \E n \in 0..dep.replicas : n # dep.ready /\ WriteDep([dep EXCEPT !.ready = n])
  /\ UNCHANGED <<pool, so, lastUid, operator, taken>>

\* The collector removes what has an owner that is gone, and only that.
NoOwner == 0

Orphan(o) == /\ o # Absent /\ o.owner # NoOwner
             /\ pool # Absent => pool.uid # o.owner

CollectDeployment ==
  /\ Orphan(dep)
  /\ WriteDep(Absent)
  /\ UNCHANGED <<pool, so, lastUid, operator, taken>>

CollectScaler ==
  /\ Orphan(so)
  /\ WriteScaler(Absent)
  /\ UNCHANGED <<pool, dep, lastUid, operator, taken>>

-----------------------------------------------------------------------------
(* The watches: For(RunnerPool) and Owns(Deployment). *)

WatchPool ==
  /\ "cpool" \notin current
  /\ cpool' = pool
  /\ current' = current \cup {"cpool"}
  /\ queue' = TRUE
  /\ UNCHANGED <<cluster, env, cdep, pc, rpool, rdep, found, tries, statusLost, taken>>

WatchDepWithoutOwns ==
  /\ "cdep" \notin current
  /\ cdep' = dep
  /\ current' = current \cup {"cdep"}
  /\ UNCHANGED <<cluster, env, cpool, queue, pc, rpool, rdep, found, tries, statusLost, taken>>

WatchDep ==
  /\ "cdep" \notin current
  /\ cdep' = dep
  /\ current' = current \cup {"cdep"}
  /\ queue' = TRUE
  /\ UNCHANGED <<cluster, env, cpool, pc, rpool, rdep, found, tries, statusLost, taken>>

\* controller-runtime lists its cache again every ten hours.
Resync ==
  /\ ~queue
  /\ queue' = TRUE
  /\ UNCHANGED <<cluster, env, cpool, cdep, pc, rpool, rdep, found, tries, statusLost, current, taken>>

-----------------------------------------------------------------------------
(* Reconcile. *)

\* The copy `to` is taken from the cached copy `from`.
Copy(from, to) == IF from \in current THEN current \cup {to} ELSE current \ {to}

Goto(label) == pc' = label

\* The call ends, and its local variables with it; an error puts the pool's
\* name back into the work queue.
Return ==
  /\ pc' = "idle"
  /\ rpool' = Absent /\ rdep' = Absent /\ found' = FALSE /\ tries' = 0

ReturnErrorDropped == Return /\ UNCHANGED queue /\ current' = current \cap {"cpool", "cdep"}

ReturnError == Return /\ queue' = TRUE /\ current' = current \cap {"cpool", "cdep"}

ReturnNil == Return /\ current' = current \cap {"cpool", "cdep"} /\ UNCHANGED queue

\* Get the pool; one that is not found ends the reconcile.
Begin ==
  /\ pc = "idle" /\ queue
  /\ queue' = FALSE
  /\ IF cpool = Absent
     THEN UNCHANGED <<pc, rpool, current>>
     ELSE rpool' = cpool /\ current' = Copy("cpool", "rpool") /\ Goto("build")
  /\ UNCHANGED <<cluster, env, cpool, cdep, rdep, found, tries, statusLost, taken>>

\* The quantities are parsed before anything is written.
Build ==
  /\ pc = "build"
  /\ IF rpool.spec.resources = "unparsable"
     THEN ReturnError
     ELSE Goto("getDep") /\ UNCHANGED <<queue, current, rpool, rdep, found, tries>>
  /\ UNCHANGED <<cluster, env, cpool, cdep, statusLost, taken>>

GetDep ==
  /\ pc = "getDep"
  /\ rdep' = cdep
  /\ found' = (cdep # Absent)
  /\ current' = Copy("cdep", "rdep")
  /\ tries' = tries + 1
  /\ Goto("putDep")
  /\ UNCHANGED <<cluster, env, cpool, cdep, queue, rpool, statusLost, taken>>

\* The Deployment is written: on to the ScaledObject.
DepWritten == /\ Goto("getScaler") /\ rdep' = Absent
              /\ UNCHANGED <<queue, rpool, found, tries>>

CreateDepUnowned ==
  /\ pc = "putDep" /\ ~found
  /\ IF dep = Absent
     THEN /\ WriteDep([template |-> Template(rpool.spec, env),
                       replicas |-> 1, ready |-> 0, owner |-> NoOwner])
          /\ DepWritten
     ELSE ReturnError /\ UNCHANGED dep
  /\ UNCHANGED <<pool, so, lastUid, env, cpool, cdep, statusLost, taken>>

\* r.Create: replicas are left unset, which the API server makes 1.  A
\* Deployment that exists after all is an error, and not one to retry on.
CreateDep ==
  /\ pc = "putDep" /\ ~found
  /\ IF dep = Absent
     THEN /\ WriteDep([template |-> Template(rpool.spec, env),
                       replicas |-> 1, ready |-> 0, owner |-> rpool.uid])
          /\ DepWritten
     ELSE ReturnError /\ UNCHANGED dep
  /\ UNCHANGED <<pool, so, lastUid, env, cpool, cdep, statusLost, taken>>

\* r.Update: labels, selector and template over the copy that was read, so
\* replicas and the owner are the copy's; the status is another resource.
UpdatedDep == [template |-> Template(rpool.spec, env), replicas |-> rdep.replicas,
               ready |-> dep.ready, owner |-> rdep.owner]

UpdateDepUnconditionally ==
  /\ pc = "putDep" /\ found /\ dep # Absent
  /\ WriteDep(UpdatedDep)
  /\ DepWritten
  /\ UNCHANGED <<pool, so, lastUid, env, cpool, cdep, statusLost, taken>>

UpdateDep ==
  /\ pc = "putDep" /\ found /\ "rdep" \in current
  /\ WriteDep(UpdatedDep)
  /\ DepWritten
  /\ UNCHANGED <<pool, so, lastUid, env, cpool, cdep, statusLost, taken>>

\* The update is refused: a conflict is retried from the Get, RetrySteps times;
\* a Deployment that is gone is an error at once.
UpdateDepRefused ==
  /\ pc = "putDep" /\ found /\ "rdep" \notin current
  /\ IF dep # Absent /\ tries < RetrySteps
     THEN Goto("getDep") /\ UNCHANGED <<queue, current, rpool, rdep, found, tries>>
     ELSE ReturnError
  /\ UNCHANGED <<cluster, env, cpool, cdep, statusLost, taken>>

GetScaler ==
  /\ pc = "getScaler"
  /\ found' = (so # Absent)
  /\ current' = current \cup {"so"}
  /\ Goto("putScaler")
  /\ UNCHANGED <<cluster, env, cpool, cdep, queue, rpool, rdep, tries, statusLost, taken>>

\* r.Create or r.Update; the object is replaced, its owner included.  There is
\* no retry on a conflict here: it is an error like any other.
PutScaler ==
  /\ pc = "putScaler"
  /\ IF (~found /\ so = Absent) \/ (found /\ "so" \in current)
     THEN /\ WriteScaler([spec |-> Scaler(rpool.spec), owner |-> rpool.uid])
          /\ taken' = FALSE
          /\ Goto("status") /\ UNCHANGED <<queue, rpool, rdep, found, tries>>
     ELSE ReturnError /\ UNCHANGED <<so, taken>>
  /\ UNCHANGED <<pool, dep, lastUid, env, cpool, cdep, statusLost>>

\* The status: nothing to write, or a write from the pool read at the start.
StatusDiffers == cdep # Absent /\ cdep.ready # rpool.ready

StatusUnchanged ==
  /\ pc = "status" /\ ~StatusDiffers
  /\ ReturnNil
  /\ statusLost' = FALSE
  /\ UNCHANGED <<cluster, env, cpool, cdep, taken>>

\* A conflict is logged like any other failure, and Reconcile returns nil.
UpdateStatus ==
  /\ pc = "status" /\ StatusDiffers
  /\ IF "rpool" \in current
     THEN /\ pool' = [pool EXCEPT !.ready = cdep.ready]
          /\ Return /\ current' = current \cap {"cdep"} /\ UNCHANGED queue
     ELSE ReturnNil /\ UNCHANGED pool
  /\ statusLost' = FALSE
  /\ UNCHANGED <<dep, so, lastUid, env, cpool, cdep, taken>>

UpdateStatusFails ==
  /\ pc = "status" /\ StatusDiffers
  /\ ReturnNil
  /\ statusLost' = TRUE
  /\ UNCHANGED <<cluster, env, cpool, cdep, taken>>

\* Another call fails: the error is returned.
CallFails ==
  /\ pc \in {"putDep", "getScaler", "putScaler"}
  /\ ReturnError
  /\ UNCHANGED <<cluster, env, cpool, cdep, statusLost, taken>>

\* The operator ends and another takes its place, perhaps with another
\* environment; it lists everything and enqueues every pool.
Restart ==
  /\ env' \in Envs
  /\ cpool' = pool /\ cdep' = dep
  /\ current' = {"cpool", "cdep"}
  /\ queue' = TRUE
  /\ Return
  /\ statusLost' = FALSE
  /\ UNCHANGED <<cluster, taken>>

-----------------------------------------------------------------------------

Reconcile == \/ Begin \/ Build \/ GetDep \/ CreateDep \/ UpdateDep
             \/ UpdateDepRefused \/ GetScaler \/ PutScaler
             \/ StatusUnchanged \/ UpdateStatus

Fault == CallFails \/ UpdateStatusFails \/ Restart

Scaling == KedaScales \/ KedaMarks \/ DeleteScaler \/ PodsChange

User == CreatePool \/ EditPool \/ DeletePool

Next == \/ User \/ Scaling \/ CollectDeployment \/ CollectScaler
        \/ WatchPool \/ WatchDep \/ Resync \/ Reconcile \/ Fault

Spec == Init /\ [][Next]_vars

(***************************************************************************)
(* Fairness: watch events arrive, the operator takes its next step and the *)
(* collector runs.  Users, scaling and faults come to rest at some point:  *)
(* nothing bounds the conflicts Reconcile may lose to KEDA while they last *)
(* (RetryOnConflict makes losing for ever unlikely, not impossible).  The  *)
(* resync may come at any time; it is relied on only when others deleted   *)
(* the ScaledObject, of which the operator hears in no other way.          *)
(***************************************************************************)
Fairness ==
  /\ WF_vars(WatchPool) /\ WF_vars(WatchDep) /\ WF_vars(Reconcile)
  /\ WF_vars(CollectDeployment) /\ WF_vars(CollectScaler)
  /\ WF_vars(taken /\ Resync)
  /\ <>[][~(User \/ Scaling \/ Fault)]_vars

FairSpec == Spec /\ Fairness

-----------------------------------------------------------------------------
(* Properties. *)

Labels == {"idle", "build", "getDep", "putDep", "getScaler", "putScaler", "status"}

\* Every object and every copy of one is absent or one the API server can hold.
ObjectsOK ==
  /\ {pool, cpool, rpool} \subseteq Pools \cup {Absent}
  /\ {dep, cdep, rdep} \subseteq Deployments \cup {Absent}
  /\ so \in ScaledObjects \cup {Absent}

\* The types, and that Reconcile is past its first step only with a pool in its
\* hands.
TypeOK ==
  /\ ObjectsOK
  /\ pc # "idle" => rpool # Absent
  /\ lastUid \in 0..MaxUid /\ env \in Envs
  /\ queue \in BOOLEAN /\ found \in BOOLEAN /\ statusLost \in BOOLEAN /\ taken \in BOOLEAN
  /\ pc \in Labels /\ tries \in 0..RetrySteps
  /\ current \subseteq {"cpool", "cdep", "rpool", "rdep", "so"}

\* "KEDA owns .spec.replicas": no step of a reconcile, whatever copy of the
\* Deployment it worked from, takes back a write of KEDA's or of the collector.
ReplicasLeftToKeda ==
  [][(dep # Absent /\ pc' # pc) =>
        dep' # Absent /\ dep'.replicas = dep.replicas /\ dep'.owner = dep.owner]_vars

\* The operator has nothing left to do and would not wake up by itself.
Quiet == pc = "idle" /\ ~queue /\ {"cpool", "cdep"} \subseteq current

DepSettled    == dep # Absent /\ dep.template = Template(pool.spec, env)
ScalerSettled == so # Absent /\ so.spec = Scaler(pool.spec) /\ so.owner = pool.uid

\* Level-triggered reconciling loses nothing: whatever edits, recreations,
\* conflicts, stale reads, failures and restarts came before, an operator that
\* rests has left the Deployment and the ScaledObject as the pool asks, their
\* caps alike, so the claims and the scaler agree (ADR-0005), unless others have
\* deleted the ScaledObject since; and the status mirrors the Deployment unless
\* its write failed.
QuietMeansSettled ==
  (Quiet /\ pool # Absent) =>
     /\ DepSettled /\ (ScalerSettled \/ taken)
     /\ pool.ready = dep.ready \/ statusLost

\* A copy no write has outdated is equal to its object, and a reconcile that
\* found the Deployment holds a copy and an attempt.
CopyInv ==
  /\ "cpool" \in current => cpool = pool
  /\ "cdep" \in current => cdep = dep
  /\ "rpool" \in current => rpool = pool
  /\ pc = "putDep" => /\ "rdep" \in current => rdep = dep
                      /\ found <=> rdep # Absent
  /\ pc \in {"idle", "build"} => tries = 0
  /\ pc = "getDep" => tries < RetrySteps

\* No event is pending: neither cached object was written, and none arrived,
\* since the reconcile under way began or, at rest, since the last one ended.
Undisturbed == ~queue /\ {"cpool", "cdep"} \subseteq current

\* An undisturbed reconcile works from current copies, and what it has written
\* so far is what the pool asks for; any event that could make this false has
\* put the name into the work queue, or will.
ProgressInv ==
  /\ (~queue /\ "cpool" \in current /\ pc # "idle") => "rpool" \in current
  /\ (~queue /\ "cdep" \in current /\ pc = "putDep") => "rdep" \in current
  /\ (Undisturbed /\ pool # Absent) =>
       /\ pc \in {"getScaler", "putScaler", "status", "idle"} => DepSettled
       /\ pc \in {"status", "idle"} => ScalerSettled \/ taken
       /\ pc = "idle" => pool.ready = dep.ready \/ statusLost

\* The inductive invariant.
IInv == TypeOK /\ CopyInv /\ ProgressInv

\* A pool whose spec can be built gets what it asks for and keeps it, although
\* reconciles go on; and also when somebody had deleted the
\* ScaledObject, which is not watched.
Converges ==
  <>[]((pool # Absent /\ pool.spec.resources = "ok") => DepSettled /\ ScalerSettled)

\* A deleted pool leaves nothing behind, although a reconcile that was under
\* way may create its objects again after the deletion.
NothingOutlivesItsPool ==
  pool = Absent ~> (pool # Absent \/ (dep = Absent /\ so = Absent))
=============================================================================
