-------------------------- MODULE RunnerPoolProofs --------------------------
(***************************************************************************)
(* Proofs about module RunnerPool, for any specs, environments and bounds: *)
(* its types, that a reconcile takes back nothing KEDA or the collector    *)
(* wrote, and that an operator at rest has left what the pool asks for.    *)
(***************************************************************************)
EXTENDS RunnerPool, TLAPS

USE SpecsAssumption, BoundsAssumption, AbsentAssumption

\* What a reconcile creates from its copy of the pool is an object, and so
\* something else than the absence of one.
LEMMA CreatedDeployment ==
  ASSUME TypeOK, pc # "idle"
  PROVE  [template |-> Template(rpool.spec, env), replicas |-> 1, ready |-> 0,
          owner |-> rpool.uid] \in Deployments
<1>1. rpool \in Pools /\ env \in Envs
  BY DEF TypeOK, ObjectsOK
<1> QED BY <1>1 DEF Pools, Deployments

LEMMA WrittenScaler ==
  ASSUME TypeOK, pc # "idle"
  PROVE  [spec |-> Scaler(rpool.spec), owner |-> rpool.uid] \in ScaledObjects
<1>1. rpool \in Pools
  BY DEF TypeOK, ObjectsOK
<1> QED BY <1>1 DEF Pools, ScaledObjects

\* A call that ends leaves its locals empty.
LEMMA ReturnTyped ==
  ASSUME TypeOK, Return, current' \subseteq current
  PROVE  /\ pc' \in Labels /\ tries' \in 0..RetrySteps /\ found' \in BOOLEAN
         /\ pc' # "idle" => rpool' # Absent
         /\ current' \subseteq {"cpool", "cdep", "rpool", "rdep", "so"}
<1>1. tries' \in 0..RetrySteps
  BY DEF Return
<1>2. found' \in BOOLEAN
  BY DEF Return
<1>3. pc' = "idle" /\ pc' \in Labels
  BY DEF Return, Labels
<1>4. current' \subseteq {"cpool", "cdep", "rpool", "rdep", "so"}
  BY DEF TypeOK
<1> QED BY <1>1, <1>2, <1>3, <1>4

\* What is written is an object again, whatever copy it was made from.
LEMMA ObjectsStep == IInv /\ [Next]_vars => ObjectsOK'
<1> SUFFICES ASSUME IInv, [Next]_vars PROVE ObjectsOK'
  OBVIOUS
<1> USE DEF IInv, TypeOK, cluster, operator, CopyInv, ObjectsOK
<1>1. CASE CreatePool
  <2>1. PICK s \in Specs : pool' = [spec |-> s, ready |-> 0, uid |-> lastUid + 1]
    BY <1>1 DEF CreatePool, WritePool
  <2>2. pool' \in Pools
    BY <1>1, <2>1 DEF CreatePool, Pools
  <2> QED BY <1>1, <2>2 DEF CreatePool
<1>2. CASE EditPool
  <2>1. PICK s \in Specs : pool' = [pool EXCEPT !.spec = s]
    BY <1>2 DEF EditPool, WritePool
  <2>2. pool' \in Pools
    BY <1>2, <2>1 DEF EditPool, Pools
  <2> QED BY <1>2, <2>2 DEF EditPool
<1>3. CASE DeletePool
  BY <1>3 DEF DeletePool, WritePool
<1>4. CASE KedaScales
  <2>1. PICK n \in 0..MaxReplicas : dep' = [dep EXCEPT !.replicas = n]
    BY <1>4 DEF KedaScales, WriteDep
  <2>2. dep' \in Deployments
    BY <1>4, <2>1 DEF KedaScales, Deployments
  <2> QED BY <1>4, <2>2 DEF KedaScales
<1>5. CASE KedaMarks
  BY <1>5 DEF KedaMarks, WriteScaler
<1>6. CASE DeleteScaler
  BY <1>6 DEF DeleteScaler, WriteScaler
<1>7. CASE PodsChange
  <2>1. PICK n \in 0..dep.replicas : dep' = [dep EXCEPT !.ready = n]
    BY <1>7 DEF PodsChange, WriteDep
  <2>2. dep' \in Deployments
    BY <1>7, <2>1 DEF PodsChange, Deployments
  <2> QED BY <1>7, <2>2 DEF PodsChange
<1>8. CASE CollectDeployment
  BY <1>8 DEF CollectDeployment, WriteDep, Orphan, NoOwner
<1>9. CASE CollectScaler
  BY <1>9 DEF CollectScaler, WriteScaler, Orphan, NoOwner
<1>10. CASE WatchPool
  BY <1>10 DEF WatchPool
<1>11. CASE WatchDep
  BY <1>11 DEF WatchDep
<1>12. CASE Resync
  BY <1>12 DEF Resync
<1>13. CASE Begin
  BY <1>13 DEF Begin, Copy, Goto
<1>14. CASE Build
  BY <1>14 DEF Build, ReturnError, Return, Goto
<1>15. CASE GetDep
  BY <1>15 DEF GetDep, Copy, Goto
<1>16. CASE CreateDep
  <2>1. CASE dep = Absent
    <3>1. dep' \in Deployments
      BY <1>16, <2>1, CreatedDeployment DEF CreateDep, WriteDep
    <3> QED BY <1>16, <2>1, <3>1 DEF CreateDep, DepWritten
  <2>2. CASE dep # Absent
    BY <1>16, <2>2 DEF CreateDep, ReturnError, Return
  <2> QED BY <2>1, <2>2
<1>17. CASE UpdateDep
  <2>1. rpool \in Pools /\ rdep \in Deployments /\ dep = rdep
    BY <1>17 DEF UpdateDep
  <2>2. dep' \in Deployments
    BY <1>17, <2>1 DEF UpdateDep, WriteDep, UpdatedDep, Pools, Deployments
  <2> QED BY <1>17, <2>2 DEF UpdateDep, DepWritten
<1>18. CASE UpdateDepRefused
  BY <1>18 DEF UpdateDepRefused, ReturnError, Return, Goto
<1>19. CASE GetScaler
  BY <1>19 DEF GetScaler, Goto
<1>20. CASE PutScaler
  <2>1. so' \in ScaledObjects \cup {Absent}
    BY <1>20, WrittenScaler DEF PutScaler, WriteScaler
  <2>2. rpool' \in {rpool, Absent} /\ rdep' \in {rdep, Absent}
    BY <1>20 DEF PutScaler, ReturnError, Return
  <2> QED BY <1>20, <2>1, <2>2 DEF PutScaler
<1>21. CASE StatusUnchanged
  BY <1>21 DEF StatusUnchanged, StatusDiffers, ReturnNil, Return
<1>22. CASE UpdateStatus
  <2>1. CASE "rpool" \in current
    <3>1. pool \in Pools /\ cdep \in Deployments
      BY <1>22, <2>1 DEF UpdateStatus, StatusDiffers
    <3>2. pool' \in Pools
      BY <1>22, <2>1, <3>1 DEF UpdateStatus, Pools, Deployments
    <3> QED BY <1>22, <2>1, <3>2 DEF UpdateStatus, Return
  <2>2. CASE "rpool" \notin current
    BY <1>22, <2>2 DEF UpdateStatus, ReturnNil, Return
  <2> QED BY <2>1, <2>2
<1>23. CASE CallFails
  BY <1>23 DEF CallFails, ReturnError, Return
<1>24. CASE UpdateStatusFails
  BY <1>24 DEF UpdateStatusFails, ReturnNil, Return
<1>25. CASE Restart
  BY <1>25 DEF Restart, Return
<1>26. CASE UNCHANGED vars
  BY <1>26 DEF vars
<1> QED
  BY <1>1, <1>2, <1>3, <1>4, <1>5, <1>6, <1>7, <1>8, <1>9, <1>10, <1>11, <1>12, <1>13,
     <1>14, <1>15, <1>16, <1>17, <1>18, <1>19, <1>20, <1>21, <1>22, <1>23, <1>24, <1>25, <1>26
     DEF Next, User, Scaling, Reconcile, Fault

\* The other variables keep to their types; RetryOnConflict is what bounds tries.
LEMMA TypeStep == IInv /\ [Next]_vars => TypeOK'
<1> SUFFICES ASSUME IInv, [Next]_vars PROVE TypeOK'
  OBVIOUS
<1>0. ObjectsOK'
  BY ObjectsStep
<1> USE DEF IInv, TypeOK, cluster, operator, CopyInv, Labels
<1>1. CASE CreatePool
  BY <1>1, <1>0 DEF CreatePool, WritePool
<1>2. CASE EditPool
  BY <1>2, <1>0 DEF EditPool, WritePool
<1>3. CASE DeletePool
  BY <1>3, <1>0 DEF DeletePool, WritePool
<1>4. CASE KedaScales
  BY <1>4, <1>0 DEF KedaScales, WriteDep
<1>5. CASE KedaMarks
  BY <1>5, <1>0 DEF KedaMarks, WriteScaler
<1>6. CASE DeleteScaler
  BY <1>6, <1>0 DEF DeleteScaler, WriteScaler
<1>7. CASE PodsChange
  BY <1>7, <1>0 DEF PodsChange, WriteDep
<1>8. CASE CollectDeployment
  BY <1>8, <1>0 DEF CollectDeployment, WriteDep, Orphan, NoOwner
<1>9. CASE CollectScaler
  BY <1>9, <1>0 DEF CollectScaler, WriteScaler, Orphan, NoOwner
<1>10. CASE WatchPool
  BY <1>10, <1>0 DEF WatchPool
<1>11. CASE WatchDep
  BY <1>11, <1>0 DEF WatchDep
<1>12. CASE Resync
  BY <1>12, <1>0 DEF Resync
<1>13. CASE Begin
  BY <1>13, <1>0 DEF Begin, Copy, Goto
<1>14. CASE Build
  BY <1>14, <1>0 DEF Build, ReturnError, Return, Goto
<1>15. CASE GetDep
  BY <1>15, <1>0 DEF GetDep, Copy, Goto
<1>16. CASE CreateDep
  <2>1. CASE dep = Absent
    BY <1>16, <1>0, <2>1 DEF CreateDep, WriteDep, DepWritten, Goto
  <2>2. CASE dep # Absent
    <3>1. Return /\ current' \subseteq current
      BY <1>16, <2>2 DEF CreateDep, ReturnError
    <3> QED BY <1>16, <1>0, <2>2, <3>1, ReturnTyped DEF CreateDep, ReturnError
  <2> QED BY <2>1, <2>2
<1>17. CASE UpdateDep
  BY <1>17, <1>0 DEF UpdateDep, WriteDep, DepWritten, UpdatedDep, Goto
<1>18. CASE UpdateDepRefused
  <2>1. CASE dep # Absent /\ tries < RetrySteps
    BY <1>18, <1>0, <2>1 DEF UpdateDepRefused, Goto
  <2>2. CASE ~(dep # Absent /\ tries < RetrySteps)
    <3>1. Return /\ current' \subseteq current
      BY <1>18, <2>2 DEF UpdateDepRefused, ReturnError
    <3> QED BY <1>18, <1>0, <2>2, <3>1, ReturnTyped DEF UpdateDepRefused, ReturnError
  <2> QED BY <2>1, <2>2
<1>19. CASE GetScaler
  BY <1>19, <1>0 DEF GetScaler, Goto
<1>20. CASE PutScaler
  <2>1. CASE (~found /\ so = Absent) \/ (found /\ "so" \in current)
    BY <1>20, <1>0, <2>1 DEF PutScaler, WriteScaler, Goto
  <2>2. CASE ~((~found /\ so = Absent) \/ (found /\ "so" \in current))
    <3>1. Return /\ current' \subseteq current
      BY <1>20, <2>2 DEF PutScaler, ReturnError
    <3> QED BY <1>20, <1>0, <2>2, <3>1, ReturnTyped DEF PutScaler, ReturnError
  <2> QED BY <2>1, <2>2
<1>21. CASE StatusUnchanged
  <2>1. Return /\ current' \subseteq current
    BY <1>21 DEF StatusUnchanged, ReturnNil
  <2> QED BY <1>21, <1>0, <2>1, ReturnTyped DEF StatusUnchanged, ReturnNil
<1>22. CASE UpdateStatus
  <2>1. Return /\ current' \subseteq current
    BY <1>22 DEF UpdateStatus, ReturnNil
  <2> QED BY <1>22, <1>0, <2>1, ReturnTyped DEF UpdateStatus, ReturnNil
<1>23. CASE CallFails
  <2>1. Return /\ current' \subseteq current
    BY <1>23 DEF CallFails, ReturnError
  <2> QED BY <1>23, <1>0, <2>1, ReturnTyped DEF CallFails, ReturnError
<1>24. CASE UpdateStatusFails
  <2>1. Return /\ current' \subseteq current
    BY <1>24 DEF UpdateStatusFails, ReturnNil
  <2> QED BY <1>24, <1>0, <2>1, ReturnTyped DEF UpdateStatusFails, ReturnNil
<1>25. CASE Restart
  <2>1. tries' \in 0..RetrySteps
    BY <1>25 DEF Restart, Return
  <2>2. found' \in BOOLEAN
    BY <1>25 DEF Restart, Return
  <2>3. pc' = "idle"
    BY <1>25 DEF Restart, Return
  <2> QED BY <1>25, <1>0, <2>1, <2>2, <2>3 DEF Restart
<1>26. CASE UNCHANGED vars
  BY <1>26, <1>0 DEF vars
<1> QED
  BY <1>1, <1>2, <1>3, <1>4, <1>5, <1>6, <1>7, <1>8, <1>9, <1>10, <1>11, <1>12, <1>13,
     <1>14, <1>15, <1>16, <1>17, <1>18, <1>19, <1>20, <1>21, <1>22, <1>23, <1>24, <1>25, <1>26
     DEF Next, User, Scaling, Reconcile, Fault

\* Whoever writes an object outdates the copies made of it.
LEMMA CopyStep == IInv /\ [Next]_vars => CopyInv'
<1> SUFFICES ASSUME IInv, [Next]_vars PROVE CopyInv'
  OBVIOUS
<1> USE DEF IInv, TypeOK, cluster, operator, CopyInv
<1>1. CASE CreatePool
  BY <1>1 DEF CreatePool, WritePool
<1>2. CASE EditPool
  BY <1>2 DEF EditPool, WritePool
<1>3. CASE DeletePool
  BY <1>3 DEF DeletePool, WritePool
<1>4. CASE KedaScales
  BY <1>4 DEF KedaScales, WriteDep
<1>5. CASE KedaMarks
  BY <1>5 DEF KedaMarks, WriteScaler
<1>6. CASE DeleteScaler
  BY <1>6 DEF DeleteScaler, WriteScaler
<1>7. CASE PodsChange
  BY <1>7 DEF PodsChange, WriteDep
<1>8. CASE CollectDeployment
  BY <1>8 DEF CollectDeployment, WriteDep, Orphan, NoOwner
<1>9. CASE CollectScaler
  BY <1>9 DEF CollectScaler, WriteScaler, Orphan, NoOwner
<1>10. CASE WatchPool
  BY <1>10 DEF WatchPool
<1>11. CASE WatchDep
  BY <1>11 DEF WatchDep
<1>12. CASE Resync
  BY <1>12 DEF Resync
<1>13. CASE Begin
  BY <1>13 DEF Begin, Copy, Goto
<1>14. CASE Build
  BY <1>14 DEF Build, ReturnError, Return, Goto
<1>15. CASE GetDep
  BY <1>15 DEF GetDep, Copy, Goto
<1>16. CASE CreateDep
  BY <1>16 DEF CreateDep, WriteDep, DepWritten, ReturnError, Return, Goto
<1>17. CASE UpdateDep
  BY <1>17 DEF UpdateDep, WriteDep, DepWritten, UpdatedDep, Goto
<1>18. CASE UpdateDepRefused
  <2>1. CASE dep # Absent /\ tries < RetrySteps
    BY <1>18, <2>1 DEF UpdateDepRefused, Goto
  <2>2. CASE ~(dep # Absent /\ tries < RetrySteps)
    <3>1. pc' = "idle" /\ tries' = 0 /\ current' \subseteq current \ {"rpool", "rdep"}
      BY <1>18, <2>2 DEF UpdateDepRefused, ReturnError, Return
    <3> QED BY <1>18, <3>1 DEF UpdateDepRefused
  <2> QED BY <2>1, <2>2
<1>19. CASE GetScaler
  BY <1>19 DEF GetScaler, Goto
<1>20. CASE PutScaler
  BY <1>20 DEF PutScaler, WriteScaler, ReturnError, Return, Goto
<1>21. CASE StatusUnchanged
  BY <1>21 DEF StatusUnchanged, StatusDiffers, ReturnNil, Return
<1>22. CASE UpdateStatus
  BY <1>22 DEF UpdateStatus, StatusDiffers, ReturnNil, Return
<1>23. CASE CallFails
  BY <1>23 DEF CallFails, ReturnError, Return
<1>24. CASE UpdateStatusFails
  BY <1>24 DEF UpdateStatusFails, ReturnNil, Return
<1>25. CASE Restart
  BY <1>25 DEF Restart, Return
<1>26. CASE UNCHANGED vars
  BY <1>26 DEF vars
<1> QED
  BY <1>1, <1>2, <1>3, <1>4, <1>5, <1>6, <1>7, <1>8, <1>9, <1>10, <1>11, <1>12, <1>13,
     <1>14, <1>15, <1>16, <1>17, <1>18, <1>19, <1>20, <1>21, <1>22, <1>23, <1>24, <1>25, <1>26
     DEF Next, User, Scaling, Reconcile, Fault

\* Every event that undoes what a reconcile has done reaches the work queue.
LEMMA ProgressStep == IInv /\ [Next]_vars => ProgressInv'
<1> SUFFICES ASSUME IInv, [Next]_vars PROVE ProgressInv'
  OBVIOUS
<1> USE DEF IInv, TypeOK, cluster, operator, CopyInv, ProgressInv, Undisturbed, DepSettled, ScalerSettled
<1>1. CASE CreatePool
  BY <1>1 DEF CreatePool, WritePool
<1>2. CASE EditPool
  BY <1>2 DEF EditPool, WritePool
<1>3. CASE DeletePool
  BY <1>3 DEF DeletePool, WritePool
<1>4. CASE KedaScales
  BY <1>4 DEF KedaScales, WriteDep
<1>5. CASE KedaMarks
  BY <1>5 DEF KedaMarks, WriteScaler
<1>6. CASE DeleteScaler
  BY <1>6 DEF DeleteScaler, WriteScaler
<1>7. CASE PodsChange
  BY <1>7 DEF PodsChange, WriteDep
<1>8. CASE CollectDeployment
  BY <1>8 DEF CollectDeployment, WriteDep, Orphan, NoOwner
<1>9. CASE CollectScaler
  BY <1>9 DEF CollectScaler, WriteScaler, Orphan, NoOwner
<1>10. CASE WatchPool
  BY <1>10 DEF WatchPool
<1>11. CASE WatchDep
  BY <1>11 DEF WatchDep
<1>12. CASE Resync
  BY <1>12 DEF Resync
<1>13. CASE Begin
  BY <1>13 DEF Begin, Copy, Goto
<1>14. CASE Build
  BY <1>14 DEF Build, ReturnError, Return, Goto
<1>15. CASE GetDep
  BY <1>15 DEF GetDep, Copy, Goto
<1>16. CASE CreateDep
  <2>1. CASE dep = Absent
    <3>1. dep' # dep
      BY <1>16, <2>1, CreatedDeployment DEF CreateDep, WriteDep
    <3>2. "cdep" \notin current'
      BY <1>16, <2>1, <3>1 DEF CreateDep, WriteDep
    <3> QED BY <1>16, <2>1, <3>2 DEF CreateDep, WriteDep, DepWritten, Goto
  <2>2. CASE dep # Absent
    BY <1>16, <2>2 DEF CreateDep, ReturnError, Return
  <2> QED BY <2>1, <2>2
<1>17. CASE UpdateDep
  BY <1>17 DEF UpdateDep, WriteDep, DepWritten, UpdatedDep, Goto
<1>18. CASE UpdateDepRefused
  BY <1>18 DEF UpdateDepRefused, ReturnError, Return, Goto
<1>19. CASE GetScaler
  BY <1>19 DEF GetScaler, Goto
<1>20. CASE PutScaler
  <2>1. CASE (~found /\ so = Absent) \/ (found /\ "so" \in current)
    <3>1. so' = [spec |-> Scaler(rpool.spec), owner |-> rpool.uid] /\ so' # Absent
      BY <1>20, <2>1, WrittenScaler DEF PutScaler, WriteScaler
    <3> QED BY <1>20, <2>1, <3>1 DEF PutScaler, WriteScaler, Goto
  <2>2. CASE ~((~found /\ so = Absent) \/ (found /\ "so" \in current))
    BY <1>20, <2>2 DEF PutScaler, ReturnError, Return
  <2> QED BY <2>1, <2>2
<1>21. CASE StatusUnchanged
  BY <1>21 DEF StatusUnchanged, StatusDiffers, ReturnNil, Return
<1>22. CASE UpdateStatus
  BY <1>22 DEF UpdateStatus, StatusDiffers, ReturnNil, Return
<1>23. CASE CallFails
  BY <1>23 DEF CallFails, ReturnError, Return
<1>24. CASE UpdateStatusFails
  BY <1>24 DEF UpdateStatusFails, ReturnNil, Return
<1>25. CASE Restart
  BY <1>25 DEF Restart, Return
<1>26. CASE UNCHANGED vars
  BY <1>26 DEF vars
<1> QED
  BY <1>1, <1>2, <1>3, <1>4, <1>5, <1>6, <1>7, <1>8, <1>9, <1>10, <1>11, <1>12, <1>13,
     <1>14, <1>15, <1>16, <1>17, <1>18, <1>19, <1>20, <1>21, <1>22, <1>23, <1>24, <1>25, <1>26
     DEF Next, User, Scaling, Reconcile, Fault

\* In every reachable state a copy no write has outdated equals its object, and a
\* Reconcile that no event has disturbed has left behind it what the pool asks for
\* (IInv), whatever users, KEDA, the collector, conflicts and restarts do.
THEOREM PoolInvariance == Spec => []IInv
<1>1. Init => IInv
  <2> SUFFICES ASSUME Init PROVE IInv
    OBVIOUS
  <2>1. ObjectsOK
    BY DEF Init, ObjectsOK
  <2>2. TypeOK
    <3>1. lastUid \in 0..MaxUid /\ tries \in 0..RetrySteps
      BY DEF Init
    <3>2. queue \in BOOLEAN /\ found \in BOOLEAN /\ statusLost \in BOOLEAN /\ taken \in BOOLEAN
      BY DEF Init
    <3> QED BY <2>1, <3>1, <3>2 DEF Init, TypeOK, Labels
  <2>3. CopyInv
    BY DEF Init, CopyInv
  <2>4. ProgressInv
    BY DEF Init, ProgressInv
  <2> QED BY <2>2, <2>3, <2>4 DEF IInv
<1>2. IInv /\ [Next]_vars => IInv'
  BY TypeStep, CopyStep, ProgressStep DEF IInv
<1> QED
  BY <1>1, <1>2, PTL DEF Spec

\* Objects, copies and the attempts of RetryOnConflict keep to their types, for
\* any specs, environments and bounds.
THEOREM PoolTypeCorrect == Spec => []TypeOK
<1>1. IInv => TypeOK
  BY DEF IInv
<1> QED
  BY <1>1, PoolInvariance, PTL

\* An operator that rests has left the Deployment and the ScaledObject as the
\* pool asks, whatever conflicts, stale reads, failures and restarts came before.
THEOREM RestingMeansSettled == Spec => []QuietMeansSettled
<1>1. IInv => QuietMeansSettled
  BY DEF IInv, ProgressInv, Undisturbed, QuietMeansSettled, Quiet
<1> QED
  BY <1>1, PoolInvariance, PTL

\* No step of Reconcile takes back a write of KEDA's or the collector's: a
\* Deployment that exists is only written from a copy that is equal to it.
THEOREM ReplicasAreKedas == Spec => ReplicasLeftToKeda
<1> DEFINE Kept == (dep # Absent /\ pc' # pc) =>
                     dep' # Absent /\ dep'.replicas = dep.replicas /\ dep'.owner = dep.owner
<1>1. IInv /\ [Next]_vars => [Kept]_vars
  <2> SUFFICES ASSUME IInv, Next, dep # Absent, pc' # pc
               PROVE  dep' # Absent /\ dep'.replicas = dep.replicas /\ dep'.owner = dep.owner
    OBVIOUS
  <2>1. CASE UpdateDep
    <3>1. rdep = dep
      BY <2>1 DEF UpdateDep, IInv, CopyInv
    <3>2. dep' = UpdatedDep /\ dep'.replicas = dep.replicas /\ dep'.owner = dep.owner
      BY <2>1, <3>1 DEF UpdateDep, WriteDep, UpdatedDep
    <3>3. rpool \in Pools /\ dep \in Deployments /\ env \in Envs
      BY <2>1 DEF UpdateDep, IInv, TypeOK, ObjectsOK
    <3>4. UpdatedDep \in Deployments
      BY <3>1, <3>3 DEF UpdatedDep, Pools, Deployments
    <3> QED BY <3>2, <3>4
  <2>2. CASE CreateDep
    BY <2>2 DEF CreateDep
  <2>3. CASE UNCHANGED dep
    BY <2>3
  <2> QED
    BY <2>1, <2>2, <2>3 DEF Next, User, Scaling, Reconcile, Fault, CreatePool, EditPool,
       DeletePool, KedaScales, KedaMarks, DeleteScaler, PodsChange, CollectDeployment,
       CollectScaler, operator, cluster, WatchPool, WatchDep, Resync, Begin, Build, GetDep,
       UpdateDepRefused, GetScaler, PutScaler, StatusUnchanged, UpdateStatus, CallFails,
       UpdateStatusFails, Restart
<1> QED
  BY <1>1, PoolInvariance, PTL DEF Spec, ReplicasLeftToKeda
=============================================================================
