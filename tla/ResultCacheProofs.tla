-------------------------- MODULE ResultCacheProofs -------------------------
(***************************************************************************)
(* Proofs about module ResultCache, for any number of simulations, Runners,*)
(* inputs and replaceable refs, and for an engine that may give the same   *)
(* inputs different .err files.                                            *)
(***************************************************************************)
EXTENDS ResultCache, TLAPS

USE EngineAssumption, AttemptsAssumption, SentinelAssumption, NamesAssumption,
    ResultAssumption

\* The verdict of a run is one of the four.
LEMMA ClassifyType == \A err : classify(err) \in Verdicts
BY DEF classify, Verdicts

\* No action leaves the types, given the attempts a queued row has left and
\* what a Runner knows at each point of its run.
LEMMA TypeStep == IInv /\ [Next]_vars => TypeOK'
<1> SUFFICES ASSUME IInv, [Next]_vars PROVE TypeOK'
  OBVIOUS
<1> USE DEF IInv, TypeOK, Hashes, Refs, rowVars
<1>1. ASSUME NEW n \in Names, Upload(n) PROVE TypeOK'
  BY <1>1 DEF Upload
<1>2. ASSUME NEW s \in Sims, Lookup(s) PROVE TypeOK'
  <2> DEFINE Submission == [ref : Refs, digest : Contents \cup {NoDigest}, hit : BOOLEAN]
  <2>1. PICK x \in Submission : sub' = [sub EXCEPT ![s] = x]
    <3>1. ASSUME NEW f \in Refs, NEW d \in Contents \cup {NoDigest}, NEW b \in BOOLEAN
          PROVE  [ref |-> f, digest |-> d, hit |-> b] \in Submission
      OBVIOUS
    <3>2. ASSUME NEW d PROVE (d # NoDigest /\ results[ContentHash(d)] # NoResult) \in BOOLEAN
      OBVIOUS
    <3> HIDE DEF Submission
    <3> QED BY <1>2, <3>1, <3>2 DEF Lookup
  <2>2. sub' \in [Sims -> Submission \cup {None}]
    BY <2>1
  <2> QED BY <1>2, <2>2 DEF Lookup
<1>3. ASSUME NEW s \in Sims, InsertSimulation(s) PROVE TypeOK'
  BY <1>3 DEF InsertSimulation, ContentHash
<1>4. ASSUME NEW s \in Sims, Reap(s) PROVE TypeOK'
  BY <1>4 DEF Reap
<1>5. ASSUME NEW r \in Runners, Work(r) PROVE TypeOK'
  <2>0. job[r] \in Job
    OBVIOUS
  <2> USE DEF Job, Idle
  <2>1. CASE FetchInput(r)
    <3>1. Bytes(ref[job[r].sim]) \in Contents
      BY <2>1 DEF FetchInput, Bytes, JobInv, SubmissionInv
    <3>2. job' \in [Runners -> Job]
      BY <2>0, <2>1, <3>1 DEF FetchInput
    <3> QED BY <2>1, <3>2 DEF FetchInput
  <2>2. CASE backfill_hashes(r)
    <3>1. content_hash' \in [Sims -> Hashes \cup {None}]
      BY <2>2 DEF backfill_hashes, RealHash, ContentHash, JobInv
    <3>2. job' \in [Runners -> Job]
      BY <2>0, <2>2 DEF backfill_hashes
    <3> QED BY <2>2, <3>1, <3>2 DEF backfill_hashes
  <2>3. CASE RunEngine(r)
    <3>1. PICK v \in Verdicts : job' = [job EXCEPT ![r].pc = "upsert", ![r].verdict = v]
      BY <2>3, ClassifyType DEF RunEngine
    <3>2. job' \in [Runners -> Job]
      BY <2>0, <3>1
    <3> QED BY <2>3, <3>2 DEF RunEngine
  <2>4. CASE upsert_result(r)
    <3>1. job[r].verdict \in Verdicts
      BY <2>4, ClassifyType DEF upsert_result, JobInv
    <3>2. PICK u \in BOOLEAN : results' = [results EXCEPT ![RealHash(r)] =
                                 [verdict |-> job[r].verdict, artifacts |-> u]]
      BY <2>4 DEF upsert_result
    <3>3. [verdict |-> job[r].verdict, artifacts |-> u] \in Result
      BY <3>1 DEF Result
    <3>4. results' \in [Hashes -> Result \cup {NoResult}]
      BY <3>2, <3>3
    <3>5. job' \in [Runners -> Job]
      BY <2>0, <2>4 DEF upsert_result
    <3> QED BY <2>4, <3>4, <3>5 DEF upsert_result
  <2>5. CASE finish_simulation(r)
    BY <2>5 DEF finish_simulation, FinishRow
  <2>6. CASE Raise(r)
    BY <2>6 DEF Raise, FinishRow
  <2> QED BY <1>5, <2>1, <2>2, <2>3, <2>4, <2>5, <2>6 DEF Work
<1>6. ASSUME NEW r \in Runners, NEW s \in Sims, Claim(r, s) PROVE TypeOK'
  <2>1. attempts[s] + 1 \in 0..MaxAttempts
    BY <1>6 DEF Claim, SubmissionInv
  <2>2. attempts' \in [Sims -> 0..MaxAttempts]
    BY <1>6, <2>1 DEF Claim
  <2>3. job' \in [Runners -> Job]
    BY <1>6 DEF Claim, Job, Idle
  <2> QED BY <1>6, <2>2, <2>3 DEF Claim
<1>7. CASE UNCHANGED vars
  BY <1>7 DEF vars
<1> QED
  BY <1>1, <1>2, <1>3, <1>4, <1>5, <1>6, <1>7 DEF Next

\* Submissions in flight and attempts left.
LEMMA SubmissionStep == IInv /\ [Next]_vars => SubmissionInv'
<1> SUFFICES ASSUME IInv, [Next]_vars PROVE SubmissionInv'
  OBVIOUS
<1> USE DEF IInv, SubmissionInv, rowVars
<1>1. ASSUME NEW n \in Names, Upload(n) PROVE SubmissionInv'
  BY <1>1 DEF Upload
<1>2. ASSUME NEW s \in Sims, Lookup(s) PROVE SubmissionInv'
  <2> PICK f \in Refs, d \in Contents \cup {NoDigest} :
        sub' = [sub EXCEPT ![s] = [ref |-> f, digest |-> d,
                                   hit |-> d # NoDigest /\ results[ContentHash(d)] # NoResult]]
    BY <1>2 DEF Lookup
  <2> QED BY <1>2 DEF Lookup, TypeOK
<1>3. ASSUME NEW s \in Sims, InsertSimulation(s) PROVE SubmissionInv'
  BY <1>3 DEF InsertSimulation, TypeOK
<1>4. ASSUME NEW s \in Sims, Reap(s) PROVE SubmissionInv'
  BY <1>4 DEF Reap, TypeOK, Retryable
<1>5. ASSUME NEW r \in Runners, Work(r) PROVE SubmissionInv'
  <2>1. CASE FetchInput(r) \/ backfill_hashes(r) \/ RunEngine(r) \/ upsert_result(r)
    BY <2>1 DEF FetchInput, backfill_hashes, RunEngine, upsert_result
  <2>2. CASE finish_simulation(r) \/ Raise(r)
    BY <2>2 DEF finish_simulation, Raise, FinishRow, TypeOK
  <2> QED BY <1>5, <2>1, <2>2 DEF Work
<1>6. ASSUME NEW r \in Runners, NEW s \in Sims, Claim(r, s) PROVE SubmissionInv'
  BY <1>6 DEF Claim, TypeOK
<1>7. CASE UNCHANGED vars
  BY <1>7 DEF vars
<1> QED
  BY <1>1, <1>2, <1>3, <1>4, <1>5, <1>6, <1>7 DEF Next

\* What a Runner knows survives every step of the others, because a row never
\* becomes absent again and never goes back to the placeholder.
LEMMA JobStep == IInv /\ [Next]_vars => JobInv'
<1> SUFFICES ASSUME IInv, [Next]_vars PROVE JobInv'
  OBVIOUS
<1> USE DEF IInv, JobInv, rowVars
<1>1. ASSUME NEW n \in Names, Upload(n) PROVE JobInv'
  BY <1>1 DEF Upload
<1>2. ASSUME NEW s \in Sims, Lookup(s) PROVE JobInv'
  BY <1>2 DEF Lookup
<1>3. ASSUME NEW s \in Sims, InsertSimulation(s) PROVE JobInv'
  BY <1>3 DEF InsertSimulation, SubmissionInv, TypeOK
<1>4. ASSUME NEW s \in Sims, Reap(s) PROVE JobInv'
  BY <1>4 DEF Reap, TypeOK
<1>5. ASSUME NEW r \in Runners, Work(r) PROVE JobInv'
  <2> USE DEF TypeOK
  <2>1. CASE FetchInput(r)
    BY <2>1 DEF FetchInput, Bytes, SubmissionInv, Refs, Job
  <2>2. CASE backfill_hashes(r)
    BY <2>2 DEF backfill_hashes, RealHash, ContentHash, Job
  <2>3. CASE RunEngine(r)
    BY <2>3 DEF RunEngine, Job
  <2>4. CASE upsert_result(r)
    BY <2>4 DEF upsert_result, Job
  <2>5. CASE finish_simulation(r) \/ Raise(r)
    BY <2>5 DEF finish_simulation, Raise, FinishRow, Idle
  <2> QED BY <1>5, <2>1, <2>2, <2>3, <2>4, <2>5 DEF Work
<1>6. ASSUME NEW r \in Runners, NEW s \in Sims, Claim(r, s) PROVE JobInv'
  BY <1>6 DEF Claim, TypeOK, Idle
<1>7. CASE UNCHANGED vars
  BY <1>7 DEF vars
<1> QED
  BY <1>1, <1>2, <1>3, <1>4, <1>5, <1>6, <1>7 DEF Next

\* Only upsert_result writes a result, under the hash of the bytes it ran.
LEMMA ResultStep == IInv /\ [Next]_vars => ResultIsOfItsInputs'
<1> SUFFICES ASSUME IInv, [Next]_vars PROVE ResultIsOfItsInputs'
  OBVIOUS
<1> USE DEF IInv, ResultIsOfItsInputs
<1>1. ASSUME NEW r \in Runners, upsert_result(r) PROVE ResultIsOfItsInputs'
  BY <1>1 DEF upsert_result, RealHash, ContentHash, JobInv, TypeOK
<1>2. CASE UNCHANGED results
  BY <1>2
<1> QED
  BY <1>1, <1>2 DEF Next, vars, Upload, Lookup, InsertSimulation, Reap, Claim, Work,
     FetchInput, backfill_hashes, RunEngine, finish_simulation, Raise

\* A row succeeds by a hit under a real hash or by a Runner that has back-filled
\* one, and no back-fill puts the placeholder back.
LEMMA HashStep == IInv /\ [Next]_vars => SucceededHasRealHash'
<1> SUFFICES ASSUME IInv, [Next]_vars PROVE SucceededHasRealHash'
  OBVIOUS
<1> USE DEF IInv, SucceededHasRealHash, rowVars
<1>1. ASSUME NEW s \in Sims, InsertSimulation(s) PROVE SucceededHasRealHash'
  BY <1>1 DEF InsertSimulation, ContentHash, SubmissionInv, TypeOK
<1>2. ASSUME NEW s \in Sims, Reap(s) PROVE SucceededHasRealHash'
  BY <1>2 DEF Reap, TypeOK
<1>3. ASSUME NEW r \in Runners, NEW s \in Sims, Claim(r, s) PROVE SucceededHasRealHash'
  BY <1>3 DEF Claim, TypeOK
<1>4. ASSUME NEW r \in Runners, backfill_hashes(r) PROVE SucceededHasRealHash'
  BY <1>4 DEF backfill_hashes, RealHash, ContentHash, JobInv, TypeOK
<1>5. ASSUME NEW r \in Runners, finish_simulation(r) \/ Raise(r)
      PROVE  SucceededHasRealHash'
  BY <1>5 DEF finish_simulation, Raise, FinishRow, JobInv, TypeOK
<1>6. CASE UNCHANGED <<state, content_hash>>
  BY <1>6
<1> QED
  BY <1>1, <1>2, <1>3, <1>4, <1>5, <1>6 DEF Next, vars, Upload, Lookup, Work,
     FetchInput, RunEngine, upsert_result

\* A row's input never changes and a content-addressed one is fetched as it is,
\* so that every back-fill of such a row writes the same hash.
LEMMA AddressStep == IInv /\ [Next]_vars => AddressInv'
<1> SUFFICES ASSUME IInv, [Next]_vars PROVE AddressInv'
  OBVIOUS
<1> USE DEF IInv, AddressInv, TypeOK, rowVars
<1>1. ASSUME NEW s \in Sims, Lookup(s) PROVE AddressInv'
  <2> PICK f \in Refs, d \in Contents \cup {NoDigest} :
        /\ (f \in Contents /\ d # NoDigest) => d = f
        /\ sub' = [sub EXCEPT ![s] = [ref |-> f, digest |-> d,
                                   hit |-> d # NoDigest /\ results[ContentHash(d)] # NoResult]]
    BY <1>1 DEF Lookup
  <2> QED BY <1>1 DEF Lookup
<1>2. ASSUME NEW s \in Sims, InsertSimulation(s) PROVE AddressInv'
  BY <1>2 DEF InsertSimulation, ContentHash, SubmissionInv, JobInv
<1>3. ASSUME NEW s \in Sims, Reap(s) PROVE AddressInv'
  BY <1>3 DEF Reap
<1>4. ASSUME NEW r \in Runners, NEW s \in Sims, Claim(r, s) PROVE AddressInv'
  BY <1>4 DEF Claim, Idle
<1>5. ASSUME NEW r \in Runners, Work(r) PROVE AddressInv'
  <2> USE DEF Job, JobInv
  <2>1. CASE FetchInput(r)
    BY <2>1 DEF FetchInput, Bytes
  <2>2. CASE backfill_hashes(r)
    <3>1. job[r].sim \in Sims /\ (ref[job[r].sim] \in Contents => RealHash(r) = ref[job[r].sim])
      BY <2>2 DEF backfill_hashes, RealHash, ContentHash
    <3>2. \A s \in Sims : content_hash'[s] = IF s = job[r].sim THEN RealHash(r) ELSE content_hash[s]
      BY <2>2 DEF backfill_hashes
    <3>3. \A q \in Runners : /\ job'[q].sim = job[q].sim /\ job'[q].bytes = job[q].bytes
                             /\ q # r => job'[q].pc = job[q].pc
      BY <2>2 DEF backfill_hashes
    <3> QED BY <2>2, <3>1, <3>2, <3>3 DEF backfill_hashes
  <2>3. CASE RunEngine(r) \/ upsert_result(r)
    <3>1. \A q \in Runners : /\ job'[q].sim = job[q].sim /\ job'[q].bytes = job[q].bytes
                             /\ q # r => job'[q].pc = job[q].pc
      BY <2>3 DEF RunEngine, upsert_result
    <3>2. job[r].pc \in {"engine", "upsert"}
      BY <2>3 DEF RunEngine, upsert_result
    <3>3. UNCHANGED <<sub, state, ref, content_hash>>
      BY <2>3 DEF RunEngine, upsert_result
    <3> QED BY <3>1, <3>2, <3>3
  <2>4. CASE finish_simulation(r) \/ Raise(r)
    <3>1. \A s \in Sims : state'[s] # "absent" => state[s] # "absent"
      BY <2>4 DEF finish_simulation, Raise, FinishRow
    <3>2. job' = [job EXCEPT ![r] = Idle] /\ UNCHANGED <<sub, ref, content_hash>>
      BY <2>4 DEF finish_simulation, Raise
    <3> QED BY <3>1, <3>2 DEF Idle
  <2> QED BY <1>5, <2>1, <2>2, <2>3, <2>4 DEF Work
<1>6. CASE UNCHANGED <<sub, state, ref, content_hash, job>>
  BY <1>6
<1> QED
  BY <1>1, <1>2, <1>3, <1>4, <1>5, <1>6 DEF Next, vars, Upload

\* Results are overwritten and never removed, and a Runner writes its own before
\* it finishes the row.
LEMMA ShownStep == IInv /\ [Next]_vars => ShownInv'
<1> SUFFICES ASSUME IInv, [Next]_vars PROVE ShownInv'
  OBVIOUS
<1> USE DEF IInv, ShownInv, TypeOK, rowVars
<1>1. ASSUME NEW s \in Sims, Lookup(s) PROVE ShownInv'
  <2> PICK f \in Refs, d \in Contents \cup {NoDigest} :
        sub' = [sub EXCEPT ![s] = [ref |-> f, digest |-> d,
                                   hit |-> d # NoDigest /\ results[ContentHash(d)] # NoResult]]
    BY <1>1 DEF Lookup
  <2> QED BY <1>1 DEF Lookup, ContentHash
<1>2. ASSUME NEW s \in Sims, InsertSimulation(s) PROVE ShownInv'
  BY <1>2 DEF InsertSimulation, ContentHash, SubmissionInv, AddressInv
<1>3. ASSUME NEW s \in Sims, Reap(s) PROVE ShownInv'
  BY <1>3 DEF Reap
<1>4. ASSUME NEW r \in Runners, NEW s \in Sims, Claim(r, s) PROVE ShownInv'
  BY <1>4 DEF Claim, Idle
<1>5. ASSUME NEW r \in Runners, Work(r) PROVE ShownInv'
  <2> USE DEF Job, JobInv
  <2>1. CASE FetchInput(r) \/ backfill_hashes(r) \/ RunEngine(r)
    BY <2>1 DEF FetchInput, backfill_hashes, RunEngine
  <2>2. CASE upsert_result(r)
    <3>1. job[r].verdict \in Verdicts
      BY <2>2, ClassifyType DEF upsert_result
    <3>2. PICK x \in Result : results' = [results EXCEPT ![job[r].bytes] = x]
      BY <2>2, <3>1 DEF upsert_result, RealHash, ContentHash, Result
    <3>3. \A h \in Hashes : results[h] # NoResult \/ h = job[r].bytes => results'[h] # NoResult
      BY <3>2
    <3> QED BY <2>2, <3>3 DEF upsert_result, Hashes, SubmissionInv
  <2>3. CASE finish_simulation(r)
    BY <2>3 DEF finish_simulation, FinishRow, Idle, AddressInv
  <2>4. CASE Raise(r)
    BY <2>4 DEF Raise, FinishRow, Idle
  <2> QED BY <1>5, <2>1, <2>2, <2>3, <2>4 DEF Work
<1>6. CASE UNCHANGED <<sub, rowVars, results, job>>
  BY <1>6
<1> QED
  BY <1>1, <1>2, <1>3, <1>4, <1>5, <1>6 DEF Next, vars, Upload

\* What a submission, a Runner at each point of process_simulation and a succeeded
\* row rely on (IInv) holds in every reachable state, although Runners that have
\* lost their row go on writing.
THEOREM CacheInvariance == Spec => []IInv
<1>1. Init => IInv
  BY DEF Init, IInv, TypeOK, SubmissionInv, JobInv, ResultIsOfItsInputs,
     SucceededHasRealHash, AddressInv, ShownInv, Job, Idle, Hashes
<1>2. IInv /\ [Next]_vars => IInv'
  BY TypeStep, SubmissionStep, JobStep, ResultStep, HashStep, AddressStep, ShownStep DEF IInv
<1> QED
  BY <1>1, <1>2, PTL DEF Spec

\* QA C-1 for every value of the constants: the result under a hash was
\* computed from the inputs with that hash, never from an upload that replaced
\* them and never under the placeholder.
THEOREM ResultsAreOfTheirInputs == Spec => []ResultIsOfItsInputs
<1>1. IInv => ResultIsOfItsInputs
  BY DEF IInv
<1> QED
  BY <1>1, CacheInvariance, PTL

\* No succeeded row is left with the placeholder hash.
THEOREM SucceededRowsHaveRealHashes == Spec => []SucceededHasRealHash
<1>1. IInv => SucceededHasRealHash
  BY DEF IInv
<1> QED
  BY <1>1, CacheInvariance, PTL

\* A succeeded row with a content-addressed input has a result to show, and a
\* successful one if it was run and the engine always says the same of it.
THEOREM SucceededRowsHaveResults == Spec => []SucceededHasResult
<1>1. IInv => SucceededHasResult
  <2> SUFFICES ASSUME IInv, NEW s \in Sims, state[s] = "succeeded", ref[s] \in Contents
               PROVE  /\ results[content_hash[s]] # NoResult
                      /\ (attempts[s] > 0 /\ \A e, f \in ErrOf[ref[s]] : e = f) =>
                           results[content_hash[s]].verdict \in Good
    BY DEF SucceededHasResult
  <2>1. content_hash[s] = ref[s]
    BY DEF IInv, SucceededHasRealHash, AddressInv
  <2>2. results[ref[s]] # NoResult
    BY DEF IInv, ShownInv
  <2>3. PICK e \in ErrOf[ref[s]] : results[ref[s]].verdict = classify(e)
    BY <2>2 DEF IInv, ResultIsOfItsInputs, Hashes
  <2>4. attempts[s] > 0 => \E f \in ErrOf[ref[s]] : classify(f) \in Good
    BY DEF IInv, ShownInv
  <2> QED BY <2>1, <2>2, <2>3, <2>4
<1> QED
  BY <1>1, CacheInvariance, PTL

\* Type correctness of the pipeline, with attempts within max_attempts.
THEOREM CacheTypeCorrect == Spec => []TypeOK
<1>1. IInv => TypeOK
  BY DEF IInv
<1> QED
  BY <1>1, CacheInvariance, PTL
=============================================================================
