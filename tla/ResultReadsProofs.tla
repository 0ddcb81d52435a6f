-------------------------- MODULE ResultReadsProofs -------------------------
(***************************************************************************)
(* Proofs about module ResultReads, for any number of rows, Runners, users,*)
(* keys, files and attempts.  The rows, the Runners and the results keep   *)
(* an invariant of their own (RunInv) whatever clients do; of it a request *)
(* and a client only use that settled rows, refs and whole sets of files   *)
(* stay (Stable).                                                          *)
(***************************************************************************)
EXTENDS ResultReads, TLAPS

USE OwnerAssumption, RunAssumption, NoneAssumption, SentinelAssumption

RunInv == RunTypes /\ RowInv /\ JobInv /\ ResultInv

\* What no step takes back.
Stable ==
  /\ \A s \in Sims :
       /\ state[s] \in Terminal => state'[s] = state[s]
       /\ state[s] # "absent" => state'[s] # "absent" /\ ref'[s] = ref[s]
  /\ \A c \in Contents : objects[c] = Files => objects'[c] = Files

ClientInv == /\ CallInv /\ ReadInv /\ GivenInv /\ SucceededShowsResult /\ WaitedStaysTrue
             /\ DownloadIsWhole /\ OnlyOwnersAreServed

-----------------------------------------------------------------------------
(* The rows, the Runners and the results. *)

\* A new row has a hash, and a result if it is born succeeded.
LEMMA InsertStep ==
  ASSUME RunInv, NEW s \in Sims, InsertSimulation(s) PROVE RunInv' /\ Stable
<1> USE DEF RunInv, RunTypes
<1> PICK f \in Contents \cup {Named}, h \in Hashes, t \in {"queued", "succeeded"} :
      /\ (f # Named /\ h # NoDigest) => h = f
      /\ t = "succeeded" => h # NoDigest /\ results[h] # NoResult
      /\ ref'          = [ref EXCEPT ![s] = f]
      /\ state'        = [state EXCEPT ![s] = t]
      /\ content_hash' = [content_hash EXCEPT ![s] = h]
  BY DEF InsertSimulation
<1> USE DEF InsertSimulation
<1>1. RunTypes'
  BY DEF Terminal
<1>2. RowInv'
  BY DEF RowInv, Addressed
<1>3. JobInv'
  BY DEF JobInv, Addressed
<1>4. ResultInv'
  BY DEF ResultInv
<1>5. Stable
  BY DEF Stable, Terminal
<1> QED BY <1>1, <1>2, <1>3, <1>4, <1>5

\* The Reaper settles or requeues a running row.
LEMMA ReapStep ==
  ASSUME RunInv, NEW s \in Sims, Reap(s) PROVE RunInv' /\ Stable
<1> USE DEF RunInv, RunTypes, Reap, Retryable
<1>1. RunTypes'
  BY DEF Terminal
<1>2. RowInv'
  BY DEF RowInv, Addressed
<1>3. JobInv'
  BY DEF JobInv, Addressed
<1>4. ResultInv'
  BY DEF ResultInv
<1>5. Stable
  BY DEF Stable, Terminal
<1> QED BY <1>1, <1>2, <1>3, <1>4, <1>5

\* A claim takes a queued row, which has an attempt left.
LEMMA ClaimStep ==
  ASSUME RunInv, NEW r \in Runners, NEW s \in Sims, Claim(r, s) PROVE RunInv' /\ Stable
<1> USE DEF RunInv, RunTypes, Claim
<1>1. RunTypes'
  <2>1. attempts' \in [Sims -> 0..MaxAttempts]
    BY DEF RowInv
  <2>2. job'[r] \in Job
    BY DEF IdleJob, Job
  <2> QED BY <2>1, <2>2
<1>2. RowInv'
  BY DEF RowInv, Addressed
<1>3. JobInv'
  BY DEF JobInv, IdleJob, Addressed
<1>4. ResultInv'
  BY DEF ResultInv
<1>5. Stable
  BY DEF Stable, Terminal
<1> QED BY <1>1, <1>2, <1>3, <1>4, <1>5

\* The back-fill gives the row the hash of the bytes that were fetched, whoever
\* owns the row by now; of an addressed input that is the one hash it can have.
LEMMA BackfillStep ==
  ASSUME RunInv, NEW r \in Runners, backfill_hashes(r) PROVE RunInv' /\ Stable
<1> USE DEF RunInv, RunTypes
<1> PICK c \in Fetched(job[r].sim), v \in Verdicts :
      /\ content_hash' = [content_hash EXCEPT ![job[r].sim] = c]
      /\ job' = [job EXCEPT ![r] = [@ EXCEPT !.pc = "upload", !.hash = c, !.left = Files,
                                             !.verdict = v]]
  BY DEF backfill_hashes
<1>0. c \in Contents /\ (Addressed(job[r].sim) => c = ref[job[r].sim])
  BY DEF Fetched, Addressed
<1> USE <1>0 DEF backfill_hashes
<1>1. RunTypes'
  <2>1. /\ job[r] \in Job
        /\ job'[r] = [job[r] EXCEPT !.pc = "upload", !.hash = c, !.left = Files, !.verdict = v]
    OBVIOUS
  <2>2. job'[r] \in Job
    BY <2>1 DEF Job
  <2> QED BY <2>2 DEF Hashes
<1>2. RowInv'
  BY DEF RowInv, Hashes, Addressed
<1>3. JobInv'
  BY DEF JobInv, Addressed
<1>4. ResultInv'
  BY DEF ResultInv
<1>5. Stable
  BY DEF Stable
<1> QED BY <1>1, <1>2, <1>3, <1>4, <1>5

\* The walk has stored every file it is past; only a walk that reaches its end
\* says so.
LEMMA UploadStep ==
  ASSUME RunInv, NEW r \in Runners, upload_dir(r) PROVE RunInv' /\ Stable
<1> USE DEF RunInv, RunTypes
<1> PICK f \in job[r].left, stored \in BOOLEAN, failed \in BOOLEAN :
      /\ ~failed => stored
      /\ objects' = IF stored THEN [objects EXCEPT ![job[r].hash] = @ \cup {f}] ELSE objects
      /\ job' = [job EXCEPT ![r] =
           [@ EXCEPT !.left = IF failed THEN {} ELSE job[r].left \ {f},
                     !.uploaded = Uploaded(job[r].left \ {f}, failed),
                     !.pc = IF failed \/ job[r].left \ {f} = {} THEN "upsert" ELSE "upload"]]
  BY DEF upload_dir
<1>0. f \in Files /\ job[r].hash \in Contents
  BY DEF Job, JobInv, upload_dir
<1> USE <1>0 DEF upload_dir, Uploaded
<1>1. RunTypes'
  <2>1. objects' \in [Hashes -> SUBSET Files]
    BY DEF Hashes
  <2>2. job'[r] \in Job
    <3>1. job[r] \in Job /\ job[r].left \subseteq Files
      BY DEF Job
    <3>2. Uploaded(job[r].left \ {f}, failed) \in BOOLEAN
      OBVIOUS
    <3> HIDE DEF Uploaded
    <3> QED BY <3>1, <3>2 DEF Job
  <2> QED BY <2>1, <2>2 DEF rowVars
<1>2. RowInv'
  BY DEF RowInv, rowVars, Addressed
<1>3. JobInv'
  BY DEF JobInv, Job, rowVars, Hashes, Addressed
<1>4. ResultInv'
  BY DEF ResultInv, Hashes
<1>5. Stable
  BY DEF Stable, rowVars, Hashes
<1> QED BY <1>1, <1>2, <1>3, <1>4, <1>5

\* A result is overwritten, never removed; its URI is one of a whole upload.
LEMMA UpsertStep ==
  ASSUME RunInv, NEW r \in Runners, upsert_result(r) PROVE RunInv' /\ Stable
<1> USE DEF RunInv, RunTypes, upsert_result
<1>0. PICK x \in Result : /\ results' = [results EXCEPT ![job[r].hash] = x]
                          /\ job[r].hash \in Contents
                          /\ x.uri # None => job[r].uploaded /\ x.uri = job[r].hash
  <2>1. job[r].hash \in Contents
    BY DEF JobInv
  <2>2. [verdict |-> job[r].verdict, uri |-> IF job[r].uploaded THEN job[r].hash ELSE None]
          \in Result
    BY <2>1 DEF JobInv, Result
  <2> QED BY <2>1, <2>2
<1>1. RunTypes'
  <2>1. job[r] \in Job /\ job'[r] = [job[r] EXCEPT !.pc = "finish"]
    OBVIOUS
  <2>2. job'[r] =
          [pc |-> "finish", sim |-> job[r].sim, hash |-> job[r].hash, left |-> job[r].left,
           uploaded |-> job[r].uploaded, verdict |-> job[r].verdict]
    BY <2>1 DEF Job
  <2>3. job'[r] \in Job
    BY <2>1, <2>2 DEF Job
  <2> QED BY <1>0, <2>3 DEF rowVars, Hashes
<1>2. RowInv'
  BY <1>0 DEF RowInv, rowVars, Hashes, Addressed
<1>3. JobInv'
  BY <1>0 DEF JobInv, Job, rowVars, Hashes, Addressed
<1>4. ResultInv'
  BY <1>0 DEF ResultInv, JobInv, Hashes
<1>5. Stable
  BY <1>0 DEF Stable, rowVars, Hashes
<1> QED BY <1>1, <1>2, <1>3, <1>4, <1>5

\* Only the Runner a running row names settles it, after its result is there.
LEMMA FinishStep ==
  ASSUME RunInv, NEW r \in Runners, finish_simulation(r) \/ Raise(r) PROVE RunInv' /\ Stable
<1> USE DEF RunInv, RunTypes
<1>1. ASSUME NEW s \in Sims
      PROVE  \/ state'[s] = state[s]
             \/ /\ state[s] = "running" /\ job[r].sim = s /\ state'[s] \in Terminal
                /\ state'[s] = "succeeded" => job[r].pc = "finish"
  BY DEF finish_simulation, Raise, Fence, Terminal
<1>2. job' = [job EXCEPT ![r] = IdleJob] /\ state' \in [Sims -> {"absent", "queued", "running"} \cup Terminal]
  BY DEF finish_simulation, Raise, Terminal
<1>3. UNCHANGED <<key, ref, content_hash, runner_id, attempts, results, objects>>
  BY DEF finish_simulation, Raise
<1>4. RunTypes'
  BY <1>2, <1>3 DEF IdleJob, Job
<1>5. RowInv'
  BY <1>1, <1>3 DEF RowInv, JobInv, Terminal, Addressed
<1>6. JobInv'
  BY <1>1, <1>2, <1>3 DEF JobInv, IdleJob, Terminal, Addressed
<1>7. ResultInv'
  BY <1>3 DEF ResultInv
<1>8. Stable
  BY <1>1, <1>3 DEF Stable, Terminal
<1> QED BY <1>4, <1>5, <1>6, <1>7, <1>8

\* The invariant of rows, Runners and results, and what is never taken back.
LEMMA RunStep == IInv /\ [Next]_vars => RunInv' /\ Stable
<1> SUFFICES ASSUME IInv, [Next]_vars PROVE RunInv' /\ Stable
  OBVIOUS
<1>0. RunInv
  BY DEF IInv, TypeOK, RunInv
<1>1. ASSUME NEW k \in Keys, createApiKey(k) \/ revokeApiKey(k) PROVE RunInv' /\ Stable
  BY <1>0, <1>1 DEF createApiKey, revokeApiKey, runVars, rowVars, RunInv, RunTypes, RowInv, JobInv,
     ResultInv, Stable, Addressed
<1>2. CASE UNCHANGED <<key, runVars>>
  BY <1>0, <1>2 DEF runVars, rowVars, RunInv, RunTypes, RowInv, JobInv, ResultInv, Stable,
     Addressed
<1>3. Serve \/ Sdk \/ UNCHANGED vars => UNCHANGED <<key, runVars>>
  BY DEF Serve, authMiddleware, GetSimulation, GetResult, List, Sdk, Connect, Wait, Polled,
     DownloadResults, GotResults, GotArtifacts, Fetch, Returned, Close, vars
<1> QED
  BY <1>0, <1>1, <1>2, <1>3, InsertStep, ReapStep, ClaimStep, BackfillStep, UploadStep, UpsertStep,
     FinishStep DEF Next, Work

-----------------------------------------------------------------------------
(* Requests and the client. *)

\* What a client was told outlives every step of the others.
LEMMA OthersStep ==
  ASSUME IInv, Stable, UNCHANGED <<req, sdk>>,
         \A k \in Keys : /\ key'[k] = "absent" => key[k] = "absent"
                         /\ key'[k] = "live" => key[k] \in {"absent", "live"}
  PROVE  ClientInv'
<1>0. /\ req \in Request /\ sdk \in Client
      /\ sdk.pc # "idle" => sdk.sim \in Sims
      /\ req.pc # "none" => sdk.pc # "idle"
      /\ sdk.pc = "idle" => sdk = IdleSdk
  BY DEF IInv, TypeOK, CallInv, GivenInv
<1>1. Own => Own' /\ ref'[sdk.sim] = ref[sdk.sim]
  <2>1. CASE sdk.pc = "idle"
    BY <1>0, <2>1 DEF Own, IdleSdk
  <2>2. CASE sdk.pc # "idle"
    BY <1>0, <2>2 DEF Own, Stable
  <2> QED BY <2>1, <2>2
<1>2. sdk.key # None => sdk.key \in Keys
  BY <1>0 DEF Client
<1>3. /\ req.state # None => req.state \in {"queued", "running"} \cup Terminal
      /\ sdk.uri # None => sdk.uri \in Contents
      /\ req.res # NoResult => req.res \in Result
  BY <1>0 DEF Request, Client
<1>4. (req.state \in Terminal \/ sdk.told # None) => /\ state'[sdk.sim] = state[sdk.sim]
                                                    /\ ref'[sdk.sim] = ref[sdk.sim]
  <2>1. req.state \in Terminal => req.state # None
    BY DEF Terminal
  <2>2. (req.state \in Terminal \/ sdk.told # None) => sdk.sim \in Sims
    BY <1>0, <2>1 DEF IInv, ReadInv, IdleSdk
  <2>3. (req.state \in Terminal \/ sdk.told # None) => state[sdk.sim] \in Terminal
    BY <1>0 DEF IInv, ReadInv, WaitedStaysTrue, Client
  <2> QED BY <2>2, <2>3 DEF Stable, Terminal
<1> USE DEF IInv
<1>5. CallInv'
  BY <1>1, <1>2 DEF CallInv
<1>6. ReadInv'
  <2>1. req.pc \in {"result", "list"} => Own
    BY DEF CallInv
  <2>2. (req.res # NoResult /\ req.res.uri # None) => req.res.uri \in Contents
    BY <1>3 DEF Result
  <2> QED BY <1>1, <1>3, <1>4, <2>1, <2>2 DEF ReadInv, Stable, Addressed
<1>7. GivenInv'
  BY <1>1, <1>3 DEF GivenInv, Stable, Addressed
<1>8. SucceededShowsResult'
  BY <1>4 DEF SucceededShowsResult, Addressed, Terminal
<1>9. WaitedStaysTrue'
  BY <1>4 DEF WaitedStaysTrue, Addressed
<1>10. DownloadIsWhole'
  BY <1>1 DEF DownloadIsWhole, GivenInv, Addressed
<1>11. OnlyOwnersAreServed'
  BY DEF OnlyOwnersAreServed
<1> QED BY <1>5, <1>6, <1>7, <1>8, <1>9, <1>10, <1>11 DEF ClientInv

\* A request that goes on with what it has found is one.
LEMMA RequestGoesOn ==
  ASSUME NEW q \in Request, NEW p
  PROVE  /\ \A u \in Users : p = [q EXCEPT !.pc = "row", !.user = u] => p \in Request
         /\ \A t \in {"queued", "running"} \cup Terminal, h \in Hashes :
              p = [q EXCEPT !.pc = "result", !.state = t, !.hash = h] => p \in Request
         /\ \A x \in Result : p = [q EXCEPT !.pc = "list", !.res = x] => p \in Request
<1>1. ASSUME NEW u \in Users, p = [q EXCEPT !.pc = "row", !.user = u] PROVE p \in Request
  <2>1. p = [pc |-> "row", op |-> q.op, live |-> q.live, user |-> u, state |-> q.state,
             hash |-> q.hash, res |-> q.res, err |-> q.err, files |-> q.files,
             status |-> q.status]
    BY <1>1 DEF Request
  <2> QED BY <2>1 DEF Request
<1>2. ASSUME NEW t \in {"queued", "running"} \cup Terminal, NEW h \in Hashes,
             p = [q EXCEPT !.pc = "result", !.state = t, !.hash = h]
      PROVE  p \in Request
  <2>1. p = [pc |-> "result", op |-> q.op, live |-> q.live, user |-> q.user, state |-> t,
             hash |-> h, res |-> q.res, err |-> q.err, files |-> q.files,
             status |-> q.status]
    BY <1>2 DEF Request
  <2> QED BY <2>1 DEF Request
<1>3. ASSUME NEW x \in Result, p = [q EXCEPT !.pc = "list", !.res = x] PROVE p \in Request
  <2>1. p = [pc |-> "list", op |-> q.op, live |-> q.live, user |-> q.user, state |-> q.state,
             hash |-> q.hash, res |-> x, err |-> q.err, files |-> q.files, status |-> q.status]
    BY <1>3 DEF Request
  <2> QED BY <2>1 DEF Request
<1> QED BY <1>1, <1>2, <1>3, Zenon

\* An answer without content is one.
LEMMA RefusedStep ==
  ASSUME IInv, NEW st \in {401, 404, 500, 503}, req' = Answer(st),
         req.pc \in {"auth", "row", "result", "list"},
         req.op = "simulation" => req.pc \in {"auth", "row"},
         st = 404 => sdk.told # "succeeded" \/ ~Addressed(sdk.sim),
         UNCHANGED <<key, runVars, sdk>>
  PROVE  req' \in Request /\ ClientInv'
<1>0. req \in Request
  BY DEF IInv, TypeOK
<1>1. req' =
            [pc |-> "answered", op |-> req.op, live |-> req.live, user |-> None, state |-> req.state,
             hash |-> None, res |-> req.res, err |-> req.err, files |-> req.files, status |-> st]
  BY <1>0 DEF Request, Answer
<1>2. req' \in Request
  BY <1>0, <1>1 DEF Request
<1> USE DEF IInv, runVars, rowVars, Addressed
<1>3. CallInv'
  BY <1>1 DEF CallInv, Own
<1>4. ReadInv'
  BY <1>1 DEF ReadInv, Own
<1>5. GivenInv'
  BY DEF GivenInv, Own
<1>6. SucceededShowsResult'
  BY <1>1 DEF SucceededShowsResult, ReadInv, Terminal
<1>7. WaitedStaysTrue'
  BY <1>1 DEF WaitedStaysTrue
<1>8. DownloadIsWhole'
  BY <1>1 DEF DownloadIsWhole
<1>9. OnlyOwnersAreServed'
  BY <1>1 DEF OnlyOwnersAreServed
<1> QED BY <1>2, <1>3, <1>4, <1>5, <1>6, <1>7, <1>8, <1>9 DEF ClientInv

\* A request whose key is live goes on as the key's owner.
LEMMA AdmittedStep ==
  ASSUME IInv, req.pc = "auth", sdk.key # None, key[sdk.key] = "live",
         req' = [req EXCEPT !.pc = "row", !.user = KeyOwner[sdk.key]],
         UNCHANGED <<key, runVars, sdk>>
  PROVE  req' \in Request /\ ClientInv'
<1>0. req \in Request /\ KeyOwner[sdk.key] \in Users
  BY DEF IInv, TypeOK, Client
<1>1. req' =
            [pc |-> "row", op |-> req.op, live |-> req.live, user |-> KeyOwner[sdk.key], state |-> req.state,
             hash |-> req.hash, res |-> req.res, err |-> req.err, files |-> req.files, status |-> req.status]
  BY <1>0 DEF Request
<1>2. req' \in Request
  BY <1>0, RequestGoesOn, Zenon
<1> USE DEF IInv, runVars, rowVars, Addressed
<1>3. CallInv'
  BY <1>1 DEF CallInv, Own
<1>4. ReadInv'
  BY <1>1 DEF ReadInv, Own
<1>5. GivenInv'
  BY DEF GivenInv, Own
<1>6. SucceededShowsResult' /\ WaitedStaysTrue' /\ DownloadIsWhole'
  BY <1>1 DEF SucceededShowsResult, WaitedStaysTrue, DownloadIsWhole
<1>7. OnlyOwnersAreServed'
  BY <1>1 DEF OnlyOwnersAreServed
<1> QED BY <1>2, <1>3, <1>4, <1>5, <1>6, <1>7 DEF ClientInv

\* The owner's row is read; a settled one stays as it was read.
LEMMA RowReadStep ==
  ASSUME IInv, req.pc = "row", Visible(sdk.sim),
         req' = [req EXCEPT !.pc = "result", !.state = state[sdk.sim],
                            !.hash = content_hash[sdk.sim]],
         UNCHANGED <<key, runVars, sdk>>
  PROVE  req' \in Request /\ ClientInv'
<1>0. /\ req \in Request /\ sdk.sim \in Sims
      /\ state[sdk.sim] \in {"queued", "running"} \cup Terminal
      /\ content_hash[sdk.sim] \in Hashes
  <2>1. req \in Request /\ sdk.sim \in Sims
    BY DEF IInv, TypeOK, CallInv
  <2> QED BY <2>1 DEF IInv, TypeOK, RunTypes, RowInv, Visible
<1>1. req' =
            [pc |-> "result", op |-> req.op, live |-> req.live, user |-> req.user, state |-> state[sdk.sim],
             hash |-> content_hash[sdk.sim], res |-> req.res, err |-> req.err, files |-> req.files, status |-> req.status]
  BY <1>0 DEF Request
<1>2. req' \in Request
  BY <1>0, RequestGoesOn, Zenon
<1> USE DEF IInv, runVars, rowVars, Addressed
<1>3. CallInv'
  BY <1>1 DEF CallInv, Own, Visible
<1>4. ReadInv'
  BY <1>0, <1>1 DEF ReadInv, Own, RowInv, CallInv, Visible, WaitedStaysTrue, Terminal
<1>5. GivenInv'
  BY DEF GivenInv, Own
<1>6. SucceededShowsResult' /\ WaitedStaysTrue' /\ DownloadIsWhole'
  BY <1>1 DEF SucceededShowsResult, WaitedStaysTrue, DownloadIsWhole
<1>7. OnlyOwnersAreServed'
  BY <1>1 DEF OnlyOwnersAreServed
<1> QED BY <1>2, <1>3, <1>4, <1>5, <1>6, <1>7 DEF ClientInv

\* The result that is looked up under the hash a request has read.
LEMMA LookedUp ==
  ASSUME IInv, req.pc = "result"
  PROVE  /\ req \in Request /\ results[req.hash] \in Result \cup {NoResult}
         /\ (results[req.hash] # NoResult /\ results[req.hash].uri # None) =>
              /\ results[req.hash].uri = req.hash /\ objects[req.hash] = Files
              /\ Addressed(sdk.sim) => req.hash = ref[sdk.sim]
         /\ results[req.hash] # NoResult => req.hash \in Contents /\ Own
         /\ (req.state = "succeeded" /\ Addressed(sdk.sim)) => results[req.hash] # NoResult
<1>1. req \in Request /\ req.hash \in Hashes /\ sdk.sim \in Sims /\ Own
  BY DEF IInv, TypeOK, ReadInv, CallInv
<1>2. results[req.hash] \in Result \cup {NoResult}
  BY <1>1 DEF IInv, TypeOK, RunTypes
<1> QED
  BY <1>1, <1>2 DEF IInv, ResultInv, ReadInv, RowInv, Hashes, Terminal

\* GET simulations answers with what it found, or without when it failed.
LEMMA SimulationAnswered ==
  ASSUME IInv, req.pc = "result", req.op = "simulation", handleGetSimulation(results[req.hash]),
         UNCHANGED <<key, runVars, sdk>>
  PROVE  req' \in Request /\ ClientInv'
<1>0. req \in Request
  BY DEF IInv, TypeOK
<1>1. \E x \in {results[req.hash], req.res}, e \in BOOLEAN :
        /\ x = results[req.hash] \/ e
        /\ req' =
            [pc |-> "answered", op |-> req.op, live |-> req.live, user |-> None, state |-> req.state,
             hash |-> None, res |-> x, err |-> e, files |-> req.files, status |-> 200]
  <2>1. CASE req' = [Answer(200) EXCEPT !.res = results[req.hash]]
    <3>1. req' =
            [pc |-> "answered", op |-> req.op, live |-> req.live, user |-> None, state |-> req.state,
             hash |-> None, res |-> results[req.hash], err |-> req.err, files |-> req.files, status |-> 200]
      BY <1>0, <2>1 DEF Request, Answer
    <3>2. req.err \in BOOLEAN
      BY <1>0 DEF Request
    <3> QED BY <3>1, <3>2
  <2>2. CASE req' = [Answer(200) EXCEPT !.err = TRUE]
    <3>1. req' =
            [pc |-> "answered", op |-> req.op, live |-> req.live, user |-> None, state |-> req.state,
             hash |-> None, res |-> req.res, err |-> TRUE, files |-> req.files, status |-> 200]
      BY <1>0, <2>2 DEF Request, Answer
    <3> QED BY <3>1
  <2> QED BY <2>1, <2>2 DEF handleGetSimulation
<1>2. req' \in Request
  BY <1>0, <1>1, LookedUp DEF Request
<1> USE DEF IInv, runVars, rowVars, Addressed
<1>3. CallInv'
  BY <1>1 DEF CallInv, Own
<1>4. ReadInv'
  BY <1>1, LookedUp DEF ReadInv, Own
<1>5. GivenInv'
  BY DEF GivenInv, Own
<1>6. SucceededShowsResult'
  BY <1>1, LookedUp DEF SucceededShowsResult
<1>7. WaitedStaysTrue' /\ DownloadIsWhole'
  BY <1>1 DEF WaitedStaysTrue, DownloadIsWhole
<1>8. OnlyOwnersAreServed'
  BY <1>1 DEF OnlyOwnersAreServed, CallInv, Own
<1> QED BY <1>2, <1>3, <1>4, <1>5, <1>6, <1>7, <1>8 DEF ClientInv

\* GET results answers with a result it has found.
LEMMA ResultAnswered ==
  ASSUME IInv, req.pc = "result", req.op = "results", results[req.hash] # NoResult,
         req' = [Answer(200) EXCEPT !.res = results[req.hash]],
         UNCHANGED <<key, runVars, sdk>>
  PROVE  req' \in Request /\ ClientInv'
<1>0. req \in Request /\ results[req.hash] \in Result
  BY LookedUp
<1>1. req' =
            [pc |-> "answered", op |-> req.op, live |-> req.live, user |-> None, state |-> req.state,
             hash |-> None, res |-> results[req.hash], err |-> req.err, files |-> req.files, status |-> 200]
  BY <1>0 DEF Request, Answer
<1>2. req' \in Request
  BY <1>0, <1>1 DEF Request
<1> USE DEF IInv, runVars, rowVars, Addressed
<1>3. CallInv'
  BY <1>1 DEF CallInv, Own
<1>4. ReadInv'
  BY <1>1, LookedUp DEF ReadInv, Own
<1>5. GivenInv'
  BY DEF GivenInv, Own
<1>6. SucceededShowsResult' /\ WaitedStaysTrue' /\ DownloadIsWhole'
  BY <1>1 DEF SucceededShowsResult, WaitedStaysTrue, DownloadIsWhole
<1>7. OnlyOwnersAreServed'
  BY <1>1 DEF OnlyOwnersAreServed, CallInv, Own
<1> QED BY <1>2, <1>3, <1>4, <1>5, <1>6, <1>7 DEF ClientInv

\* The listing of artifacts has found the result.
LEMMA ListingBegins ==
  ASSUME IInv, req.pc = "result", req.op = "artifacts", results[req.hash] # NoResult,
         req' = [req EXCEPT !.pc = "list", !.res = results[req.hash]],
         UNCHANGED <<key, runVars, sdk>>
  PROVE  req' \in Request /\ ClientInv'
<1>0. req \in Request /\ results[req.hash] \in Result /\ req.hash \in Contents
  BY LookedUp
<1>1. req' =
            [pc |-> "list", op |-> req.op, live |-> req.live, user |-> req.user, state |-> req.state,
             hash |-> req.hash, res |-> results[req.hash], err |-> req.err, files |-> req.files, status |-> req.status]
  BY <1>0 DEF Request
<1>2. req' \in Request
  BY <1>0, RequestGoesOn, Zenon
<1> USE DEF IInv, runVars, rowVars, Addressed
<1>3. CallInv'
  BY <1>1 DEF CallInv, Own
<1>4. ReadInv'
  BY <1>0, <1>1, LookedUp DEF ReadInv, Own
<1>5. GivenInv'
  BY DEF GivenInv, Own
<1>6. SucceededShowsResult' /\ WaitedStaysTrue' /\ DownloadIsWhole'
  BY <1>1 DEF SucceededShowsResult, WaitedStaysTrue, DownloadIsWhole
<1>7. OnlyOwnersAreServed'
  BY <1>1 DEF OnlyOwnersAreServed
<1> QED BY <1>2, <1>3, <1>4, <1>5, <1>6, <1>7 DEF ClientInv

\* It lists the prefix the files are under, whether or not the URI is there.
LEMMA Listed ==
  ASSUME IInv, req.pc = "list",
         req' = [Answer(200) EXCEPT !.files = objects[resultPrefix(req.res, req.hash)]],
         UNCHANGED <<key, runVars, sdk>>
  PROVE  req' \in Request /\ ClientInv'
<1> DEFINE prefix == resultPrefix(req.res, req.hash)
<1>0. /\ req \in Request /\ prefix \in Contents /\ objects[prefix] \in SUBSET Files
      /\ prefix = req.hash \/ objects[prefix] = Files
      /\ Addressed(sdk.sim) => prefix = ref[sdk.sim]
  <2>1. /\ req \in Request /\ req.hash \in Contents /\ req.res \in Result
        /\ Addressed(sdk.sim) => req.hash = ref[sdk.sim]
    BY DEF IInv, TypeOK, ReadInv, Request
  <2>2. /\ prefix \in Contents
        /\ prefix = req.hash \/ (objects[prefix] = Files /\ prefix = req.res.uri /\ req.res.uri # None)
    BY <2>1 DEF IInv, ReadInv, Result, resultPrefix
  <2> QED BY <2>1, <2>2 DEF IInv, TypeOK, RunTypes, Hashes, ReadInv
<1> HIDE DEF prefix
<1>1. req' =
            [pc |-> "answered", op |-> req.op, live |-> req.live, user |-> None, state |-> req.state,
             hash |-> None, res |-> req.res, err |-> req.err, files |-> objects[prefix], status |-> 200]
  BY <1>0 DEF Request, Answer, prefix
<1>2. req' \in Request
  BY <1>0, <1>1 DEF Request
<1> USE DEF IInv, runVars, rowVars, Addressed
<1>3. CallInv'
  BY <1>1 DEF CallInv, Own
<1>4. ReadInv'
  BY <1>1 DEF ReadInv, Own
<1>5. GivenInv'
  BY DEF GivenInv, Own
<1>6. SucceededShowsResult' /\ WaitedStaysTrue'
  BY <1>1 DEF SucceededShowsResult, WaitedStaysTrue, ReadInv
<1>7. DownloadIsWhole'
  BY <1>0, <1>1 DEF DownloadIsWhole, GivenInv
<1>8. OnlyOwnersAreServed'
  BY <1>1 DEF OnlyOwnersAreServed, CallInv, Own
<1> QED BY <1>2, <1>3, <1>4, <1>5, <1>6, <1>7, <1>8 DEF ClientInv

\* Every statement of a handler keeps what the client may rely on.
LEMMA ServeStep == IInv /\ Serve => req' \in Request /\ ClientInv'
<1> SUFFICES ASSUME IInv, Serve PROVE req' \in Request /\ ClientInv'
  OBVIOUS
<1>1. CASE authMiddleware
  <2>1. req.pc = "auth" /\ UNCHANGED <<key, runVars, sdk>>
    BY <1>1 DEF authMiddleware
  <2>2. \/ \E st \in {401, 500, 503} : req' = Answer(st)
        \/ /\ sdk.key # None /\ key[sdk.key] = "live"
           /\ req' = [req EXCEPT !.pc = "row", !.user = KeyOwner[sdk.key]]
    <3>1. CASE Fail
      BY <3>1 DEF Fail
    <3>2. CASE ~Fail
      <4> DEFINE user == UserIDForKeyHash(sdk.key)
      <4>1. \/ req' = Answer(401) \/ req' = Answer(503)
            \/ user # None /\ req' = [req EXCEPT !.pc = "row", !.user = user]
        BY <1>1, <3>2 DEF authMiddleware
      <4>2. user # None => sdk.key # None /\ key[sdk.key] = "live" /\ user = KeyOwner[sdk.key]
        BY DEF UserIDForKeyHash
      <4> HIDE DEF user
      <4>3. CASE req' = Answer(401) \/ req' = Answer(503)
        BY <4>3
      <4>4. CASE user # None /\ req' = [req EXCEPT !.pc = "row", !.user = user]
        BY <4>2, <4>4, Zenon
      <4> QED BY <4>1, <4>3, <4>4
    <3> QED BY <3>1, <3>2
  <2> QED BY <2>1, <2>2, RefusedStep, AdmittedStep
<1>2. CASE GetSimulation
  <2>1. req.pc = "row" /\ UNCHANGED <<key, runVars, sdk>>
    BY <1>2 DEF GetSimulation
  <2>2. CASE req' = Answer(404) /\ ~Visible(sdk.sim)
    <3>1. sdk.told # "succeeded"
      <4> SUFFICES ASSUME sdk.told = "succeeded" PROVE FALSE
        OBVIOUS
      <4>1. state[sdk.sim] = "succeeded"
        BY DEF IInv, WaitedStaysTrue, Terminal
      <4>2. KeyOwner[sdk.key] = Owner[sdk.sim]
        BY DEF IInv, OnlyOwnersAreServed, Terminal
      <4> QED BY <2>1, <2>2, <4>1, <4>2 DEF IInv, CallInv, Visible
    <3> QED BY <2>1, <2>2, <3>1, RefusedStep
  <2>3. CASE Fail
    BY <2>1, <2>3, RefusedStep DEF Fail
  <2> QED BY <1>2, <2>1, <2>2, <2>3, RowReadStep DEF GetSimulation
<1>3. CASE GetResult
  <2>1. req.pc = "result" /\ UNCHANGED <<key, runVars, sdk>>
    BY <1>3 DEF GetResult
  <2>2. CASE req.op = "simulation" /\ handleGetSimulation(results[req.hash])
    BY <2>1, <2>2, SimulationAnswered
  <2>3. CASE req.op \in {"results", "artifacts"} /\ Fail
    BY <2>1, <2>3, RefusedStep DEF Fail
  <2>4. CASE req.op \in {"results", "artifacts"} /\ results[req.hash] = NoResult /\ req' = Answer(404)
    <3>1. sdk.told # "succeeded" \/ ~Addressed(sdk.sim)
      BY <2>1, <2>4, LookedUp DEF IInv, ReadInv
    <3> QED BY <2>1, <2>4, <3>1, RefusedStep
  <2>5. CASE /\ req.op = "results" /\ results[req.hash] # NoResult
             /\ req' = [Answer(200) EXCEPT !.res = results[req.hash]]
    BY <2>1, <2>5, ResultAnswered
  <2>6. CASE /\ req.op = "artifacts" /\ results[req.hash] # NoResult
             /\ req' = [req EXCEPT !.pc = "list", !.res = results[req.hash]]
    BY <2>1, <2>6, ListingBegins
  <2> QED
    BY <1>3, <2>2, <2>3, <2>4, <2>5, <2>6 DEF GetResult, handleGetResult, handleListArtifacts
<1>4. CASE List
  <2>1. req.pc = "list" /\ UNCHANGED <<key, runVars, sdk>>
    BY <1>4 DEF List
  <2>2. CASE Fail
    <3>1. req.op # "simulation"
      BY <2>1 DEF IInv, ReadInv
    <3> QED BY <2>1, <2>2, <3>1, RefusedStep DEF Fail
  <2> QED BY <1>4, <2>1, <2>2, Listed DEF List
<1> QED BY <1>1, <1>2, <1>3, <1>4 DEF Serve


\* No request under way is a request record, too.
LEMMA NoCallTyped == NoCall \in Request
BY DEF NoCall, Request

\* A call begins with nothing read, and knows whether its key is live.
LEMMA CallBegins ==
  ASSUME NEW op \in {"simulation", "results", "artifacts"}, NEW k
  PROVE  \E b \in BOOLEAN :
           /\ (k # None /\ key[k] = "live") => b
           /\ Call(op, k) \in Request
           /\ Call(op, k) =
                [pc |-> "auth", op |-> op, live |-> b, user |-> None, state |-> None,
                 hash |-> None, res |-> NoResult, err |-> FALSE, files |-> {}, status |-> 0]
<1>1. PICK b \in BOOLEAN : b = Live(k)
  BY Zenon DEF Live
<1>2. PICK p : p = Call(op, k) /\ p = [NoCall EXCEPT !.pc = "auth", !.op = op, !.live = b]
  BY <1>1, Zenon DEF Call
<1>3. p = [pc |-> "auth", op |-> op, live |-> b, user |-> None, state |-> None,
           hash |-> None, res |-> NoResult, err |-> FALSE, files |-> {}, status |-> 0]
  BY <1>2 DEF NoCall
<1>4. p \in Request
  BY <1>3 DEF Request
<1> QED BY <1>1, <1>2, <1>3, <1>4, Zenon DEF Live

\* The client raises and forgets what it was given.
LEMMA RaisedStep ==
  ASSUME IInv, sdk.pc # "idle", Raised, UNCHANGED <<key, runVars>>
  PROVE  sdk' \in Client /\ req' \in Request /\ ClientInv'
<1>0. sdk \in Client
  BY DEF IInv, TypeOK
<1>1. sdk' =
            [pc |-> "ready", backend |-> sdk.backend, key |-> sdk.key, sim |-> sdk.sim,
             told |-> sdk.told, uri |-> None, left |-> {}, got |-> {}]
  BY <1>0 DEF Raised, Client
<1>3. req' = NoCall /\ req' \in Request
  BY NoCallTyped DEF Raised
<1>2. sdk' \in Client
  BY <1>0, <1>1 DEF Client
<1> USE DEF IInv, runVars, rowVars, Addressed
<1>4. CallInv'
  BY <1>0, <1>1, <1>3 DEF CallInv, Own, NoCall
<1>5. ReadInv'
  BY <1>1, <1>3 DEF ReadInv, NoCall, Terminal
<1>6. GivenInv'
  BY <1>0, <1>1, <1>3 DEF GivenInv, Own
<1>7. SucceededShowsResult'
  BY <1>1, <1>3 DEF SucceededShowsResult, NoCall
<1>8. WaitedStaysTrue'
  BY <1>1, <1>3 DEF WaitedStaysTrue, NoCall
<1>9. DownloadIsWhole'
  BY <1>1, <1>3 DEF DownloadIsWhole, NoCall
<1>10. OnlyOwnersAreServed'
  BY <1>1, <1>3 DEF OnlyOwnersAreServed, NoCall
<1> QED BY <1>2, <1>3, <1>4, <1>5, <1>6, <1>7, <1>8, <1>9, <1>10 DEF ClientInv

\* The client makes its next call, having seen an artifact URI or not.
LEMMA CallStep ==
  ASSUME IInv, sdk.pc \in {"ready", "wait", "results"}, NEW c \in {"wait", "results", "artifacts"},
         c = "artifacts" => sdk.backend # "s3",
         NEW u \in Contents \cup {None},
         u # None => Own /\ objects[u] = Files /\ (Addressed(sdk.sim) => u = ref[sdk.sim]),
         sdk' =
            [pc |-> c, backend |-> sdk.backend, key |-> sdk.key, sim |-> sdk.sim,
             told |-> sdk.told, uri |-> u, left |-> sdk.left, got |-> sdk.got],
         req' = Call(IF c = "wait" THEN "simulation" ELSE c, sdk.key),
         UNCHANGED <<key, runVars>>
  PROVE  sdk' \in Client /\ req' \in Request /\ ClientInv'
<1>0. sdk \in Client
  BY DEF IInv, TypeOK
<1>1. sdk' =
            [pc |-> c, backend |-> sdk.backend, key |-> sdk.key, sim |-> sdk.sim,
             told |-> sdk.told, uri |-> u, left |-> sdk.left, got |-> sdk.got]
  OBVIOUS
<1> DEFINE op == IF c = "wait" THEN "simulation" ELSE c
<1>a. op \in {"simulation", "results", "artifacts"} /\ req' = Call(op, sdk.key)
  OBVIOUS
<1> HIDE DEF op
<1>3. PICK b \in BOOLEAN :
        /\ (sdk.key # None /\ key[sdk.key] = "live") => b
        /\ req' \in Request
        /\ req' = [pc |-> "auth", op |-> op, live |-> b, user |-> None, state |-> None,
                   hash |-> None, res |-> NoResult, err |-> FALSE, files |-> {}, status |-> 0]
  <2>1. PICK b \in BOOLEAN :
          /\ (sdk.key # None /\ key[sdk.key] = "live") => b
          /\ Call(op, sdk.key) \in Request
          /\ Call(op, sdk.key) =
               [pc |-> "auth", op |-> op, live |-> b, user |-> None, state |-> None,
                hash |-> None, res |-> NoResult, err |-> FALSE, files |-> {}, status |-> 0]
    BY <1>a, CallBegins
  <2> QED BY <1>a, <2>1
<1> USE DEF op
<1>2. sdk' \in Client
  BY <1>0, <1>1 DEF Client
<1> USE DEF IInv, runVars, rowVars, Addressed
<1>4. CallInv'
  BY <1>0, <1>1, <1>3 DEF CallInv, Own
<1>5. ReadInv'
  BY <1>1, <1>3 DEF ReadInv, Terminal
<1>6. GivenInv'
  BY <1>0, <1>1, <1>3 DEF GivenInv, Own
<1>7. SucceededShowsResult'
  BY <1>1, <1>3 DEF SucceededShowsResult
<1>8. WaitedStaysTrue'
  BY <1>1, <1>3 DEF WaitedStaysTrue
<1>9. DownloadIsWhole'
  BY <1>1, <1>3 DEF DownloadIsWhole
<1>10. OnlyOwnersAreServed'
  BY <1>1, <1>3 DEF OnlyOwnersAreServed, Own
<1> QED BY <1>2, <1>3, <1>4, <1>5, <1>6, <1>7, <1>8, <1>9, <1>10 DEF ClientInv

\* The client begins to download a listing that is whole if it has a URI.
LEMMA DownloadBegins ==
  ASSUME IInv, sdk.pc \in {"results", "artifacts"}, Own, NEW l \in SUBSET Files,
         NEW u \in Contents \cup {None},
         u # None => /\ objects[u] = Files /\ (Addressed(sdk.sim) => u = ref[sdk.sim])
                     /\ (sdk.backend = "s3" \/ Addressed(sdk.sim)) => l = Files,
         sdk' =
            [pc |-> "fetch", backend |-> sdk.backend, key |-> sdk.key, sim |-> sdk.sim,
             told |-> sdk.told, uri |-> u, left |-> l, got |-> sdk.got],
         req' = NoCall, UNCHANGED <<key, runVars>>
  PROVE  sdk' \in Client /\ req' \in Request /\ ClientInv'
<1>0. sdk \in Client
  BY DEF IInv, TypeOK
<1>1. sdk' =
            [pc |-> "fetch", backend |-> sdk.backend, key |-> sdk.key, sim |-> sdk.sim,
             told |-> sdk.told, uri |-> u, left |-> l, got |-> sdk.got]
  OBVIOUS
<1>3. req' = NoCall /\ req' \in Request
  BY NoCallTyped
<1>2. sdk' \in Client
  BY <1>0, <1>1 DEF Client
<1> USE DEF IInv, runVars, rowVars, Addressed
<1>4. CallInv'
  BY <1>0, <1>1, <1>3 DEF CallInv, Own, NoCall
<1>5. ReadInv'
  BY <1>1, <1>3 DEF ReadInv, NoCall, Terminal
<1>6. GivenInv'
  BY <1>0, <1>1, <1>3 DEF GivenInv, Own
<1>7. SucceededShowsResult'
  BY <1>1, <1>3 DEF SucceededShowsResult, NoCall
<1>8. WaitedStaysTrue'
  BY <1>1, <1>3 DEF WaitedStaysTrue, NoCall
<1>9. DownloadIsWhole'
  BY <1>1, <1>3 DEF DownloadIsWhole, NoCall
<1>10. OnlyOwnersAreServed'
  BY <1>1, <1>3 DEF OnlyOwnersAreServed, NoCall, Own
<1> QED BY <1>2, <1>3, <1>4, <1>5, <1>6, <1>7, <1>8, <1>9, <1>10 DEF ClientInv

\* A client begins and ends with nothing.
LEMMA ConnectStep ==
  ASSUME IInv, Connect PROVE sdk' \in Client /\ req' \in Request /\ ClientInv'
<1>0. PICK k \in {j \in Keys : key[j] # "absent"} \cup {None}, s \in Sims, b \in {"s3", "presigned"} :
        sdk' = [IdleSdk EXCEPT !.pc = "ready", !.key = k, !.sim = s, !.backend = b]
  BY DEF Connect
<1>1. sdk' = [pc |-> "ready", backend |-> b, key |-> k, sim |-> s,
              told |-> None, uri |-> None, left |-> {}, got |-> {}]
  BY <1>0 DEF IdleSdk
<1>2. sdk' \in Client
  BY <1>1 DEF Client
<1>3. req' = NoCall /\ req' \in Request /\ UNCHANGED <<key, runVars>>
  BY NoCallTyped DEF Connect, IInv, CallInv
<1> USE DEF IInv, runVars, rowVars, Addressed
<1>4. CallInv'
  BY <1>1, <1>3 DEF CallInv, Own, NoCall
<1>5. ReadInv'
  BY <1>1, <1>3 DEF ReadInv, NoCall, Terminal
<1>6. GivenInv'
  BY <1>1, <1>3 DEF GivenInv, Own
<1>7. SucceededShowsResult'
  BY <1>1, <1>3 DEF SucceededShowsResult, NoCall
<1>8. WaitedStaysTrue'
  BY <1>1, <1>3 DEF WaitedStaysTrue, NoCall
<1>9. DownloadIsWhole'
  BY <1>1, <1>3 DEF DownloadIsWhole, NoCall
<1>10. OnlyOwnersAreServed'
  BY <1>1, <1>3 DEF OnlyOwnersAreServed, NoCall
<1> QED BY <1>2, <1>3, <1>4, <1>5, <1>6, <1>7, <1>8, <1>9, <1>10 DEF ClientInv

\* The caller drops the client.
LEMMA CloseStep ==
  ASSUME IInv, Close PROVE sdk' \in Client /\ req' \in Request /\ ClientInv'
<1>1. sdk' = IdleSdk
  BY DEF Close
<1>2. sdk' \in Client
  BY <1>1 DEF Client, IdleSdk
<1>3. req' = NoCall /\ req' \in Request /\ UNCHANGED <<key, runVars>>
  BY NoCallTyped DEF Close, IInv, CallInv
<1> USE DEF IInv, runVars, rowVars, Addressed
<1>4. CallInv'
  BY <1>1, <1>3 DEF CallInv, Own, NoCall, IdleSdk
<1>5. ReadInv'
  BY <1>1, <1>3 DEF ReadInv, NoCall, Terminal, IdleSdk
<1>6. GivenInv'
  BY <1>1, <1>3 DEF GivenInv, Own, IdleSdk
<1>7. SucceededShowsResult'
  BY <1>1, <1>3 DEF SucceededShowsResult, NoCall, IdleSdk
<1>8. WaitedStaysTrue'
  BY <1>1, <1>3 DEF WaitedStaysTrue, NoCall, IdleSdk
<1>9. DownloadIsWhole'
  BY <1>1, <1>3 DEF DownloadIsWhole, NoCall, IdleSdk
<1>10. OnlyOwnersAreServed'
  BY <1>1, <1>3 DEF OnlyOwnersAreServed, NoCall, IdleSdk
<1> QED BY <1>2, <1>3, <1>4, <1>5, <1>6, <1>7, <1>8, <1>9, <1>10 DEF ClientInv

\* wait() returns the state it was told, which the row keeps.
LEMMA ToldStep ==
  ASSUME IInv, Answered("wait"), req.status = 200, req.state \in Terminal,
         sdk' = [sdk EXCEPT !.pc = "ready", !.told = req.state], req' = NoCall,
         UNCHANGED <<key, runVars>>
  PROVE  sdk' \in Client /\ req' \in Request /\ ClientInv'
<1>0. sdk \in Client /\ sdk.pc = "wait" /\ Own /\ state[sdk.sim] = req.state
  BY DEF IInv, TypeOK, Answered, CallInv, ReadInv
<1>1. sdk' =
            [pc |-> "ready", backend |-> sdk.backend, key |-> sdk.key, sim |-> sdk.sim,
             told |-> req.state, uri |-> sdk.uri, left |-> sdk.left, got |-> sdk.got]
  BY <1>0 DEF Client
<1>2. sdk' \in Client
  BY <1>0, <1>1 DEF Client, Terminal
<1>3. req' = NoCall /\ req' \in Request
  BY NoCallTyped
<1> USE DEF IInv, runVars, rowVars, Addressed
<1>4. CallInv'
  BY <1>0, <1>1, <1>3 DEF CallInv, Own, NoCall
<1>5. ReadInv'
  BY <1>0, <1>1, <1>3 DEF ReadInv, NoCall, Terminal
<1>6. GivenInv'
  BY <1>0, <1>1, <1>3 DEF GivenInv, Own
<1>7. SucceededShowsResult'
  BY <1>0, <1>1, <1>3 DEF SucceededShowsResult, NoCall
<1>8. WaitedStaysTrue'
  BY <1>0, <1>1, <1>3 DEF WaitedStaysTrue, NoCall
<1>9. DownloadIsWhole'
  BY <1>0, <1>1, <1>3 DEF DownloadIsWhole, NoCall
<1>10. OnlyOwnersAreServed'
  BY <1>0, <1>1, <1>3 DEF OnlyOwnersAreServed, NoCall, Own
<1> QED BY <1>2, <1>3, <1>4, <1>5, <1>6, <1>7, <1>8, <1>9, <1>10 DEF ClientInv

\* A file is downloaded.
LEMMA FetchedStep ==
  ASSUME IInv, sdk.pc = "fetch", NEW f \in sdk.left,
         sdk' = [sdk EXCEPT !.left = @ \ {f}, !.got = @ \cup {f}], UNCHANGED req,
         UNCHANGED <<key, runVars>>
  PROVE  sdk' \in Client /\ req' \in Request /\ ClientInv'
<1>0. sdk \in Client /\ Own /\ sdk.left \subseteq Files
  BY DEF IInv, TypeOK, Client, GivenInv
<1>1. sdk' =
            [pc |-> sdk.pc, backend |-> sdk.backend, key |-> sdk.key, sim |-> sdk.sim,
             told |-> sdk.told, uri |-> sdk.uri, left |-> sdk.left \ {f}, got |-> sdk.got \cup {f}]
  BY <1>0 DEF Client
<1>2. sdk' \in Client
  BY <1>0, <1>1 DEF Client
<1>3. req' = NoCall /\ req' \in Request
  BY NoCallTyped DEF IInv, CallInv
<1> USE DEF IInv, runVars, rowVars, Addressed
<1>4. CallInv'
  BY <1>0, <1>1, <1>3 DEF CallInv, Own, NoCall
<1>5. ReadInv'
  BY <1>0, <1>1, <1>3 DEF ReadInv, NoCall, Terminal
<1>6. GivenInv'
  BY <1>0, <1>1, <1>3 DEF GivenInv, Own
<1>7. SucceededShowsResult'
  BY <1>0, <1>1, <1>3 DEF SucceededShowsResult, NoCall
<1>8. WaitedStaysTrue'
  BY <1>0, <1>1, <1>3 DEF WaitedStaysTrue, NoCall
<1>9. DownloadIsWhole'
  BY <1>0, <1>1, <1>3 DEF DownloadIsWhole, NoCall
<1>10. OnlyOwnersAreServed'
  BY <1>0, <1>1, <1>3 DEF OnlyOwnersAreServed, NoCall, Own
<1> QED BY <1>2, <1>3, <1>4, <1>5, <1>6, <1>7, <1>8, <1>9, <1>10 DEF ClientInv

\* Nothing is left to download.
LEMMA ReturnedStep ==
  ASSUME IInv, Returned PROVE sdk' \in Client /\ req' \in Request /\ ClientInv'
<1>0. sdk \in Client /\ sdk.pc = "fetch" /\ sdk.left = {} /\ Own
  BY DEF IInv, TypeOK, GivenInv, Returned
<1>1. sdk' =
            [pc |-> "returned", backend |-> sdk.backend, key |-> sdk.key, sim |-> sdk.sim,
             told |-> sdk.told, uri |-> sdk.uri, left |-> sdk.left, got |-> sdk.got]
  BY <1>0 DEF Client, Returned
<1>2. sdk' \in Client
  BY <1>0, <1>1 DEF Client
<1>3. req' = NoCall /\ req' \in Request /\ UNCHANGED <<key, runVars>>
  BY <1>0, NoCallTyped DEF IInv, CallInv, Returned
<1> USE DEF IInv, runVars, rowVars, Addressed
<1>4. CallInv'
  BY <1>0, <1>1, <1>3 DEF CallInv, Own, NoCall
<1>5. ReadInv'
  BY <1>0, <1>1, <1>3 DEF ReadInv, NoCall, Terminal
<1>6. GivenInv'
  BY <1>0, <1>1, <1>3 DEF GivenInv, Own
<1>7. SucceededShowsResult'
  BY <1>0, <1>1, <1>3 DEF SucceededShowsResult, NoCall
<1>8. WaitedStaysTrue'
  BY <1>0, <1>1, <1>3 DEF WaitedStaysTrue, NoCall
<1>9. DownloadIsWhole'
  BY <1>0, <1>1, <1>3 DEF DownloadIsWhole, NoCall, GivenInv
<1>10. OnlyOwnersAreServed'
  BY <1>0, <1>1, <1>3 DEF OnlyOwnersAreServed, NoCall
<1> QED BY <1>2, <1>3, <1>4, <1>5, <1>6, <1>7, <1>8, <1>9, <1>10 DEF ClientInv
\* wait() and download_results() call the apiserver; nothing was fetched yet.
LEMMA AskStep ==
  ASSUME IInv, sdk.pc = "ready", NEW c \in {"wait", "results"},
         sdk' = [sdk EXCEPT !.pc = c],
         req' = Call(IF c = "wait" THEN "simulation" ELSE c, sdk.key),
         UNCHANGED <<key, runVars>>
  PROVE  sdk' \in Client /\ req' \in Request /\ ClientInv'
<1>1. sdk \in Client
  BY DEF IInv, TypeOK
<1>2. sdk' =
        [pc |-> c, backend |-> sdk.backend, key |-> sdk.key, sim |-> sdk.sim,
         told |-> sdk.told, uri |-> sdk.uri, left |-> sdk.left, got |-> sdk.got]
  BY <1>1 DEF Client
<1>3. sdk.uri \in Contents \cup {None}
  BY <1>1 DEF Client
<1>4. sdk.uri # None =>
        Own /\ objects[sdk.uri] = Files /\ (Addressed(sdk.sim) => sdk.uri = ref[sdk.sim])
  BY DEF IInv, GivenInv
<1> QED BY <1>2, <1>3, <1>4, CallStep

\* The answer to a poll: the row is not settled, or it is, or the client gives up.
LEMMA PolledStep == ASSUME IInv, Polled PROVE sdk' \in Client /\ req' \in Request /\ ClientInv'
<1>0. /\ sdk \in Client /\ sdk.pc = "wait" /\ Answered("wait")
      /\ UNCHANGED <<key, runVars>>
  BY DEF IInv, TypeOK, Polled, Answered
<1>1. CASE Raised
  BY <1>0, <1>1, RaisedStep
<1>2. CASE /\ req.status = 200 /\ req.state \in Terminal
           /\ sdk' = [sdk EXCEPT !.pc = "ready", !.told = req.state] /\ req' = NoCall
  BY <1>0, <1>2, ToldStep
<1>3. CASE req' = Call("simulation", sdk.key) /\ UNCHANGED sdk
  <2>1. sdk' =
          [pc |-> "wait", backend |-> sdk.backend, key |-> sdk.key, sim |-> sdk.sim,
           told |-> sdk.told, uri |-> sdk.uri, left |-> sdk.left, got |-> sdk.got]
    BY <1>0, <1>3 DEF Client
  <2>2. sdk.uri \in Contents \cup {None}
    BY <1>0 DEF Client
  <2>3. sdk.uri # None =>
          Own /\ objects[sdk.uri] = Files /\ (Addressed(sdk.sim) => sdk.uri = ref[sdk.sim])
    BY DEF IInv, GivenInv
  <2> QED BY <1>0, <1>3, <2>1, <2>2, <2>3, CallStep
<1> QED BY <1>1, <1>2, <1>3 DEF Polled

\* The result the client is given: its row's, with a URI only for a whole run.
LEMMA GivenResult ==
  ASSUME IInv, Answered("results"), req.status = 200
  PROVE  /\ sdk \in Client /\ Own /\ req.res.uri \in Contents \cup {None}
         /\ req.res.uri # None =>
              /\ objects[req.res.uri] = Files
              /\ Addressed(sdk.sim) => req.res.uri = ref[sdk.sim]
<1>1. sdk \in Client /\ req \in Request /\ Own /\ req.op = "results" /\ req.pc = "answered"
  BY DEF IInv, TypeOK, CallInv, Answered
<1>2. req.res # NoResult /\ req.res \in Result \cup {NoResult}
  BY <1>1 DEF IInv, ReadInv, Request
<1>3. req.res.uri \in Contents \cup {None}
  BY <1>2 DEF Result
<1> QED BY <1>1, <1>2, <1>3 DEF IInv, ReadInv

\* download_results() goes on to the listing with either backend.
LEMMA GotResultsStep ==
  ASSUME IInv, GotResults PROVE sdk' \in Client /\ req' \in Request /\ ClientInv'
<1>0. sdk \in Client /\ sdk.pc = "results" /\ UNCHANGED <<key, runVars>>
  BY DEF IInv, TypeOK, GotResults, Answered
<1>1. CASE Raised
  BY <1>0, <1>1, RaisedStep
<1>2. CASE /\ req.status = 200 /\ req.res.uri # None
           /\ sdk' = [sdk EXCEPT !.pc = "fetch", !.uri = req.res.uri,
                                 !.left = objects[req.res.uri]]
           /\ req' = NoCall
  <2>1. /\ Own /\ req.res.uri \in Contents /\ objects[req.res.uri] = Files
        /\ Addressed(sdk.sim) => req.res.uri = ref[sdk.sim]
    BY <1>2, GivenResult DEF GotResults
  <2>2. sdk' =
          [pc |-> "fetch", backend |-> sdk.backend, key |-> sdk.key, sim |-> sdk.sim,
           told |-> sdk.told, uri |-> req.res.uri, left |-> Files, got |-> sdk.got]
    BY <1>0, <1>2, <2>1 DEF Client
  <2>3. /\ req.res.uri \in Contents \cup {None} /\ Files \in SUBSET Files
        /\ sdk.pc \in {"results", "artifacts"} /\ req' = NoCall
    BY <1>0, <1>2, <2>1
  <2> QED BY <1>0, <2>1, <2>2, <2>3, DownloadBegins, Zenon
<1>3. CASE /\ req.status = 200 /\ sdk.backend = "presigned"
           /\ sdk' = [sdk EXCEPT !.pc = "artifacts", !.uri = req.res.uri]
           /\ req' = Call("artifacts", sdk.key)
  <2>1. /\ req.res.uri \in Contents \cup {None}
        /\ req.res.uri # None =>
             Own /\ objects[req.res.uri] = Files /\ (Addressed(sdk.sim) => req.res.uri = ref[sdk.sim])
    BY <1>3, GivenResult DEF GotResults
  <2>2. sdk' =
          [pc |-> "artifacts", backend |-> sdk.backend, key |-> sdk.key, sim |-> sdk.sim,
           told |-> sdk.told, uri |-> req.res.uri, left |-> sdk.left, got |-> sdk.got]
    BY <1>0, <1>3 DEF Client
  <2>3. /\ sdk.pc \in {"ready", "wait", "results"} /\ sdk.backend # "s3"
        /\ "artifacts" \in {"wait", "results", "artifacts"}
        /\ req' = Call(IF "artifacts" = "wait" THEN "simulation" ELSE "artifacts", sdk.key)
    BY <1>0, <1>3
  <2> QED BY <1>0, <2>1, <2>2, <2>3, CallStep, Zenon
<1> QED BY <1>1, <1>2, <1>3 DEF GotResults

\* The listing that was answered is whole if the client has seen a URI.
LEMMA GotArtifactsStep ==
  ASSUME IInv, GotArtifacts PROVE sdk' \in Client /\ req' \in Request /\ ClientInv'
<1>0. /\ sdk \in Client /\ req \in Request /\ sdk.pc = "artifacts" /\ req.pc = "answered"
      /\ req.op = "artifacts" /\ UNCHANGED <<key, runVars>>
  BY DEF IInv, TypeOK, CallInv, GotArtifacts, Answered
<1>1. CASE Raised
  BY <1>0, <1>1, RaisedStep
<1>2. CASE /\ req.status = 200
           /\ sdk' = [sdk EXCEPT !.pc = "fetch", !.left = req.files] /\ req' = NoCall
  <2>1. Own /\ req.files \in SUBSET Files
    BY <1>0, <1>2 DEF IInv, CallInv, Request
  <2>2. /\ sdk.uri \in Contents \cup {None}
        /\ sdk.uri # None => /\ objects[sdk.uri] = Files /\ (Addressed(sdk.sim) => sdk.uri = ref[sdk.sim])
                             /\ (sdk.backend = "s3" \/ Addressed(sdk.sim)) => req.files = Files
    BY <1>0, <1>2 DEF IInv, DownloadIsWhole, GivenInv, Client
  <2>3. sdk' =
          [pc |-> "fetch", backend |-> sdk.backend, key |-> sdk.key, sim |-> sdk.sim,
           told |-> sdk.told, uri |-> sdk.uri, left |-> req.files, got |-> sdk.got]
    BY <1>0, <1>2 DEF Client
  <2>4. sdk.pc \in {"results", "artifacts"} /\ req' = NoCall
    BY <1>0, <1>2
  <2> QED BY <1>0, <2>1, <2>2, <2>3, <2>4, DownloadBegins, Zenon
<1> QED BY <1>1, <1>2 DEF GotArtifacts

\* Every step of the client.
LEMMA SdkStep == IInv /\ Sdk => sdk' \in Client /\ req' \in Request /\ ClientInv'
<1> SUFFICES ASSUME IInv, Sdk PROVE sdk' \in Client /\ req' \in Request /\ ClientInv'
  OBVIOUS
<1>1. CASE Connect
  BY <1>1, ConnectStep
<1>2. CASE Wait
  BY <1>2, AskStep DEF Wait
<1>3. CASE Polled
  BY <1>3, PolledStep
<1>4. CASE DownloadResults
  BY <1>4, AskStep DEF DownloadResults
<1>5. CASE GotResults
  BY <1>5, GotResultsStep
<1>6. CASE GotArtifacts
  BY <1>6, GotArtifactsStep
<1>7. CASE Fetch
  <2>1. sdk.pc = "fetch" /\ UNCHANGED <<key, runVars>>
    BY <1>7 DEF Fetch
  <2>2. CASE Raised
    BY <2>1, <2>2, RaisedStep
  <2>3. CASE \E f \in sdk.left :
               sdk' = [sdk EXCEPT !.left = @ \ {f}, !.got = @ \cup {f}] /\ UNCHANGED req
    BY <2>1, <2>3, FetchedStep
  <2> QED BY <1>7, <2>2, <2>3 DEF Fetch
<1>8. CASE Returned
  BY <1>8, ReturnedStep
<1>9. CASE Close
  BY <1>9, CloseStep
<1> QED BY <1>1, <1>2, <1>3, <1>4, <1>5, <1>6, <1>7, <1>8, <1>9 DEF Sdk

\* Whatever happens, the request and the client keep what they may rely on.
LEMMA ClientStep ==
  IInv /\ [Next]_vars => TypeOK' /\ ClientInv'
<1> SUFFICES ASSUME IInv, [Next]_vars PROVE TypeOK' /\ ClientInv'
  OBVIOUS
<1>0. RunTypes' /\ Stable
  BY RunStep DEF RunInv
<1>1. req \in Request /\ sdk \in Client
  BY Zenon DEF IInv, TypeOK
<1>2. CASE Serve
  <2>1. req' \in Request /\ ClientInv'
    BY <1>2, ServeStep
  <2>2. UNCHANGED sdk
    BY <1>2 DEF Serve, authMiddleware, GetSimulation, GetResult, List
  <2> QED BY <1>0, <1>1, <2>1, <2>2, Zenon DEF TypeOK
<1>3. CASE Sdk
  <2>1. sdk' \in Client /\ req' \in Request /\ ClientInv'
    BY <1>3, SdkStep
  <2> QED BY <1>0, <2>1, Zenon DEF TypeOK
<1>4. CASE UNCHANGED <<req, sdk>> /\ \A k \in Keys :
             /\ key'[k] = "absent" => key[k] = "absent"
             /\ key'[k] = "live" => key[k] \in {"absent", "live"}
  <2>1. ClientInv'
    BY <1>0, <1>4, OthersStep
  <2> QED BY <1>0, <1>1, <1>4, <2>1, Zenon DEF TypeOK
<1>5. ASSUME NEW k \in Keys, createApiKey(k) \/ revokeApiKey(k)
      PROVE  UNCHANGED <<req, sdk>> /\ \A j \in Keys :
               /\ key'[j] = "absent" => key[j] = "absent"
               /\ key'[j] = "live" => key[j] \in {"absent", "live"}
  BY <1>5 DEF createApiKey, revokeApiKey, IInv, TypeOK, RunTypes
<1>6. CASE UNCHANGED <<key, req, sdk>>
  BY <1>4, <1>6
<1>7. ASSUME NEW s \in Sims, InsertSimulation(s) \/ Reap(s)
      PROVE  UNCHANGED <<key, req, sdk>>
  BY <1>7 DEF InsertSimulation, Reap
<1>8. ASSUME NEW r \in Runners, Work(r) \/ \E s \in Sims : Claim(r, s)
      PROVE  UNCHANGED <<key, req, sdk>>
  BY <1>8 DEF Work, backfill_hashes, upload_dir, upsert_result, finish_simulation, Raise, Claim
<1>9. UNCHANGED vars => UNCHANGED <<key, req, sdk>>
  BY DEF vars
<1> QED BY <1>2, <1>3, <1>4, <1>5, <1>6, <1>7, <1>8, <1>9 DEF Next

-----------------------------------------------------------------------------
(* The theorems. *)

\* Nothing was submitted, uploaded or asked for yet.
LEMMA InitInv == Init => IInv
<1> SUFFICES ASSUME Init PROVE IInv
  OBVIOUS
<1>1. RunTypes
  <2>1. attempts \in [Sims -> 0..MaxAttempts]
    BY DEF Init
  <2>2. IdleJob \in Job
    BY DEF IdleJob, Job
  <2>3. results \in [Hashes -> Result \cup {NoResult}] /\ objects \in [Hashes -> SUBSET Files]
    <3>1. \A h \in Contents, v \in Verdicts : [verdict |-> v, uri |-> h] \in Result
      BY DEF Result
    <3> QED BY <3>1 DEF Init
  <2> QED BY <2>1, <2>2, <2>3 DEF Init, RunTypes, Hashes
<1>2. req = NoCall /\ req \in Request
  BY NoCallTyped DEF Init
<1>3. sdk = IdleSdk /\ sdk \in Client
  BY DEF Init, IdleSdk, Client
<1>4. TypeOK
  BY <1>1, <1>2, <1>3, Zenon DEF Init, TypeOK
<1>5. RowInv /\ JobInv /\ ResultInv
  BY DEF Init, RowInv, JobInv, ResultInv, IdleJob, Hashes
<1>6. CallInv /\ ReadInv
  BY <1>2, <1>3 DEF CallInv, ReadInv, NoCall, IdleSdk, Terminal
<1>7. GivenInv /\ SucceededShowsResult /\ WaitedStaysTrue
  BY <1>2, <1>3 DEF GivenInv, SucceededShowsResult, WaitedStaysTrue, NoCall, IdleSdk
<1>8. DownloadIsWhole /\ OnlyOwnersAreServed
  BY <1>2, <1>3 DEF DownloadIsWhole, OnlyOwnersAreServed, NoCall, IdleSdk
<1> QED BY <1>4, <1>5, <1>6, <1>7, <1>8, Zenon DEF IInv

\* The inductive invariant of rows, Runners, results, requests and the client
\* (IInv) holds in every state, for any number of each.
THEOREM ReadsInvariance == Spec => []IInv
<1>1. Init => IInv
  BY InitInv
<1>2. IInv /\ [Next]_vars => IInv'
  BY RunStep, ClientStep, Zenon DEF IInv, RunInv, ClientInv
<1> QED BY <1>1, <1>2, PTL DEF Spec

\* Every column, object, Runner, request and client holds a value it can hold,
\* and no row is attempted more often than max_attempts allows.
THEOREM ReadsTypeCorrect == Spec => []TypeOK
<1>1. IInv => TypeOK
  BY Zenon DEF IInv
<1> QED BY <1>1, ReadsInvariance, PTL

\* GET /v1/simulations/{id} never answers "succeeded" without a result about a row
\* whose input is addressed by its bytes, although it reads the row and the result
\* in two statements and zombies write both, unless the second statement failed.
THEOREM SucceededIsShownWithResult == Spec => []SucceededShowsResult
<1>1. IInv => SucceededShowsResult
  BY Zenon DEF IInv
<1> QED BY <1>1, ReadsInvariance, PTL

\* The state wait() returned is the row's for good, whatever Runners that lost
\* their lease write; and after "succeeded" the handlers never answer 404 about a
\* row whose input is addressed by its bytes, although such a Runner back-fills
\* the row's hash and overwrites its result.  Of the hash of a replaceable upload
\* nothing is claimed.
THEOREM WaitTellsTheTruth == Spec => []WaitedStaysTrue
<1>1. IInv => WaitedStaysTrue
  BY Zenon DEF IInv
<1> QED BY <1>1, ReadsInvariance, PTL

\* A client that was shown an artifact URI returns from download_results() with
\* every file of a run, although a re-execution may have failed to upload and
\* taken the URI back in between: with S3 credentials for any row, through the
\* apiserver's listing for one whose input is addressed by its bytes.
THEOREM DownloadsAreWhole == Spec => []DownloadIsWhole
<1>1. IInv => DownloadIsWhole
  BY Zenon DEF IInv
<1> QED BY <1>1, ReadsInvariance, PTL

\* authMiddleware and the ownership condition of GetSimulation keep every answer,
\* URI and file from anybody but the owner of the row, however many users share
\* the content hash and whenever keys are revoked.
THEOREM ServesOnlyOwners == Spec => []OnlyOwnersAreServed
<1>1. IInv => OnlyOwnersAreServed
  BY Zenon DEF IInv
<1> QED BY <1>1, ReadsInvariance, PTL
=============================================================================
