---------------------------- MODULE ResultReads -----------------------------
(***************************************************************************)
(* How a result reaches its owner: the Runner's tail (artifact upload,     *)
(* result upsert, finish) against the SDK's wait() and download_results(), *)
(* served by the read handlers of the apiserver one statement at a time,   *)
(* under API keys that the portal creates and revokes.                     *)
(*                                                                         *)
(* Model and weather are one input whose hash is the input itself, as in   *)
(* module ResultCache.  The ref of a row is addressed by its bytes, or the *)
(* name of an upload that may be replaced and holds any bytes whenever it  *)
(* is fetched.  A row submitted without digests has a placeholder until it *)
(* is back-filled.  Requests only read and do not see each other, so one   *)
(* client stands for all.  Inserts always give a row a hash.               *)
(***************************************************************************)
EXTENDS Naturals

CONSTANTS
  Sims, Runners, Users, Keys, MaxAttempts,
  Files,       \* what a run leaves in its output directory
  Verdicts,    \* what the engine may say
  Contents,    \* the inputs' bytes
  Owner,       \* [Sims -> Users]
  KeyOwner,    \* [Keys -> Users]
  Named,       \* the ref of an upload without a digest
  None, NoDigest, NoResult

Good == {"clean", "warnings"}

ASSUME OwnerAssumption == Owner \in [Sims -> Users] /\ KeyOwner \in [Keys -> Users]
ASSUME RunAssumption ==
  /\ MaxAttempts \in Nat \ {0} /\ Files # {}
  /\ Verdicts # {} /\ Verdicts \subseteq Good \cup {"severe", "fatal"}
ASSUME NoneAssumption ==
  /\ None \notin Sims \cup Runners \cup Users \cup Keys \cup Files \cup Contents
  /\ Named \notin Contents /\ NoDigest \notin Contents

VARIABLES
  key,                                        \* app.api_keys, by key
  state, ref, content_hash, runner_id, attempts,   \* app.simulations
  results,                                    \* app.results, by content hash
  objects,     \* the files under <content_hash>/ in the results bucket
  job,         \* per Runner: where process_simulation is
  req,         \* the HTTP request under way
  sdk          \* the client

rowVars == <<state, ref, content_hash, runner_id, attempts>>
runVars == <<rowVars, results, objects, job>>
vars    == <<key, runVars, req, sdk>>

Hashes   == Contents \cup {NoDigest}     \* NoDigest is the placeholder
Terminal == {"succeeded", "failed"}
Result   == [verdict : Verdicts, uri : Contents \cup {None}]

ASSUME SentinelAssumption == None \notin Hashes \cup Terminal /\ NoResult \notin Result

\* A row whose input is named by its bytes, which never change.
Addressed(s) == ref[s] \in Contents

IdleJob == [pc |-> "idle", sim |-> None, hash |-> None, left |-> {}, uploaded |-> FALSE,
            verdict |-> None]
NoCall  == [pc |-> "none", op |-> None, live |-> FALSE, user |-> None, state |-> None,
            hash |-> None, res |-> NoResult, err |-> FALSE, files |-> {}, status |-> 0]
IdleSdk == [pc |-> "idle", backend |-> None, key |-> None, sim |-> None, told |-> None,
            uri |-> None, left |-> {}, got |-> {}]

\* The rows of Sims are still to come; earlier ones may have left results.
Init ==
  /\ key          = [k \in Keys |-> "absent"]
  /\ state        = [s \in Sims |-> "absent"]
  /\ ref          = [s \in Sims |-> None]
  /\ content_hash = [s \in Sims |-> None]
  /\ runner_id    = [s \in Sims |-> None]
  /\ attempts     = [s \in Sims |-> 0]
  /\ \E past \in SUBSET Contents, v \in Verdicts :
       /\ results = [h \in Hashes |->
                       IF h \in past THEN [verdict |-> v, uri |-> h] ELSE NoResult]
       /\ objects = [h \in Hashes |-> IF h \in past THEN Files ELSE {}]
  /\ job          = [r \in Runners |-> IdleJob]
  /\ req          = NoCall
  /\ sdk          = IdleSdk

-----------------------------------------------------------------------------
(* The portal. *)

createApiKey(k) ==
  /\ key[k] = "absent"
  /\ key' = [key EXCEPT ![k] = "live"]
  /\ UNCHANGED <<runVars, req, sdk>>

revokeApiKey(k) ==
  /\ key[k] = "live"
  /\ key' = [key EXCEPT ![k] = "revoked"]
  /\ UNCHANGED <<runVars, req, sdk>>

-----------------------------------------------------------------------------
(* The rows and the Runner's tail.                                         *)

\* A submission, with digests or without: of an addressed input its own, of a
\* replaceable one what it held once.  The row is born succeeded when its lookup
\* hit.  A lookup before the first result may also insert after it.
InsertSimulation(s) ==
  /\ state[s] = "absent"
  /\ \E f \in Contents \cup {Named}, h \in Hashes, t \in {"queued", "succeeded"} :
       /\ (f # Named /\ h # NoDigest) => h = f
       /\ t = "succeeded" => h # NoDigest /\ results[h] # NoResult
       /\ ref'          = [ref EXCEPT ![s] = f]
       /\ state'        = [state EXCEPT ![s] = t]
       /\ content_hash' = [content_hash EXCEPT ![s] = h]
  /\ UNCHANGED <<key, runner_id, attempts, results, objects, job, req, sdk>>

Claim(r, s) ==
  /\ job[r].pc = "idle" /\ state[s] = "queued"
  /\ state'     = [state EXCEPT ![s] = "running"]
  /\ runner_id' = [runner_id EXCEPT ![s] = r]
  /\ attempts'  = [attempts EXCEPT ![s] = @ + 1]
  /\ job'       = [job EXCEPT ![r] = [IdleJob EXCEPT !.pc = "backfill", !.sim = s]]
  /\ UNCHANGED <<key, ref, content_hash, results, objects, req, sdk>>

RetryableOffByOne(s) == attempts[s] <= MaxAttempts

Retryable(s) == attempts[s] < MaxAttempts

\* The lease ran out; the Runner goes on.
Reap(s) ==
  /\ state[s] = "running"
  /\ IF Retryable(s)
     THEN /\ state'     = [state EXCEPT ![s] = "queued"]
          /\ runner_id' = [runner_id EXCEPT ![s] = None]
     ELSE /\ state' = [state EXCEPT ![s] = "failed"]
          /\ UNCHANGED runner_id
  /\ UNCHANGED <<key, ref, content_hash, attempts, results, objects, job, req, sdk>>

\* What fetching the input of a row may give.
Fetched(s) == IF Addressed(s) THEN {ref[s]} ELSE Contents

\* The input is fetched and hashed, and the row back-filled with the hash of just
\* these bytes, whoever owns the row by now; the engine runs.
backfill_hashes(r) ==
  /\ job[r].pc = "backfill"
  /\ \E c \in Fetched(job[r].sim), v \in Verdicts :
       /\ content_hash' = [content_hash EXCEPT ![job[r].sim] = c]
       /\ job' = [job EXCEPT ![r] = [@ EXCEPT !.pc = "upload", !.hash = c, !.left = Files,
                                              !.verdict = v]]
  /\ UNCHANGED <<key, state, ref, runner_id, attempts, results, objects, req, sdk>>

UploadedAnyway(left, failed) == left = {} \/ failed

\* The walk is over and nothing raised.
Uploaded(left, failed) == left = {} /\ ~failed

\* One file of upload_dir.  An upload that raises, whether or not the object was
\* stored, ends the walk, and the run goes on without an artifact URI.
upload_dir(r) ==
  /\ job[r].pc = "upload"
  /\ \E f \in job[r].left, stored, failed \in BOOLEAN :
       /\ ~failed => stored
       /\ objects' = IF stored THEN [objects EXCEPT ![job[r].hash] = @ \cup {f}] ELSE objects
       /\ LET left == job[r].left \ {f}
          IN  job' = [job EXCEPT ![r] =
                [@ EXCEPT !.left = IF failed THEN {} ELSE left,
                          !.uploaded = Uploaded(left, failed),
                          !.pc = IF failed \/ left = {} THEN "upsert" ELSE "upload"]]
  /\ UNCHANGED <<key, rowVars, results, req, sdk>>

UpsertIfUploaded(r) ==
  /\ job[r].pc = "upsert"
  /\ results' = IF ~job[r].uploaded THEN results
                ELSE [results EXCEPT ![job[r].hash] =
                        [verdict |-> job[r].verdict, uri |-> job[r].hash]]
  /\ job' = [job EXCEPT ![r].pc = "finish"]
  /\ UNCHANGED <<key, rowVars, objects, req, sdk>>

\* INSERT ... ON CONFLICT DO UPDATE: verdict and URI are both overwritten.
upsert_result(r) ==
  /\ job[r].pc = "upsert"
  /\ results' = [results EXCEPT ![job[r].hash] =
                   [verdict |-> job[r].verdict,
                    uri |-> IF job[r].uploaded THEN job[r].hash ELSE None]]
  /\ job' = [job EXCEPT ![r].pc = "finish"]
  /\ UNCHANGED <<key, rowVars, objects, req, sdk>>

FenceById(r, s) == job[r].sim = s

Fence(r, s) == job[r].sim = s /\ runner_id[s] = r /\ state[s] = "running"

finish_simulation(r) ==
  /\ job[r].pc = "finish"
  /\ state' = [s \in Sims |-> IF ~Fence(r, s) THEN state[s]
                              ELSE IF job[r].verdict \in Good THEN "succeeded" ELSE "failed"]
  /\ job' = [job EXCEPT ![r] = IdleJob]
  /\ UNCHANGED <<key, ref, content_hash, runner_id, attempts, results, objects, req, sdk>>

\* Any step raised and the row was failed, or the Runner died.
Raise(r) ==
  /\ job[r].pc # "idle"
  /\ state' \in {state, [s \in Sims |-> IF Fence(r, s) THEN "failed" ELSE state[s]]}
  /\ job' = [job EXCEPT ![r] = IdleJob]
  /\ UNCHANGED <<key, ref, content_hash, runner_id, attempts, results, objects, req, sdk>>

Work(r) == \/ backfill_hashes(r) \/ upload_dir(r) \/ upsert_result(r)
           \/ finish_simulation(r) \/ Raise(r)

-----------------------------------------------------------------------------
(* The handlers of the apiserver, one statement per step.                  *)

\* The locals of the handler are gone.
Answer(status) ==
  [req EXCEPT !.pc = "answered", !.user = None, !.hash = None, !.status = status]

\* A statement or a listing failed.
Fail == req' = Answer(500)

UserIDForKeyHash(k) == IF k = None \/ key[k] # "live" THEN None ELSE KeyOwner[k]

\* Without a token, too, the answer is 401.  handleListArtifacts answers 503
\* before anything else when the apiserver has no S3 credentials, which is left
\* open.
authMiddleware ==
  /\ req.pc = "auth"
  /\ \/ LET user == UserIDForKeyHash(sdk.key)
        IN  \/ user = None /\ req' = Answer(401)
            \/ user # None /\ req.op = "artifacts" /\ req' = Answer(503)
            \/ user # None /\ req' = [req EXCEPT !.pc = "row", !.user = user]
     \/ sdk.key # None /\ Fail
  /\ UNCHANGED <<key, runVars, sdk>>

AnyRow(s) == state[s] # "absent"

\* The caller's row; another user's is answered like a missing one.
Visible(s) == state[s] # "absent" /\ Owner[s] = req.user

GetSimulation ==
  /\ req.pc = "row"
  /\ \/ req' = IF Visible(sdk.sim)
               THEN [req EXCEPT !.pc = "result", !.state = state[sdk.sim],
                                !.hash = content_hash[sdk.sim]]
               ELSE Answer(404)
     \/ Fail
  /\ UNCHANGED <<key, runVars, sdk>>

\* The three handlers, once the result of the row's hash has been looked up.  The
\* first answers without a result when the lookup fails or finds nothing.
handleGetSimulation(res) ==
  \/ req' = [Answer(200) EXCEPT !.res = res]
  \/ req' = [Answer(200) EXCEPT !.err = TRUE]

handleGetResult(res) ==
  \/ Fail
  \/ req' = IF res = NoResult THEN Answer(404) ELSE [Answer(200) EXCEPT !.res = res]

handleListArtifacts(res) ==
  \/ Fail
  \/ req' = IF res = NoResult THEN Answer(404) ELSE [req EXCEPT !.pc = "list", !.res = res]

GetResult ==
  /\ req.pc = "result"
  /\ LET res == results[req.hash]
     IN  \/ req.op = "simulation" /\ handleGetSimulation(res)
         \/ req.op = "results"    /\ handleGetResult(res)
         \/ req.op = "artifacts"  /\ handleListArtifacts(res)
  /\ UNCHANGED <<key, runVars, sdk>>

\* The stored URI, or else the prefix every Runner uploads to.
resultPrefix(res, h) == IF res.uri = None THEN h ELSE res.uri

\* The objects are listed and a GET URL is signed for each.
List ==
  /\ req.pc = "list"
  /\ \/ req' = [Answer(200) EXCEPT !.files = objects[resultPrefix(req.res, req.hash)]]
     \/ Fail
  /\ UNCHANGED <<key, runVars, sdk>>

Serve == authMiddleware \/ GetSimulation \/ GetResult \/ List

-----------------------------------------------------------------------------
(* The SDK. *)

Live(k)      == k # None /\ key[k] = "live"
Call(op, k)  == [NoCall EXCEPT !.pc = "auth", !.op = op, !.live = Live(k)]

\* An exception reaches the caller, who may go on with the client.
Raised ==
  /\ sdk' = [sdk EXCEPT !.pc = "ready", !.uri = None, !.left = {}, !.got = {}]
  /\ req' = NoCall

Answered(pc) == sdk.pc = pc /\ req.pc = "answered"

\* SynergyClient(...) with or without a token and S3 credentials, about some id.
Connect ==
  /\ sdk.pc = "idle"
  /\ \E k \in {j \in Keys : key[j] # "absent"} \cup {None}, s \in Sims,
        b \in {"s3", "presigned"} :
       sdk' = [IdleSdk EXCEPT !.pc = "ready", !.key = k, !.sim = s, !.backend = b]
  /\ UNCHANGED <<key, runVars, req>>

Wait ==
  /\ sdk.pc = "ready"
  /\ sdk' = [sdk EXCEPT !.pc = "wait"]
  /\ req' = Call("simulation", sdk.key)
  /\ UNCHANGED <<key, runVars>>

\* wait() polls until the state is terminal or its deadline has passed.
Polled ==
  /\ Answered("wait")
  /\ \/ req.status # 200 /\ Raised
     \/ /\ req.status = 200 /\ req.state \in Terminal
        /\ sdk' = [sdk EXCEPT !.pc = "ready", !.told = req.state]
        /\ req' = NoCall
     \/ /\ req.status = 200 /\ req.state \notin Terminal
        /\ \/ req' = Call("simulation", sdk.key) /\ UNCHANGED sdk
           \/ Raised
  /\ UNCHANGED <<key, runVars>>

DownloadResults ==
  /\ sdk.pc = "ready"
  /\ sdk' = [sdk EXCEPT !.pc = "results"]
  /\ req' = Call("results", sdk.key)
  /\ UNCHANGED <<key, runVars>>

\* The direct backend lists the URI itself and needs one; the presigned one asks
\* the apiserver.
GotResults ==
  /\ Answered("results")
  /\ \/ req.status # 200 /\ Raised
     \/ /\ req.status = 200 /\ sdk.backend = "s3"
        /\ IF req.res.uri = None \/ objects[req.res.uri] = {} THEN Raised
           ELSE /\ sdk' = [sdk EXCEPT !.pc = "fetch", !.uri = req.res.uri,
                                      !.left = objects[req.res.uri]]
                /\ req' = NoCall
     \/ /\ req.status = 200 /\ sdk.backend = "presigned"
        /\ sdk' = [sdk EXCEPT !.pc = "artifacts", !.uri = req.res.uri]
        /\ req' = Call("artifacts", sdk.key)
  /\ UNCHANGED <<key, runVars>>

GotArtifacts ==
  /\ Answered("artifacts")
  /\ IF req.status # 200 \/ req.files = {} THEN Raised
     ELSE sdk' = [sdk EXCEPT !.pc = "fetch", !.left = req.files] /\ req' = NoCall
  /\ UNCHANGED <<key, runVars>>

\* A file is downloaded, or fails to: the network, or a URL past its expiry.
Fetch ==
  /\ sdk.pc = "fetch" /\ sdk.left # {}
  /\ \/ \E f \in sdk.left :
          sdk' = [sdk EXCEPT !.left = @ \ {f}, !.got = @ \cup {f}] /\ UNCHANGED req
     \/ Raised
  /\ UNCHANGED <<key, runVars>>

Returned ==
  /\ sdk.pc = "fetch" /\ sdk.left = {}
  /\ sdk' = [sdk EXCEPT !.pc = "returned"]
  /\ UNCHANGED <<key, runVars, req>>

\* The caller is done with the client.
Close ==
  /\ sdk.pc \in {"ready", "returned"}
  /\ sdk' = IdleSdk
  /\ UNCHANGED <<key, runVars, req>>

Sdk == \/ Connect \/ Wait \/ Polled \/ DownloadResults \/ GotResults \/ GotArtifacts
       \/ Fetch \/ Returned \/ Close

-----------------------------------------------------------------------------

Next ==
  \/ \E k \in Keys : createApiKey(k) \/ revokeApiKey(k)
  \/ \E s \in Sims : InsertSimulation(s) \/ Reap(s)
  \/ \E r \in Runners : Work(r) \/ \E s \in Sims : Claim(r, s)
  \/ Serve \/ Sdk

Spec == Init /\ [][Next]_vars

-----------------------------------------------------------------------------
(* Properties. *)

Job == [pc : {"idle", "backfill", "upload", "upsert", "finish"},
        sim : Sims \cup {None}, hash : Contents \cup {None}, left : SUBSET Files,
        uploaded : BOOLEAN, verdict : Verdicts \cup {None}]

RunTypes ==
  /\ key          \in [Keys -> {"absent", "live", "revoked"}]
  /\ state        \in [Sims -> {"absent", "queued", "running"} \cup Terminal]
  /\ ref          \in [Sims -> Contents \cup {Named, None}]
  /\ content_hash \in [Sims -> Hashes \cup {None}]
  /\ runner_id    \in [Sims -> Runners \cup {None}]
  /\ attempts     \in [Sims -> 0..MaxAttempts]
  /\ results      \in [Hashes -> Result \cup {NoResult}]
  /\ objects      \in [Hashes -> SUBSET Files]
  /\ job          \in [Runners -> Job]

Request == [pc : {"none", "auth", "row", "result", "list", "answered"},
            op : {"simulation", "results", "artifacts", None}, live : BOOLEAN,
            user : Users \cup {None}, state : {"queued", "running", None} \cup Terminal,
            hash : Hashes \cup {None}, res : Result \cup {NoResult}, err : BOOLEAN,
            files : SUBSET Files, status : {0, 200, 401, 404, 500, 503}]

Client == [pc : {"idle", "ready", "wait", "results", "artifacts", "fetch", "returned"},
           backend : {"s3", "presigned", None}, key : Keys \cup {None},
           sim : Sims \cup {None}, told : Terminal \cup {None},
           uri : Contents \cup {None}, left : SUBSET Files, got : SUBSET Files]

\* Every variable holds a value its column, its object or its local can hold; in
\* particular no attempt is made beyond max_attempts.
TypeOK == RunTypes /\ req \in Request /\ sdk \in Client

\* An answer "succeeded" of GET /v1/simulations/{id} about a row with an addressed
\* input carries the result, although the row and the result are read in two
\* statements, unless the second failed.  A row of a replaceable upload is left
\* out: the unfenced back-fill of a zombie may point it to a hash without result.
SucceededShowsResult ==
  (/\ req.pc = "answered" /\ req.op = "simulation" /\ req.state = "succeeded" /\ ~req.err
   /\ Addressed(sdk.sim)) =>
    req.res # NoResult

\* What wait() returned stays true: the row keeps that state, whatever its input
\* and whatever zombies write, and of a succeeded row with an addressed input no
\* later request is told "no result yet".  Of a row of a replaceable upload it may
\* be: a zombie that fetched other bytes back-fills their hash (no fence).
WaitedStaysTrue ==
  sdk.told # None =>
    /\ state[sdk.sim] = sdk.told
    /\ (sdk.told = "succeeded" /\ Addressed(sdk.sim)) =>
         ~(req.pc = "answered" /\ req.status = 404)

\* Once it was shown an artifact URI, a client downloads every file of a run: with
\* S3 credentials whatever the input, since it lists the URI it was shown, and
\* through the apiserver, which reads the row again, for an addressed input;
\* although a re-execution whose upload fails half way may take the URI back
\* between the result and the listing.
DownloadIsWhole ==
  sdk.uri # None =>
    /\ (req.pc = "answered" /\ req.op = "artifacts" /\ req.status = 200 /\ Addressed(sdk.sim)) =>
         req.files = Files
    /\ (sdk.pc = "returned" /\ (sdk.backend = "s3" \/ Addressed(sdk.sim))) => sdk.got = Files

\* Only the owner of a row learns anything of it, under a key that was not
\* revoked when the request began, although results and artifacts are shared
\* between users by content hash.
OnlyOwnersAreServed ==
  /\ (req.pc = "answered" /\ req.status = 200) => req.live
  /\ (req.status = 200 \/ sdk.told # None \/ sdk.uri # None \/ sdk.got # {}) =>
       sdk.key # None /\ KeyOwner[sdk.key] = Owner[sdk.sim]

-----------------------------------------------------------------------------
(* The inductive invariant: what the rows, the Runners and the results owe   *)
(* each other, what a request has read, and what the client was given.       *)

RowInv == \A s \in Sims :
  /\ state[s] = "absent" => attempts[s] = 0
  /\ state[s] = "queued" => attempts[s] < MaxAttempts
  /\ state[s] # "absent" => content_hash[s] \in Hashes
  /\ (state[s] # "absent" /\ Addressed(s)) => content_hash[s] \in {ref[s], NoDigest}
  /\ (state[s] = "succeeded" /\ Addressed(s)) =>
       content_hash[s] = ref[s] /\ results[ref[s]] # NoResult

JobInv == \A r \in Runners : job[r].pc # "idle" =>
  /\ job[r].sim \in Sims /\ state[job[r].sim] # "absent"
  /\ job[r].pc = "backfill" => ~job[r].uploaded
  /\ job[r].pc # "backfill" =>
       /\ job[r].verdict \in Verdicts /\ job[r].hash \in Contents
       /\ Addressed(job[r].sim) =>
            job[r].hash = ref[job[r].sim] /\ content_hash[job[r].sim] = ref[job[r].sim]
  /\ job[r].pc = "upload" => Files \ job[r].left \subseteq objects[job[r].hash]
  /\ job[r].uploaded => objects[job[r].hash] = Files
  /\ job[r].pc = "finish" => results[job[r].hash] # NoResult

\* An artifact URI names the hash it is stored under, and stands for a whole run
\* of files.
ResultInv ==
  /\ results[NoDigest] = NoResult
  /\ \A c \in Contents : (results[c] # NoResult /\ results[c].uri # None) =>
       results[c].uri = c /\ objects[c] = Files

\* The client's own row.
Own == /\ sdk.key # None /\ KeyOwner[sdk.key] = Owner[sdk.sim]
       /\ state[sdk.sim] # "absent"

\* A request belongs to the call the client is in, and is past its checks only
\* for the owner, under a key that was live when it began.
CallInv ==
  /\ req.pc = "none" => req = NoCall
  /\ req.pc # "none" => /\ sdk.pc \in {"wait", "results", "artifacts"}
                        /\ req.op = IF sdk.pc = "wait" THEN "simulation" ELSE sdk.pc
  /\ sdk.pc # "idle" => sdk.sim \in Sims
  /\ sdk.key # None => key[sdk.key] # "absent"
  /\ (req.pc = "auth" /\ sdk.key # None /\ key[sdk.key] = "live") => req.live
  /\ req.pc \in {"row", "result", "list"} =>
       sdk.key # None /\ req.user = KeyOwner[sdk.key] /\ req.live
  /\ (req.pc \in {"result", "list"} \/ req.status = 200) => Own /\ req.live

\* What a request has read is still true of the tables when it answers, of the
\* hash as far as the input is addressed.
ReadInv ==
  /\ req.state # None => req.pc \in {"result", "list", "answered"}
  /\ req.pc \in {"result", "list"} => req.hash \in Hashes
  /\ req.pc = "list" => req.op = "artifacts" /\ req.hash \in Contents /\ req.res # NoResult
  /\ (req.pc = "answered" /\ req.op = "results" /\ req.status = 200) => req.res # NoResult
  /\ req.state \in Terminal => state[sdk.sim] = req.state
  /\ (req.pc \in {"result", "list"} /\ Addressed(sdk.sim)) =>
       /\ req.hash \in {ref[sdk.sim], NoDigest}
       /\ req.state = "succeeded" => req.hash = ref[sdk.sim]
  /\ (req.res # NoResult /\ req.res.uri # None) =>
       /\ Own /\ objects[req.res.uri] = Files
       /\ Addressed(sdk.sim) => req.res.uri = ref[sdk.sim]
  /\ (sdk.told = "succeeded" /\ req.pc = "result") => req.state = "succeeded"

\* What the client was given so far.
GivenInv ==
  /\ sdk.pc \notin {"fetch", "returned"} => sdk.got = {}
  /\ sdk.pc = "fetch" => Own
  /\ (sdk.pc = "fetch" /\ sdk.uri # None /\ (sdk.backend = "s3" \/ Addressed(sdk.sim))) =>
       sdk.left \cup sdk.got = Files
  /\ sdk.uri # None => /\ Own /\ objects[sdk.uri] = Files
                       /\ Addressed(sdk.sim) => sdk.uri = ref[sdk.sim]
  /\ sdk.backend = "s3" => sdk.pc # "artifacts"
  /\ sdk.pc = "idle" => sdk = IdleSdk

\* Everything a client may rely on, and what each party has to know for it.
IInv == /\ TypeOK /\ RowInv /\ JobInv /\ ResultInv /\ CallInv /\ ReadInv /\ GivenInv
        /\ SucceededShowsResult /\ WaitedStaysTrue /\ DownloadIsWhole /\ OnlyOwnersAreServed
=============================================================================
