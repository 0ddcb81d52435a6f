----------------------------- MODULE ResultCache ----------------------------
(***************************************************************************)
(* What a Runner computes between its claim and its finish, and the result *)
(* cache it feeds: object storage, the hash columns of app.simulations,    *)
(* app.results, and the cache lookup of a submission.                      *)
(*                                                                         *)
(* Model and weather are one input, the engine version is fixed, and the   *)
(* digest of an input is the input itself (SHA-256 is taken to be          *)
(* injective).  Claims and reaps are those of module Lifecycle reduced to  *)
(* ownership: any running row may be requeued under a Runner that goes on  *)
(* computing.                                                              *)
(***************************************************************************)
EXTENDS Naturals

CONSTANTS
  Sims, Runners, MaxAttempts,
  Contents,     \* the inputs' bytes
  Names,        \* refs of uploads without a digest: uploads/<user>/<basename>
  ErrOf,        \* [Contents -> SUBSET ErrFiles]: the .err files a run may leave
  None, NoDigest, NoResult

\* eplusout.err: whether the engine wrote it, and the markers found in it.
ErrFiles == [written : BOOLEAN, marks : SUBSET {"Warning", "Severe", "Fatal"}]

ASSUME EngineAssumption == ErrOf \in [Contents -> SUBSET ErrFiles]
ASSUME AttemptsAssumption == MaxAttempts \in Nat \ {0}
ASSUME SentinelAssumption ==
  NoDigest \notin Contents /\ None \notin Contents \cup Runners \cup Sims
\* uploads/<user>/<basename> is never the key of a content-addressed upload.
ASSUME NamesAssumption == Names \cap Contents = {}

\* A content-addressed ref is named by its bytes, which never change.
Refs == Contents \cup Names

VARIABLES
  object,     \* [Names -> Contents \cup {None}]: objects a client may replace
  sub,        \* per row: the submission whose cache lookup is done, or None
  state, ref, content_hash, runner_id, attempts,   \* app.simulations
  results,    \* app.results by content hash
  job         \* per Runner: the local variables of process_simulation

rowVars == <<state, ref, content_hash, runner_id, attempts>>
vars    == <<object, sub, rowVars, results, job>>

Verdicts == {"clean", "warnings", "severe", "fatal"}
Good     == {"clean", "warnings"}     \* Verdict.succeeded

\* Every submission without digests has the same placeholder hash.
ContentHash(digest) == digest
Hashes == Contents \cup {NoDigest}

Result == [verdict : Verdicts, artifacts : BOOLEAN]
ASSUME ResultAssumption == NoResult \notin Result

Job    == [pc : {"idle", "fetch", "backfill", "engine", "upsert", "finish"},
           sim : Sims \cup {None}, hash : Hashes \cup {None},
           bytes : Contents \cup {None}, verdict : Verdicts \cup {None}]
Idle   == [pc |-> "idle", sim |-> None, hash |-> None, bytes |-> None, verdict |-> None]

Init ==
  /\ object       = [n \in Names |-> None]
  /\ sub          = [s \in Sims |-> None]
  /\ state        = [s \in Sims |-> "absent"]
  /\ ref          = [s \in Sims |-> None]
  /\ content_hash = [s \in Sims |-> None]
  /\ runner_id    = [s \in Sims |-> None]
  /\ attempts     = [s \in Sims |-> 0]
  /\ results      = [h \in Hashes |-> NoResult]
  /\ job          = [r \in Runners |-> Idle]

-----------------------------------------------------------------------------
(* Clients. *)

\* The PUT of an upload without a digest, on a key that may already exist.
Upload(n) ==
  /\ \E c \in Contents : object' = [object EXCEPT ![n] = c]
  /\ UNCHANGED <<sub, rowVars, results, job>>

\* A submission looks the cache up under the digest it gives, if it gives one: of
\* an upload addressed by it, or of what a replaceable object held once (the
\* SDK's upload to an explicit destination).
Lookup(s) ==
  /\ state[s] = "absent" /\ sub[s] = None
  /\ \E f \in Refs, d \in Contents \cup {NoDigest} :
       /\ (f \in Contents /\ d # NoDigest) => d = f
       /\ sub' = [sub EXCEPT ![s] =
                    [ref |-> f, digest |-> d,
                     hit |-> d # NoDigest /\ results[ContentHash(d)] # NoResult]]
  /\ UNCHANGED <<object, rowVars, results, job>>

\* Then it inserts the row.
InsertSimulation(s) ==
  /\ sub[s] # None
  /\ state' = [state EXCEPT ![s] = IF sub[s].hit THEN "succeeded" ELSE "queued"]
  /\ ref'   = [ref EXCEPT ![s] = sub[s].ref]
  /\ content_hash' = [content_hash EXCEPT ![s] = ContentHash(sub[s].digest)]
  /\ sub'   = [sub EXCEPT ![s] = None]
  /\ UNCHANGED <<object, runner_id, attempts, results, job>>

-----------------------------------------------------------------------------
(* Ownership of a row. *)

Claim(r, s) ==
  /\ job[r].pc = "idle" /\ state[s] = "queued"
  /\ state'     = [state EXCEPT ![s] = "running"]
  /\ runner_id' = [runner_id EXCEPT ![s] = r]
  /\ attempts'  = [attempts EXCEPT ![s] = @ + 1]
  /\ job' = [job EXCEPT ![r] = [Idle EXCEPT !.pc = "fetch", !.sim = s,
                                            !.hash = content_hash[s]]]
  /\ UNCHANGED <<object, sub, ref, content_hash, results>>

RetryableOffByOne(s) == attempts[s] <= MaxAttempts

Retryable(s) == attempts[s] < MaxAttempts

\* The lease of a running row ran out and the Reaper gives it up.
Reap(s) ==
  /\ state[s] = "running"
  /\ IF Retryable(s)
     THEN /\ state'     = [state EXCEPT ![s] = "queued"]
          /\ runner_id' = [runner_id EXCEPT ![s] = None]
     ELSE /\ state' = [state EXCEPT ![s] = "failed"]
          /\ UNCHANGED runner_id
  /\ UNCHANGED <<object, sub, ref, content_hash, attempts, results, job>>

FinishRow(r, t) ==
  LET s == job[r].sim
  IN  state' = IF runner_id[s] = r /\ state[s] = "running"
               THEN [state EXCEPT ![s] = t] ELSE state

-----------------------------------------------------------------------------
(* process_simulation. *)

Bytes(f) == IF f \in Names THEN object[f] ELSE f

\* _fetch_input and sha256_file: the object's bytes at this moment.
FetchInput(r) ==
  /\ job[r].pc = "fetch" /\ Bytes(ref[job[r].sim]) # None
  /\ job' = [job EXCEPT ![r].pc = "backfill", ![r].bytes = Bytes(ref[job[r].sim])]
  /\ UNCHANGED <<object, sub, rowVars, results>>

StoredHash(r) == job[r].hash

\* The hash everything is stored under.
RealHash(r) == ContentHash(job[r].bytes)

BackfillIfMissing(r) ==
  /\ job[r].pc = "backfill"
  /\ content_hash' = IF job[r].hash # None THEN content_hash
                     ELSE [content_hash EXCEPT ![job[r].sim] = RealHash(r)]
  /\ job' = [job EXCEPT ![r].pc = "engine"]
  /\ UNCHANGED <<object, sub, state, ref, runner_id, attempts, results>>

\* UPDATE ... WHERE id: no fence.
backfill_hashes(r) ==
  /\ job[r].pc = "backfill"
  /\ content_hash' = [content_hash EXCEPT ![job[r].sim] = RealHash(r)]
  /\ job' = [job EXCEPT ![r].pc = "engine"]
  /\ UNCHANGED <<object, sub, state, ref, runner_id, attempts, results>>

classify(err) ==
  IF ~err.written \/ "Fatal" \in err.marks THEN "fatal"
  ELSE IF "Severe" \in err.marks THEN "severe"
  ELSE IF "Warning" \in err.marks THEN "warnings" ELSE "clean"

\* The engine runs (its exit code is ignored) and its .err is classified.
RunEngine(r) ==
  /\ job[r].pc = "engine"
  /\ \E err \in ErrOf[job[r].bytes] :
       job' = [job EXCEPT ![r].pc = "upsert", ![r].verdict = classify(err)]
  /\ UNCHANGED <<object, sub, rowVars, results>>

UpsertIfUploaded(r) ==
  /\ job[r].pc = "upsert"
  /\ \/ results' = [results EXCEPT ![RealHash(r)] =
                      [verdict |-> job[r].verdict, artifacts |-> TRUE]]
     \/ UNCHANGED results
  /\ job' = [job EXCEPT ![r].pc = "finish"]
  /\ UNCHANGED <<object, sub, rowVars>>

\* The artifacts are uploaded or not; the result is written either way.
upsert_result(r) ==
  /\ job[r].pc = "upsert"
  /\ \E uploaded \in BOOLEAN :
       results' = [results EXCEPT ![RealHash(r)] =
                     [verdict |-> job[r].verdict, artifacts |-> uploaded]]
  /\ job' = [job EXCEPT ![r].pc = "finish"]
  /\ UNCHANGED <<object, sub, rowVars>>

finish_simulation(r) ==
  /\ job[r].pc = "finish"
  /\ FinishRow(r, IF job[r].verdict \in Good THEN "succeeded" ELSE "failed")
  /\ job' = [job EXCEPT ![r] = Idle]
  /\ UNCHANGED <<object, sub, ref, content_hash, runner_id, attempts, results>>

\* Any step raised: the except clause fails the row, or cannot, or the process
\* died and was restarted.
Raise(r) ==
  /\ job[r].pc # "idle"
  /\ FinishRow(r, "failed") \/ UNCHANGED state
  /\ job' = [job EXCEPT ![r] = Idle]
  /\ UNCHANGED <<object, sub, ref, content_hash, runner_id, attempts, results>>

Work(r) == \/ FetchInput(r) \/ backfill_hashes(r) \/ RunEngine(r)
           \/ upsert_result(r) \/ finish_simulation(r) \/ Raise(r)

-----------------------------------------------------------------------------

Next ==
  \/ \E n \in Names : Upload(n)
  \/ \E s \in Sims : Lookup(s) \/ InsertSimulation(s) \/ Reap(s)
  \/ \E r \in Runners : Work(r) \/ \E s \in Sims : Claim(r, s)

Spec == Init /\ [][Next]_vars

-----------------------------------------------------------------------------
(* Properties. *)

\* Every variable holds a value its column or its Python local can hold; in
\* particular no attempt is made beyond max_attempts.
TypeOK ==
  /\ object       \in [Names -> Contents \cup {None}]
  /\ sub          \in [Sims -> [ref : Refs, digest : Contents \cup {NoDigest},
                                hit : BOOLEAN] \cup {None}]
  /\ state        \in [Sims -> {"absent", "queued", "running", "succeeded", "failed"}]
  /\ ref          \in [Sims -> Refs \cup {None}]
  /\ content_hash \in [Sims -> Hashes \cup {None}]
  /\ runner_id    \in [Sims -> Runners \cup {None}]
  /\ attempts     \in [Sims -> 0..MaxAttempts]
  /\ results      \in [Hashes -> Result \cup {NoResult}]
  /\ job          \in [Runners -> Job]

\* QA C-1: whatever is replaced in storage, re-executed or written by a zombie,
\* the result under a hash came out of a run of exactly the inputs with that
\* hash, and no result is ever stored under the placeholder.
ResultIsOfItsInputs ==
  \A h \in Hashes : results[h] # NoResult =>
    /\ h \in Contents
    /\ \E err \in ErrOf[h] : results[h].verdict = classify(err)

\* A succeeded row names real inputs, although it may have been submitted with
\* the placeholder and although the back-fill is not fenced.
SucceededHasRealHash ==
  \A s \in Sims : state[s] = "succeeded" => content_hash[s] \in Contents

\* A succeeded row with a content-addressed input, run or cached, always has a
\* result to show, however many zombies write the row's hash and the result
\* again; if it was run, and the engine always says the same of that input, the
\* result is a successful one.
SucceededHasResult ==
  \A s \in Sims : (state[s] = "succeeded" /\ ref[s] \in Contents) =>
    /\ results[content_hash[s]] # NoResult
    /\ (attempts[s] > 0 /\ \A e, f \in ErrOf[ref[s]] : e = f) =>
         results[content_hash[s]].verdict \in Good

\* A submission in flight has no row yet, and hits only under a real hash; a
\* queued row has an attempt left.
SubmissionInv ==
  \A s \in Sims :
    /\ sub[s] # None => state[s] = "absent" /\ (sub[s].hit => sub[s].digest \in Contents)
    /\ state[s] \in {"absent", "queued"} => attempts[s] < MaxAttempts
    /\ state[s] # "absent" => ref[s] \in Refs

\* What a Runner has established about its row at each point of its run; it
\* holds whether or not the Runner still owns the row.
JobInv ==
  \A r \in Runners :
    /\ job[r].pc # "idle" => job[r].sim \in Sims /\ state[job[r].sim] # "absent"
    /\ job[r].pc \in {"backfill", "engine", "upsert", "finish"} => job[r].bytes \in Contents
    /\ job[r].pc \in {"engine", "upsert", "finish"} => content_hash[job[r].sim] \in Contents
    /\ job[r].pc \in {"upsert", "finish"} =>
         \E err \in ErrOf[job[r].bytes] : job[r].verdict = classify(err)

\* The hash of a content-addressed row is its input or still the placeholder,
\* and its input once any Runner, zombies included, has back-filled it.
AddressInv ==
  /\ \A s \in Sims :
       /\ (sub[s] # None /\ sub[s].ref \in Contents) =>
            sub[s].digest \in {sub[s].ref, NoDigest}
       /\ (state[s] # "absent" /\ ref[s] \in Contents) => content_hash[s] \in {ref[s], NoDigest}
  /\ \A r \in Runners :
       (job[r].pc \in {"backfill", "engine", "upsert", "finish"} /\ ref[job[r].sim] \in Contents) =>
         /\ job[r].bytes = ref[job[r].sim]
         /\ job[r].pc # "backfill" => content_hash[job[r].sim] = ref[job[r].sim]

\* The result a hit, a finishing Runner or a succeeded row relies on is there; a
\* row that was run and succeeded had a run of its input with a good verdict.
ShownInv ==
  /\ \A s \in Sims :
       /\ (sub[s] # None /\ sub[s].hit) => results[sub[s].digest] # NoResult
       /\ state[s] = "absent" => attempts[s] = 0
       /\ (state[s] = "succeeded" /\ ref[s] \in Contents) =>
            /\ results[ref[s]] # NoResult
            /\ attempts[s] > 0 => \E err \in ErrOf[ref[s]] : classify(err) \in Good
  /\ \A r \in Runners : job[r].pc = "finish" => results[job[r].bytes] # NoResult

\* The inductive invariant: what each party has established stays established
\* whatever zombies write.
IInv == /\ TypeOK /\ SubmissionInv /\ JobInv /\ ResultIsOfItsInputs /\ SucceededHasRealHash
        /\ AddressInv /\ ShownInv

\* What CONTEXT.md says of a verdict ("Warnings still count as success; severe
\* and fatal do not"): no succeeded row shows such a result.
SucceededMeansGood ==
  \A s \in Sims : (state[s] = "succeeded" /\ results[content_hash[s]] # NoResult) =>
    results[content_hash[s]].verdict \in Good
=============================================================================
