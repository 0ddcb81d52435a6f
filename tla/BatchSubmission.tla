--------------------------- MODULE BatchSubmission --------------------------
(***************************************************************************)
(* POST /v1/batches: clients that submit a batch, lose the answer and      *)
(* submit again; the handler, from its validation through the idempotency  *)
(* lookup, the insert under the unique index of migration 0005 and the     *)
(* re-fetch to the expansion, in the request or in a goroutine of its own; *)
(* and the faults in between.  Each call of a handler to the database is   *)
(* one step, so the handlers of one key interleave between any two.        *)
(*                                                                         *)
(* A handler is named by its client and the try it serves, and a batch by  *)
(* the handler that created it.                                            *)
(***************************************************************************)
EXTENDS Naturals

CONSTANTS
  Clients,
  Users,
  Keys,                 \* idempotency keys
  NoKey,                \* idempotencyKey omitted
  Sizes,                \* numbers of variants a client may declare
  Requests,             \* the requests clients may make
  MaxBatchVariants,
  SyncExpandThreshold,  \* 100
  MaxTries,             \* bound on the submissions of one client
  None

ASSUME SizesAssumption == Sizes \subseteq Nat
ASSUME LimitsAssumption ==
  /\ MaxBatchVariants \in Nat /\ SyncExpandThreshold \in Nat /\ MaxTries \in Nat
ASSUME NoKeyAssumption == NoKey \notin Keys
Handlers == Clients \X (1..MaxTries)
ASSUME NoneAssumption == None \notin Handlers /\ None \notin Users

\* allowed: the engine version is on the list and the refs are of our buckets.
Request == [user : Users, key : Keys \cup {NoKey}, size : Sizes, allowed : BOOLEAN]
ASSUME RequestsAssumption == Requests \subseteq Request

VARIABLES
  req,        \* what each client submits, the same at every try
  cpc,        \* the client: "idle", "waiting", "accepted" or "rejected"
  try,        \* the number of its latest try
  got,        \* the batchId it was answered
  hpc,        \* where each handler stands
  target,     \* the batch it expands
  done,       \* the variants its Expand has inserted
  cancelled,  \* the handlers whose request context is done
  faulted,    \* the handlers that met an error of the database or their context
  batches     \* app.batches: user_id, idempotency_key, total; and its rows

clientVars == <<cpc, try, got>>
vars == <<req, clientVars, hpc, target, done, cancelled, faulted, batches>>

Absent == [user |-> None, key |-> NoKey, total |-> 0, rows |-> 0]
Exists(b) == batches[b] # Absent

Client(h) == h[1]
Req(h)    == req[Client(h)]

Init ==
  /\ req \in [Clients -> Requests]
  /\ cpc = [c \in Clients |-> "idle"]
  /\ try = [c \in Clients |-> 0]
  /\ got = [c \in Clients |-> None]
  /\ hpc = [h \in Handlers |-> "none"]
  /\ target = [h \in Handlers |-> None]
  /\ done = [h \in Handlers |-> 0]
  /\ cancelled = {} /\ faulted = {}
  /\ batches = [h \in Handlers |-> Absent]

-----------------------------------------------------------------------------
(* The client: submit_batch of the SDK, called again after an exception. *)

Submit(c) ==
  /\ cpc[c] = "idle" /\ try[c] < MaxTries
  /\ try' = [try EXCEPT ![c] = @ + 1]
  /\ cpc' = [cpc EXCEPT ![c] = "waiting"]
  /\ hpc' = [hpc EXCEPT ![<<c, try[c] + 1>>] = "validate"]
  /\ UNCHANGED <<req, got, target, done, cancelled, faulted, batches>>

\* The timeout of the session passes, or the connection breaks.
GiveUp(c) ==
  /\ cpc[c] = "waiting"
  /\ cpc' = [cpc EXCEPT ![c] = "idle"]
  /\ UNCHANGED <<req, try, got, hpc, target, done, cancelled, faulted, batches>>

Awaited(h) == cpc[Client(h)] = "waiting" /\ h[2] = try[Client(h)]

\* Handler h answers; only a client that still waits for it learns of it.
Answer(h, status, b) ==
  /\ cpc' = IF Awaited(h) THEN [cpc EXCEPT ![Client(h)] = status] ELSE cpc
  /\ got' = IF Awaited(h) THEN [got EXCEPT ![Client(h)] = b] ELSE got
  /\ UNCHANGED try

Accepted(h, b) == Answer(h, "accepted", b)    \* 202 with the batchId
Rejected(h)    == Answer(h, "rejected", None) \* 400
Failed(h)      == Answer(h, "idle", None)     \* 500: submit_batch raises

\* net/http notices that the client has gone.
Cancel(h) ==
  /\ hpc[h] \in {"validate", "lookup", "create", "refetch", "expand"}
  /\ ~Awaited(h) /\ h \notin cancelled
  /\ cancelled' = cancelled \cup {h}
  /\ UNCHANGED <<req, clientVars, hpc, target, done, faulted, batches>>

-----------------------------------------------------------------------------
(* handleCreateBatch. *)

\* The context of a handler that is over no longer matters.
Goto(h, label) ==
  /\ hpc' = [hpc EXCEPT ![h] = label]
  /\ cancelled' = IF label = "end" THEN cancelled \ {h} ELSE cancelled

Valid(r) == r.size > 0 /\ r.size <= MaxBatchVariants /\ r.allowed

Validate(h) ==
  /\ hpc[h] = "validate"
  /\ IF Valid(Req(h))
     THEN /\ Goto(h, IF Req(h).key # NoKey THEN "lookup" ELSE "create")
          /\ UNCHANGED clientVars
     ELSE Goto(h, "end") /\ Rejected(h)
  /\ UNCHANGED <<req, target, done, faulted, batches>>

FindByKeyAlone(u, k) == {b \in Handlers : Exists(b) /\ batches[b].key = k}

FindBatchByIdempotencyKey(u, k) ==
  {b \in Handlers : Exists(b) /\ batches[b].user = u /\ batches[b].key = k}

Existing(h) == FindBatchByIdempotencyKey(Req(h).user, Req(h).key)

Lookup(h) ==
  /\ hpc[h] = "lookup" /\ h \notin cancelled
  /\ IF Existing(h) # {}
     THEN /\ \E b \in Existing(h) : Accepted(h, b)
          /\ Goto(h, "end")
     ELSE Goto(h, "create") /\ UNCHANGED clientVars
  /\ UNCHANGED <<req, target, done, faulted, batches>>

UniqueGlobally(h) ==
  Req(h).key # NoKey => \A b \in Handlers : Exists(b) => batches[b].key # Req(h).key

NoUniqueIndex(h) == TRUE

\* The unique index on (user_id, idempotency_key), in which NULLs differ.
Unique(h) == Req(h).key # NoKey => Existing(h) = {}

Insert(h) ==
  batches' = [batches EXCEPT ![h] =
    [user |-> Req(h).user, key |-> Req(h).key, total |-> Req(h).size, rows |-> 0]]

CreateBatchUntargeted(h) ==
  /\ hpc[h] = "create" /\ h \notin cancelled /\ Unique(h)
  /\ Insert(h)
  /\ Goto(h, "expand")
  /\ UNCHANGED <<req, clientVars, target, done, faulted>>

CreateBatchAlwaysAsync(h) ==
  /\ hpc[h] = "create" /\ h \notin cancelled /\ Unique(h)
  /\ Insert(h)
  /\ target' = [target EXCEPT ![h] = h]
  /\ Goto(h, "async") /\ Accepted(h, h)
  /\ UNCHANGED <<req, done, faulted>>

CreateBatch(h) ==
  /\ hpc[h] = "create" /\ h \notin cancelled /\ Unique(h)
  /\ Insert(h)
  /\ target' = [target EXCEPT ![h] = h]
  /\ IF Req(h).size <= SyncExpandThreshold
     THEN Goto(h, "expand") /\ UNCHANGED clientVars
     ELSE Goto(h, "async") /\ Accepted(h, h)
  /\ UNCHANGED <<req, done, faulted>>

\* With a key, any error of the insert leads to the re-fetch.
CreateRefused(h) ==
  IF Req(h).key # NoKey THEN Goto(h, "refetch") /\ UNCHANGED clientVars
  ELSE Goto(h, "end") /\ Failed(h)

CreateViolatesIndex(h) ==
  /\ hpc[h] = "create" /\ h \notin cancelled /\ ~Unique(h)
  /\ CreateRefused(h)
  /\ UNCHANGED <<req, target, done, faulted, batches>>

\* The insert fails, or it takes effect and its reply is lost.
CreateFails(h) ==
  /\ hpc[h] = "create"
  /\ faulted' = faulted \cup {h}
  /\ CreateRefused(h)
  /\ (Unique(h) /\ Insert(h)) \/ UNCHANGED batches
  /\ UNCHANGED <<req, target, done>>

RefetchAndExpand(h) ==
  /\ hpc[h] = "refetch" /\ h \notin cancelled
  /\ \E b \in Existing(h) : target' = [target EXCEPT ![h] = b]
  /\ Goto(h, "expand")
  /\ UNCHANGED <<req, clientVars, done, faulted, batches>>

Refetch(h) ==
  /\ hpc[h] = "refetch" /\ h \notin cancelled
  /\ IF Existing(h) # {} THEN \E b \in Existing(h) : Accepted(h, b) ELSE Failed(h)
  /\ Goto(h, "end")
  /\ UNCHANGED <<req, target, done, faulted, batches>>

\* A lookup fails: the database, or the context is done.
LookupFails(h) ==
  /\ hpc[h] \in {"lookup", "refetch"}
  /\ faulted' = faulted \cup {h}
  /\ Goto(h, "end") /\ Failed(h)
  /\ UNCHANGED <<req, target, done, batches>>

-----------------------------------------------------------------------------
(* The expansion: with the request's context, or detached from it. *)

Expanding(h) == hpc[h] = "async" \/ (hpc[h] = "expand" /\ h \notin cancelled)

AddRow(h) == batches' = [batches EXCEPT ![target[h]].rows = @ + 1]

\* Expand inserts the variants of its own request, whatever rows there are.
InsertSimulation(h) ==
  /\ Expanding(h) /\ done[h] < Req(h).size
  /\ AddRow(h)
  /\ done' = [done EXCEPT ![h] = @ + 1]
  /\ UNCHANGED <<req, clientVars, hpc, target, cancelled, faulted>>

ExpandReturnsEarly(h) ==
  /\ hpc[h] \in {"expand", "async"} /\ done[h] + 1 >= Req(h).size
  /\ IF hpc[h] = "expand" THEN Accepted(h, target[h]) ELSE UNCHANGED clientVars
  /\ Goto(h, "end")
  /\ UNCHANGED <<req, target, done, faulted, batches>>

\* Also when the client went away after the last row.
ExpandReturns(h) ==
  /\ hpc[h] \in {"expand", "async"} /\ done[h] = Req(h).size
  /\ IF hpc[h] = "expand" THEN Accepted(h, target[h]) ELSE UNCHANGED clientVars
  /\ Goto(h, "end")
  /\ UNCHANGED <<req, target, done, faulted, batches>>

\* An insert fails, perhaps after it took effect: the request is answered 500,
\* the goroutine logs it, and the rest of the rows is never inserted.
ExpandFails(h) ==
  /\ hpc[h] \in {"expand", "async"} /\ done[h] < Req(h).size
  /\ faulted' = faulted \cup {h}
  /\ IF hpc[h] = "expand" THEN Failed(h) ELSE UNCHANGED clientVars
  /\ Goto(h, "end")
  /\ AddRow(h) \/ UNCHANGED batches
  /\ UNCHANGED <<req, target, done>>

\* The apiserver ends: every handler and every detached expansion with it.
Crash ==
  LET dying == {h \in Handlers : hpc[h] \notin {"none", "end"}}
  IN  /\ dying # {}
      /\ hpc' = [h \in Handlers |-> IF h \in dying THEN "end" ELSE hpc[h]]
      /\ faulted' = faulted \cup dying
      /\ cpc' = [c \in Clients |-> IF cpc[c] = "waiting" THEN "idle" ELSE cpc[c]]
      /\ cancelled' = {}
      /\ UNCHANGED <<req, try, got, target, done, batches>>

-----------------------------------------------------------------------------

Handle(h) == \/ Validate(h) \/ Lookup(h) \/ CreateBatch(h) \/ CreateViolatesIndex(h)
             \/ Refetch(h) \/ InsertSimulation(h) \/ ExpandReturns(h)

Fails(h) == CreateFails(h) \/ LookupFails(h) \/ ExpandFails(h)

Done == /\ \A h \in Handlers : hpc[h] \in {"none", "end"}
        /\ \A c \in Clients : cpc[c] \in {"accepted", "rejected"}
                                \/ (cpc[c] = "idle" /\ try[c] = MaxTries)
        /\ UNCHANGED vars

Next ==
  \/ \E c \in Clients : Submit(c) \/ GiveUp(c)
  \/ \E h \in Handlers : Handle(h) \/ Fails(h) \/ Cancel(h)
  \/ Crash
  \/ Done

Spec == Init /\ [][Next]_vars

-----------------------------------------------------------------------------
(* Properties. *)

HPC == {"none", "validate", "lookup", "create", "refetch", "expand", "async", "end"}
Batch == [user : Users, key : Keys \cup {NoKey}, total : Sizes, rows : Nat]

\* Every variable holds a value it can hold; a handler that expands has a batch.
TypeOK ==
  /\ req \in [Clients -> Requests]
  /\ cpc \in [Clients -> {"idle", "waiting", "accepted", "rejected"}]
  /\ try \in [Clients -> 0..MaxTries]
  /\ got \in [Clients -> Handlers \cup {None}]
  /\ hpc \in [Handlers -> HPC]
  /\ target \in [Handlers -> Handlers \cup {None}]
  /\ done \in [Handlers -> Nat]
  /\ \A h \in Handlers : hpc[h] \in {"expand", "async"} =>
       target[h] # None /\ batches[target[h]] \in Batch
  /\ cancelled \subseteq Handlers /\ faulted \subseteq Handlers
  /\ batches \in [Handlers -> Batch \cup {Absent}]

SameSubmission(c, d) ==
  req[c].key # NoKey /\ req[c].key = req[d].key /\ req[c].user = req[d].user

\* "idempotencyKey dedups batch submission": however the lookups, inserts and
\* re-fetches of its handlers interleave, one user's key has one batch, every
\* answer names it, and nobody is answered a batch of another user or key.
SameKeySameBatch ==
  /\ \A a, b \in Handlers :
       (Exists(a) /\ Exists(b) /\ SameSubmission(Client(a), Client(b))) => a = b
  /\ \A c \in Clients : cpc[c] = "accepted" =>
       /\ Exists(got[c])
       /\ batches[got[c]].user = req[c].user /\ batches[got[c]].key = req[c].key
       /\ \A d \in Clients :
            (cpc[d] = "accepted" /\ SameSubmission(c, d)) => got[d] = got[c]

\* No batch has a variant twice: a handler that finds the batch there, at the
\* lookup or after losing the insert, leaves the rows to the one that made it.
OneExpanderPerBatch ==
  \A b \in Handlers : Exists(b) =>
    /\ batches[b].rows <= batches[b].total
    /\ \A g, h \in Handlers :
         (target[g] = b /\ target[h] = b) => g = h

\* Client c was answered by the handler that created its batch, in whose request
\* the batch is small enough to be expanded.
AnsweredByItsCreator(c) ==
  /\ cpc[c] = "accepted" /\ got[c] = <<c, try[c]>>
  /\ batches[got[c]].total <= SyncExpandThreshold

AllRows(b) == batches[b].rows = batches[b].total

\* A batch that is expanded in its request is answered when all its rows are
\* there, and not before; of the handlers a fault interrupted, none but one that
\* takes its own batch for a concurrent submit's answers at all.
SyncAnswerIsComplete ==
  \A c \in Clients : AnsweredByItsCreator(c) =>
    AllRows(got[c]) \/ (got[c] \in faulted /\ target[got[c]] = None)

\* What the contract says ("Submission <= 100 variants expands synchronously"),
\* and the comment on the re-fetch (the error it handles is a "unique-violation
\* on idempotency_key from a concurrent submit").
SyncAnswerMeansExpanded ==
  \A c \in Clients : AnsweredByItsCreator(c) => AllRows(got[c])

\* Of the batch a client was answered, whichever of its tries or of another
\* client's submits created it, every row is there or still has a handler that
\* will insert it, unless a fault met that handler: then no retry under the key
\* will complete the batch.
AnsweredIsExpanded ==
  \A c \in Clients : cpc[c] = "accepted" =>
    \/ AllRows(got[c]) \/ got[c] \in faulted
    \/ hpc[got[c]] \in {"expand", "async"} /\ target[got[c]] = got[c]

\* M-3: a handler answers 500 only when the database or the connection failed
\* it, never because another user, or another try, was there before.
FailsOnlyByFault ==
  [][\A h \in Handlers :
       (Awaited(h) /\ hpc[h] \notin {"none", "end"} /\ hpc'[h] = "end"
          /\ cpc'[Client(h)] = "idle") => h \in faulted']_vars

-----------------------------------------------------------------------------
(* The inductive invariant behind SameKeySameBatch, OneExpanderPerBatch,       *)
(* SyncAnswerIsComplete and AnsweredIsExpanded.                                *)

\* A batch bears the user, the key and the size of its creator's request, and
\* is created at the insert, neither before nor twice.
BatchInv ==
  \A b \in Handlers : Exists(b) =>
    /\ batches[b].user = Req(b).user /\ batches[b].key = Req(b).key
    /\ batches[b].total = Req(b).size
    /\ hpc[b] \in {"refetch", "expand", "async", "end"}

\* A try its client has not made has no handler.
TryInv == \A h \in Handlers : h[2] > try[Client(h)] => hpc[h] = "none"

\* Two batches of one user and key are one.
KeyInv ==
  \A a, b \in Handlers :
    (Exists(a) /\ Exists(b) /\ SameSubmission(Client(a), Client(b))) => a = b

\* A handler expands its own batch or none; one that has created its batch and
\* does not expand it, or ends before all rows are there, has met a fault.
ExpandInv ==
  \A h \in Handlers :
    /\ target[h] \in {None, h}
    /\ target[h] = h => Exists(h) /\ hpc[h] \in {"expand", "async", "end"}
    /\ hpc[h] \in {"expand", "async"} =>
         /\ target[h] = h
         /\ batches[h].rows = done[h] /\ done[h] <= Req(h).size
         /\ hpc[h] = "expand" <=> Req(h).size <= SyncExpandThreshold
    /\ hpc[h] \notin {"expand", "async", "end"} => done[h] = 0
    /\ Exists(h) /\ target[h] = None => h \in faulted /\ batches[h].rows = 0
    /\ Exists(h) => batches[h].rows <= batches[h].total
    /\ Exists(h) /\ hpc[h] = "end" => h \in faulted \/ AllRows(h)

\* What an accepted client was answered.
AnswerInv ==
  \A c \in Clients : cpc[c] = "accepted" =>
    /\ got[c] \in Handlers /\ Exists(got[c])
    /\ batches[got[c]].user = req[c].user /\ batches[got[c]].key = req[c].key
    /\ AnsweredByItsCreator(c) =>
         /\ hpc[got[c]] = "end"
         /\ AllRows(got[c]) \/ (got[c] \in faulted /\ target[got[c]] = None)

\* The invariant the proofs carry along: the facts above hold at every step of
\* every handler.
IInv == TypeOK /\ TryInv /\ BatchInv /\ KeyInv /\ ExpandInv /\ AnswerInv
=============================================================================
