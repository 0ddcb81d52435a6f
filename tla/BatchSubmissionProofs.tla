----------------------- MODULE BatchSubmissionProofs ------------------------
(***************************************************************************)
(* Proofs about BatchSubmission, for any number of clients, users, keys,   *)
(* sizes and tries.  IInv is inductive: one lemma per group of actions     *)
(* shows that a step keeps it, and the properties follow from it.          *)
(***************************************************************************)
EXTENDS BatchSubmission, TLAPS

USE SizesAssumption, LimitsAssumption, NoKeyAssumption, NoneAssumption, RequestsAssumption

\* No batch exists and nobody has been answered at the start.
LEMMA InitIInv == Init => IInv
  BY DEF Init, IInv, TypeOK, TryInv, BatchInv, KeyInv, ExpandInv, AnswerInv, Exists, Absent,
     Handlers, Request, Batch, HPC

\* Type facts that every action lemma starts from.
LEMMA Types ==
  ASSUME IInv, NEW h \in Handlers
  PROVE  /\ Client(h) \in Clients /\ h[2] \in 1..MaxTries /\ h = <<Client(h), h[2]>>
         /\ Req(h) \in Request /\ Req(h).size \in Nat
         /\ Req(h).user \in Users /\ Req(h).key \in Keys \cup {NoKey}
         /\ Req(h).size \in Sizes
         /\ Existing(h) \subseteq Handlers
  <1>1. Client(h) \in Clients /\ h[2] \in 1..MaxTries /\ h = <<Client(h), h[2]>>
    BY DEF Client, Handlers
  <1>2. req[Client(h)] \in Requests
    BY <1>1 DEF IInv, TypeOK
  <1>3. Req(h) \in Request
    BY <1>2 DEF Req
  <1>4. /\ Req(h).user \in Users /\ Req(h).key \in Keys \cup {NoKey}
        /\ Req(h).size \in Sizes
    BY <1>3 DEF Request
  <1>5. Existing(h) \subseteq Handlers
    BY DEF Existing, FindBatchByIdempotencyKey
  <1> QED BY <1>1, <1>3, <1>4, <1>5

\* The steps of a client touch no batch and no running handler.
LEMMA ClientSteps ==
  ASSUME IInv, NEW c \in Clients, Submit(c) \/ GiveUp(c)
  PROVE  IInv'
  <1> USE DEF IInv
  <1>t. \A h \in Handlers : Client(h) \in Clients /\ h[2] \in 1..MaxTries /\ h = <<Client(h), h[2]>>
    BY Types
  <1>1. CASE Submit(c)
    <2> DEFINE g == <<c, try[c] + 1>>
    <2>1. g \in Handlers /\ Client(g) = c /\ g[2] = try[c] + 1
      BY <1>1 DEF Submit, TypeOK, Handlers, Client
    <2>2. hpc[g] = "none" /\ ~Exists(g) /\ target[g] = None /\ done[g] = 0
      BY <2>1 DEF TypeOK, TryInv, BatchInv, ExpandInv
    <2>3. TypeOK'
      BY <1>1, <2>1 DEF Submit, TypeOK, HPC, Handlers
    <2>4. TryInv'
      BY <1>1, <1>t, <2>1 DEF Submit, TypeOK, TryInv, Client
    <2>5. BatchInv' /\ KeyInv'
      BY <1>1, <2>1, <2>2 DEF Submit, TypeOK, BatchInv, KeyInv, Exists, Req, SameSubmission, Client
    <2>6. ExpandInv'
      BY <1>1, <2>1, <2>2 DEF Submit, TypeOK, ExpandInv, Exists, Req, Client, AllRows
    <2>7. AnswerInv'
      BY <1>1, <2>1, <2>2 DEF Submit, TypeOK, AnswerInv, Exists, AnsweredByItsCreator, AllRows
    <2> QED BY <2>3, <2>4, <2>5, <2>6, <2>7
  <1>2. CASE GiveUp(c)
    <2>1. TypeOK' /\ TryInv'
      BY <1>2 DEF GiveUp, TypeOK, TryInv, Client
    <2>2. BatchInv' /\ KeyInv' /\ ExpandInv' /\ AnswerInv'
      BY <1>2 DEF GiveUp, TypeOK, BatchInv, KeyInv, ExpandInv, AnswerInv, Exists, Req, Client,
         SameSubmission, AnsweredByItsCreator, AllRows
    <2> QED BY <2>1, <2>2
  <1> QED BY <1>1, <1>2

-----------------------------------------------------------------------------
(* What a step of a handler means for the clients. *)

\* Batches are never removed, and only handler h adds rows to batch h.
BatchesKept(h) ==
  \A b \in Handlers : Exists(b) =>
    /\ Exists(b)'
    /\ batches'[b].user = batches[b].user /\ batches'[b].key = batches[b].key
    /\ batches'[b].total = batches[b].total
    /\ b # h => batches'[b].rows = batches[b].rows

\* Handler h answers with batch b, its own only when that is complete, too large
\* to be complete, or one it does not know to be its own.
RightAnswer(h, b) ==
  /\ Accepted(h, b) /\ Exists(b)'
  /\ batches'[b].user = Req(h).user /\ batches'[b].key = Req(h).key
  /\ (b = h /\ batches'[h].total <= SyncExpandThreshold) =>
       /\ hpc'[h] = "end"
       /\ AllRows(h)' \/ (h \in faulted' /\ target'[h] = None)

\* A handler that leaves the batches in order, and answers nothing, an error or
\* the right batch, keeps what the clients know.
LEMMA Answers ==
  ASSUME IInv, NEW h \in Handlers, hpc[h] \notin {"none", "end"},
         req' = req, faulted \subseteq faulted',
         \A g \in Handlers : g # h => hpc'[g] = hpc[g] /\ target'[g] = target[g],
         BatchesKept(h),
         \/ UNCHANGED clientVars \/ Rejected(h) \/ Failed(h)
         \/ \E b \in Handlers : RightAnswer(h, b)
  PROVE  /\ cpc' \in [Clients -> {"idle", "waiting", "accepted", "rejected"}]
         /\ try' = try
         /\ got' \in [Clients -> Handlers \cup {None}]
         /\ AnswerInv'
  <1> USE DEF IInv
  <1>1. Client(h) \in Clients /\ h = <<Client(h), h[2]>>
    BY Types
  <1>2. \A c \in Clients : cpc[c] = "accepted" =>
          /\ got[c] \in Handlers /\ batches'[got[c]] # Absent
          /\ batches'[got[c]].user = req[c].user /\ batches'[got[c]].key = req[c].key
          /\ batches'[got[c]].total = batches[got[c]].total
          /\ AnsweredByItsCreator(c) =>
               /\ got[c] # h /\ hpc'[got[c]] = "end"
               /\ batches'[got[c]].rows = batches'[got[c]].total
                  \/ (got[c] \in faulted' /\ target'[got[c]] = None)
    BY DEF AnswerInv, BatchesKept, AllRows, Exists
  <1>3. CASE UNCHANGED clientVars
    BY <1>2, <1>3 DEF TypeOK, clientVars, AnswerInv, AnsweredByItsCreator, Exists, AllRows
  <1>4. CASE Rejected(h) \/ Failed(h)
    BY <1>1, <1>2, <1>4 DEF Rejected, Failed, Answer, TypeOK, AnswerInv, AnsweredByItsCreator,
       Exists, AllRows
  <1>5. CASE \E b \in Handlers : RightAnswer(h, b)
    <2> PICK b \in Handlers : RightAnswer(h, b)
      BY <1>5
    <2>1. CASE ~Awaited(h)
      <3>1. UNCHANGED clientVars
        BY <2>1 DEF RightAnswer, Accepted, Answer, clientVars
      <3> QED BY <3>1, <1>3
    <2>2. CASE Awaited(h)
      <3>1. /\ cpc' = [cpc EXCEPT ![Client(h)] = "accepted"]
            /\ got' = [got EXCEPT ![Client(h)] = b] /\ try' = try
        BY <2>2 DEF RightAnswer, Accepted, Answer
      <3>2. /\ cpc' \in [Clients -> {"idle", "waiting", "accepted", "rejected"}]
            /\ got' \in [Clients -> Handlers \cup {None}]
        BY <3>1, <1>1 DEF TypeOK
      <3>3. h = <<Client(h), try[Client(h)]>>
        BY <1>1, <2>2 DEF Awaited
      <3>4. ASSUME NEW c \in Clients, cpc'[c] = "accepted"
            PROVE  /\ got'[c] \in Handlers /\ Exists(got[c])'
                   /\ batches'[got'[c]].user = req'[c].user
                   /\ batches'[got'[c]].key = req'[c].key
                   /\ AnsweredByItsCreator(c)' =>
                        /\ hpc'[got'[c]] = "end"
                        /\ AllRows(got[c])' \/ (got'[c] \in faulted' /\ target'[got'[c]] = None)
        <4>1. CASE c = Client(h)
          BY <4>1, <3>1, <3>3, <1>1 DEF RightAnswer, AnsweredByItsCreator, TypeOK, Exists, AllRows, Req
        <4>2. CASE c # Client(h)
          BY <4>2, <3>1, <3>4, <1>1, <1>2 DEF AnsweredByItsCreator, TypeOK, Exists, AllRows
        <4> QED BY <4>1, <4>2
      <3> QED BY <3>1, <3>2, <3>4 DEF AnswerInv
    <2> QED BY <2>1, <2>2
  <1> QED BY <1>3, <1>4, <1>5

-----------------------------------------------------------------------------
(* The steps of a handler that touch no batch. *)

\* A handler that moves on without touching a batch, and answers rightly if it
\* answers at all, keeps the invariant.
LEMMA Moves ==
  ASSUME IInv, NEW h \in Handlers, hpc[h] \notin {"none", "end"},
         NEW l \in {"lookup", "create", "refetch", "end"}, Goto(h, l),
         Exists(h) => l = "end" /\ (h \in faulted' \/ AllRows(h)),
         hpc[h] \in {"expand", "async"} => l = "end",
         UNCHANGED <<req, target, done, batches>>,
         faulted \subseteq faulted', faulted' \subseteq Handlers,
         \/ UNCHANGED clientVars \/ Rejected(h) \/ Failed(h)
         \/ \E b \in Handlers : RightAnswer(h, b)
  PROVE  IInv'
  <1> USE DEF IInv, Goto
  <1>1. BatchesKept(h)
    BY DEF BatchesKept, Exists
  <1>2. \A g \in Handlers : g # h => hpc'[g] = hpc[g] /\ target'[g] = target[g]
    BY DEF TypeOK
  <1>3. /\ cpc' \in [Clients -> {"idle", "waiting", "accepted", "rejected"}]
        /\ try' = try
        /\ got' \in [Clients -> Handlers \cup {None}]
        /\ AnswerInv'
    BY <1>1, <1>2, Answers
  <1>4. TypeOK'
    BY <1>3 DEF TypeOK, HPC
  <1>5. TryInv'
    BY <1>3 DEF TypeOK, TryInv, Client
  <1>6. BatchInv'
    BY DEF TypeOK, BatchInv, Exists, Req, Client
  <1>7. KeyInv'
    BY DEF KeyInv, Exists, SameSubmission
  <1>8. ExpandInv'
    BY DEF TypeOK, BatchInv, ExpandInv, Exists, Req, Client, AllRows
  <1> QED BY <1>3, <1>4, <1>5, <1>6, <1>7, <1>8

\* The validation and the lookup: the batch that is found bears the client's
\* user and key, and is another handler's.
LEMMA LookupSteps ==
  ASSUME IInv, NEW h \in Handlers, Validate(h) \/ Lookup(h)
  PROVE  IInv'
  <1>1. ~Exists(h)
    BY DEF IInv, BatchInv, Validate, Lookup
  <1>2. faulted \subseteq Handlers
    BY DEF IInv, TypeOK
  <1>3. CASE Validate(h)
    <2>1. PICK l \in {"lookup", "create", "end"} : Goto(h, l) /\ (UNCHANGED clientVars \/ Rejected(h))
      BY <1>3 DEF Validate
    <2> QED BY <1>1, <1>2, <1>3, <2>1, Moves DEF Validate
  <1>4. CASE Lookup(h)
    <2>1. CASE Existing(h) = {}
      BY <1>1, <1>2, <1>4, <2>1, Moves DEF Lookup
    <2>2. CASE Existing(h) # {}
      <3>1. PICK b \in Existing(h) : Accepted(h, b) /\ Goto(h, "end")
        BY <1>4, <2>2 DEF Lookup
      <3>2. b \in Handlers /\ RightAnswer(h, b)
        BY <1>1, <1>4, <3>1 DEF Lookup, Existing, FindBatchByIdempotencyKey, RightAnswer, Exists
      <3> QED BY <1>1, <1>2, <1>4, <3>1, <3>2, Moves DEF Lookup
    <2> QED BY <2>1, <2>2
  <1> QED BY <1>3, <1>4

\* The re-fetch: the handler's own batch, when it finds that, is one whose insert
\* it took for failed.
LEMMA RefetchSteps ==
  ASSUME IInv, NEW h \in Handlers, Refetch(h) \/ LookupFails(h)
  PROVE  IInv'
  <1>1. faulted \subseteq Handlers /\ hpc \in [Handlers -> HPC]
    BY DEF IInv, TypeOK
  <1>2. Exists(h) /\ hpc[h] = "refetch" => h \in faulted
    BY DEF IInv, ExpandInv
  <1>3. CASE LookupFails(h)
    BY <1>1, <1>3, Moves DEF LookupFails
  <1>4. CASE Refetch(h)
    <2>1. CASE Existing(h) = {}
      BY <1>1, <1>4, <1>2, <2>1, Moves DEF Refetch
    <2>2. CASE Existing(h) # {}
      <3>1. PICK b \in Existing(h) : Accepted(h, b) /\ Goto(h, "end")
        BY <1>4, <2>2 DEF Refetch
      <3>2. b \in Handlers /\ Exists(b)' /\ batches' = batches
            /\ batches[b].user = Req(h).user /\ batches[b].key = Req(h).key
        BY <1>4, <3>1 DEF Refetch, Existing, FindBatchByIdempotencyKey, Exists
      <3>3. b = h => h \in faulted /\ target[h] = None
        BY <1>4, <3>2 DEF Refetch, IInv, ExpandInv, Exists
      <3>4. RightAnswer(h, b)
        BY <1>1, <1>4, <3>1, <3>2, <3>3 DEF Refetch, RightAnswer, Goto
      <3> QED BY <1>1, <1>4, <1>2, <3>1, <3>2, <3>4, Moves DEF Refetch
    <2> QED BY <2>1, <2>2
  <1> QED BY <1>3, <1>4

\* A refused insert leads to the re-fetch, or to a 500.
LEMMA RefusedSteps ==
  ASSUME IInv, NEW h \in Handlers, CreateViolatesIndex(h) \/ (CreateFails(h) /\ UNCHANGED batches)
  PROVE  IInv'
  <1>1. ~Exists(h) /\ hpc[h] = "create"
    BY DEF IInv, BatchInv, CreateViolatesIndex, CreateFails
  <1>2. /\ faulted \subseteq faulted' /\ faulted' \subseteq Handlers
        /\ UNCHANGED <<req, target, done, batches>> /\ CreateRefused(h)
    BY DEF IInv, TypeOK, CreateViolatesIndex, CreateFails
  <1>3. PICK l \in {"refetch", "end"} : Goto(h, l) /\ (UNCHANGED clientVars \/ Failed(h))
    BY <1>2 DEF CreateRefused
  <1> QED BY <1>1, <1>2, <1>3, Moves

\* The expansion in the request answers when the last row is in.
LEMMA ReturnSteps ==
  ASSUME IInv, NEW h \in Handlers, ExpandReturns(h)
  PROVE  IInv'
  <1>1. /\ hpc[h] \in {"expand", "async"} /\ target[h] = h /\ Exists(h)
        /\ batches[h].rows = done[h] /\ done[h] = Req(h).size
        /\ batches[h].total = Req(h).size
        /\ batches[h].user = Req(h).user /\ batches[h].key = Req(h).key
    BY DEF ExpandReturns, Expanding, IInv, ExpandInv, BatchInv
  <1>2. Goto(h, "end") /\ UNCHANGED <<req, target, done, batches, faulted>>
    BY DEF ExpandReturns
  <1>3. faulted \subseteq Handlers /\ hpc \in [Handlers -> HPC]
    BY DEF IInv, TypeOK
  <1>4. UNCHANGED clientVars \/ RightAnswer(h, h)
    BY <1>1, <1>2, <1>3 DEF ExpandReturns, RightAnswer, Exists, AllRows, Goto
  <1>5. AllRows(h)
    BY <1>1 DEF AllRows
  <1> QED BY <1>1, <1>2, <1>3, <1>4, <1>5, Moves

\* A context that is done changes nothing else.
LEMMA CancelSteps ==
  ASSUME IInv, NEW h \in Handlers, Cancel(h)
  PROVE  IInv'
  BY DEF Cancel, clientVars, IInv, TypeOK, TryInv, BatchInv, KeyInv, ExpandInv, AnswerInv, Exists, Req,
     Client, SameSubmission, AnsweredByItsCreator, AllRows

-----------------------------------------------------------------------------
(* The steps of a handler that write a batch. *)

\* Batch h, of handler h's request, has n rows after the step, and the others are
\* what they were; no two batches have a user and a key in common.
Wrote(h, n) ==
  /\ Exists(h)' /\ batches'[h] \in Batch
  /\ batches'[h].user = Req(h).user /\ batches'[h].key = Req(h).key
  /\ batches'[h].total = Req(h).size /\ batches'[h].rows = n
  /\ \A b \in Handlers : b # h => batches'[b] = batches[b]
  /\ batches' \in [Handlers -> Batch \cup {Absent}]
  /\ BatchesKept(h)
  /\ KeyInv'

\* What an insert under the unique index leaves: one new batch, and no other of
\* its user and key.
LEMMA Inserts ==
  ASSUME IInv, NEW h \in Handlers, hpc[h] = "create", Unique(h), Insert(h), req' = req
  PROVE  /\ ~Exists(h) /\ target[h] = None /\ done[h] = 0
         /\ Wrote(h, 0)
  <1> USE DEF IInv, Wrote
  <1>1. ~Exists(h) /\ target[h] = None /\ done[h] = 0
    BY DEF BatchInv, ExpandInv
  <1>2. /\ Req(h).user \in Users /\ Req(h).key \in Keys \cup {NoKey}
        /\ Req(h).size \in Sizes
    BY Types
  <1> DEFINE new == [user |-> Req(h).user, key |-> Req(h).key, total |-> Req(h).size, rows |-> 0]
  <1>3. new \in Batch /\ new # Absent
    BY <1>2 DEF Batch, Absent
  <1>4. batches' = [batches EXCEPT ![h] = new]
    BY DEF Insert
  <1>5. batches'[h] = new /\ \A b \in Handlers : b # h => batches'[b] = batches[b]
    BY <1>4 DEF TypeOK
  <1>6. batches' \in [Handlers -> Batch \cup {Absent}]
    BY <1>3, <1>4 DEF TypeOK
  <1>7. BatchesKept(h)
    BY <1>1, <1>3, <1>5 DEF BatchesKept, Exists
  <1>8. \A b \in Handlers : Exists(b) => ~SameSubmission(Client(h), Client(b))
    BY DEF Unique, Existing, FindBatchByIdempotencyKey, BatchInv, SameSubmission, Req
  <1>9. \A b \in Handlers : SameSubmission(Client(b), Client(h)) <=> SameSubmission(Client(h), Client(b))
    BY DEF SameSubmission
  <1>10. KeyInv'
    BY <1>5, <1>8, <1>9 DEF KeyInv, Exists, SameSubmission
  <1> QED BY <1>1, <1>3, <1>5, <1>6, <1>7, <1>10 DEF Exists

\* The insert succeeds: the handler goes on to expand its batch.
LEMMA CreateSteps ==
  ASSUME IInv, NEW h \in Handlers, CreateBatch(h)
  PROVE  IInv'
  <1> USE DEF IInv, Wrote
  <1>1. hpc[h] = "create" /\ Unique(h) /\ Insert(h)
        /\ target' = [target EXCEPT ![h] = h] /\ UNCHANGED <<req, done, faulted>>
    BY DEF CreateBatch
  <1>2. /\ ~Exists(h) /\ target[h] = None /\ done[h] = 0
        /\ Wrote(h, 0)
    BY <1>1, Inserts
  <1>3. Req(h).size \in Nat /\ Client(h) \in Clients
    BY Types
  <1>4. PICK l \in {"expand", "async"} :
          /\ Goto(h, l)
          /\ l = "expand" <=> Req(h).size <= SyncExpandThreshold
          /\ l = "expand" => UNCHANGED clientVars
          /\ l = "async" => Accepted(h, h)
    BY DEF CreateBatch
  <1>5. hpc' = [hpc EXCEPT ![h] = l] /\ cancelled' \subseteq Handlers
    BY <1>4 DEF Goto, TypeOK
  <1>6. UNCHANGED clientVars \/ RightAnswer(h, h)
    BY <1>2, <1>4 DEF RightAnswer
  <1>7. \A g \in Handlers : g # h => hpc'[g] = hpc[g] /\ target'[g] = target[g]
    BY <1>1, <1>5 DEF TypeOK
  <1>8. /\ cpc' \in [Clients -> {"idle", "waiting", "accepted", "rejected"}]
        /\ try' = try
        /\ got' \in [Clients -> Handlers \cup {None}]
        /\ AnswerInv'
    BY <1>1, <1>2, <1>6, <1>7, Answers
  <1>9. hpc'[h] = l /\ target'[h] = h
    BY <1>1, <1>5 DEF TypeOK
  <1>10. TypeOK'
    <2>1. \A g \in Handlers : hpc'[g] \in {"expand", "async"} =>
            target'[g] # None /\ batches'[target'[g]] \in Batch
      BY <1>2, <1>7, <1>9 DEF TypeOK, ExpandInv, Exists
    <2> QED BY <1>1, <1>2, <1>5, <1>8, <2>1 DEF TypeOK, HPC
  <1>11. TryInv'
    BY <1>1, <1>7, <1>8 DEF TryInv, Client
  <1>12. BatchInv'
    BY <1>1, <1>2, <1>7, <1>9 DEF BatchInv, Exists, Req, Client
  <1>13. ExpandInv'
    BY <1>1, <1>2, <1>3, <1>4, <1>7, <1>9 DEF ExpandInv, Exists, Req, Client, AllRows
  <1> QED BY <1>2, <1>8, <1>10, <1>11, <1>12, <1>13

\* The insert takes effect and the handler is told that it failed.
LEMMA LostInsertSteps ==
  ASSUME IInv, NEW h \in Handlers, CreateFails(h), Unique(h), Insert(h)
  PROVE  IInv'
  <1> USE DEF IInv, Wrote
  <1>1. /\ hpc[h] = "create" /\ CreateRefused(h) /\ UNCHANGED <<req, target, done>>
        /\ faulted' = faulted \cup {h}
    BY DEF CreateFails
  <1>2. /\ ~Exists(h) /\ target[h] = None /\ done[h] = 0
        /\ Wrote(h, 0)
    BY <1>1, Inserts
  <1>3. Req(h).size \in Nat /\ Client(h) \in Clients
    BY Types
  <1>4. PICK l \in {"refetch", "end"} : Goto(h, l) /\ (UNCHANGED clientVars \/ Failed(h))
    BY <1>1 DEF CreateRefused
  <1>5. hpc' = [hpc EXCEPT ![h] = l] /\ cancelled' \subseteq Handlers
    BY <1>4 DEF Goto, TypeOK
  <1>6. \A g \in Handlers : g # h => hpc'[g] = hpc[g] /\ target'[g] = target[g]
    BY <1>1, <1>5 DEF TypeOK
  <1>7. /\ cpc' \in [Clients -> {"idle", "waiting", "accepted", "rejected"}]
        /\ try' = try
        /\ got' \in [Clients -> Handlers \cup {None}]
        /\ AnswerInv'
    BY <1>1, <1>2, <1>4, <1>6, Answers
  <1>8. hpc'[h] = l
    BY <1>5 DEF TypeOK
  <1>9. TypeOK'
    <2>1. \A g \in Handlers : hpc'[g] \in {"expand", "async"} =>
            target'[g] # None /\ batches'[target'[g]] \in Batch
      BY <1>1, <1>2, <1>6, <1>8 DEF TypeOK, ExpandInv, Exists
    <2> QED BY <1>1, <1>2, <1>5, <1>7, <2>1 DEF TypeOK, HPC
  <1>10. TryInv'
    BY <1>1, <1>6, <1>7 DEF TryInv, Client
  <1>11. BatchInv'
    BY <1>1, <1>2, <1>6, <1>8 DEF BatchInv, Exists, Req, Client
  <1>12. ExpandInv'
    BY <1>1, <1>2, <1>3, <1>6, <1>8 DEF ExpandInv, Exists, Req, Client, AllRows
  <1> QED BY <1>2, <1>7, <1>9, <1>10, <1>11, <1>12

\* A row is added to the handler's own batch, which has not had all of them.
LEMMA Adds ==
  ASSUME IInv, NEW h \in Handlers, hpc[h] \in {"expand", "async"}, done[h] < Req(h).size,
         AddRow(h), req' = req
  PROVE  /\ target[h] = h /\ Exists(h) /\ batches[h].rows = done[h]
         /\ Wrote(h, done[h] + 1)
  <1> USE DEF IInv, Wrote
  <1>1. target[h] = h /\ Exists(h) /\ batches[h].rows = done[h] /\ batches[h] \in Batch
    BY DEF ExpandInv, TypeOK
  <1>2. batches' = [batches EXCEPT ![h] = [batches[h] EXCEPT !.rows = done[h] + 1]]
    BY <1>1 DEF AddRow, TypeOK
  <1>3. [batches[h] EXCEPT !.rows = done[h] + 1] \in Batch
    BY <1>1 DEF TypeOK, Batch
  <1>4. /\ batches'[h] \in Batch /\ batches'[h].rows = done[h] + 1
        /\ batches'[h].user = batches[h].user /\ batches'[h].key = batches[h].key
        /\ batches'[h].total = batches[h].total
    BY <1>1, <1>2, <1>3 DEF TypeOK, Batch
  <1>5. Exists(h)'
    BY <1>4 DEF Exists, Batch, Absent
  <1>6. \A b \in Handlers : b # h => batches'[b] = batches[b]
    BY <1>2 DEF TypeOK
  <1>7. batches' \in [Handlers -> Batch \cup {Absent}]
    BY <1>2, <1>3 DEF TypeOK
  <1>8. BatchesKept(h)
    BY <1>4, <1>5, <1>6 DEF BatchesKept, Exists
  <1>9. KeyInv'
    BY <1>1, <1>6 DEF KeyInv, Exists, SameSubmission
  <1>10. /\ batches[h].user = Req(h).user /\ batches[h].key = Req(h).key
         /\ batches[h].total = Req(h).size
    BY <1>1 DEF BatchInv
  <1> QED BY <1>1, <1>4, <1>5, <1>6, <1>7, <1>8, <1>9, <1>10

\* Expand inserts one variant.
LEMMA InsertSteps ==
  ASSUME IInv, NEW h \in Handlers, InsertSimulation(h)
  PROVE  IInv'
  <1> USE DEF IInv, Wrote
  <1>1. /\ hpc[h] \in {"expand", "async"} /\ done[h] < Req(h).size /\ AddRow(h)
        /\ done' = [done EXCEPT ![h] = @ + 1]
        /\ UNCHANGED <<req, clientVars, hpc, target, cancelled, faulted>>
    BY DEF InsertSimulation, Expanding
  <1>2. /\ target[h] = h /\ Exists(h) /\ batches[h].rows = done[h]
        /\ Wrote(h, done[h] + 1)
    BY <1>1, Adds
  <1>3. Req(h).size \in Nat /\ done[h] \in Nat
    BY Types DEF TypeOK
  <1>4. try' = try /\ AnswerInv'
    BY <1>1, <1>2, Answers
  <1>5. done' \in [Handlers -> Nat] /\ done'[h] = done[h] + 1
        /\ \A g \in Handlers : g # h => done'[g] = done[g]
    BY <1>1 DEF TypeOK
  <1>6. TypeOK'
    <2>1. \A g \in Handlers : hpc'[g] \in {"expand", "async"} =>
            target'[g] # None /\ batches'[target'[g]] \in Batch
      BY <1>1, <1>2 DEF TypeOK, ExpandInv, Exists
    <2> QED BY <1>1, <1>2, <1>5, <2>1 DEF TypeOK, clientVars
  <1>7. TryInv' /\ BatchInv'
    BY <1>1, <1>2, <1>4 DEF TryInv, BatchInv, Exists, Req, Client
  <1>8. ExpandInv'
    BY <1>1, <1>2, <1>3, <1>5 DEF ExpandInv, Exists, Req, Client, AllRows
  <1> QED BY <1>2, <1>4, <1>6, <1>7, <1>8

\* Expand fails, perhaps after its last insert took effect.
LEMMA ExpandFailsSteps ==
  ASSUME IInv, NEW h \in Handlers, ExpandFails(h)
  PROVE  IInv'
  <1> USE DEF IInv, Wrote
  <1>1. /\ hpc[h] \in {"expand", "async"} /\ done[h] < Req(h).size
        /\ faulted' = faulted \cup {h} /\ Goto(h, "end")
        /\ UNCHANGED clientVars \/ Failed(h)
        /\ UNCHANGED <<req, target, done>>
    BY DEF ExpandFails
  <1>2. CASE UNCHANGED batches
    BY <1>1, <1>2, Moves DEF TypeOK
  <1>3. CASE AddRow(h)
    <2>1. /\ target[h] = h /\ Exists(h) /\ batches[h].rows = done[h]
          /\ Wrote(h, done[h] + 1)
      BY <1>1, <1>3, Adds
    <2>2. Req(h).size \in Nat /\ done[h] \in Nat
      BY Types DEF TypeOK
    <2>3. hpc' = [hpc EXCEPT ![h] = "end"] /\ cancelled' \subseteq Handlers
      BY <1>1 DEF Goto, TypeOK
    <2>4. hpc'[h] = "end" /\ \A g \in Handlers : g # h => hpc'[g] = hpc[g] /\ target'[g] = target[g]
      BY <1>1, <2>3 DEF TypeOK
    <2>5. /\ cpc' \in [Clients -> {"idle", "waiting", "accepted", "rejected"}]
          /\ try' = try
          /\ got' \in [Clients -> Handlers \cup {None}]
          /\ AnswerInv'
      BY <1>1, <2>1, <2>4, Answers
    <2>6. TypeOK'
      <3>1. \A g \in Handlers : hpc'[g] \in {"expand", "async"} =>
              target'[g] # None /\ batches'[target'[g]] \in Batch
        BY <1>1, <2>1, <2>4 DEF TypeOK, ExpandInv, Exists
      <3> QED BY <1>1, <2>1, <2>3, <2>5, <3>1 DEF TypeOK, HPC
    <2>7. TryInv' /\ BatchInv'
      BY <1>1, <2>1, <2>4, <2>5 DEF TryInv, BatchInv, Exists, Req, Client
    <2>8. ExpandInv'
      BY <1>1, <2>1, <2>2, <2>4 DEF ExpandInv, Exists, Req, Client, AllRows
    <2> QED BY <2>1, <2>5, <2>6, <2>7, <2>8
  <1> QED BY <1>2, <1>3 DEF ExpandFails

\* The apiserver ends: its handlers stop where they are.
LEMMA CrashSteps == IInv /\ Crash => IInv'
  BY DEF Crash, IInv, TypeOK, HPC, TryInv, BatchInv, KeyInv, ExpandInv, AnswerInv, Exists, Req,
     Client, SameSubmission, AnsweredByItsCreator, AllRows

-----------------------------------------------------------------------------
(* The theorems. *)

\* Every step keeps the invariant.
LEMMA NextIInv == IInv /\ [Next]_vars => IInv'
  <1> SUFFICES ASSUME IInv, [Next]_vars PROVE IInv'
    OBVIOUS
  <1>1. CASE \E c \in Clients : Submit(c) \/ GiveUp(c)
    BY <1>1, ClientSteps
  <1>2. ASSUME NEW h \in Handlers, Handle(h)
        PROVE  IInv'
    BY <1>2, LookupSteps, CreateSteps, RefusedSteps, RefetchSteps, InsertSteps, ReturnSteps DEF Handle
  <1>3. ASSUME NEW h \in Handlers, Fails(h)
        PROVE  IInv'
    <2>1. CASE CreateFails(h)
      <3>1. CASE UNCHANGED batches
        BY <2>1, <3>1, RefusedSteps
      <3>2. CASE Unique(h) /\ Insert(h)
        BY <2>1, <3>2, LostInsertSteps
      <3> QED BY <2>1, <3>1, <3>2 DEF CreateFails
    <2>2. CASE LookupFails(h) \/ ExpandFails(h)
      BY <2>2, RefetchSteps, ExpandFailsSteps
    <2> QED BY <1>3, <2>1, <2>2 DEF Fails
  <1>4. CASE Crash
    BY <1>4, CrashSteps
  <1>5. CASE UNCHANGED vars
    BY <1>5 DEF vars, clientVars, IInv, TypeOK, TryInv, BatchInv, KeyInv, ExpandInv, AnswerInv, Exists, Req,
       Client, SameSubmission, AnsweredByItsCreator, AllRows
  <1> QED BY <1>1, <1>2, <1>3, <1>4, <1>5, CancelSteps DEF Next, Done

\* The facts of IInv hold at every step of every handler: handleCreateBatch, its
\* retries, cancelled contexts and the death of the apiserver included.
THEOREM SubmissionInvariance == Spec => []IInv
  BY InitIInv, NextIInv, PTL DEF Spec

\* Every reachable state of the submission path is well typed.
THEOREM SubmissionTypeCorrect == Spec => []TypeOK
  <1>1. IInv => TypeOK
    BY DEF IInv
  <1> QED BY <1>1, SubmissionInvariance, PTL

\* The idempotency key dedups: lookup, unique index and re-fetch together give
\* one batch per user and key, and every answer names it.
THEOREM OneBatchPerKey == Spec => []SameKeySameBatch
  <1>1. IInv => SameKeySameBatch
    <2> SUFFICES ASSUME IInv PROVE SameKeySameBatch
      OBVIOUS
    <2>1. KeyInv /\ AnswerInv /\ BatchInv
      BY DEF IInv
    <2>2. ASSUME NEW c \in Clients, NEW d \in Clients, cpc[c] = "accepted", cpc[d] = "accepted",
                 SameSubmission(c, d)
          PROVE  got[d] = got[c]
      <3>1. got[c] \in Handlers /\ got[d] \in Handlers /\ Exists(got[c]) /\ Exists(got[d])
        BY <2>1, <2>2 DEF AnswerInv
      <3>2. SameSubmission(Client(got[c]), Client(got[d]))
        BY <2>1, <2>2, <3>1 DEF AnswerInv, BatchInv, SameSubmission, Req
      <3> QED BY <2>1, <3>1, <3>2 DEF KeyInv
    <2> QED BY <2>1, <2>2 DEF SameKeySameBatch, KeyInv, AnswerInv
  <1> QED BY <1>1, SubmissionInvariance, PTL

\* No batch is expanded by two handlers or gets more rows than it declares.
THEOREM RowsAreInsertedOnce == Spec => []OneExpanderPerBatch
  <1>1. IInv => OneExpanderPerBatch
    BY DEF IInv, ExpandInv, OneExpanderPerBatch
  <1> QED BY <1>1, SubmissionInvariance, PTL

\* A submission that is expanded in its request is answered with all its rows,
\* but for the handler that takes its own batch for a concurrent submit's.
THEOREM SyncAnswersAreComplete == Spec => []SyncAnswerIsComplete
  <1>1. IInv => SyncAnswerIsComplete
    BY DEF IInv, AnswerInv, SyncAnswerIsComplete, AnsweredByItsCreator
  <1> QED BY <1>1, SubmissionInvariance, PTL

\* A batch that was answered is complete, being expanded, or a fault's victim.
THEOREM AnsweredBatchesAreExpanded == Spec => []AnsweredIsExpanded
  <1>1. IInv => AnsweredIsExpanded
    <2> SUFFICES ASSUME IInv, NEW c \in Clients, cpc[c] = "accepted"
                 PROVE  \/ AllRows(got[c]) \/ got[c] \in faulted
                        \/ hpc[got[c]] \in {"expand", "async"} /\ target[got[c]] = got[c]
      BY DEF AnsweredIsExpanded
    <2>1. got[c] \in Handlers /\ Exists(got[c])
      BY DEF IInv, AnswerInv
    <2>2. hpc[got[c]] \in {"refetch", "expand", "async", "end"}
      BY <2>1 DEF IInv, BatchInv
    <2> QED BY <2>1, <2>2 DEF IInv, ExpandInv
  <1> QED BY <1>1, SubmissionInvariance, PTL

\* A handler whose insert hit the unique index finds the batch that was there.
RefetchInv == \A h \in Handlers : hpc[h] = "refetch" => h \in faulted \/ Existing(h) # {}

\* A batch keeps its user and its key for ever.
LEMMA BatchesStay ==
  ASSUME IInv, [Next]_vars
  PROVE  /\ req' = req
         /\ \A b \in Handlers : Exists(b) =>
              Exists(b)' /\ batches'[b].user = batches[b].user /\ batches'[b].key = batches[b].key
  <1>1. req' = req
    BY DEF Next, Handle, Fails, Submit, GiveUp, Validate, Lookup, CreateBatch, CreateViolatesIndex, Refetch,
       InsertSimulation, ExpandReturns, CreateFails, LookupFails, ExpandFails, Cancel, Crash, Done, vars
  <1>2. CASE UNCHANGED batches
    BY <1>1, <1>2 DEF Exists
  <1>3. ASSUME NEW h \in Handlers, CreateBatch(h) \/ (CreateFails(h) /\ Unique(h) /\ Insert(h))
        PROVE  BatchesKept(h)
    BY <1>1, <1>3, Inserts DEF CreateBatch, CreateFails, Wrote
  <1>4. ASSUME NEW h \in Handlers, InsertSimulation(h) \/ (ExpandFails(h) /\ AddRow(h))
        PROVE  BatchesKept(h)
    BY <1>1, <1>4, Adds DEF InsertSimulation, Expanding, ExpandFails, Wrote
  <1>5. \/ UNCHANGED batches
        \/ \E h \in Handlers : \/ CreateBatch(h) \/ (CreateFails(h) /\ Unique(h) /\ Insert(h))
                               \/ InsertSimulation(h) \/ (ExpandFails(h) /\ AddRow(h))
    BY DEF Next, Handle, Fails, Submit, GiveUp, Validate, Lookup, CreateViolatesIndex, Refetch,
       ExpandReturns, CreateFails, LookupFails, ExpandFails, Cancel, Crash, Done, vars
  <1>6. UNCHANGED batches \/ \E h \in Handlers : BatchesKept(h)
    BY <1>3, <1>4, <1>5
  <1> QED BY <1>1, <1>2, <1>6 DEF BatchesKept

\* A handler comes to the re-fetch from its insert only.
LEMMA ComesFromCreate ==
  ASSUME IInv, [Next]_vars, NEW h \in Handlers, hpc'[h] = "refetch"
  PROVE  (hpc[h] = "refetch" /\ faulted \subseteq faulted') \/ CreateViolatesIndex(h) \/ h \in faulted'
  <1>1. hpc \in [Handlers -> HPC]
    BY DEF IInv, TypeOK
  <1>2. CASE \E c \in Clients : Submit(c) \/ GiveUp(c)
    BY <1>1, <1>2 DEF Submit, GiveUp
  <1>3. ASSUME NEW g \in Handlers, Handle(g) \/ LookupFails(g) \/ ExpandFails(g) \/ Cancel(g)
        PROVE  (hpc[h] = "refetch" /\ faulted \subseteq faulted') \/ CreateViolatesIndex(h)
    <2>1. faulted \subseteq faulted'
      BY <1>3 DEF Handle, Validate, Lookup, CreateBatch, CreateViolatesIndex, Refetch, InsertSimulation,
         ExpandReturns, LookupFails, ExpandFails, Cancel
    <2>2. CASE CreateViolatesIndex(g)
      BY <1>1, <2>1, <2>2 DEF CreateViolatesIndex, CreateRefused, Goto
    <2>3. CASE ~CreateViolatesIndex(g)
      <3>1. hpc' = hpc \/ \E l \in HPC \ {"refetch"} : hpc' = [hpc EXCEPT ![g] = l]
        BY <1>3, <2>3 DEF Handle, Validate, Lookup, CreateBatch, Refetch, InsertSimulation,
           ExpandReturns, LookupFails, ExpandFails, Cancel, Goto, HPC
      <3> QED BY <1>1, <2>1, <3>1
    <2> QED BY <2>2, <2>3
  <1>4. ASSUME NEW g \in Handlers, CreateFails(g)
        PROVE  (hpc[h] = "refetch" /\ faulted \subseteq faulted') \/ h \in faulted'
    BY <1>1, <1>4 DEF CreateFails, CreateRefused, Goto
  <1>5. CASE Crash \/ Done \/ UNCHANGED vars
    BY <1>1, <1>5 DEF Crash, Done, vars
  <1> QED BY <1>2, <1>3, <1>4, <1>5 DEF Next, Fails

\* The batch a handler lost to stays, with its user and its key.
LEMMA NextRefetchInv == IInv /\ RefetchInv /\ [Next]_vars => RefetchInv'
  <1> SUFFICES ASSUME IInv, RefetchInv, [Next]_vars, NEW h \in Handlers, hpc'[h] = "refetch"
               PROVE  h \in faulted' \/ Existing(h)' # {}
    BY DEF RefetchInv
  <1>1. Existing(h) # {} => Existing(h)' # {}
    BY BatchesStay DEF Existing, FindBatchByIdempotencyKey, Req, Client
  <1>2. CreateViolatesIndex(h) => Existing(h) # {}
    BY DEF CreateViolatesIndex, Unique
  <1> QED BY <1>1, <1>2, ComesFromCreate DEF RefetchInv

\* What a step that ends a handler and leaves its client without an answer has
\* met; the other ends answer 202 or 400.
FailsByFault ==
  \A h \in Handlers :
    (Awaited(h) /\ hpc[h] \notin {"none", "end"} /\ hpc'[h] = "end"
       /\ cpc'[Client(h)] = "idle") => h \in faulted'

\* A step of Next that answers 500 is one of a fault.
LEMMA NextFailsByFault == IInv /\ RefetchInv /\ [Next]_vars => FailsByFault
  <1> SUFFICES ASSUME IInv, RefetchInv, [Next]_vars, NEW h \in Handlers,
                      Awaited(h), hpc[h] \notin {"none", "end"}, hpc'[h] = "end",
                      cpc'[Client(h)] = "idle"
               PROVE  h \in faulted'
    BY DEF FailsByFault
  <1>1. /\ hpc \in [Handlers -> HPC] /\ Client(h) \in Clients
        /\ cpc \in [Clients -> {"idle", "waiting", "accepted", "rejected"}]
        /\ try \in [Clients -> 0..MaxTries] /\ h = <<Client(h), h[2]>>
    BY Types DEF IInv, TypeOK
  <1>2. cpc[Client(h)] = "waiting"
    BY DEF Awaited
  <1>3. hpc'[h] # hpc[h] /\ cpc'[Client(h)] # cpc[Client(h)]
    BY <1>2
  <1>4. CASE Crash
    BY <1>4 DEF Crash
  <1>5. ASSUME NEW c \in Clients, Submit(c) \/ GiveUp(c)
        PROVE  FALSE
    BY <1>1, <1>3, <1>5 DEF Submit, GiveUp
  <1>6. ASSUME NEW g \in Handlers, Fails(g)
        PROVE  h \in faulted'
    BY <1>1, <1>3, <1>6 DEF Fails, CreateFails, LookupFails, ExpandFails, CreateRefused, Goto
  <1>7. ASSUME NEW g \in Handlers, Handle(g)
        PROVE  h \in faulted'
    <2>1. g = h
      BY <1>1, <1>3, <1>7 DEF Handle, Validate, Lookup, CreateBatch, CreateViolatesIndex, CreateRefused,
         Refetch, InsertSimulation, ExpandReturns, Goto
    <2>2. Failed(h)
      BY <1>1, <1>2, <1>3, <1>7, <2>1 DEF Handle, Validate, Lookup, CreateBatch, CreateViolatesIndex,
         CreateRefused, Refetch, InsertSimulation, ExpandReturns, clientVars, Accepted, Rejected, Failed, Answer
    <2>3. CreateViolatesIndex(h) => FALSE
      BY <1>1, <1>3 DEF CreateViolatesIndex, Unique, CreateRefused, Goto
    <2>4. Refetch(h) => h \in faulted'
      BY <1>1, <2>2 DEF Refetch, RefetchInv, Failed, Accepted, Answer
    <2>5. ~Validate(h) /\ ~Lookup(h) /\ ~CreateBatch(h) /\ ~InsertSimulation(h) /\ ~ExpandReturns(h)
      BY <1>1, <1>2, <1>3 DEF Validate, Lookup, CreateBatch, InsertSimulation, ExpandReturns, clientVars,
         Rejected, Accepted, Answer
    <2> QED BY <1>7, <2>1, <2>3, <2>4, <2>5 DEF Handle
  <1>8. ASSUME NEW g \in Handlers, Cancel(g)
        PROVE  FALSE
    BY <1>3, <1>8 DEF Cancel
  <1>9. CASE Done \/ UNCHANGED vars
    BY <1>3, <1>9 DEF Done, vars
  <1> QED BY <1>4, <1>5, <1>6, <1>7, <1>8, <1>9 DEF Next

\* M-3: no handler answers 500 because another user or another try was first; in
\* particular one that loses the insert always finds the winner's batch.
THEOREM FailuresAreFaults == Spec => FailsOnlyByFault
  <1>1. Init => RefetchInv
    BY DEF Init, RefetchInv
  <1>2. IInv /\ RefetchInv /\ [Next]_vars => [FailsByFault]_vars
    BY NextFailsByFault
  <1>3. [FailsByFault]_vars
          => [\A h \in Handlers :
                (Awaited(h) /\ hpc[h] \notin {"none", "end"} /\ hpc'[h] = "end"
                   /\ cpc'[Client(h)] = "idle") => h \in faulted']_vars
    BY DEF FailsByFault
  <1> QED BY <1>1, <1>2, <1>3, NextRefetchInv, SubmissionInvariance, PTL DEF Spec, FailsOnlyByFault
=============================================================================
