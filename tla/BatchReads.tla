----------------------------- MODULE BatchReads -----------------------------
(***************************************************************************)
(* A researcher follows a batch: GET /v1/batches/{id} for its state, and   *)
(* GET /v1/batches/{id}/simulations page by page, while Expand inserts the *)
(* rows and Runners settle them.  A listing counts the rows and reads its  *)
(* page in two statements.                                                 *)
(*                                                                         *)
(* The batch is the client's own (module ResultReads has the ownership     *)
(* test).  Rows are listed by created_at, the order in which the one       *)
(* Expand of the batch inserts them, and are named by their place in it.   *)
(* Of the batch itself only what module BatchRows says of it is here, and  *)
(* BatchRollup implements that.                                            *)
(***************************************************************************)
EXTENDS BatchRows, Sequences

CONSTANTS
  DefaultLimit,  \* 50
  MaxLimit,      \* 500
  Limits,        \* the limits clients ask for
  Unset          \* no limit parameter, or one that is not a number

ASSUME SizeAssumption == N \in Nat
ASSUME LimitAssumption ==
  /\ MaxLimit \in Nat /\ DefaultLimit \in 1..MaxLimit
  /\ Limits \subseteq Int \cup {Unset} /\ Unset \notin Int

VARIABLES
  limit,     \* what the client asks for in every request of a pass
  step,      \* how it moves on: by the "asked" limit, or by the "received" rows
  offset,
  pc,        \* "idle", then "count", "page" of each request, and "end"
  total,     \* the count of the request under way, then the one answered
  seen,      \* the rows the client has received in this pass
  told       \* whether it knew the batch to be done when the pass began

clientVars == <<limit, step, offset, pc, total, seen, told>>
vars       == <<batchVars, clientVars>>

queryInt(l) == IF l = Unset THEN DefaultLimit ELSE l

LimitUnchecked(l) == queryInt(l)

\* The limit the handler uses: any other than 1..500 becomes the default.
pageParams(l) ==
  IF queryInt(l) <= 0 \/ queryInt(l) > MaxLimit THEN DefaultLimit ELSE queryInt(l)

Init ==
  /\ BatchInit
  /\ limit = Unset /\ step = "received" /\ offset = 0
  /\ pc = "idle" /\ total = 0 /\ seen = <<>> /\ told = FALSE

\* Rows are inserted and settled by others, at any time.
Others == BatchNext /\ UNCHANGED clientVars

-----------------------------------------------------------------------------
(* The client and the two handlers. *)

\* get_batch(), then a first page with some limit; to move on by it takes a number
\* that moves on at all.
StartPass ==
  /\ pc \in {"idle", "end"}
  /\ limit' \in Limits
  /\ step'  \in {m \in {"asked", "received"} : m = "asked" => limit' # Unset /\ limit' > 0}
  /\ told' = done
  /\ offset' = 0 /\ seen' = <<>> /\ pc' = "count"
  /\ UNCHANGED <<batchVars, total>>

\* The client asks again, for what came after the rows it has.
Resume ==
  /\ pc = "end"
  /\ offset' = Len(seen) /\ pc' = "count"
  /\ UNCHANGED <<batchVars, limit, step, total, seen, told>>

CountDeclared ==
  /\ pc = "count"
  /\ total' = N /\ pc' = "page"
  /\ UNCHANGED <<batchVars, limit, step, offset, seen, told>>

\* SELECT count(*)
CountRows ==
  /\ pc = "count"
  /\ total' = rows /\ pc' = "page"
  /\ UNCHANGED <<batchVars, limit, step, offset, seen, told>>

PageSize(lim, off) ==
  IF off >= rows THEN 0 ELSE IF rows - off < lim THEN rows - off ELSE lim

PageFromZero(lim, off) ==
  [i \in 1..PageSize(lim, off) |-> [row |-> off + i - 1, final |-> off + i - 1 \in settled]]

\* ORDER BY created_at LIMIT lim OFFSET off
Page(lim, off) ==
  [i \in 1..PageSize(lim, off) |-> [row |-> off + i, final |-> off + i \in settled]]

\* The page is read and answered; the client asks for the next one until its
\* offset reaches the total.
ReadPage ==
  /\ pc = "page"
  /\ LET page == Page(pageParams(limit), offset)
     IN  /\ seen' = seen \o page
         /\ offset' = offset + IF step = "asked" THEN limit ELSE Len(page)
  /\ pc' = IF offset' < total THEN "count" ELSE "end"
  /\ UNCHANGED <<batchVars, limit, step, total, told>>

\* A statement fails, and the client repeats the request.
Fail ==
  /\ pc \in {"count", "page"}
  /\ pc' = "count"
  /\ UNCHANGED <<batchVars, limit, step, offset, total, seen, told>>

-----------------------------------------------------------------------------

Next ==
  \/ Others
  \/ StartPass \/ Resume \/ CountRows \/ ReadPage \/ Fail

Spec == Init /\ [][Next]_vars

\* A client that has begun goes on, and its statements do not fail for ever.
FairSpec == Spec /\ WF_vars(CountRows) /\ SF_vars(ReadPage)

-----------------------------------------------------------------------------
(* Properties. *)

\* Every variable holds a value it can hold; no count exceeds the batch.
TypeOK ==
  /\ rows \in 0..N /\ settled \in SUBSET (1..N) /\ done \in BOOLEAN
  /\ limit \in Limits \cup {Unset} /\ step \in {"asked", "received"} /\ offset \in Nat
  /\ pc \in {"idle", "count", "page", "end"} /\ total \in 0..N
  /\ seen \in Seq([row : 1..N, final : BOOLEAN]) /\ told \in BOOLEAN

\* All clients but one that moves on by a limit the server did not use: it skips
\* the rows between the default and what it asked for.
InRange == step = "asked" => limit = pageParams(limit)

\* Whatever rows appear between a count and its page or between two pages, the
\* client has the first rows of the batch, each once and in order, and at the end
\* of a pass at least as many as it was told there are; also with a limit out of
\* range, which the server replaces by its default, if it moves on by what it
\* received.
PagesAreContiguous ==
  InRange => /\ \A i \in DOMAIN seen : seen[i].row = i
             /\ pc = "end" => Len(seen) >= total

\* A pass that begins after the batch was seen done shows only rows in a terminal
\* state, and ends with every declared row unless the client moves on by a limit
\* out of range.
DoneBatchListsWhole ==
  told => /\ \A i \in DOMAIN seen : seen[i].final
          /\ (pc = "end" /\ InRange) => Len(seen) = N

\* What holds between the requests of a pass.  Until the pass ends the client's
\* offset is the number of rows it has, or beyond it if the client skips rows; a
\* count is never ahead of the rows; and a pass told that the batch is done counts
\* all of it.
PassInv ==
  /\ settled \subseteq 1..rows /\ (done => Complete) /\ (told => done)
  /\ total <= rows /\ Len(seen) <= rows
  /\ step = "asked" => limit # Unset /\ limit > 0
  /\ pc \in {"count", "page"} => offset >= Len(seen) /\ (InRange => offset = Len(seen))
  /\ (told /\ pc \in {"page", "end"}) => total = N
  /\ told => \A i \in DOMAIN seen : seen[i].final

IInv == TypeOK /\ PagesAreContiguous /\ PassInv

\* No pass goes on for ever, whatever the limit.
PassesEnd == (pc = "count") ~> (pc = "end")
=============================================================================
