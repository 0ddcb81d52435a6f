-------------------------- MODULE BatchReadsProofs --------------------------
(***************************************************************************)
(* Paging through a batch, for every size of the batch, every page size    *)
(* and every limit a client may ask for.                                   *)
(***************************************************************************)
EXTENDS BatchReads, SequenceTheorems, TLAPS

Item == [row : 1..N, final : BOOLEAN]

\* The limit a page is read with is a page size, whatever was asked for.
LEMMA LimitInRange ==
  ASSUME NEW l \in Limits \cup {Unset}
  PROVE  pageParams(l) \in 1..MaxLimit
BY LimitAssumption DEF pageParams, queryInt

\* A page holds the rows after the offset, as many as there are up to the limit.
LEMMA PageProperties ==
  ASSUME TypeOK, NEW lim \in Nat \ {0}, NEW off \in Nat
  PROVE  /\ PageSize(lim, off) \in Nat
         /\ Page(lim, off) \in Seq(Item)
         /\ Len(Page(lim, off)) = PageSize(lim, off)
         /\ \A i \in 1..PageSize(lim, off) :
              /\ Page(lim, off)[i].row = off + i
              /\ Page(lim, off)[i].final = (off + i \in settled)
<1>1. PageSize(lim, off) \in Nat
  BY SizeAssumption DEF PageSize, TypeOK
<1>2. ASSUME NEW i \in 1..PageSize(lim, off)
      PROVE  off + i \in 1..N
  BY SizeAssumption, <1>1 DEF PageSize, TypeOK
<1>3. ASSUME NEW i \in 1..PageSize(lim, off)
      PROVE  [row |-> off + i, final |-> off + i \in settled] \in Item
  BY <1>2 DEF Item
<1>4. Page(lim, off) \in [1..PageSize(lim, off) -> Item]
  BY <1>3 DEF Page
<1>5. Page(lim, off) \in Seq(Item) /\ Len(Page(lim, off)) = PageSize(lim, off)
  BY <1>1, <1>4
<1>6. ASSUME NEW i \in 1..PageSize(lim, off)
      PROVE  Page(lim, off)[i].row = off + i /\ Page(lim, off)[i].final = (off + i \in settled)
  BY DEF Page
<1> QED
  BY <1>1, <1>5, <1>6

-----------------------------------------------------------------------------

\* The invariant holds at first.
LEMMA InitPaging == Init => IInv
<1> SUFFICES ASSUME Init PROVE IInv
  OBVIOUS
<1>1. <<>> \in Seq(Item) /\ Len(<<>>) = 0 /\ DOMAIN <<>> = {}
  BY EmptySeq
<1>2. TypeOK
  <2>1. rows \in 0..N /\ total \in 0..N /\ offset \in Nat
    BY SizeAssumption DEF Init, BatchInit
  <2>2. seen \in Seq([row : 1..N, final : BOOLEAN])
    BY <1>1 DEF Init, Item
  <2> QED
    BY <2>1, <2>2 DEF Init, BatchInit, TypeOK
<1>3. PagesAreContiguous /\ PassInv
  BY <1>1, SizeAssumption DEF Init, BatchInit, PagesAreContiguous, PassInv
<1> QED
  BY <1>2, <1>3 DEF IInv

\* A page keeps the rows in order, and ends the pass only when the count is
\* reached.
LEMMA ReadPageStep == IInv /\ ReadPage => IInv'
<1> SUFFICES ASSUME IInv, ReadPage PROVE IInv'
  OBVIOUS
<1> DEFINE lim == pageParams(limit)
           page == Page(lim, offset)
           p == PageSize(lim, offset)
<1>1. lim \in 1..MaxLimit /\ lim \in Nat \ {0} /\ MaxLimit \in Nat
  BY LimitInRange, LimitAssumption DEF IInv, TypeOK
<1> DEFINE L == Len(seen)
<1>2. /\ offset \in Nat /\ seen \in Seq(Item) /\ pc = "page" /\ L \in Nat
      /\ offset >= L /\ (InRange => offset = L)
  BY LenProperties DEF IInv, TypeOK, PassInv, ReadPage, Item
<1>3. /\ p \in Nat /\ page \in Seq(Item) /\ Len(page) = p
      /\ \A i \in 1..p : page[i].row = offset + i /\ page[i].final = (offset + i \in settled)
  BY <1>1, <1>2, PageProperties DEF IInv
<1> HIDE DEF page
<1>4. /\ seen' = seen \o page
      /\ offset' = offset + (IF step = "asked" THEN limit ELSE p)
      /\ pc' = (IF offset' < total THEN "count" ELSE "end")
      /\ UNCHANGED <<batchVars, limit, step, total, told>>
  BY <1>3 DEF ReadPage, page
<1>5. /\ step = "asked" => limit \in Nat \ {0} /\ limit >= lim
      /\ (step = "asked" /\ InRange) => limit = lim
      /\ InRange' = InRange
  <2>1. step = "asked" => limit \in Nat \ {0}
    BY LimitAssumption DEF IInv, TypeOK, PassInv
  <2>2. step = "asked" => limit >= lim
    BY <2>1, LimitAssumption DEF pageParams, queryInt
  <2> QED BY <2>1, <2>2, <1>4 DEF InRange, pageParams, queryInt
<1>6. rows \in Nat /\ total \in Nat /\ total <= rows /\ L <= rows
  BY SizeAssumption DEF IInv, TypeOK, PassInv
<1>7. /\ seen' \in Seq(Item) /\ Len(seen') = L + p
      /\ \A i \in 1..(L + p) : seen'[i] = IF i <= L THEN seen[i] ELSE page[i - L]
  <2>1. /\ seen \o page \in Seq(Item) /\ Len(seen \o page) = Len(seen) + Len(page)
        /\ \A i \in 1..(Len(seen) + Len(page)) :
             (seen \o page)[i] = IF i <= Len(seen) THEN seen[i] ELSE page[i - Len(seen)]
    BY <1>2, <1>3, ConcatProperties
  <2> QED
    BY <2>1, <1>2, <1>3, <1>4
<1>8. DOMAIN seen' = 1..(L + p) /\ DOMAIN seen = 1..L
  BY <1>2, <1>7, LenProperties
<1> HIDE DEF L, lim
<1>9. InRange => \A i \in DOMAIN seen' : seen'[i].row = i
  <2> SUFFICES ASSUME InRange, NEW i \in 1..(L + p) PROVE seen'[i].row = i
    BY <1>8
  <2>1. CASE i <= L
    <3>1. i \in DOMAIN seen /\ seen'[i] = seen[i]
      BY <2>1, <1>2, <1>3, <1>7, <1>8
    <3> QED
      BY <3>1 DEF IInv, PagesAreContiguous
  <2>2. CASE ~(i <= L)
    <3>1. i - L \in 1..p /\ offset + (i - L) = i
      BY <2>2, <1>2, <1>3
    <3> QED
      BY <2>2, <3>1, <1>3, <1>7
  <2> QED
    BY <2>1, <2>2
<1>10. told => \A i \in DOMAIN seen' : seen'[i].final
  <2> SUFFICES ASSUME told, NEW i \in 1..(L + p) PROVE seen'[i].final
    BY <1>8
  <2>1. settled = 1..N /\ rows = N
    BY DEF IInv, PassInv, Complete
  <2>2. CASE i <= L
    BY <2>2, <1>2, <1>3, <1>7, <1>8 DEF IInv, PassInv
  <2>3. CASE ~(i <= L)
    <3>1. i - L \in 1..p
      BY <2>3, <1>2, <1>3
    <3>2. offset + (i - L) \in 1..N
      BY <2>1, <2>3, <3>1, <1>1, <1>2, <1>6 DEF PageSize
    <3> QED
      BY <2>1, <2>3, <3>1, <3>2, <1>3, <1>7
  <2> QED
    BY <2>2, <2>3
<1>11. Len(seen') <= rows
  BY <1>1, <1>2, <1>6, <1>7 DEF PageSize
<1>12. offset' \in Nat
  BY <1>1, <1>2, <1>3, <1>4, <1>5
<1>13. offset' >= Len(seen') /\ ((pc' = "count" /\ InRange) => offset' = Len(seen'))
  <2>1. p <= lim
    BY <1>1, <1>2, <1>6 DEF PageSize
  <2>2. offset' >= Len(seen')
    BY <2>1, <1>1, <1>2, <1>3, <1>4, <1>5, <1>7
  <2>3. (pc' = "count" /\ InRange) => offset' = Len(seen')
    BY <1>1, <1>2, <1>3, <1>4, <1>5, <1>6, <1>7 DEF PageSize
  <2> QED BY <2>2, <2>3
<1>14. (pc' = "end" /\ InRange) => Len(seen') >= total
  BY <1>1, <1>2, <1>3, <1>4, <1>5, <1>6, <1>7 DEF PageSize
<1>15. TypeOK'
  BY <1>4, <1>7, <1>12 DEF IInv, TypeOK, batchVars, Item
<1>16. PagesAreContiguous'
  BY <1>4, <1>5, <1>9, <1>14 DEF PagesAreContiguous
<1>17. PassInv'
  BY <1>2, <1>4, <1>5, <1>10, <1>11, <1>13 DEF IInv, PassInv, Complete, batchVars
<1> QED
  BY <1>15, <1>16, <1>17 DEF IInv

\* A batch that goes on: rows are only added at the end, and a complete one stays
\* as it is.
LEMMA BatchGoesOn ==
  ASSUME IInv, BatchNext
  PROVE  /\ rows' \in 0..N /\ rows <= rows'
         /\ settled' \in SUBSET (1..N) /\ settled' \subseteq 1..rows'
         /\ done' \in BOOLEAN /\ (done => done') /\ (done' => Complete')
<1>0. N \in Nat /\ rows \in 0..N /\ settled \subseteq 1..rows /\ done \in BOOLEAN
  BY SizeAssumption DEF IInv, TypeOK, PassInv
<1>1. done => rows = N /\ settled = 1..N
  BY DEF IInv, PassInv, Complete
<1>2. rows' \in 0..N /\ rows <= rows' /\ settled' \subseteq 1..rows'
  <2>1. CASE InsertSimulation
    BY <1>0, <2>1 DEF InsertSimulation
  <2>2. CASE Settle
    BY <1>0, <2>2 DEF Settle
  <2>3. CASE ResyncStuckBatches
    BY <1>0, <2>3 DEF ResyncStuckBatches
  <2> QED BY <2>1, <2>2, <2>3 DEF BatchNext
<1>3. settled' \in SUBSET (1..N)
  BY <1>0, <1>2
<1>4. done => Complete'
  <2> SUFFICES ASSUME done PROVE rows' = N /\ settled' = 1..N
    BY DEF Complete
  <2>1. ~InsertSimulation
    BY <1>0, <1>1 DEF InsertSimulation
  <2>2. CASE Settle
    BY <1>0, <1>1, <2>2 DEF Settle
  <2> QED BY <1>1, <2>1, <2>2 DEF BatchNext, ResyncStuckBatches
<1>5. done' \in {done, done \/ Complete'} \/ (Complete' /\ done' = TRUE)
  BY <1>0 DEF BatchNext, InsertSimulation, Settle, ResyncStuckBatches, Complete, sync_batch_counts
<1>6. done' \in BOOLEAN /\ (done => done') /\ (done' => Complete')
  BY <1>0, <1>4, <1>5, Zenon
<1> QED
  BY <1>2, <1>3, <1>6

\* Whatever is inserted or settled meanwhile, a pass keeps what it has.
LEMMA OthersStep == IInv /\ Others => IInv'
<1> SUFFICES ASSUME IInv, Others PROVE IInv'
  OBVIOUS
<1>0. N \in Nat /\ seen \in Seq(Item) /\ Len(seen) \in Nat
  BY SizeAssumption, LenProperties DEF IInv, TypeOK, Item
<1>1. /\ rows' \in 0..N /\ rows <= rows'
      /\ settled' \in SUBSET (1..N) /\ settled' \subseteq 1..rows'
      /\ done' \in BOOLEAN /\ (done => done') /\ (done' => Complete')
  BY BatchGoesOn DEF Others
<1>2. UNCHANGED clientVars
  BY DEF Others
<1>3. TypeOK'
  BY <1>1, <1>2 DEF IInv, TypeOK, clientVars
<1>4. PagesAreContiguous'
  BY <1>2 DEF IInv, PagesAreContiguous, clientVars, InRange, pageParams, queryInt
<1>5. PassInv'
  BY <1>0, <1>1, <1>2 DEF IInv, TypeOK, PassInv, clientVars, pageParams, queryInt, InRange
<1> QED
  BY <1>3, <1>4, <1>5 DEF IInv

\* Every step keeps the invariant.
LEMMA PagingStep == IInv /\ [Next]_vars => IInv'
<1> SUFFICES ASSUME IInv, [Next]_vars PROVE IInv'
  OBVIOUS
<1>0. N \in Nat /\ seen \in Seq(Item) /\ Len(seen) \in Nat
  BY SizeAssumption, LenProperties DEF IInv, TypeOK, Item
<1> USE DEF IInv, TypeOK, PagesAreContiguous, PassInv, Complete, batchVars, clientVars
<1>1. CASE Others
  BY <1>1, OthersStep
<1>2. CASE StartPass
  <2>1. <<>> \in Seq(Item) /\ Len(<<>>) = 0 /\ DOMAIN <<>> = {}
    BY EmptySeq
  <2> QED
    BY <1>0, <1>2, <2>1 DEF StartPass, pageParams, queryInt, InRange, Item
<1>3. CASE Resume
  BY <1>0, <1>3 DEF Resume, pageParams, queryInt, InRange
<1>4. CASE CountRows
  BY <1>0, <1>4 DEF CountRows, pageParams, queryInt, InRange
<1>5. CASE ReadPage
  BY <1>5, ReadPageStep
<1>6. CASE Fail
  BY <1>0, <1>6 DEF Fail, pageParams, queryInt, InRange
<1>7. CASE UNCHANGED vars
  BY <1>7 DEF vars, pageParams, queryInt, InRange
<1> QED
  BY <1>1, <1>2, <1>3, <1>4, <1>5, <1>6, <1>7 DEF Next

\* The invariant of the passes, whatever is inserted, settled or fails meanwhile.
THEOREM PagingInvariance == Spec => []IInv
BY InitPaging, PagingStep, PTL DEF Spec

\* The state of the batch and of its readers is well typed.
THEOREM PagingTypeCorrect == Spec => []TypeOK
<1>1. IInv => TypeOK
  BY DEF IInv
<1> QED
  BY <1>1, PagingInvariance, PTL

\* A client has the first rows of the batch, each once and in order, and at the
\* end of a pass at least as many as it was told there are, unless it moves on by
\* a limit that the server replaced.
THEOREM PagesNeverSkip == Spec => []PagesAreContiguous
<1>1. IInv => PagesAreContiguous
  BY DEF IInv
<1> QED
  BY <1>1, PagingInvariance, PTL

\* A pass that begins after the batch was seen done shows rows in a terminal state
\* only, and every declared one unless the client moves on by a limit that the
\* server replaced.
THEOREM DoneBatchesAreListedWhole == Spec => []DoneBatchListsWhole
<1>1. IInv => DoneBatchListsWhole
  <2> SUFFICES ASSUME IInv, told
               PROVE  /\ \A i \in DOMAIN seen : seen[i].final
                      /\ (pc = "end" /\ InRange) => Len(seen) = N
    BY DEF DoneBatchListsWhole
  <2>1. Len(seen) \in Nat /\ N \in Nat
    BY SizeAssumption, LenProperties DEF IInv, TypeOK
  <2> QED
    BY <2>1 DEF IInv, PagesAreContiguous, PassInv, Complete
<1> QED
  BY <1>1, PagingInvariance, PTL
=============================================================================
