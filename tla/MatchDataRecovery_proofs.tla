----------------------- MODULE MatchDataRecovery_proofs -----------------------
(***************************************************************************)
(* Proofs about MatchDataRecovery, for every set of matches, tables and    *)
(* items and every bound.                                                  *)
(***************************************************************************)
EXTENDS MatchDataRecovery, NatRecursion, FiniteSetTheorems, TLAPS

\* Every action keeps the type invariant.
LEMMA TypeInductive == (Init => TypeOK) /\ (TypeOK /\ [Next]_vars => TypeOK')
<1>1. Init => TypeOK
  <2> SUFFICES ASSUME Init PROVE TypeOK
    OBVIOUS
  <2>1. tries \in 0 .. MaxAttempts - 1 /\ incidents \in 0 .. MaxIncidents
        /\ crawls \in 0 .. MaxCrawls
    BY BoundAssumption DEF BoundAssumption, Init
  <2> QED
    BY <2>1 DEF Init, TypeOK, Phase, Returns
<1>2. TypeOK /\ [Next]_vars => TypeOK'
  <2> SUFFICES ASSUME TypeOK, [Next]_vars PROVE TypeOK'
    OBVIOUS
  <2> USE BoundAssumption, DataAssumption
      DEF DataAssumption, BoundAssumption, TypeOK, Phase, Returns, durable, store, work, buffers, environment
  <2>1. CASE NewCrawl
    <3>1. PICK S \in SUBSET Match : listed' = S
      BY <2>1 DEF NewCrawl
    <3>2. crawls' \in 0 .. MaxCrawls
      BY <2>1 DEF NewCrawl
    <3> QED
      BY <2>1, <3>1, <3>2 DEF NewCrawl
  <2>2. CASE RequestStop
    BY <2>2 DEF RequestStop, Incident
  <2>3. CASE ClearStop
    BY <2>3 DEF ClearStop
  <2>4. CASE StartRun
    BY <2>4 DEF StartRun
  <2>5. CASE Interrupt
    BY <2>5 DEF Interrupt, Incident, ForgetBatch, Abandon
  <2>6. CASE BatchStart
    BY <2>6 DEF BatchStart
  <2>7. CASE SeedQueue
    BY <2>7 DEF SeedQueue
  <2>8. CASE SeedAnchor
    BY <2>8 DEF SeedAnchor
  <2>9. CASE Claim
    <3>1. ClaimedMatches \subseteq queue
      BY DEF ClaimedMatches
    <3> QED
      BY <2>9, <3>1 DEF Claim, Item
  <2>10. ASSUME NEW s \in Stream, NEW m \in Match, Receive(s, m) PROVE TypeOK'
    BY <2>10 DEF Receive, RollBack, ItemRows, RowsOf, Row, Item
  <2>11. ASSUME NEW s \in Stream, NEW m \in Match, Skip(s, m) PROVE TypeOK'
    BY <2>11 DEF Skip, Smooth, Incident
  <2>12. CASE StreamFailure
    BY <2>12 DEF StreamFailure, RollBack, Smooth, Incident
  <2>13. CASE EndOfStream
    BY <2>13 DEF EndOfStream
  <2>14. ASSUME NEW t \in Table, BufferTable(t) PROVE TypeOK'
    BY <2>14 DEF BufferTable, HandOff, InTable
  <2>15. ASSUME NEW t \in Table, FlushTable(t) PROVE TypeOK'
    BY <2>15 DEF FlushTable, HandOff, InTable
  <2>16. CASE ItemBuffered
    BY <2>16 DEF ItemBuffered
  <2>17. CASE Flushed
    BY <2>17 DEF Flushed
  <2>18. CASE InsertOk
    BY <2>18 DEF InsertOk, StoreRows
  <2>19. CASE InsertError
    BY <2>19 DEF InsertError, Incident, StoreRows, RetryOrRollBack, RollBack
  <2>20. CASE Settle
    BY <2>20 DEF Settle
  <2>21. CASE FailedDeleted
    BY <2>21 DEF FailedDeleted
  <2>22. CASE Mark
    BY <2>22 DEF Mark, BatchComplete, ForgetBatch, Successful
  <2>23. CASE MarkError
    BY <2>23 DEF MarkError, Incident, RetryOrRollBack, RollBack, Successful
  <2>24. CASE RolledBack
    BY <2>24 DEF RolledBack, ForgetBatch, Abandon
  <2>25. ASSUME NEW t \in Table, DeleteFailed(t) PROVE TypeOK'
    BY <2>25 DEF DeleteFailed, DropRows
  <2>26. ASSUME NEW t \in Table, DeleteFailedError(t) PROVE TypeOK'
    BY <2>26 DEF DeleteFailedError, Incident, DropRows, RetryOrRollBack, RollBack
  <2>27. ASSUME NEW t \in Table, RollBackTable(t) PROVE TypeOK'
    BY <2>27 DEF RollBackTable, DropRows
  <2>28. ASSUME NEW t \in Table, RollBackError(t) PROVE TypeOK'
    BY <2>28 DEF RollBackError, Incident, DropRows, ForgetBatch, Abandon
  <2>29. CASE UNCHANGED vars
    BY <2>29 DEF vars
  <2> QED
    BY <2>1, <2>2, <2>3, <2>4, <2>5, <2>6, <2>7, <2>8, <2>9, <2>10, <2>11, <2>12,
       <2>13, <2>14, <2>15, <2>16, <2>17, <2>18, <2>19, <2>20, <2>21, <2>22,
       <2>23, <2>24, <2>25, <2>26, <2>27, <2>28, <2>29
       DEF Next, Process, Run, Collect, Buffer, Finish
<1> QED
  BY <1>1, <1>2

\* Every variable keeps its type: in particular no operation is attempted more
\* than MaxAttempts times, and every row held anywhere is a row of the model.
THEOREM TypeCorrect == Spec => []TypeOK
<1>1. Init => TypeOK
  BY TypeInductive
<1>2. TypeOK /\ [Next]_vars => TypeOK'
  BY TypeInductive
<1> QED
  BY <1>1, <1>2, PTL DEF Spec
-----------------------------------------------------------------------------
\* The parts of IInv that TypeOK does not cover.
Bookkeeping ==
    /\ FinishedIsPersisted /\ BatchPending /\ ItemsOfBatch /\ BuffersByPhase
    /\ RowsOfBatch /\ RowsAccounted /\ DeletesAreComplete

LEMMA RowParts == \A r \in Row : r[1] \in Table /\ r[2] \in Match
BY DEF Row

\* The delete of the failed matches takes all of their rows, and none of a match that
\* shares its number with no failed one.
LEMMA FailedRowsBounded ==
    ASSUME TypeOK, NEW t
    PROVE  /\ FailedRows(t) \subseteq cur
           /\ \A r \in cur : r[1] = t /\ r[2] \in Failed => r \in FailedRows(t)
           /\ \A r \in FailedRows(t) : r[1] = t /\ r[2] \notin Unharmed
<1>1. ASSUME NEW f \in Failed PROVE SameKey(t, f, f)
  BY DEF SameKey
<1>2. ASSUME NEW m \in Unharmed, NEW f \in Failed PROVE ~ SameKey(t, m, f)
  <2>1. m # f /\ GameId[m] # GameId[f]
    BY DEF Unharmed, Failed
  <2> QED
    BY <2>1 DEF SameKey
<1> QED
  BY <1>1, <1>2 DEF FailedRows, InTable

\* Entering the roll-back, every table is still to be visited.
LEMMA RollBackKeepsBooks ==
    ASSUME TypeOK', Bookkeeping, RollBack, ~ Idle,
           UNCHANGED <<kept, batch, admitted>>,
           UNCHANGED (queue \cup doubtful),
           left' \cup received' \subseteq Stream \X batch,
           \A r \in cur' : r[2] \in batch /\ r[1] \in Content[r[2]]
    PROVE  Bookkeeping'
<1>1. \A r \in cur' : r[1] \in todo'
  BY RowParts DEF TypeOK, RollBack
<1> QED
  BY <1>1 DEF Bookkeeping, FinishedIsPersisted, BatchPending, ItemsOfBatch, BuffersByPhase,
     RowsOfBatch, RowsAccounted, DeletesAreComplete, Idle, Filling, RollBack

LEMMA BookkeepingInductive ==
    ASSUME TypeOK, TypeOK', Bookkeeping, [Next]_vars
    PROVE  Bookkeeping'
<1> USE DEF Bookkeeping, FinishedIsPersisted, BatchPending, ItemsOfBatch, BuffersByPhase, RowsOfBatch,
        RowsAccounted, DeletesAreComplete, Idle, Filling, Successful, Failed, Unharmed, RowsOf,
        durable, store, work, buffers, environment
<1>1. CASE NewCrawl
  BY <1>1 DEF NewCrawl
<1>2. CASE RequestStop
  BY <1>2 DEF RequestStop
<1>3. CASE ClearStop
  BY <1>3 DEF ClearStop
<1>4. CASE StartRun
  BY <1>4 DEF StartRun
<1>5. CASE Interrupt
  BY <1>5 DEF Interrupt, ForgetBatch, Abandon
<1>6. CASE BatchStart
  BY <1>6 DEF BatchStart
<1>7. CASE SeedQueue
  BY <1>7 DEF SeedQueue
<1>8. CASE SeedAnchor
  BY <1>8 DEF SeedAnchor
<1>9. CASE Claim
  BY <1>9 DEF Claim, ClaimedMatches
<1>10. ASSUME NEW s \in Stream, NEW m \in Match, Receive(s, m) PROVE Bookkeeping'
  <2>1. CASE stop \/ <<s, m>> \in Malformed
    BY <1>10, <2>1, RollBackKeepsBooks DEF Receive
  <2>2. CASE ~ (stop \/ <<s, m>> \in Malformed)
    <3>1. pc = "recv" /\ pc' = "buffer" /\ received' = received \cup {<<s, m>>}
          /\ parsed = {} /\ parsed' = ItemRows(s, m)
          /\ left' = left \ {<<s, m>>} /\ <<s, m>> \in left
          /\ UNCHANGED <<queue, kept, stray, cur, buffered, flight, batch, admitted, doubtful, todo>>
      BY <1>10, <2>2 DEF Receive
    <3>2. m \in batch /\ ItemsOfBatch'
      BY <3>1
    <3>3. \A r \in parsed' : r[2] = m /\ r[1] \in Content[m]
      BY <3>1 DEF ItemRows
    <3>4. RowsOfBatch'
      BY <3>1, <3>2, <3>3
    <3>5. RowsAccounted'
      BY <3>1
    <3> QED
      BY <3>1, <3>2, <3>4, <3>5
  <2> QED
    BY <2>1, <2>2
<1>11. ASSUME NEW s \in Stream, NEW m \in Match, Skip(s, m) PROVE Bookkeeping'
  BY <1>11 DEF Skip
<1>12. CASE StreamFailure
  BY <1>12, RollBackKeepsBooks DEF StreamFailure
<1>13. CASE EndOfStream
  BY <1>13 DEF EndOfStream
<1>14. ASSUME NEW t \in Table, BufferTable(t) PROVE Bookkeeping'
  BY <1>14 DEF BufferTable, HandOff, InTable
<1>15. ASSUME NEW t \in Table, FlushTable(t) PROVE Bookkeeping'
  BY <1>15 DEF FlushTable, HandOff, InTable
<1>16. CASE ItemBuffered
  BY <1>16 DEF ItemBuffered
<1>17. CASE Flushed
  BY <1>17 DEF Flushed
<1>18. CASE InsertOk
  <2>1. /\ pc = "insert" /\ pc' = ret /\ cur' = cur \cup flight /\ flight' = {}
        /\ UNCHANGED <<queue, kept, stray, parsed, buffered, ret, batch, left,
                       received, admitted, doubtful, todo>>
    BY <1>18 DEF InsertOk, StoreRows
  <2>2. ret \in {"buffer", "flush", "final"}
    BY DEF TypeOK, Returns
  <2>4. \A s \in Stream, m \in Match : <<s, m>> \in received =>
          ItemRows(s, m) \subseteq cur' \cup buffered \cup flight' \cup parsed
    BY <2>1
  <2>5. BatchPending' /\ ItemsOfBatch' /\ BuffersByPhase'
    BY <2>1, <2>2
  <2>6. RowsOfBatch'
    BY <2>1
  <2>7. RowsAccounted' /\ DeletesAreComplete'
    BY <2>1, <2>2, <2>4
  <2> QED
    BY <2>1, <2>5, <2>6, <2>7
<1>19. CASE InsertError
  <2>1. PICK part \in SUBSET flight : StoreRows(part)
    BY <1>19 DEF InsertError
  <2>2. CASE RollBack
    BY <1>19, <2>1, <2>2, RollBackKeepsBooks DEF InsertError, StoreRows
  <2>3. CASE UNCHANGED <<pc, buffers, todo>>
    BY <1>19, <2>1, <2>3 DEF InsertError, StoreRows
  <2> QED
    BY <1>19, <2>2, <2>3 DEF InsertError, RetryOrRollBack
<1>20. CASE Settle
  <2>1. /\ pc = "final" /\ buffered = {} /\ flight = {} /\ parsed = {}
        /\ pc' = IF Failed # {} THEN "delete" ELSE "mark"
        /\ Failed # {} => todo' = Table
        /\ UNCHANGED <<queue, kept, stray, cur, parsed, buffered, flight, ret, batch,
                       left, received, admitted, doubtful>>
    BY <1>20 DEF Settle
  <2>2. \A m \in Successful : RowsOf(m) \subseteq cur
    <3> SUFFICES ASSUME NEW m \in Successful, NEW r \in RowsOf(m) PROVE r \in cur
      OBVIOUS
    <3>1. m \in Match /\ \A s \in Stream : <<s, m>> \in received
      BY DEF TypeOK
    <3>2. r \in ItemRows(StreamOf[r[1]], m) /\ StreamOf[r[1]] \in Stream
      BY <3>1, DataAssumption DEF DataAssumption, ItemRows
    <3> QED
      BY <2>1, <3>1, <3>2
  <2>3. \A r \in cur : r[1] \in Table /\ r[2] \in batch
    BY RowParts DEF TypeOK
  <2>4. DeletesAreComplete'
    BY <2>1, <2>3
  <2>5. RowsAccounted'
    BY <2>1, <2>2
  <2> QED
    BY <2>1, <2>4, <2>5
<1>21. CASE FailedDeleted
  BY <1>21 DEF FailedDeleted
<1>22. CASE Mark
  <2>1. /\ pc = "mark" /\ queue' = queue \ Successful /\ kept' = kept \cup cur /\ cur' = {}
        /\ doubtful' = (doubtful \ Unharmed) \cup (Successful \ Unharmed)
        /\ pc' = "start" /\ ForgetBatch /\ UNCHANGED <<admitted, stray>>
    BY <1>22 DEF Mark, BatchComplete
  <2>2. FinishedIsPersisted'
    <3> SUFFICES ASSUME NEW m \in admitted, m \notin queue', m \notin doubtful'
                 PROVE  RowsOf(m) \subseteq kept'
      BY <2>1
    <3>1. CASE m \in Unharmed
      BY <2>1, <3>1
    <3>2. CASE m \notin Unharmed
      BY <2>1, <3>2
    <3> QED
      BY <3>1, <3>2
  <2> QED
    BY <2>1, <2>2 DEF ForgetBatch
<1>23. CASE MarkError
  <2>1. /\ pc = "mark" /\ UNCHANGED <<kept, stray, cur, batch, left, received, admitted>>
        /\ queue \subseteq queue' \cup doubtful' /\ doubtful \subseteq doubtful'
        /\ queue' \cup doubtful' = queue \cup doubtful
    BY <1>23 DEF MarkError
  <2>2. CASE RollBack
    BY <2>1, <2>2, RollBackKeepsBooks
  <2>3. CASE UNCHANGED <<pc, buffers, todo>>
    BY <2>1, <2>3
  <2> QED
    BY <1>23, <2>2, <2>3 DEF MarkError, RetryOrRollBack
<1>24. CASE RolledBack
  BY <1>24 DEF RolledBack, ForgetBatch, Abandon
<1>25. ASSUME NEW t \in Table, DeleteFailed(t) PROVE Bookkeeping'
  <2>1. /\ pc = "delete" /\ cur' = cur \ FailedRows(t) /\ todo' = todo \ {t}
        /\ UNCHANGED <<queue, kept, stray, pc, batch, left, received, buffers, admitted, doubtful>>
    BY <1>25 DEF DeleteFailed, DropRows
  <2>2. \A m \in Unharmed : RowsOf(m) \subseteq cur'
    BY <2>1, FailedRowsBounded
  <2>3. \A r \in cur' : r[2] \in Failed => r[1] \in todo'
    BY <2>1, FailedRowsBounded
  <2> QED
    BY <2>1, <2>2, <2>3
<1>26. ASSUME NEW t \in Table, DeleteFailedError(t) PROVE Bookkeeping'
  <2>1. /\ pc = "delete" /\ t \in todo
        /\ UNCHANGED <<queue, kept, stray, batch, left, received, admitted, doubtful>>
    BY <1>26 DEF DeleteFailedError
  <2>2. cur' = cur \/ cur' = cur \ FailedRows(t)
    BY <1>26 DEF DeleteFailedError, DropRows
  <2>3. cur' \subseteq cur
    BY <2>2
  <2>4. \A m \in Unharmed : RowsOf(m) \subseteq cur'
    BY <2>1, <2>2, FailedRowsBounded
  <2>5. CASE RollBack
    BY <2>1, <2>3, <2>5, RollBackKeepsBooks
  <2>6. CASE UNCHANGED <<pc, buffers, todo>>
    BY <2>1, <2>3, <2>4, <2>6
  <2> QED
    BY <1>26, <2>5, <2>6 DEF DeleteFailedError, RetryOrRollBack
<1>27. ASSUME NEW t \in Table, RollBackTable(t) PROVE Bookkeeping'
  BY <1>27 DEF RollBackTable, DropRows, InTable
<1>28. ASSUME NEW t \in Table, RollBackError(t) PROVE Bookkeeping'
  BY <1>28 DEF RollBackError, DropRows, InTable, ForgetBatch, Abandon
<1>29. CASE UNCHANGED vars
  BY <1>29 DEF vars
<1> QED
  BY <1>1, <1>2, <1>3, <1>4, <1>5, <1>6, <1>7, <1>8, <1>9, <1>10, <1>11,
     <1>12, <1>13, <1>14, <1>15, <1>16, <1>17, <1>18, <1>19, <1>20, <1>21,
     <1>22, <1>23, <1>24, <1>25, <1>26, <1>27, <1>28, <1>29
     DEF Next, Process, Run, Collect, Buffer, Finish
-----------------------------------------------------------------------------
\* The invariant that carries the safety proofs, whatever numbers the matches have and
\* whichever operations' errors hide a success.
THEOREM Invariant == Spec => []IInv
<1>1. Init => IInv
  <2> SUFFICES ASSUME Init PROVE IInv
    OBVIOUS
  <2>1. TypeOK
    BY TypeInductive
  <2> QED
    BY <2>1 DEF Init, IInv, FinishedIsPersisted, BatchPending, ItemsOfBatch, BuffersByPhase,
       RowsOfBatch, RowsAccounted, DeletesAreComplete, Idle, Filling
<1>2. IInv /\ [Next]_vars => IInv'
  BY TypeInductive, BookkeepingInductive DEF IInv, Bookkeeping
<1> QED
  BY <1>1, <1>2, PTL DEF Spec

\* Whatever errors, retries, roll-backs, stops and interruptions there are, a match that
\* left the queue by a sound mark has all its rows stored (MatchDataSaver.save).
THEOREM FinishedStaysPersisted == Spec => []FinishedIsPersisted
<1>1. IInv => FinishedIsPersisted
  BY DEF IInv
<1> QED
  BY <1>1, Invariant, PTL

\* A completed roll-back has removed the batch's rows from every table.
THEOREM RollBackIsComplete == Spec => []RolledBackIsClean
<1>1. IInv => RolledBackIsClean
  BY DEF IInv, DeletesAreComplete, RolledBackIsClean
<1> QED
  BY <1>1, Invariant, PTL

\* When the queue rows go, the tables hold rows of the successful matches of the batch
\* only, and all rows of those that share their number with no failed match.
THEOREM MarkedBatchIsExact == Spec => []ExactAtMark
<1>1. IInv => ExactAtMark
  <2> SUFFICES ASSUME IInv, pc = "mark"
               PROVE  /\ cur \subseteq UNION {RowsOf(m) : m \in Successful}
                      /\ \A m \in Unharmed : RowsOf(m) \subseteq cur
    BY DEF ExactAtMark
  <2>1. \A m \in Unharmed : RowsOf(m) \subseteq cur
    BY DEF IInv, RowsAccounted
  <2>2. ASSUME NEW r \in cur PROVE r[2] \in Successful /\ r \in RowsOf(r[2])
    <3>1. r \in Row /\ r[2] \in Successful /\ r[1] \in Content[r[2]]
      BY DEF IInv, TypeOK, DeletesAreComplete, RowsOfBatch
    <3>2. r = <<r[1], r[2]>>
      BY <3>1 DEF Row
    <3> QED
      BY <3>1, <3>2 DEF RowsOf
  <2> QED
    BY <2>1, <2>2
<1> QED
  BY <1>1, Invariant, PTL

\* Rows join the completed batches only in the step that takes their match out of
\* the queue.
THEOREM RowsAreKeptWithTheirMatch == Spec => KeptWithFinish
<1>1. IInv /\ [Next]_vars => [\A r \in kept' \ kept : r[2] \notin queue']_vars
  <2> SUFFICES ASSUME IInv, Next PROVE \A r \in kept' \ kept : r[2] \notin queue'
    OBVIOUS
  <2>1. CASE Mark
    BY <2>1 DEF Mark, BatchComplete, IInv, DeletesAreComplete
  <2>2. CASE kept' = kept
    BY <2>2
  <2>3. Mark \/ kept' = kept
    BY DEF Next, Process, Run, Collect, Buffer, Finish, NewCrawl, RequestStop, ClearStop,
       StartRun, Interrupt, Abandon, BatchStart, SeedQueue, SeedAnchor, Claim, Receive,
       Skip, StreamFailure, EndOfStream, BufferTable, FlushTable, ItemBuffered, Flushed,
       InsertOk, InsertError, Settle, FailedDeleted, MarkError, RolledBack, DeleteFailed,
       DeleteFailedError, RollBackTable, RollBackError, durable, store
  <2> QED
    BY <2>1, <2>2, <2>3
<1> QED
  BY <1>1, Invariant, PTL DEF Spec, KeptWithFinish
-----------------------------------------------------------------------------
AllRows == kept \cup stray \cup cur

\* What the ledger takes for pending.
Pending == queue \cup doubtful

\* A step that only adds rows stores matches.
LEMMA AddingStores ==
    ASSUME TypeOK, UNCHANGED Pending, AllRows \subseteq AllRows'
    PROVE  [Ledger!Next]_<<Pending, Stored>>
<1>1. Stored \subseteq Stored' /\ Stored' \in SUBSET Match
  BY DEF Stored, AllRows
<1>2. Ledger!Store(Stored')
  BY <1>1 DEF Ledger!Store, Pending
<1> QED
  BY <1>1, <1>2 DEF Ledger!Next

\* A step that only removes rows of the batch takes back pending matches.
LEMMA RemovingTakesBack ==
    ASSUME IInv, UNCHANGED Pending, AllRows' \subseteq AllRows, AllRows \ AllRows' \subseteq cur
    PROVE  [Ledger!Next]_<<Pending, Stored>>
<1> DEFINE lost == Stored \ Stored'
<1>1. \A r \in cur : r[2] \in Pending
  BY DEF IInv, BatchPending, RowsOfBatch, Pending
<1>2. lost \in SUBSET Match /\ Stored' = Stored \ lost
  BY DEF Stored, AllRows
<1>3. lost \subseteq Pending
  <2> SUFFICES ASSUME NEW m \in lost PROVE m \in Pending
    OBVIOUS
  <2>1. PICK r \in RowsOf(m) : r \in cur
    BY DEF Stored, AllRows
  <2> QED
    BY <1>1, <2>1 DEF RowsOf
<1>4. Ledger!TakeBack(lost)
  BY <1>2, <1>3 DEF Ledger!TakeBack, Pending
<1> QED
  BY <1>2, <1>4 DEF Ledger!Next, Pending

\* Every step of the pipeline is a step of the ledger, or none.
LEMMA LedgerStep ==
    ASSUME IInv, Next
    PROVE  [Ledger!Next]_<<Pending, Stored>>
<1> USE DEF AllRows, durable, store
<1>1. CASE SeedQueue
  <2>1. UNCHANGED <<Stored, doubtful>> /\ listed \in SUBSET Match
    BY <1>1 DEF SeedQueue, Stored, IInv, TypeOK
  <2>2. CASE UNCHANGED queue
    BY <2>1, <2>2 DEF Pending
  <2>3. CASE queue' = queue \cup listed
    <3>1. Pending' = Pending \cup listed
      BY <2>1, <2>3 DEF Pending
    <3>2. Ledger!Admit(listed)
      BY <2>1, <3>1 DEF Ledger!Admit, Pending
    <3> QED
      BY <2>1, <3>2 DEF Ledger!Next, Pending
  <2> QED
    BY <1>1, <2>2, <2>3 DEF SeedQueue
<1>2. CASE Mark
  <2>1. /\ pc = "mark" /\ queue' = queue \ Successful /\ UNCHANGED Stored
        /\ doubtful' = (doubtful \ Unharmed) \cup (Successful \ Unharmed)
    BY <1>2 DEF Mark, BatchComplete, Stored
  <2>2. Successful \subseteq Pending /\ Unharmed \subseteq Successful /\ Unharmed \in SUBSET Match
    BY <2>1 DEF IInv, TypeOK, BatchPending, Idle, Successful, Unharmed, Pending
  <2>3. Unharmed \subseteq Stored
    BY <2>1, <2>2 DEF IInv, RowsAccounted, Stored
  <2>4. Pending' = Pending \ Unharmed
    BY <2>1, <2>2 DEF Pending
  <2>5. Ledger!Finish(Unharmed)
    BY <2>1, <2>2, <2>3, <2>4 DEF Ledger!Finish, Pending
  <2> QED
    BY <2>2, <2>5 DEF Ledger!Next, Pending
<1>3. CASE InsertOk \/ InsertError
  <2>1. UNCHANGED Pending /\ AllRows \subseteq AllRows'
    BY <1>3 DEF InsertOk, InsertError, StoreRows, Pending, environment
  <2> QED
    BY <2>1, AddingStores DEF IInv
<1>4. ASSUME NEW t \in Table, RollBackTable(t) \/ RollBackError(t)
                               \/ DeleteFailed(t) \/ DeleteFailedError(t)
      PROVE  [Ledger!Next]_<<Pending, Stored>>
  <2>1. UNCHANGED Pending /\ AllRows' \subseteq AllRows /\ AllRows \ AllRows' \subseteq cur
    BY <1>4 DEF RollBackTable, RollBackError, DeleteFailed, DeleteFailedError, DropRows, Abandon,
       Pending, environment
  <2> QED
    BY <2>1, RemovingTakesBack
<1>5. CASE MarkError
  <2>1. pc = "mark" /\ UNCHANGED <<kept, stray, cur>>
    BY <1>5 DEF MarkError
  <2>2. Successful \subseteq Pending
    BY <2>1 DEF IInv, BatchPending, Idle, Successful, Pending
  <2>3. UNCHANGED Pending
    BY <1>5, <2>2 DEF MarkError, Pending
  <2> QED
    BY <2>1, <2>3, AddingStores DEF IInv
<1>6. CASE Interrupt \/ RolledBack
  <2>1. UNCHANGED <<Pending, AllRows>>
    BY <1>6 DEF Interrupt, RolledBack, Abandon, Pending, environment
  <2> QED
    BY <2>1, AddingStores DEF IInv
<1>7. CASE UNCHANGED <<queue, doubtful, kept, stray, cur>>
  BY <1>7, AddingStores DEF IInv, Pending
<1>8. \/ SeedQueue \/ Mark \/ InsertOk \/ InsertError \/ MarkError \/ Interrupt \/ RolledBack
      \/ \E t \in Table : \/ RollBackTable(t) \/ RollBackError(t)
                         \/ DeleteFailed(t) \/ DeleteFailedError(t)
      \/ UNCHANGED <<queue, doubtful, kept, stray, cur>>
  BY DEF environment, Next, Process, Run, Collect, Buffer, Finish, NewCrawl, RequestStop, ClearStop,
     StartRun, BatchStart, SeedAnchor, Claim, Receive, Skip, StreamFailure, EndOfStream,
     BufferTable, FlushTable, ItemBuffered, Flushed, Settle, FailedDeleted
<1> QED
  BY <1>1, <1>2, <1>3, <1>4, <1>5, <1>6, <1>7, <1>8

\* The pipeline implements the ledger: matches whose mark was sound stay finished, with
\* their rows, and only rows of pending matches are taken back.
THEOREM Refinement == Spec => ImplementsLedger
<1>1. Init => Ledger!Init
  BY DEF Init, Ledger!Init, Stored
<1>2. IInv /\ [Next]_vars => [Ledger!Next]_<<Pending, Stored>>
  <2> SUFFICES ASSUME IInv, [Next]_vars PROVE [Ledger!Next]_<<Pending, Stored>>
    OBVIOUS
  <2>1. CASE UNCHANGED vars
    BY <2>1 DEF vars, durable, store, environment, Stored, Pending
  <2> QED
    BY <2>1, LedgerStep
<1> QED
  BY <1>1, <1>2, Invariant, PTL DEF Spec, ImplementsLedger, Ledger!Spec, Pending
-----------------------------------------------------------------------------
(* Rows are stored once *)

\* The item that a row comes from.
ItemOf(r) == <<StreamOf[r[1]], r[2]>>

\* The places of a row are disjoint but for what an insert hid, and a row is somewhere
\* only after its item was received, which happens once.
Apart ==
    /\ dup \subseteq hidden
    /\ cur \cap (parsed \cup buffered) = {} /\ cur \cap flight \subseteq hidden
    /\ flight \cap (parsed \cup buffered) = {} /\ parsed \cap buffered = {}
    /\ left \cap received = {}
    /\ \A r \in cur \cup parsed \cup buffered \cup flight : ItemOf(r) \in received
    /\ Idle => received = {}

\* A payload's rows come from its item, and from no other.
LEMMA RowsOfItem ==
    ASSUME NEW s, NEW m, NEW r \in ItemRows(s, m)
    PROVE  ItemOf(r) = <<s, m>>
BY DEF ItemRows, RowsOf, ItemOf

\* A step that leaves the batch's items and rows alone, but may send it on.
LEMMA ApartUnmoved ==
    ASSUME Apart, UNCHANGED <<cur, dup, hidden, work, parsed, buffered, flight>>, Idle' => Idle
    PROVE  Apart'
BY DEF Apart, ItemOf, work

\* A batch that is forgotten or marked has no rows left to store.
LEMMA ApartForgotten ==
    ASSUME ForgetBatch, cur' = {}, dup' = {}
    PROVE  Apart'
BY DEF Apart, ForgetBatch

\* The except branch drops what is in memory.
LEMMA ApartRolledBack ==
    ASSUME Apart, RollBack, UNCHANGED <<dup, hidden, cur, received>>, left' \subseteq left
    PROVE  Apart'
BY DEF Apart, RollBack, ItemOf, Idle

\* Another attempt leaves everything, the last one's error rolls back.
LEMMA ApartRetried ==
    ASSUME Apart, RetryOrRollBack, ~ Idle, UNCHANGED <<dup, hidden, cur, work>>
    PROVE  Apart'
<1>1. CASE RollBack
  BY <1>1, ApartRolledBack DEF work
<1>2. CASE UNCHANGED <<pc, buffers>>
  BY <1>2, ApartUnmoved DEF buffers, Idle
<1> QED
  BY <1>1, <1>2 DEF RetryOrRollBack

\* Taking rows away keeps the rest apart.
LEMMA ApartDropped ==
    ASSUME Apart, ~ Idle, NEW rows, DropRows(rows)
    PROVE  /\ UNCHANGED <<work, buffers, pc>> => Apart'
           /\ RetryOrRollBack /\ UNCHANGED work => Apart'
<1>1. dup' \subseteq hidden' /\ cur' \subseteq cur /\ cur' \cap flight \subseteq hidden'
  BY DEF DropRows, Apart
<1>2. ASSUME UNCHANGED <<work, buffers, pc>> PROVE Apart'
  BY <1>1, <1>2 DEF Apart, ItemOf, work, buffers, Idle
<1>3. ASSUME RollBack, UNCHANGED work PROVE Apart'
  BY <1>1, <1>3 DEF Apart, ItemOf, work, RollBack, Idle
<1> QED
  BY <1>2, <1>3 DEF RetryOrRollBack

\* Handing a table's rows to the insert keeps them apart from the rest.
LEMMA ApartHandedOff ==
    ASSUME Apart, NEW rows, NEW t, HandOff(rows, t), UNCHANGED <<dup, hidden, cur, work>>,
           rows \cup parsed' \subseteq parsed \cup buffered,
           rows \cap parsed' = {}
    PROVE  Apart'
<1>1. /\ flight' = InTable(rows, t) /\ buffered' = rows \ InTable(rows, t) /\ pc' = "insert"
  BY DEF HandOff
<1>2. flight' \cup buffered' \cup parsed' \subseteq parsed \cup buffered
  BY <1>1 DEF InTable
<1>3. flight' \cap (parsed' \cup buffered') = {} /\ parsed' \cap buffered' = {}
  BY <1>1 DEF InTable
<1>4. ~ Idle'
  BY <1>1 DEF Idle
<1> QED
  BY <1>2, <1>3, <1>4 DEF Apart, ItemOf, work

\* Every step keeps the rows apart.
LEMMA ApartStep == ASSUME TypeOK, Apart, [Next]_vars PROVE Apart'
<1> USE DEF durable, store, work, buffers, environment
<1>1. CASE NewCrawl
  BY <1>1, ApartUnmoved DEF NewCrawl, Idle
<1>2. CASE RequestStop
  BY <1>2, ApartUnmoved DEF RequestStop, Idle
<1>3. CASE ClearStop
  BY <1>3, ApartUnmoved DEF ClearStop, Idle
<1>4. CASE StartRun
  BY <1>4, ApartUnmoved DEF StartRun, Idle
<1>5. CASE Interrupt
  BY <1>5, ApartForgotten DEF Interrupt, Abandon
<1>6. CASE BatchStart
  BY <1>6, ApartUnmoved DEF BatchStart, Idle
<1>7. CASE SeedQueue
  BY <1>7, ApartUnmoved DEF SeedQueue, Idle
<1>8. CASE SeedAnchor
  BY <1>8, ApartUnmoved DEF SeedAnchor, Idle
<1>9. CASE Claim
  <2>1. received = {} /\ Idle
    BY <1>9 DEF Claim, Apart, Idle
  <2>2. CASE queue = {}
    BY <1>9, <2>1, <2>2, ApartUnmoved DEF Claim
  <2>3. CASE queue # {}
    <3>1. received' = {} /\ UNCHANGED <<cur, dup, hidden, buffers>>
      BY <1>9, <2>3 DEF Claim
    <3>2. cur \cup parsed \cup buffered \cup flight = {} /\ dup \subseteq hidden
      BY <2>1 DEF Apart
    <3> QED
      BY <3>1, <3>2 DEF Apart
  <2> QED
    BY <2>2, <2>3
<1>10. ASSUME NEW s \in Stream, NEW m \in Match, Receive(s, m) PROVE Apart'
  <2>1. /\ <<s, m>> \in left /\ left' = left \ {<<s, m>>} /\ UNCHANGED <<cur, dup, hidden>>
    BY <1>10 DEF Receive
  <2>2. CASE stop \/ <<s, m>> \in Malformed
    BY <1>10, <2>1, <2>2, ApartRolledBack DEF Receive
  <2>3. CASE ~ (stop \/ <<s, m>> \in Malformed)
    <3>1. /\ pc' = "buffer" /\ received' = received \cup {<<s, m>>}
          /\ parsed' = ItemRows(s, m) /\ UNCHANGED <<buffered, flight>>
      BY <1>10, <2>3 DEF Receive
    <3>2. <<s, m>> \notin received
      BY <2>1 DEF Apart
    <3>3. \A r \in parsed' : ItemOf(r) = <<s, m>>
      BY <3>1, RowsOfItem
    <3>4. parsed' \cap (cur \cup buffered \cup flight) = {}
      BY <3>2, <3>3 DEF Apart
    <3>5. ~ Idle'
      BY <3>1 DEF Idle
    <3> QED
      BY <2>1, <3>1, <3>3, <3>4, <3>5 DEF Apart, ItemOf
  <2> QED
    BY <2>2, <2>3
<1>11. ASSUME NEW s \in Stream, NEW m \in Match, Skip(s, m) PROVE Apart'
  BY <1>11 DEF Skip, Apart, ItemOf, Idle
<1>12. CASE StreamFailure
  BY <1>12, ApartRolledBack DEF StreamFailure
<1>13. CASE EndOfStream
  BY <1>13, ApartUnmoved DEF EndOfStream, Idle
<1>14. ASSUME NEW t \in Table, BufferTable(t) PROVE Apart'
  <2> DEFINE rows == buffered \cup InTable(parsed, t)
  <2>1. /\ pc = "buffer" /\ parsed' = parsed \ InTable(parsed, t)
        /\ UNCHANGED <<cur, dup, hidden, work>>
        /\ HandOff(rows, t) \/ (buffered' = rows /\ UNCHANGED <<pc, flight>>)
    BY <1>14 DEF BufferTable
  <2>2. /\ rows \cup parsed' \subseteq parsed \cup buffered
        /\ rows \cap parsed' = {}
    BY <2>1 DEF InTable, Apart
  <2>3. CASE HandOff(rows, t)
    BY <2>1, <2>2, <2>3, ApartHandedOff
  <2>4. CASE buffered' = rows /\ UNCHANGED <<pc, flight>>
    BY <2>1, <2>2, <2>4 DEF Apart, ItemOf, Idle
  <2> QED
    BY <2>1, <2>3, <2>4
<1>15. ASSUME NEW t \in Table, FlushTable(t) PROVE Apart'
  <2>1. /\ pc \in {"flush", "final"} /\ HandOff(buffered, t)
        /\ UNCHANGED <<cur, dup, hidden, work, parsed>>
    BY <1>15 DEF FlushTable
  <2> QED
    BY <2>1, ApartHandedOff DEF Apart
<1>16. CASE ItemBuffered
  BY <1>16, ApartUnmoved DEF ItemBuffered, Idle
<1>17. CASE Flushed
  BY <1>17, ApartUnmoved DEF Flushed, Idle
<1>18. CASE InsertOk
  <2>1. ~ Idle'
    BY <1>18 DEF InsertOk, TypeOK, Returns, Idle
  <2>2. /\ cur' = cur \cup flight /\ dup' = dup \cup (cur \cap flight) /\ flight' = {}
        /\ UNCHANGED <<hidden, work, parsed, buffered>>
    BY <1>18 DEF InsertOk, StoreRows
  <2> QED
    BY <2>1, <2>2 DEF Apart, ItemOf
<1>19. CASE InsertError
  <2>1. PICK part \in SUBSET flight : StoreRows(part) /\ hidden' = hidden \cup part
    BY <1>19 DEF InsertError
  <2>2. /\ dup' \subseteq hidden' /\ cur' = cur \cup part
        /\ cur' \cap (parsed \cup buffered) = {} /\ cur' \cap flight \subseteq hidden'
        /\ \A r \in cur' : ItemOf(r) \in received
    BY <2>1 DEF StoreRows, Apart
  <2>3. RetryOrRollBack /\ ~ Idle /\ UNCHANGED work
    BY <1>19 DEF InsertError, Idle
  <2>4. CASE RollBack
    BY <2>2, <2>3, <2>4 DEF Apart, RollBack, ItemOf, Idle
  <2>5. CASE UNCHANGED <<pc, buffers>>
    BY <2>2, <2>3, <2>5 DEF Apart, ItemOf, Idle
  <2> QED
    BY <2>3, <2>4, <2>5 DEF RetryOrRollBack
<1>20. CASE Settle
  BY <1>20, ApartUnmoved DEF Settle, Idle
<1>21. CASE FailedDeleted
  BY <1>21, ApartUnmoved DEF FailedDeleted, Idle
<1>22. CASE Mark
  BY <1>22, ApartForgotten DEF Mark, BatchComplete
<1>23. CASE MarkError
  BY <1>23, ApartRetried DEF MarkError, Idle
<1>24. CASE RolledBack
  BY <1>24, ApartForgotten DEF RolledBack, Abandon
<1>25. ASSUME NEW t \in Table, DeleteFailed(t) PROVE Apart'
  BY <1>25, ApartDropped DEF DeleteFailed, Idle
<1>26. ASSUME NEW t \in Table, DeleteFailedError(t) PROVE Apart'
  BY <1>26, ApartDropped DEF DeleteFailedError, Idle
<1>27. ASSUME NEW t \in Table, RollBackTable(t) PROVE Apart'
  BY <1>27, ApartDropped DEF RollBackTable, Idle
<1>28. ASSUME NEW t \in Table, RollBackError(t) PROVE Apart'
  <2>1. CASE ForgetBatch /\ cur' = {} /\ dup' = {}
    BY <2>1, ApartForgotten
  <2>2. CASE \E gone : DropRows(gone) /\ UNCHANGED <<work, buffers, pc>>
    BY <1>28, <2>2, ApartDropped DEF RollBackError, Idle
  <2> QED
    BY <1>28, <2>1, <2>2 DEF RollBackError, Abandon
<1>29. CASE UNCHANGED vars
  BY <1>29, ApartUnmoved DEF vars, Idle
<1> QED
  BY <1>1, <1>2, <1>3, <1>4, <1>5, <1>6, <1>7, <1>8, <1>9, <1>10, <1>11,
     <1>12, <1>13, <1>14, <1>15, <1>16, <1>17, <1>18, <1>19, <1>20, <1>21,
     <1>22, <1>23, <1>24, <1>25, <1>26, <1>27, <1>28, <1>29
     DEF Next, Process, Run, Collect, Buffer, Finish

\* No batch stores a row twice, whatever is retried, unless an insert of that very row
\* had stored it before it reported an error.
THEOREM RowsAreStoredOnce == Spec => []StoredOnce
<1>1. Init => TypeOK /\ Apart
  BY TypeInductive DEF Init, Apart
<1>2. TypeOK /\ Apart /\ [Next]_vars => TypeOK' /\ Apart'
  BY TypeInductive, ApartStep
<1>3. Apart => StoredOnce
  BY DEF Apart, StoredOnce
<1> QED
  BY <1>1, <1>2, <1>3, PTL DEF Spec
-----------------------------------------------------------------------------
(* The claim *)

\* The matches of m's continent up to m, and those claimed before m.
UpTo(m) == {n \in queue : Continent[n] = Continent[m] /\ ShuffleKey[n] <= ShuffleKey[m]}
Ahead(m) == {n \in queue : ClaimedBefore(n, m)}
Place(m) == Cardinality(Ahead(m))

\* The queue is finite, and its parts are no larger.
LEMMA CountsAreNumbers ==
    ASSUME queue \subseteq Match, NEW S, S \subseteq queue
    PROVE  /\ IsFiniteSet(S) /\ Cardinality(S) \in Nat
           /\ Cardinality(S) <= Cardinality(queue) /\ Cardinality(queue) \in Nat
<1>1. IsFiniteSet(queue)
  BY ClaimAssumption, FS_Subset DEF ClaimAssumption
<1>2. IsFiniteSet(S) /\ Cardinality(S) <= Cardinality(queue)
  BY <1>1, FS_Subset
<1> QED
  BY <1>1, <1>2, FS_CardinalityType

\* A part of some matches counts fewer.
LEMMA SmallerCounts ==
    ASSUME queue \subseteq Match, NEW S, NEW T, T \subseteq queue, S \subseteq T
    PROVE  /\ Cardinality(S) <= Cardinality(T)
           /\ S # T => Cardinality(S) < Cardinality(T)
<1>1. IsFiniteSet(T) /\ Cardinality(T) \in Nat /\ Cardinality(S) \in Nat
  BY CountsAreNumbers
<1>2. Cardinality(S) <= Cardinality(T) /\ (Cardinality(T) = Cardinality(S) => T = S)
  BY <1>1, FS_Subset
<1> QED
  BY <1>1, <1>2

\* A row number counts matches of the queue.
LEMMA RowNumbers ==
    ASSUME queue \subseteq Match, NEW m \in queue
    PROVE  /\ RowNumber(m) = Cardinality(UpTo(m)) /\ UpTo(m) \subseteq queue
           /\ RowNumber(m) \in Nat /\ RowNumber(m) <= Cardinality(queue)
<1>1. RowNumber(m) = Cardinality(UpTo(m)) /\ UpTo(m) \subseteq queue
  BY DEF RowNumber, UpTo
<1> QED
  BY <1>1, CountsAreNumbers

\* Within a continent the row numbers follow the keys.
LEMMA RowNumbersFollowKeys ==
    ASSUME queue \subseteq Match, NEW m \in queue, NEW n \in queue,
           Continent[m] = Continent[n], ShuffleKey[m] < ShuffleKey[n]
    PROVE  RowNumber(m) < RowNumber(n)
<1>1. /\ m \in Match /\ n \in Match
      /\ \A k \in queue : ShuffleKey[k] \in Nat
  BY ClaimAssumption DEF ClaimAssumption
<1>2. ShuffleKey[m] \in Nat /\ ShuffleKey[n] \in Nat
  BY <1>1
<1>3. UpTo(m) \subseteq UpTo(n)
  <2> SUFFICES ASSUME NEW k \in UpTo(m) PROVE k \in UpTo(n)
    OBVIOUS
  <2>1. k \in queue /\ Continent[k] = Continent[m] /\ ShuffleKey[k] <= ShuffleKey[m]
    BY DEF UpTo
  <2>2. ShuffleKey[k] <= ShuffleKey[n]
    BY <1>1, <1>2, <2>1
  <2> QED
    BY <2>1, <2>2 DEF UpTo
<1>4. n \in UpTo(n) /\ n \notin UpTo(m)
  BY <1>2 DEF UpTo
<1>5. Cardinality(UpTo(m)) < Cardinality(UpTo(n))
  BY <1>3, <1>4, RowNumbers, SmallerCounts
<1> QED
  BY <1>5, RowNumbers

\* The claim order is a strict total order on the queue.
LEMMA ClaimOrder ==
    ASSUME queue \subseteq Match, NEW m \in queue, NEW n \in queue
    PROVE  /\ ~ ClaimedBefore(m, m)
           /\ m # n => ClaimedBefore(m, n) \/ ClaimedBefore(n, m)
           /\ \A k \in queue : ClaimedBefore(k, m) /\ ClaimedBefore(m, n) => ClaimedBefore(k, n)
<1>1. \A k \in queue : RowNumber(k) \in Nat /\ ContinentRank[Continent[k]] \in Nat
  BY RowNumbers, ClaimAssumption DEF ClaimAssumption
<1>2. ~ ClaimedBefore(m, m)
  BY <1>1 DEF ClaimedBefore
<1>3. \A k \in queue : ClaimedBefore(k, m) /\ ClaimedBefore(m, n) => ClaimedBefore(k, n)
  BY <1>1 DEF ClaimedBefore
<1>4. ASSUME m # n, ~ ClaimedBefore(m, n), ~ ClaimedBefore(n, m) PROVE FALSE
  <2>1. RowNumber(m) = RowNumber(n)
        /\ ContinentRank[Continent[m]] = ContinentRank[Continent[n]]
    BY <1>1, <1>4 DEF ClaimedBefore
  <2>2. Continent[m] = Continent[n] /\ ShuffleKey[m] # ShuffleKey[n]
        /\ ShuffleKey[m] \in Nat /\ ShuffleKey[n] \in Nat
    BY <1>4, <2>1, ClaimAssumption DEF ClaimAssumption
  <2>3. CASE ShuffleKey[m] < ShuffleKey[n]
    BY <1>1, <2>1, <2>2, <2>3, RowNumbersFollowKeys
  <2>4. CASE ShuffleKey[n] < ShuffleKey[m]
    BY <1>1, <2>1, <2>2, <2>4, RowNumbersFollowKeys
  <2> QED
    BY <2>2, <2>3, <2>4
<1> QED
  BY <1>2, <1>3, <1>4

\* Who is claimed before another has the smaller place.
LEMMA PlacesFollowTheOrder ==
    ASSUME queue \subseteq Match, NEW m \in queue, NEW n \in queue, ClaimedBefore(m, n)
    PROVE  Place(m) < Place(n)
<1>1. Ahead(m) \subseteq Ahead(n) /\ Ahead(n) \subseteq queue
  BY ClaimOrder DEF Ahead
<1>2. m \in Ahead(n) /\ m \notin Ahead(m)
  BY ClaimOrder DEF Ahead
<1> QED
  BY <1>1, <1>2, SmallerCounts DEF Place

\* Claimed are the matches whose place is below the limit.
LEMMA Claimed ==
    ASSUME queue \subseteq Match
    PROVE  /\ ClaimedMatches \subseteq queue
           /\ \A m \in queue : m \in ClaimedMatches <=> Place(m) < BatchSize
           /\ \A m \in queue : Ahead(m) \subseteq queue
           /\ \A m \in queue : Place(m) \in Nat /\ Place(m) <= Cardinality(queue)
           /\ Cardinality(queue) \in Nat
<1>1. ClaimedMatches \subseteq queue /\ \A m \in queue : m \in ClaimedMatches <=> Place(m) < BatchSize
  BY DEF ClaimedMatches, Place, Ahead
<1>2. ASSUME NEW m \in queue
      PROVE  Ahead(m) \subseteq queue /\ Place(m) \in Nat /\ Place(m) <= Cardinality(queue)
  <2>1. Ahead(m) \subseteq queue
    BY DEF Ahead
  <2> QED
    BY <2>1, CountsAreNumbers DEF Place
<1>3. Cardinality(queue) \in Nat
  BY CountsAreNumbers
<1> QED
  BY <1>1, <1>2, <1>3

\* Whoever is left is claimed after everyone who is not.
LEMMA ClaimedGoFirst ==
    ASSUME queue \subseteq Match, NEW m \in queue \ ClaimedMatches, NEW n \in ClaimedMatches
    PROVE  ClaimedBefore(n, m)
<1>1. m \in queue /\ n \in queue /\ m # n
  BY Claimed
<1>2. Place(n) < BatchSize /\ ~ (Place(m) < BatchSize) /\ Place(n) \in Nat /\ Place(m) \in Nat
      /\ BatchSize \in Nat
  BY <1>1, Claimed, BoundAssumption DEF BoundAssumption
<1>3. CASE ClaimedBefore(m, n)
  <2>1. Place(m) < Place(n)
    BY <1>1, <1>3, PlacesFollowTheOrder
  <2> QED
    BY <1>2, <2>1
<1> QED
  BY <1>1, <1>3, ClaimOrder

\* A claim that leaves something is as large as the limit.
LEMMA ClaimIsFull ==
    ASSUME queue \subseteq Match, ClaimedMatches # queue
    PROVE  Cardinality(ClaimedMatches) = BatchSize
<1> DEFINE Out == queue \ ClaimedMatches
           places == {Place(m) : m \in Out}
           taken == {Place(m) : m \in ClaimedMatches}
<1>1. ClaimedMatches \subseteq queue /\ Out # {} /\ Out \subseteq queue
  BY Claimed
<1>2. places \subseteq Nat /\ places # {}
  BY <1>1, Claimed
<1>3. PICK p \in places : \A q \in places : p <= q
  <2> HIDE DEF places
  <2> QED
    BY <1>2, LeastOne
<1>4. PICK first \in Out : p = Place(first)
  OBVIOUS
<1>5. first \in queue /\ Place(first) \in Nat /\ BatchSize \in Nat \ {0} /\ BatchSize <= Place(first)
  BY <1>1, <1>4, Claimed, BoundAssumption DEF BoundAssumption
<1>6. Ahead(first) = ClaimedMatches
  <2>1. ASSUME NEW n \in Ahead(first) PROVE n \in ClaimedMatches
    <3>1. n \in queue /\ ClaimedBefore(n, first)
      BY DEF Ahead
    <3>2. Place(n) < Place(first) /\ Place(n) \in Nat
      BY <1>5, <3>1, PlacesFollowTheOrder, Claimed
    <3>3. ~ (Place(first) <= Place(n))
      BY <1>5, <3>2
    <3>4. n \notin Out
      BY <1>3, <1>4, <3>3
    <3> QED
      BY <3>1, <3>4
  <2>2. ASSUME NEW n \in ClaimedMatches PROVE n \in Ahead(first)
    BY <1>1, <1>4, ClaimedGoFirst DEF Ahead
  <2> QED
    BY <2>1, <2>2
<1>7. Cardinality(ClaimedMatches) = Place(first)
  BY <1>6 DEF Place
<1>8. Cardinality(ClaimedMatches) <= BatchSize
  <2>1. ClaimedMatches # {}
    <3>1. SUFFICES ASSUME ClaimedMatches = {} PROVE FALSE
      OBVIOUS
    <3>2. Place(first) = 0
      BY <1>7, <3>1, FS_EmptySet
    <3> QED
      BY <1>5, <3>2
  <2>2. taken \subseteq Nat /\ taken # {} /\ \A x \in taken : x <= Cardinality(queue)
    BY <1>1, <2>1, Claimed
  <2>3. Cardinality(queue) \in Nat
    BY Claimed
  <2>4. PICK t \in taken : \A q \in taken : q <= t
    <3> HIDE DEF taken
    <3> QED
      BY <2>2, <2>3, GreatestOne
  <2>5. PICK last \in ClaimedMatches : t = Place(last)
    OBVIOUS
  <2>6. last \in queue /\ Place(last) \in Nat /\ Place(last) < BatchSize /\ Ahead(last) \subseteq queue
    BY <1>1, <2>5, Claimed
  <2>7. ClaimedMatches \subseteq Ahead(last) \cup {last}
    <3> SUFFICES ASSUME NEW n \in ClaimedMatches, n # last PROVE n \in Ahead(last)
      OBVIOUS
    <3>1. n \in queue /\ Place(n) \in Nat /\ Place(n) <= Place(last)
      BY <1>1, <2>4, <2>5, Claimed
    <3>2. CASE ClaimedBefore(last, n)
      <4>1. Place(last) < Place(n)
        BY <2>6, <3>1, <3>2, PlacesFollowTheOrder
      <4> QED
        BY <2>6, <3>1, <4>1
    <3>3. CASE ClaimedBefore(n, last)
      BY <3>1, <3>3 DEF Ahead
    <3> QED
      BY <2>6, <3>1, <3>2, <3>3, ClaimOrder
  <2>8. last \notin Ahead(last)
    BY <2>6, ClaimOrder DEF Ahead
  <2>9. IsFiniteSet(Ahead(last))
    BY <2>6, CountsAreNumbers
  <2>10. Cardinality(Ahead(last) \cup {last}) = Place(last) + 1
    BY <2>8, <2>9, FS_AddElement DEF Place
  <2>11. Cardinality(ClaimedMatches) <= Cardinality(Ahead(last) \cup {last})
    <3>1. Ahead(last) \cup {last} \subseteq queue
      BY <2>6
    <3> QED
      BY <2>7, <3>1, SmallerCounts
  <2>12. Cardinality(ClaimedMatches) \in Nat
    BY <1>1, CountsAreNumbers
  <2> QED
    BY <1>5, <2>6, <2>10, <2>11, <2>12
<1> QED
  BY <1>5, <1>7, <1>8

\* The claimed matches of a continent.
ClaimedOf(c) == {k \in ClaimedMatches : Continent[k] = c}

\* One of them has a row number that their number does not exceed.
LEMMA FirstRowsAreClaimed ==
    ASSUME queue \subseteq Match, NEW n \in ClaimedMatches
    PROVE  \E k \in ClaimedOf(Continent[n]) :
               Cardinality(ClaimedOf(Continent[n])) <= RowNumber(k)
<1> DEFINE S == ClaimedOf(Continent[n])
           rows == {RowNumber(k) : k \in S}
<1>1. S \subseteq queue /\ n \in S /\ \A k \in S : k \in ClaimedMatches /\ Continent[k] = Continent[n]
  BY Claimed DEF ClaimedOf
<1> HIDE DEF S
<1>2. rows \subseteq Nat /\ rows # {} /\ \A x \in rows : x <= Cardinality(queue)
  BY <1>1, RowNumbers
<1>3. PICK r \in rows : \A q \in rows : q <= r
  <2> HIDE DEF rows
  <2> QED
    BY <1>2, GreatestOne, Claimed
<1>4. PICK k \in S : r = RowNumber(k)
  OBVIOUS
<1>5. S \subseteq UpTo(k)
  <2> SUFFICES ASSUME NEW j \in S, j \notin UpTo(k) PROVE FALSE
    OBVIOUS
  <2>1. j \in queue /\ k \in queue /\ Continent[j] = Continent[k] /\ j \in Match /\ k \in Match
    BY <1>1
  <2>2. ShuffleKey[j] \in Nat /\ ShuffleKey[k] \in Nat
    BY <2>1, ClaimAssumption DEF ClaimAssumption
  <2>3. ShuffleKey[k] < ShuffleKey[j]
    BY <2>1, <2>2 DEF UpTo
  <2>4. RowNumber(k) < RowNumber(j) /\ RowNumber(k) \in Nat /\ RowNumber(j) \in Nat
    BY <2>1, <2>3, RowNumbersFollowKeys, RowNumbers
  <2>5. RowNumber(j) <= RowNumber(k)
    BY <1>3, <1>4
  <2> QED
    BY <2>4, <2>5
<1>6. Cardinality(S) <= RowNumber(k)
  BY <1>1, <1>5, RowNumbers, SmallerCounts
<1> QED
  BY <1>6 DEF S

\* Of a continent that has matches waiting, one that waits has all the matches
\* with smaller row numbers claimed.
LEMMA WaitingRows ==
    ASSUME queue \subseteq Match, NEW m \in queue \ ClaimedMatches
    PROVE  \E k \in queue \ ClaimedMatches :
               RowNumber(k) <= Cardinality(ClaimedOf(Continent[m])) + 1
<1> DEFINE W == {k \in queue \ ClaimedMatches : Continent[k] = Continent[m]}
           rows == {RowNumber(k) : k \in W}
<1>1. W \subseteq queue /\ m \in W
  OBVIOUS
<1>2. rows \subseteq Nat /\ rows # {}
  BY <1>1, RowNumbers
<1>3. PICK r \in rows : \A q \in rows : r <= q
  <2> HIDE DEF rows
  <2> QED
    BY <1>2, LeastOne
<1>4. PICK k \in W : r = RowNumber(k)
  OBVIOUS
<1>5. UpTo(k) \subseteq ClaimedOf(Continent[m]) \cup {k}
  <2> SUFFICES ASSUME NEW j \in UpTo(k), j # k PROVE j \in ClaimedOf(Continent[m])
    OBVIOUS
  <2>1. j \in queue /\ k \in queue /\ Continent[j] = Continent[k]
        /\ Continent[j] = Continent[m] /\ ShuffleKey[j] <= ShuffleKey[k] /\ j \in Match /\ k \in Match
    BY <1>4 DEF UpTo
  <2>2. ShuffleKey[j] < ShuffleKey[k]
    BY <2>1, ClaimAssumption DEF ClaimAssumption
  <2>3. RowNumber(j) < RowNumber(k) /\ RowNumber(k) \in Nat /\ RowNumber(j) \in Nat
    BY <2>1, <2>2, RowNumbersFollowKeys, RowNumbers
  <2>4. j \notin W
    BY <1>3, <1>4, <2>3
  <2> QED
    BY <2>1, <2>4 DEF ClaimedOf
<1>6. ClaimedOf(Continent[m]) \subseteq queue
  BY Claimed DEF ClaimedOf
<1>7. /\ IsFiniteSet(ClaimedOf(Continent[m]))
      /\ Cardinality(ClaimedOf(Continent[m])) \in Nat
  BY <1>6, CountsAreNumbers
<1>8. Cardinality(ClaimedOf(Continent[m]) \cup {k}) <= Cardinality(ClaimedOf(Continent[m])) + 1
  BY <1>7, FS_AddElement
<1>9. ClaimedOf(Continent[m]) \cup {k} \subseteq queue
  BY <1>1, <1>6
<1>10. RowNumber(k) <= Cardinality(ClaimedOf(Continent[m]) \cup {k})
  BY <1>1, <1>5, <1>9, RowNumbers, SmallerCounts
<1>11. RowNumber(k) \in Nat /\ Cardinality(ClaimedOf(Continent[m]) \cup {k}) \in Nat
  BY <1>1, <1>9, RowNumbers, CountsAreNumbers
<1>12. RowNumber(k) <= Cardinality(ClaimedOf(Continent[m])) + 1
  BY <1>7, <1>8, <1>10, <1>11
<1> QED
  BY <1>12

\* No continent gets two matches more than one that has matches waiting.
LEMMA ClaimIsFair ==
    ASSUME queue \subseteq Match, NEW m \in queue \ ClaimedMatches, NEW n \in ClaimedMatches
    PROVE  Cardinality(ClaimedOf(Continent[n])) <= Cardinality(ClaimedOf(Continent[m])) + 1
<1>1. PICK k \in ClaimedOf(Continent[n]) : Cardinality(ClaimedOf(Continent[n])) <= RowNumber(k)
  BY FirstRowsAreClaimed
<1>2. PICK w \in queue \ ClaimedMatches : RowNumber(w) <= Cardinality(ClaimedOf(Continent[m])) + 1
  BY WaitingRows
<1>3. k \in ClaimedMatches /\ k \in queue
  BY Claimed DEF ClaimedOf
<1>4. ClaimedBefore(k, w)
  BY <1>2, <1>3, ClaimedGoFirst
<1>5. RowNumber(k) \in Nat /\ RowNumber(w) \in Nat
  BY <1>2, <1>3, RowNumbers
<1>6. RowNumber(k) <= RowNumber(w)
  BY <1>4, <1>5 DEF ClaimedBefore
<1>7. /\ Cardinality(ClaimedOf(Continent[n])) \in Nat
      /\ Cardinality(ClaimedOf(Continent[m])) \in Nat
  <2>1. ClaimedOf(Continent[n]) \subseteq queue /\ ClaimedOf(Continent[m]) \subseteq queue
    BY Claimed DEF ClaimedOf
  <2> QED
    BY <2>1, CountsAreNumbers
<1> QED
  BY <1>1, <1>2, <1>5, <1>6, <1>7

\* The query as it is written: it takes the first matches of each continent, numbers
\* those and claims from them.
Limited == {m \in queue : RowNumber(m) <= BatchSize}
LimitedRow(m) ==
    Cardinality({n \in Limited : /\ Continent[n] = Continent[m]
                                 /\ ShuffleKey[n] <= ShuffleKey[m]})
LimitedBefore(m, n) ==
    \/ LimitedRow(m) < LimitedRow(n)
    \/ /\ LimitedRow(m) = LimitedRow(n)
       /\ ContinentRank[Continent[m]] < ContinentRank[Continent[n]]
LimitedClaim ==
    {m \in Limited : Cardinality({n \in Limited : LimitedBefore(n, m)}) < BatchSize}

\* A match among the first of its continent has all smaller ones there, too.
LEMMA LimitedRowsAgree ==
    ASSUME queue \subseteq Match, NEW m \in Limited
    PROVE  LimitedRow(m) = RowNumber(m)
<1>1. m \in queue /\ RowNumber(m) <= BatchSize /\ RowNumber(m) \in Nat /\ m \in Match
      /\ BatchSize \in Nat
  BY RowNumbers, BoundAssumption DEF Limited, BoundAssumption
<1>2. ASSUME NEW n \in UpTo(m) PROVE n \in Limited
  <2>1. n \in queue /\ n \in Match /\ Continent[n] = Continent[m] /\ ShuffleKey[n] <= ShuffleKey[m]
        /\ RowNumber(n) \in Nat
    BY RowNumbers DEF UpTo
  <2>2. ShuffleKey[n] \in Nat /\ ShuffleKey[m] \in Nat
    BY <1>1, <2>1, ClaimAssumption DEF ClaimAssumption
  <2>3. CASE n = m
    BY <2>3
  <2>4. CASE n # m
    <3>1. ShuffleKey[n] < ShuffleKey[m]
      BY <1>1, <2>1, <2>2, <2>4, ClaimAssumption DEF ClaimAssumption
    <3>2. RowNumber(n) < RowNumber(m)
      BY <1>1, <2>1, <3>1, RowNumbersFollowKeys
    <3> QED
      BY <1>1, <2>1, <3>2 DEF Limited
  <2> QED
    BY <2>3, <2>4
<1>3. {n \in Limited : Continent[n] = Continent[m] /\ ShuffleKey[n] <= ShuffleKey[m]} = UpTo(m)
  <2>1. ASSUME NEW n \in Limited, Continent[n] = Continent[m], ShuffleKey[n] <= ShuffleKey[m]
        PROVE  n \in UpTo(m)
    BY <2>1 DEF Limited, UpTo
  <2>2. ASSUME NEW n \in UpTo(m)
        PROVE  Continent[n] = Continent[m] /\ ShuffleKey[n] <= ShuffleKey[m]
    BY DEF UpTo
  <2> QED
    BY <1>2, <2>1, <2>2
<1> QED
  BY <1>1, <1>3, RowNumbers DEF LimitedRow

\* What a claim takes is among the first of its continent.
LEMMA ClaimedAreLimited ==
    ASSUME queue \subseteq Match, NEW m \in ClaimedMatches
    PROVE  m \in Limited
<1>1. m \in queue /\ m \in Match /\ Place(m) < BatchSize /\ Ahead(m) \subseteq queue
      /\ Place(m) \in Nat /\ BatchSize \in Nat
  BY Claimed, BoundAssumption DEF BoundAssumption
<1>2. RowNumber(m) \in Nat /\ RowNumber(m) = Cardinality(UpTo(m)) /\ UpTo(m) \subseteq queue
  BY <1>1, RowNumbers
<1>3. UpTo(m) \subseteq Ahead(m) \cup {m}
  <2> SUFFICES ASSUME NEW n \in UpTo(m), n # m PROVE n \in Ahead(m)
    OBVIOUS
  <2>1. n \in queue /\ n \in Match /\ Continent[n] = Continent[m] /\ ShuffleKey[n] <= ShuffleKey[m]
    BY DEF UpTo
  <2>2. ShuffleKey[n] < ShuffleKey[m]
    BY <1>1, <2>1, ClaimAssumption DEF ClaimAssumption
  <2>3. RowNumber(n) < RowNumber(m)
    BY <1>1, <2>1, <2>2, RowNumbersFollowKeys
  <2> QED
    BY <2>1, <2>3 DEF Ahead, ClaimedBefore
<1>4. Ahead(m) \cup {m} \subseteq queue
  BY <1>1
<1>5. IsFiniteSet(Ahead(m)) /\ Cardinality(Ahead(m) \cup {m}) \in Nat
  BY <1>1, <1>4, CountsAreNumbers
<1>6. Cardinality(Ahead(m) \cup {m}) <= Place(m) + 1
  BY <1>1, <1>5, FS_AddElement DEF Place
<1>7. RowNumber(m) <= Cardinality(Ahead(m) \cup {m})
  BY <1>2, <1>3, <1>4, SmallerCounts
<1>8. RowNumber(m) <= BatchSize
  BY <1>1, <1>2, <1>5, <1>6, <1>7
<1> QED
  BY <1>1, <1>8 DEF Limited

\* The inner LIMIT BY of claim_pending_matchids is an optimisation: for any queue and
\* any limit the query claims what it would claim if it numbered all of the queue.
THEOREM LimitingDropsNothing ==
    ASSUME queue \subseteq Match
    PROVE  LimitedClaim = ClaimedMatches
<1>1. Limited \subseteq queue /\ ClaimedMatches \subseteq queue /\ ClaimedMatches \subseteq Limited
  BY Claimed, ClaimedAreLimited DEF Limited
<1> DEFINE Among(m) == {n \in Limited : LimitedBefore(n, m)}
<1>2. ASSUME NEW m \in Limited PROVE Among(m) = {n \in Limited : ClaimedBefore(n, m)}
  BY LimitedRowsAgree DEF LimitedBefore, ClaimedBefore
<1> HIDE DEF Among
<1>3. BatchSize \in Nat
  BY BoundAssumption DEF BoundAssumption
<1>4. ASSUME NEW m \in ClaimedMatches PROVE Cardinality(Among(m)) < BatchSize
  <2>1. m \in queue /\ m \in Limited
    BY <1>1
  <2>2. Among(m) \subseteq Ahead(m) /\ Ahead(m) \subseteq queue
    BY <1>1, <1>2, <2>1 DEF Ahead
  <2>3. Cardinality(Among(m)) <= Place(m) /\ Place(m) < BatchSize /\ Place(m) \in Nat
    BY <2>1, <2>2, SmallerCounts, Claimed DEF Place
  <2>4. Cardinality(Among(m)) \in Nat
    <3>1. Among(m) \subseteq queue
      BY <2>2
    <3> QED
      BY <3>1, CountsAreNumbers
  <2> QED
    BY <1>3, <2>3, <2>4
<1>5. ASSUME NEW m \in Limited \ ClaimedMatches PROVE ~ (Cardinality(Among(m)) < BatchSize)
  <2>1. m \in queue \ ClaimedMatches
    BY <1>1
  <2>2. ClaimedMatches \subseteq Among(m)
    BY <1>1, <1>2, <2>1, ClaimedGoFirst
  <2>3. Among(m) \subseteq queue
    BY <1>1, <1>2
  <2>4. Cardinality(ClaimedMatches) <= Cardinality(Among(m)) /\ Cardinality(Among(m)) \in Nat
    BY <2>2, <2>3, SmallerCounts, CountsAreNumbers
  <2>5. Cardinality(ClaimedMatches) = BatchSize
    BY <2>1, ClaimIsFull
  <2> QED
    BY <1>3, <2>4, <2>5
<1>6. LimitedClaim = {m \in Limited : Cardinality(Among(m)) < BatchSize}
  BY DEF LimitedClaim, Among
<1> QED
  BY <1>1, <1>4, <1>5, <1>6

\* While the batch is received, the queue still is the one it was claimed from.
ClaimStands == Filling => batch = ClaimedMatches

\* A step that leaves the queue and the batch alone keeps it.
LEMMA ClaimUnmoved ==
    ASSUME ClaimStands, Filling' => Filling, UNCHANGED <<queue, batch>>
    PROVE  ClaimStands'
BY DEF ClaimStands, ClaimedMatches, ClaimedBefore, RowNumber

\* A roll-back ends the claim.
LEMMA ClaimRolledBack == ASSUME RollBack PROVE ClaimStands'
BY DEF RollBack, ClaimStands, Filling

\* Every action keeps it: the queue changes only where no batch is received.
LEMMA ClaimStep == ASSUME TypeOK, ClaimStands, [Next]_vars PROVE ClaimStands'
<1> USE DEF Filling, durable, store, work, buffers, environment
<1>1. CASE NewCrawl
  BY <1>1, ClaimUnmoved DEF NewCrawl
<1>2. CASE RequestStop
  BY <1>2, ClaimUnmoved DEF RequestStop
<1>3. CASE ClearStop
  BY <1>3, ClaimUnmoved DEF ClearStop
<1>4. CASE StartRun
  BY <1>4 DEF StartRun, ClaimStands
<1>5. CASE Interrupt
  BY <1>5 DEF Interrupt, ClaimStands
<1>6. CASE BatchStart
  BY <1>6 DEF BatchStart, ClaimStands
<1>7. CASE SeedQueue
  BY <1>7 DEF SeedQueue, ClaimStands
<1>8. CASE SeedAnchor
  BY <1>8 DEF SeedAnchor, ClaimStands
<1>9. CASE Claim
  <2>1. CASE queue = {}
    BY <1>9, <2>1 DEF Claim, ClaimStands
  <2>2. CASE queue # {}
    <3>1. batch' = ClaimedMatches /\ UNCHANGED queue
      BY <1>9, <2>2 DEF Claim
    <3>2. ClaimedMatches' = ClaimedMatches
      BY <3>1 DEF ClaimedMatches, ClaimedBefore, RowNumber
    <3> QED
      BY <3>1, <3>2 DEF ClaimStands
  <2> QED
    BY <2>1, <2>2
<1>10. ASSUME NEW s \in Stream, NEW m \in Match, Receive(s, m) PROVE ClaimStands'
  BY <1>10, ClaimUnmoved, ClaimRolledBack DEF Receive
<1>11. ASSUME NEW s \in Stream, NEW m \in Match, Skip(s, m) PROVE ClaimStands'
  BY <1>11, ClaimUnmoved DEF Skip
<1>12. CASE StreamFailure
  BY <1>12, ClaimRolledBack DEF StreamFailure
<1>13. CASE EndOfStream
  BY <1>13, ClaimUnmoved DEF EndOfStream
<1>14. ASSUME NEW t \in Table, BufferTable(t) PROVE ClaimStands'
  BY <1>14, ClaimUnmoved DEF BufferTable
<1>15. ASSUME NEW t \in Table, FlushTable(t) PROVE ClaimStands'
  BY <1>15, ClaimUnmoved DEF FlushTable
<1>16. CASE ItemBuffered
  BY <1>16, ClaimUnmoved DEF ItemBuffered
<1>17. CASE Flushed
  BY <1>17, ClaimUnmoved DEF Flushed
<1>18. CASE InsertOk
  BY <1>18, ClaimUnmoved DEF InsertOk
<1>19. CASE InsertError
  BY <1>19, ClaimUnmoved, ClaimRolledBack DEF InsertError, RetryOrRollBack
<1>20. CASE Settle
  BY <1>20 DEF Settle, ClaimStands
<1>21. CASE FailedDeleted
  BY <1>21 DEF FailedDeleted, ClaimStands
<1>22. CASE Mark
  BY <1>22 DEF Mark, BatchComplete, ClaimStands
<1>23. CASE MarkError
  BY <1>23, ClaimRolledBack DEF MarkError, RetryOrRollBack, ClaimStands
<1>24. CASE RolledBack
  BY <1>24 DEF RolledBack, ClaimStands
<1>25. ASSUME NEW t \in Table, DeleteFailed(t) PROVE ClaimStands'
  BY <1>25 DEF DeleteFailed, ClaimStands
<1>26. ASSUME NEW t \in Table, DeleteFailedError(t) PROVE ClaimStands'
  BY <1>26, ClaimRolledBack DEF DeleteFailedError, RetryOrRollBack, ClaimStands
<1>27. ASSUME NEW t \in Table, RollBackTable(t) PROVE ClaimStands'
  BY <1>27 DEF RollBackTable, ClaimStands
<1>28. ASSUME NEW t \in Table, RollBackError(t) PROVE ClaimStands'
  BY <1>28 DEF RollBackError, ClaimStands
<1>29. CASE UNCHANGED vars
  BY <1>29, ClaimUnmoved DEF vars
<1> QED
  BY <1>1, <1>2, <1>3, <1>4, <1>5, <1>6, <1>7, <1>8, <1>9, <1>10, <1>11, <1>12,
     <1>13, <1>14, <1>15, <1>16, <1>17, <1>18, <1>19, <1>20, <1>21, <1>22, <1>23,
     <1>24, <1>25, <1>26, <1>27, <1>28, <1>29
     DEF Next, Process, Run, Collect, Buffer, Finish

\* For any queue, any keys and any batch size: a claim takes all there is or as
\* much as the limit allows, and no continent gets two matches more than one that
\* has matches waiting (claim_pending_matchids).
THEOREM ClaimsAreFair == Spec => []FairClaim
<1>1. Init => TypeOK /\ ClaimStands
  <2>1. Init => ClaimStands
    BY DEF Init, ClaimStands, Filling
  <2> QED
    BY <2>1, TypeInductive
<1>2. (TypeOK /\ ClaimStands) /\ [Next]_vars => (TypeOK /\ ClaimStands)'
  BY TypeInductive, ClaimStep
<1>3. TypeOK /\ ClaimStands => FairClaim
  <2> SUFFICES ASSUME TypeOK, ClaimStands, pc = "recv" PROVE FairClaim
    BY DEF FairClaim
  <2>1. batch = ClaimedMatches /\ queue \subseteq Match
    BY DEF ClaimStands, Filling, TypeOK
  <2>2. Cardinality(batch) = BatchSize \/ batch = queue
    BY <2>1, ClaimIsFull
  <2>3. ASSUME NEW m \in queue \ batch, NEW n \in batch
        PROVE  Cardinality({k \in batch : Continent[k] = Continent[n]})
                 <= Cardinality({k \in batch : Continent[k] = Continent[m]}) + 1
    BY <2>1, ClaimIsFair DEF ClaimedOf
  <2> QED
    BY <2>2, <2>3 DEF FairClaim
<1> QED
  BY <1>1, <1>2, <1>3, PTL DEF Spec
==============================================================================
