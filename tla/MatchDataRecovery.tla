-------------------------- MODULE MatchDataRecovery --------------------------
(***************************************************************************)
(* The match_data step of a pipeline cycle: the durable work queue         *)
(* game_data.matchdata_matchids, the batch loop of MatchDataOrchestrator   *)
(* and the batch transaction of MatchDataSaver.save, down to the single    *)
(* insert, delete and retry against ClickHouse.                            *)
(*                                                                         *)
(* A row is <<table, match>>: all the rows one payload yields for a table. *)
(* Rows carry the run_id of their batch; since a batch's run_id is never   *)
(* used again, it is enough to tell apart the rows of the running batch    *)
(* (cur), of batches that completed (kept) and of batches that were cut    *)
(* short (stray).  The payload pumps behind the saver are the module       *)
(* CombineStreams; here an item arrives, is skipped, or the stream fails.  *)
(***************************************************************************)
EXTENDS Naturals, FiniteSets

CONSTANTS
    Match,          \* full match ids, such as EUW1_123
    Stream,         \* {"non_timeline", "timeline"}
    Table,          \* payload tables
    StreamOf,       \* table -> the stream whose parser fills it
    Content,        \* match -> the tables its payloads have rows for
    GameId,         \* match -> its numeric suffix
    StringKeyed,    \* the tables whose matchid is the full id (metadata)
    Continent,      \* match -> continent
    ContinentRank,  \* continent -> its place in the claim order
    ShuffleKey,     \* match -> its place by (shuffle_key, matchid)
    BatchSize,      \* MATCHDATA_BATCH_SIZE
    FlushAt,        \* buffered rows of a table that trigger its insert
    MaxAttempts,    \* attempts of a database operation (8 in the code)
    Missing,        \* items <<stream, match>> the API never answers
    Malformed,      \* items whose payload a parser rejects
    Ambiguous,      \* operations whose error may hide a success
    MaxIncidents,   \* bound: errors, stops, interruptions, lost fetches
    MaxCrawls       \* bound: matchids runs produced by the match_ids step

Row == Table \X Match
Item == Stream \X Match
RowsOf(m) == {<<t, m>> : t \in Content[m]}
ItemRows(s, m) == {r \in RowsOf(m) : StreamOf[r[1]] = s}
InTable(rows, t) == {r \in rows : r[1] = t}

ASSUME DataAssumption ==
    /\ StreamOf \in [Table -> Stream]
    /\ Content \in [Match -> SUBSET Table]
    /\ StringKeyed \subseteq Table
    /\ Missing \subseteq Item
    /\ Malformed \subseteq Item
    /\ Ambiguous \subseteq {"insert", "delete", "mark"}
ASSUME ClaimAssumption ==
    /\ IsFiniteSet(Match)
    /\ \A m \in Match : ShuffleKey[m] \in Nat /\ ContinentRank[Continent[m]] \in Nat
    /\ \A m, n \in Match : ShuffleKey[m] = ShuffleKey[n] => m = n
    /\ \A m, n \in Match : ContinentRank[Continent[m]] = ContinentRank[Continent[n]]
                            => Continent[m] = Continent[n]
ASSUME BoundAssumption ==
    /\ BatchSize \in Nat \ {0}
    /\ FlushAt \in Nat \ {0}
    /\ MaxAttempts \in Nat \ {0}
    /\ MaxIncidents \in Nat
    /\ MaxCrawls \in Nat

VARIABLES
    \* durable: ClickHouse
    queue,      \* pending match ids (row exists = pending)
    listed,     \* the match ids of the latest matchids run
    seeded,     \* the seed anchor equals the latest matchids run
    cur,        \* rows of the running batch
    dup,        \* rows the running batch has stored more than once
    hidden,     \* history: rows of cur that an insert stored before it reported an error
    kept,       \* rows of batches that completed
    stray,      \* rows left behind by batches that did not
    \* volatile: the saver and the loader
    pc,
    initialized, \* MatchDataLoader._initialized
    batch,      \* state.matchids
    left,       \* items the collectors have yet to produce
    received,   \* stream_successes
    parsed,     \* rows of the current item not yet in a buffer
    buffered,   \* buffers
    flight,     \* rows handed to _insert_one
    ret,        \* where control returns after that insert
    todo,       \* tables a delete loop still has to visit
    tries,      \* failed attempts of the current operation
    \* environment and history
    stop,       \* the stop flag file exists
    admitted,   \* history: every match the queue ever held
    doubtful,   \* history: matches that left the queue without a sound mark
    incidents,
    crawls

store == <<cur, dup, hidden, kept, stray>>
durable == <<queue, listed, seeded, store>>
work == <<batch, left, received>>
buffers == <<parsed, buffered, flight, ret>>
environment == <<stop, admitted, doubtful, incidents, crawls>>
vars == <<durable, pc, initialized, work, buffers, todo, tries, environment>>

Phase == {"down", "start", "seed", "anchor", "claim", "recv", "buffer",
          "insert", "flush", "final", "delete", "mark", "rollback"}
Returns == {"buffer", "flush", "final"}

\* One more incident, while the bound allows it.
Incident == incidents < MaxIncidents /\ incidents' = incidents + 1
Smooth == incidents' = incidents

Init ==
    /\ queue = {} /\ listed = {} /\ seeded = TRUE
    /\ cur = {} /\ dup = {} /\ hidden = {} /\ kept = {} /\ stray = {}
    /\ pc = "down" /\ initialized = FALSE
    /\ batch = {} /\ left = {} /\ received = {}
    /\ parsed = {} /\ buffered = {} /\ flight = {} /\ ret = "buffer"
    /\ todo = {} /\ tries = 0
    /\ stop = FALSE /\ admitted = {} /\ doubtful = {} /\ incidents = 0 /\ crawls = 0

-----------------------------------------------------------------------------
(* The process and its surroundings *)

\* The match_ids step of a later cycle stores a new matchids run.
NewCrawl ==
    /\ pc = "down" /\ crawls < MaxCrawls
    /\ \E S \in SUBSET Match : listed' = S
    /\ seeded' = FALSE
    /\ crawls' = crawls + 1
    /\ UNCHANGED <<queue, store, pc, initialized, work, buffers, todo, tries,
                   stop, admitted, doubtful, incidents>>

\* stop_pipeline_safely.sh creates the flag; a new container has none.
RequestStop ==
    /\ ~stop /\ Incident
    /\ stop' = TRUE
    /\ UNCHANGED <<durable, pc, initialized, work, buffers, todo, tries,
                   admitted, doubtful, crawls>>

ClearStop ==
    /\ pc = "down" /\ stop
    /\ stop' = FALSE
    /\ UNCHANGED <<durable, pc, initialized, work, buffers, todo, tries,
                   admitted, doubtful, incidents, crawls>>

\* A flow run reaches its match_data step with a fresh loader.
StartRun ==
    /\ pc = "down" /\ ~stop
    /\ pc' = "start" /\ initialized' = FALSE
    /\ UNCHANGED <<durable, work, buffers, todo, tries, environment>>

\* What the running process holds only in memory.
ForgetBatch ==
    /\ batch' = {} /\ left' = {} /\ received' = {}
    /\ parsed' = {} /\ buffered' = {} /\ flight' = {} /\ ret' = "buffer"
    /\ todo' = {} /\ tries' = 0

\* The batch's rows stay in the tables and nothing refers to them again.
Abandon(rows) ==
    /\ stray' = stray \cup rows
    /\ cur' = {} /\ dup' = {} /\ hidden' = {}
    /\ UNCHANGED kept

\* The process dies, or the task is cancelled: CancelledError is not an
\* Exception, so save's handler does not roll the batch back.
Interrupt ==
    /\ pc # "down" /\ Incident
    /\ pc' = "down"
    /\ ForgetBatch /\ Abandon(cur)
    /\ UNCHANGED <<queue, listed, seeded, initialized, stop, admitted, doubtful, crawls>>

-----------------------------------------------------------------------------
(* MatchDataOrchestrator.run and MatchDataLoader.load *)

BatchStart ==
    /\ pc = "start"
    /\ pc' = IF stop THEN "down" ELSE IF initialized THEN "claim" ELSE "seed"
    /\ UNCHANGED <<durable, initialized, work, buffers, todo, tries, environment>>

\* Only the ids the queue does not hold now are inserted.
SeedQueue ==
    /\ pc = "seed"
    /\ IF seeded
       THEN /\ pc' = "claim" /\ initialized' = TRUE
            /\ UNCHANGED <<queue, admitted>>
       ELSE /\ pc' = "anchor"
            /\ queue' = queue \cup listed
            /\ admitted' = admitted \cup listed
            /\ UNCHANGED initialized
    /\ UNCHANGED <<listed, seeded, store, work, buffers, todo, tries,
                   stop, doubtful, incidents, crawls>>

SeedAnchor ==
    /\ pc = "anchor"
    /\ seeded' = TRUE /\ initialized' = TRUE /\ pc' = "claim"
    /\ UNCHANGED <<queue, listed, store, work, buffers, todo, tries, environment>>

\* row_number() OVER (PARTITION BY continent ORDER BY shuffle_key, matchid)
RowNumber(m) ==
    Cardinality({n \in queue : /\ Continent[n] = Continent[m]
                               /\ ShuffleKey[n] <= ShuffleKey[m]})

\* A slip: one ORDER BY over all continents.
ClaimedBefore_ByIdOnly(m, n) == ShuffleKey[m] < ShuffleKey[n]

\* ORDER BY row_n, continent_order, shuffle_key, matchid
ClaimedBefore(m, n) ==
    \/ RowNumber(m) < RowNumber(n)
    \/ /\ RowNumber(m) = RowNumber(n)
       /\ ContinentRank[Continent[m]] < ContinentRank[Continent[n]]

\* LIMIT batch_size.  The inner LIMIT BY continent drops nothing that this keeps: see
\* LimitingDropsNothing in the proofs.
ClaimedMatches ==
    {m \in queue : Cardinality({n \in queue : ClaimedBefore(n, m)}) < BatchSize}

Claim ==
    /\ pc = "claim"
    /\ IF queue = {}
       THEN pc' = "down" /\ UNCHANGED work
       ELSE /\ pc' = "recv"
            /\ batch' = ClaimedMatches
            /\ left' = Stream \X ClaimedMatches
            /\ received' = {}
    /\ UNCHANGED <<durable, initialized, buffers, todo, tries, environment>>
-----------------------------------------------------------------------------
(* MatchDataSaver.save: receiving and buffering *)

\* The except branch: the locals are dead, rollback_run visits every table.
RollBack ==
    /\ pc' = "rollback" /\ todo' = Table /\ tries' = 0
    /\ parsed' = {} /\ buffered' = {} /\ flight' = {} /\ ret' = "buffer"

\* The next item: checked for a stop, parsed, and noted as a success of its
\* match before its rows go to the buffers.  A rejected payload raises.
Receive(s, m) ==
    /\ pc = "recv" /\ <<s, m>> \in left \ Missing
    /\ left' = left \ {<<s, m>>}
    /\ IF stop \/ <<s, m>> \in Malformed
       THEN RollBack /\ UNCHANGED received
       ELSE /\ pc' = "buffer"
            /\ received' = received \cup {<<s, m>>}
            /\ parsed' = ItemRows(s, m)
            /\ UNCHANGED <<buffered, flight, ret, todo, tries>>
    /\ UNCHANGED <<durable, initialized, batch, environment>>

\* yield_match_data drops an id whose payload the client could not fetch.
Skip(s, m) ==
    /\ pc = "recv" /\ <<s, m>> \in left
    /\ IF <<s, m>> \in Missing THEN Smooth ELSE Incident
    /\ left' = left \ {<<s, m>>}
    /\ UNCHANGED <<durable, pc, initialized, batch, received, buffers, todo,
                   tries, stop, admitted, doubtful, crawls>>

\* A pump raises while the saver waits for it: at a stop check, or on an id
\* whose shard is unknown.
StreamFailure ==
    /\ pc = "recv"
    /\ IF stop THEN Smooth ELSE Incident
    /\ RollBack
    /\ UNCHANGED <<durable, initialized, work, stop, admitted, doubtful, crawls>>

EndOfStream ==
    /\ pc = "recv" /\ left = {}
    /\ pc' = "final"
    /\ UNCHANGED <<durable, initialized, work, buffers, todo, tries, environment>>

\* A slip: the buffer is emptied only by a later extend.
HandOff_KeepsBuffer(rows, t) ==
    /\ flight' = InTable(rows, t)
    /\ buffered' = rows
    /\ ret' = pc /\ pc' = "insert"

\* _flush_table_buffer: the buffer is emptied before the insert starts.
HandOff(rows, t) ==
    /\ flight' = InTable(rows, t)
    /\ buffered' = rows \ InTable(rows, t)
    /\ ret' = pc /\ pc' = "insert"

\* _buffer_inserts, one table of the item: extend, and insert a full buffer.
BufferTable(t) ==
    /\ pc = "buffer" /\ InTable(parsed, t) # {}
    /\ parsed' = parsed \ InTable(parsed, t)
    /\ LET rows == buffered \cup InTable(parsed, t)
       IN IF Cardinality(InTable(rows, t)) >= FlushAt
          THEN HandOff(rows, t)
          ELSE buffered' = rows /\ UNCHANGED <<pc, flight, ret>>
    /\ UNCHANGED <<durable, initialized, work, todo, tries, environment>>

\* The item is buffered; the flush interval may have passed.
ItemBuffered ==
    /\ pc = "buffer" /\ parsed = {}
    /\ pc' \in {"recv", "flush"}
    /\ UNCHANGED <<durable, initialized, work, buffers, todo, tries, environment>>

\* _flush_all_buffers, periodic or after the last item.
FlushTable(t) ==
    /\ pc \in {"flush", "final"} /\ InTable(buffered, t) # {}
    /\ HandOff(buffered, t)
    /\ UNCHANGED <<durable, initialized, work, parsed, todo, tries, environment>>

Flushed ==
    /\ pc = "flush" /\ buffered = {}
    /\ pc' = "recv"
    /\ UNCHANGED <<durable, initialized, work, buffers, todo, tries, environment>>

-----------------------------------------------------------------------------
(* Database operations and their retries *)

\* A slip: one attempt too many.
RetryOrRollBack_OneMore ==
    IF tries < MaxAttempts
    THEN /\ tries' = tries + 1
         /\ UNCHANGED <<pc, buffers, todo>>
    ELSE RollBack

\* Another attempt, or the exception leaves the retry wrapper.
RetryOrRollBack ==
    IF tries + 1 < MaxAttempts
    THEN /\ tries' = tries + 1
         /\ UNCHANGED <<pc, buffers, todo>>
    ELSE RollBack

StoreRows(rows) ==
    /\ cur' = cur \cup rows
    /\ dup' = dup \cup (cur \cap rows)

DropRows(rows) ==
    /\ cur' = cur \ rows
    /\ dup' = dup \ rows
    /\ hidden' = hidden \ rows

InsertOk ==
    /\ pc = "insert"
    /\ StoreRows(flight)
    /\ flight' = {} /\ tries' = 0 /\ pc' = ret
    /\ UNCHANGED <<queue, listed, seeded, hidden, kept, stray, initialized, work, parsed,
                   buffered, ret, todo, environment>>

\* The error may come after some of the rows, or all of them, were stored:
\* persist_data sends them in chunks, and an answer can be lost.
InsertError ==
    /\ pc = "insert" /\ Incident
    /\ \E part \in SUBSET flight :
         /\ "insert" \in Ambiguous \/ part = {}
         /\ StoreRows(part)
         /\ hidden' = hidden \cup part
    /\ RetryOrRollBack
    /\ UNCHANGED <<queue, listed, seeded, kept, stray, initialized, work,
                   stop, admitted, doubtful, crawls>>
-----------------------------------------------------------------------------
(* The end of a batch *)

\* A slip: one stream is enough.
Successful_EitherStream == {m \in batch : \E s \in Stream : <<s, m>> \in received}

\* successful_match_ids: both streams delivered the match.
Successful == {m \in batch : \A s \in Stream : <<s, m>> \in received}
Failed == batch \ Successful

\* Those of them that the delete of the failed matches, by number, cannot touch.
Unharmed == {m \in Successful : \A f \in Failed : GameId[m] # GameId[f]}

\* All buffers are stored: failed matches lose their rows, if there are any.
Settle ==
    /\ pc = "final" /\ buffered = {}
    /\ IF Failed # {} THEN pc' = "delete" /\ todo' = Table
                      ELSE pc' = "mark" /\ UNCHANGED todo
    /\ UNCHANGED <<durable, initialized, work, buffers, tries, environment>>

\* The WHERE clause: the full id, or its numeric suffix where the column is
\* a number.
SameKey(t, m, f) == IF t \in StringKeyed THEN m = f ELSE GameId[m] = GameId[f]

\* A slip: numeric columns are compared with the full id and match nothing.
FailedRows_FullIdOnly(t) ==
    {r \in InTable(cur, t) : t \in StringKeyed /\ r[2] \in Failed}

\* The rows of the batch that delete_by_run_id_and_matchids removes from t.
FailedRows(t) ==
    {r \in InTable(cur, t) : \E f \in Failed : SameKey(t, r[2], f)}

DeleteFailed(t) ==
    /\ pc = "delete" /\ t \in todo
    /\ DropRows(FailedRows(t))
    /\ todo' = todo \ {t} /\ tries' = 0
    /\ UNCHANGED <<queue, listed, seeded, kept, stray, pc, initialized, work,
                   buffers, environment>>

\* The mutation may have been accepted before the error.
DeleteFailedError(t) ==
    /\ pc = "delete" /\ t \in todo /\ Incident
    /\ \/ DropRows({})
       \/ "delete" \in Ambiguous /\ DropRows(FailedRows(t))
    /\ RetryOrRollBack
    /\ UNCHANGED <<queue, listed, seeded, kept, stray, initialized, work,
                   stop, admitted, doubtful, crawls>>

FailedDeleted ==
    /\ pc = "delete" /\ todo = {}
    /\ pc' = "mark"
    /\ UNCHANGED <<durable, initialized, work, buffers, todo, tries, environment>>

\* The batch's rows are final.  A match is marked soundly unless the delete beside it
\* took its rows, too.
BatchComplete ==
    /\ kept' = kept \cup cur /\ cur' = {} /\ dup' = {} /\ hidden' = {}
    /\ doubtful' = (doubtful \ Unharmed) \cup (Successful \ Unharmed)
    /\ pc' = "start" /\ ForgetBatch
    /\ UNCHANGED <<listed, seeded, stray, initialized, stop, admitted, incidents, crawls>>

\* A slip: every claimed match is marked.
Mark_WholeBatch ==
    /\ pc = "mark"
    /\ queue' = queue \ batch
    /\ BatchComplete

\* A slip: a batch with a failed match is not marked at all.
Mark_AllOrNothing ==
    /\ pc = "mark"
    /\ queue' = IF Failed = {} THEN queue \ Successful ELSE queue
    /\ BatchComplete

\* mark_finished_matchids: the queue rows go, and the batch is complete.
Mark ==
    /\ pc = "mark"
    /\ queue' = queue \ Successful
    /\ BatchComplete

\* With nothing to mark, mark_matchids_finished sends no command.  A mutation that was
\* accepted before the error takes the queue rows of a batch that may be rolled back.
MarkError ==
    /\ pc = "mark" /\ Successful # {} /\ Incident
    /\ \/ UNCHANGED <<queue, doubtful>>
       \/ /\ "mark" \in Ambiguous
          /\ queue' = queue \ Successful
          /\ doubtful' = doubtful \cup Successful
    /\ RetryOrRollBack
    /\ UNCHANGED <<listed, seeded, store, initialized, work, stop, admitted, crawls>>

\* A slip: an insert table that the delete list does not name.
RollBackTable_SkipsStringKeyed(t) ==
    /\ pc = "rollback" /\ t \in todo
    /\ DropRows(IF t \in StringKeyed THEN {} ELSE InTable(cur, t))
    /\ todo' = todo \ {t} /\ tries' = 0
    /\ UNCHANGED <<queue, listed, seeded, kept, stray, pc, initialized, work,
                   buffers, environment>>

\* rollback_run, one table.
RollBackTable(t) ==
    /\ pc = "rollback" /\ t \in todo
    /\ DropRows(InTable(cur, t))
    /\ todo' = todo \ {t} /\ tries' = 0
    /\ UNCHANGED <<queue, listed, seeded, kept, stray, pc, initialized, work,
                   buffers, environment>>

\* The last attempt's exception ends the rollback where it is.
RollBackError(t) ==
    /\ pc = "rollback" /\ t \in todo /\ Incident
    /\ \E gone \in {{}, InTable(cur, t)} :
         /\ gone = {} \/ "delete" \in Ambiguous
         /\ IF tries + 1 < MaxAttempts
            THEN /\ DropRows(gone)
                 /\ tries' = tries + 1
                 /\ UNCHANGED <<kept, stray, pc, work, buffers, todo>>
            ELSE /\ pc' = "down"
                 /\ ForgetBatch /\ Abandon(cur \ gone)
    /\ UNCHANGED <<queue, listed, seeded, initialized, stop, admitted, doubtful, crawls>>

\* Rolled back: the exception is raised again and ends the flow run.
RolledBack ==
    /\ pc = "rollback" /\ todo = {}
    /\ pc' = "down"
    /\ ForgetBatch /\ Abandon(cur)
    /\ UNCHANGED <<queue, listed, seeded, initialized, environment>>

-----------------------------------------------------------------------------
Run == BatchStart \/ SeedQueue \/ SeedAnchor \/ Claim
Collect ==
    \/ \E s \in Stream, m \in Match : Receive(s, m) \/ Skip(s, m)
    \/ StreamFailure \/ EndOfStream
Buffer ==
    \/ \E t \in Table : BufferTable(t) \/ FlushTable(t)
    \/ ItemBuffered \/ Flushed \/ InsertOk \/ InsertError
Finish ==
    \/ Settle \/ FailedDeleted \/ Mark \/ MarkError \/ RolledBack
    \/ \E t \in Table : \/ DeleteFailed(t) \/ DeleteFailedError(t)
                       \/ RollBackTable(t) \/ RollBackError(t)
Process == StartRun \/ Run \/ Collect \/ Buffer \/ Finish

Next == Process \/ NewCrawl \/ RequestStop \/ ClearStop \/ Interrupt

Spec == Init /\ [][Next]_vars

\* The event loop keeps running a process that can run, flow runs are repeated
\* by an automation, and an operator who stops the pipeline starts it again.
FairSpec == Spec /\ WF_vars(Process) /\ WF_vars(ClearStop)
-----------------------------------------------------------------------------
(* Properties *)

TypeOK ==
    /\ queue \subseteq Match /\ listed \subseteq Match /\ seeded \in BOOLEAN
    /\ cur \subseteq Row /\ dup \subseteq Row /\ hidden \subseteq Row
    /\ kept \subseteq Row /\ stray \subseteq Row
    /\ pc \in Phase /\ initialized \in BOOLEAN
    /\ batch \subseteq Match /\ left \subseteq Item /\ received \subseteq Item
    /\ parsed \subseteq Row /\ buffered \subseteq Row /\ flight \subseteq Row
    /\ ret \in Returns /\ todo \subseteq Table
    /\ tries \in 0 .. MaxAttempts - 1
    /\ stop \in BOOLEAN /\ admitted \subseteq Match /\ doubtful \subseteq Match
    /\ incidents \in 0 .. MaxIncidents /\ crawls \in 0 .. MaxCrawls

\* A match that has left the queue by a sound mark has every row of both payloads
\* stored, by batches that completed: "finished = row deleted" never stands for data
\* that is not there, or that a roll-back may still remove, whatever errors, retries
\* and interruptions there were.  Not sound are the marks that did happen although
\* mark_matchids_finished reported an error, until the match is marked again, and those
\* beside a failed match with the same number.
FinishedIsPersisted ==
    \A m \in admitted \ (queue \cup doubtful) : RowsOf(m) \subseteq kept

\* What RECOVERY_SYSTEM.md promises without an exception, for a pipeline at rest:
\* "pending = row exists, finished = row deleted", so a match that is not pending has
\* its rows.
FinishedIsStored ==
    pc = "down" => \A m \in admitted \ queue : RowsOf(m) \subseteq kept \cup stray

\* When the queue rows are about to go, the batch has stored rows of its successful
\* matches only, and all of each match that shares its number with no failed one.
ExactAtMark ==
    pc = "mark" =>
        /\ cur \subseteq UNION {RowsOf(m) : m \in Successful}
        /\ \A m \in Unharmed : RowsOf(m) \subseteq cur

\* A completed roll-back leaves no row of the batch in any table.
RolledBackIsClean == pc = "rollback" /\ todo = {} => cur = {}

\* A batch stores a row twice only if an insert of that very row had stored it before
\* it reported an error: buffers and retries never hand a row over a second time.
StoredOnce == dup \subseteq hidden

\* Rows become part of a completed batch only as their match leaves the queue.
KeptWithFinish ==
    [][\A r \in kept' \ kept : r[2] \notin queue']_vars

\* A claim is as large as the queue and the limit allow, and no continent is
\* ahead by more than one match of a continent that has matches waiting.  This is the
\* order of the query; RECOVERY_SYSTEM.md:39 still names the older ORDER BY matchid.
FairClaim ==
    pc = "recv" =>
        /\ Cardinality(batch) = BatchSize \/ batch = queue
        /\ \A m \in queue \ batch, n \in batch :
             LET Claimed(c) == Cardinality({k \in batch : Continent[k] = c})
             IN Claimed(Continent[n]) <= Claimed(Continent[m]) + 1

Fetchable == {m \in Match : \A s \in Stream : <<s, m>> \notin Missing \cup Malformed}

\* Each batch fails again: it holds a payload the parser rejects, or nothing in it can
\* be fetched and the queue behind it is not reached.
Blocked ==
    \/ \E s \in Stream, n \in queue : <<s, n>> \in Malformed
    \/ Cardinality(queue \ Fetchable) >= BatchSize

\* A match whose payloads exist and parse leaves the queue in the end, beside matches
\* that cannot be fetched as long as they are fewer than a batch, unless a queued
\* match's payload is rejected.
HealthyDrained == \A m \in Fetchable : m \in queue ~> m \notin queue \/ Blocked

\* What RECOVERY_SYSTEM.md:42 says of a failure, that it is the failed match's own: the
\* other matches leave the queue whatever is wrong with it.
FailuresAreIsolated == \A m \in Fetchable : m \in queue ~> m \notin queue

Stored == {m \in Match : RowsOf(m) \subseteq kept \cup stray \cup cur}
Ledger == INSTANCE WorkLedger WITH pending <- queue \cup doubtful, stored <- Stored

\* Batches, retries and roll-backs implement the ledger: a match leaves the queue by a
\* sound mark only once its rows are stored, and only rows of the others are taken back.
ImplementsLedger == Ledger!Spec

-----------------------------------------------------------------------------
(* The inductive invariant behind the safety properties *)

Idle == pc \in {"down", "start", "seed", "anchor", "claim"}
Filling == pc \in {"recv", "buffer", "insert", "flush", "final"}

\* A batch in progress is still queued; between batches nothing is left of one.
BatchPending ==
    IF Idle THEN batch = {} /\ cur = {} ELSE batch \subseteq queue \cup doubtful

\* Only items of the claimed matches are expected or received.
ItemsOfBatch == left \cup received \subseteq Stream \X batch

\* Where each phase may hold rows in memory.
BuffersByPhase ==
    /\ pc # "insert" => flight = {}
    /\ ~ (pc = "buffer" \/ (pc = "insert" /\ ret = "buffer")) => parsed = {}
    /\ ~ Filling => buffered = {}

\* Every row in the tables or in memory belongs to a match of the batch.
RowsOfBatch ==
    \A r \in cur \cup buffered \cup flight \cup parsed :
        r[2] \in batch /\ r[1] \in Content[r[2]]

\* No row of a received item is lost between the parser and the tables.
RowsAccounted ==
    /\ Filling => \A s \in Stream, m \in Match : <<s, m>> \in received =>
                    ItemRows(s, m) \subseteq cur \cup buffered \cup flight \cup parsed
    /\ pc \in {"delete", "mark"} => \A m \in Unharmed : RowsOf(m) \subseteq cur

\* The delete loops leave nothing behind in the tables they have visited.
DeletesAreComplete ==
    /\ pc = "delete" => \A r \in cur : r[2] \in Failed => r[1] \in todo
    /\ pc = "mark" => \A r \in cur : r[2] \in Successful
    /\ pc = "rollback" => \A r \in cur : r[1] \in todo

\* What makes FinishedIsPersisted inductive: the batch is still queued while its
\* rows may be deleted, and each row of a received item is somewhere.
IInv ==
    /\ TypeOK /\ FinishedIsPersisted
    /\ BatchPending /\ ItemsOfBatch /\ BuffersByPhase /\ RowsOfBatch
    /\ RowsAccounted /\ DeletesAreComplete
=============================================================================
