# Verification of the ingestion pipeline

The repository collects League of Legends matches. A Prefect flow runs one
*cycle* after another, and a cycle runs three steps one after the other:
`players` finds ranked players, `match_ids` lists their matches, `match_data`
fetches both payloads of every match and stores their rows in ClickHouse. All
of it is one asyncio process; what outlives it is in the database. This
directory models the parts of it whose correctness depends on the order of
things (failures half-way, cancellations, crashes, what a cycle leaves for the
next one, many tasks behind one limiter), and the rules by which payloads become
rows and a tree of metric groups becomes a plan.

## Inventory

| Part | State | Operations | What is hard about it | What makes it correct |
|---|---|---|---|---|
| match_data queue (`work_state.py`) | `matchdata_matchids` (row = pending), seed anchor | seed, claim, mark finished | re-seeding, claim order, a mark whose answer is lost | a row goes only when the match's data is stored |
| match_data batch (`matchdata_orchestrator.py`, `matchdata.py`, `utils.py`, `recovery_utils.py`) | payload tables, buffers per table, streams received per match | buffer, flush, insert, delete failed, mark, roll back; 8 attempts each | failure of any operation at any place, errors that hide a success, crash, stop | no row lost between parser and table, none of a failed match left, complete roll-back |
| `combine_streams` | bounded queue, two pumps, the saver's task, a TaskGroup around a `yield` | put, get, finish, abort, shut down | cancellation lands in the caller's code; full queue at the end | payloads once and in order; a failure surfaces; everything ends |
| match id crawl (`match_ids.py`) | work queue and its count, worker pool, output queue | fetch a page, queue the next, report a failure, close | the pool feeds itself: who knows that it is done? | every page of every key once, in order; the crawl ends |
| cycle and anchors (`prefect_flow.py`, `matchids_orchestrator.py`, `matchids.py`) | `data_timestamps`, `matchids`, `matchid_puuids` | crawl since the anchor, save, undo, rotate the anchor, seed | failure or stop between any two writes | what the anchor lets the next cycle skip has been listed and queued |
| players (`players_orchestrator.py`, `elite_players.py`, `subelite_players.py`, `league_entries.py`, `players.py`) | `players`, snapshot timestamp | choose the lists, bisect for the last page, fetch pages, insert in batches, undo a partial run, rotate the timestamp | probing over answers that fail or are 404; a failure or stop at any await; what a failed run takes back | no page within the limit is missed; a run stores all it could reach or nothing |
| HTTP client (`base.py`, `rate_limiter.py`) | next free slot, window and debug record, the session; one limiter per location | acquire, fetch, classify, retry, close | many waiters, a loop that was stalled, retries that queue again, a session closed under waiters | the rate is kept; every fetch has one outcome |
| parsers and row models (`parsers/`) | none | check for drift, validate, skip aborted games, file events and rows, clamp, pack perk keys | 21 event types with optional fields, columns without a value, fixed-width fields | nothing is lost or refused without a report; rows have their columns |
| dynamic metrics (`dynamic_metrics_pipeline.py`) | none | resolve branches, members, metrics, dependencies | inheritance along paths, cycles | a plan follows the tree |
| validity filter (`schema/4000_*.sql`, `5099_*.sql`) | materialized views | bits per game | they see rows that are rolled back later | only complete, valid games pass |
| configuration, logging, telemetry, scripts | none of their own, the stop flag apart | | | |

How they interact: the steps share nothing in memory but the API client, which
queues the fetches of a location in one line whoever they come from.
`match_ids` reads `players` and its own anchor, and leaves `matchids` rows, the
collected keys and a new anchor. `match_data` reads the newest anchor's rows once
into its queue and from then on only its queue. Within `match_data` the
two payload streams reach the saver through `combine_streams`; the saver parses
each payload and is the only writer of the payload tables. The stop flag is a file that every step looks
at between awaits; it raises an ordinary `RuntimeError`.

The hazards, each at its line, are listed in `PROJECT.json`.

## Modules

| Module | Models | Extends or uses |
|---|---|---|
| `WorkLedger` | abstract: matches are pending until stored | |
| `MatchDataRecovery` | queue, batch loop and batch transaction | refines `WorkLedger` |
| `CombineStreams` | pumps, queue, TaskGroup, saver's task | |
| `MatchIdCrawl` | worker pool of the id crawl | |
| `CycleAnchors` | cycles and what one leaves to the next | |
| `PermitStream` | abstract: permits an interval apart, but for stalls | |
| `RiotClient` | limiter, retries and outcomes of one location | refines `PermitStream` |
| `PlayerCrawl` | the players step, run after run | |
| `TimelineRows`, `NonTimelineRows` | what the parsers make of a payload (operators) | |
| `MetricPlan` | `build_execution_plan` (operators) | |
| `DataRules` | one step: a match parsed, or a plan built | the three above |
| `MatchDataRecovery_proofs`, `CombineStreams_proofs`, `MatchIdCrawl_proofs`, `CycleAnchors_proofs`, `RiotClient_proofs`, `PlayerCrawl_proofs`, `DataRules_proofs` | theorems | the module of the name, `NatRecursion` where they count or recurse, TLAPS |
| `NatRecursion` | induction and recursion over the naturals (lemmas) | TLAPS |
| `MCMatchDataRecovery`, `MCMatchIdCrawl`, `MCCycleAnchors`, `MCRiotClient`, `MCPlayerCrawl`, `MCDataRules` | instances for TLC | |

Operators whose name has an underscore, such as `Mark_WholeBatch`, are slips: the
definition after them as a plausible mistake would have it. No specification uses
them; with one in its place, TLC finds the property named in `PROJECT.json`
violated, which shows that the property looks at the code's behaviour.

### MatchDataRecovery

Durable state is `queue`, `listed`/`seeded` (the newest `matchids` run and whether
it was seeded), and the payload rows. A row `<<table, match>>` stands for all the
rows a payload yields for one table. Rows carry a `run_id` that is never used
again, so three sets are enough: `cur` (the running batch), `kept` (batches that
completed) and `stray` (batches that were cut short). `dup` notes rows the running
batch stored twice, `hidden` those that an insert had stored before it reported an
error. The volatile part is the locals of `save`: `batch`,
`received` (`stream_successes`), `buffered` (`buffers`), `flight` (the argument of
`_insert_one`), and the loops of deletes in `todo`.

`pc` follows the code: `start` (top of the loop, stop check), `seed`/`anchor`,
`claim`, `recv` (waiting for an item), `buffer`, `insert`, `flush`, `final`,
`delete`, `mark`, `rollback`. Every database call is an action of its own with an
error action beside it; an error either counts an attempt or, at the last one,
enters the roll-back. With `Ambiguous` an operation may have been applied, or an
insert partly, when it reports an error. Of two failures the code cannot know that they
took finished rows: a mark that was applied although it reported an error, whose batch is
then rolled back, and the delete of a failed match that shares its number with a
successful one. `doubtful` holds the matches that left the queue in one of these ways,
until they are marked again; what the properties say of finished matches excepts exactly
those, and the ledger counts them as pending. `Interrupt` is a crash or a cancellation:
neither runs the handler.

What is abstracted: the content of rows; which payload raises (`Malformed`) or is
never answered (`Missing`) is a constant; SQL deletes take effect when they are
accepted (ClickHouse may apply them later; see the last section).

### CombineStreams

`pump[s]` is where a pump is: fetching, in `q.put`, thrown out of an await by a
cancellation, in its `finally` clause, or ended. `saver` is where the saver's task
is: inside the group's block (`get`, `exit`) or, suspended at the generator's
`yield`, in `save` itself. The asyncio rules modelled, for Python 3.11 and later:
a task that raises makes its group cancel the other tasks and the parent, once;
a parent waiting in the group's block has the cancellation absorbed by the group;
elsewhere `CancelledError` goes through `except Exception`; a group whose parent's
task is not done is aborted also when `save` itself has left the generator;
`asyncio.run` cancels what is left, once, when the flow has ended. `Burst` is how many
messages the pumps can put before a resumed `q.get` takes one: their batches of 64, which
are less than `max_buffer`. Garbage collection of an abandoned generator can deliver one more
cancellation, at a time that is not defined; it is left out.

### MatchIdCrawl

`work` is `work_q`, `unfinished` its count, `worker[w]` the job in flight. What a
worker does between two awaits is one step, as in the event loop: hand the ids on,
queue the next page, count the job as done. The closer passes through `join`,
`woken` (the count has been zero, the task will run), `gather`. A stop raises in
the reader, which leaves the generator as it is: the pool goes on for nobody (`Stop`)
until it comes to its end by itself or the generator is collected or shut down (`Close`),
which is never assumed to happen. A key with no full
page and no rest also stands for one whose page is answered 404. Ids within a page are not told apart.

### CycleAnchors

Time is counted in `match_ids` runs; every key plays one match per run.
`anchors` are the `data_timestamps` rows, `rows` and `puuids` the tables, `seeded`
the seed's own anchor, `pending` the queue, `seen` its history. The stages of
`MatchIDSaver.save` are actions: insert the ids, the keys, the anchor; on an error
delete anchor, keys, ids, in that order and each until it succeeds; else delete the
older anchors. `CycleEnds` is a crash, stop or error at any stage.

A crawl that counts as complete has not always listed everything. Its pages reach the
newest `Reach` matches only (1000 ids: the last page starts at 900), and a 404 ends it
like an empty page (`CrawlKeyNotFound`). Three histories say what is lost by design of
the code, match by match, so that the properties can ask that nothing else is: `cut`
(matches a complete crawl did not list), `shadowed` (keys that the loader took for
collected because the player's key for another queue was) and `gaps` (runs whose cycle
ended between anchor and seed). The shipped configuration (league.py:160-188) collects
one queue, with which no key is ever shadowed.

### RiotClient

Time is counted in ticks of the loop's clock. `phase[t]` is where the fetch of
task `t` is: in `acquire`'s sleep (`slot`), waiting for the answer (`request`) or
for tenacity's back-off (`backoff`), or at its outcome. `acquire` has no await
between reading the clock and moving `_next_at`, so a reservation (`Reserve`) is one
step; so is everything between the sleep and the request (`Permit`): the telemetry
window, the debug record, the look at the session. `Tick` lets the time pass. When
a task is due and the loop does not run it, the tick counts as `stalled`; this is how
several tasks wake at once. `Transient` is 429, 5xx, a broken connection or the
timeout; `Answer` is every answer that is not retried. `Cancel` is the payload
batch's TaskGroup or the shutdown, `Close` is the session's. Locations share nothing
but the session, so one is modelled.

`slots` and `granted` are histories: which slots were handed out and when each
permit was taken. The permits refine `PermitStream`, the limiter's docstring ("no
bursts", "1 permit every (period_s / calls) seconds") with the one exception the code
makes: between two permits every permit in between takes its interval, less the time the
loop was late. Without a stall that is the docstring's stream.

### PlayerCrawl

One task pulls players through the generators and awaits each insert, and only the
fetches of one batch of `MAX_IN_FLIGHT` run together. `stage` is the generator's
place: `elite`, `probe`, `pages`; then the saver's `upsert`, `trim`, `forget` and
`undo`. `range[key]` is `[low, high]` of the bisection of one list, and each of its
rounds is a step, so that probes of a batch interleave. `Pull` is one turn of
`insert_players_stream_in_batches`, with the stop check; the timer of five seconds
that may send a batch early is the choice in it. `EliteLists`, `BasicLists` and
`Spreading` are the code's job lists in its order; that they ask for every list once is
proved from the configuration's shape (`ListsAssumption`). Every database call is retried as
in `run_sync_with_retry`, the insert excepted, which has one attempt. `lost` and
`cut` note what the run has logged as failed or answered 404, so that `Promised` can
say what the run still owes.

### TimelineRows, NonTimelineRows, MetricPlan, DataRules

These are functions of a payload, and nothing happens between two of their steps:
they are operators, and `DataRules` takes one input and applies them as `save` and
the metric pipeline do. A field is told apart from another by its name, a value only
by whether it satisfies its model, but for the values the code computes with: frame
times, the killer, victim and time of a kill, perk ids, counters and game versions.
A key that is missing or null (`Null`) is told apart from a value of another shape
(`Other`) where the code does: an aborted game is skipped for the first only.
`Required` and `Optional` are the event models, `TimelineColumns` the insert columns,
`Defaulted` what the parsers fill in. The drift check is modelled beside the
validation, because they are two readings of one schema.

## Runs

All runs are small instances; each bound is a constant named in its module.

| Run | Shows | Bounds, and why they are enough |
|---|---|---|
| `recovery_safety` | all safety properties, `IInv`, the refinement, and that healthy matches are finished | 3 matches, two of which share a number, 2 continents, 3 tables, batches of 2, buffers of 2: a claim leaves something behind, a buffer fills, one match has no timeline at all; 2 attempts and 2 incidents, any of whose operations may have been applied: an operation fails for good, or two fail once, or a failure meets a crash; about 477,000 states |
| `recovery_shared_ids` | violation | two platforms share a game number |
| `recovery_malformed` | violation | one payload is rejected, and nothing else goes wrong |
| `combine_streams` | order, completeness, failures, ending | 3 payloads a stream, queue of 3: the queue is full, empty and in between; every pump may fail and so may the saver; about 10,700 states |
| `combine_hang`, `combine_no_rollback` | violations | the saver raises with a full queue; a pump raises while the saver works |
| `match_id_crawl` | every page once, in order; the count; termination | 2 workers, histories that fill every page, end short, and end exactly with a full page; 1 failure; a stop at any item; about 59,000 states |
| `cycle_anchors` | the anchor's promise; nothing is lost on the way to the queue | 3 runs of one player's two keys, a reach of 2 matches and 3 incidents: a key collected, failed and collected again, shadowed by the other, or crawled after more matches than the pages reach; a failed save between good ones; about 744,000 states |
| `cycle_lost_run` | violation | one incident, two runs |
| `riot_client` | the budget, one slot per attempt, back-offs, exported rate, every fetch ends, the refinement | 3 fetches of 2 attempts at 2 permits per 4 ticks, a stall of 1, requests that time out after 1, 1 cancellation or closing: more waiters than a period has permits, a permit on the window's edge, a burst after a stall, a retry that queues behind first attempts; about 840,000 states |
| `player_crawl` | the bisection, all or nothing, the snapshot, termination | 2 runs, a page limit of 3, 2 fetches in flight, batches of 2, 2 attempts, 2 incidents; lists that are empty, of one page, within the limit and beyond it, with rejected entries: a failed run between others, a failure of the roll-back, a stop in a batch; about 240,000 states |
| `data_rules` | the rules of rows and plans | every event type with every set of its optional fields, each required field left out, an unknown one added, pairs of events in two frames, odd frames and lists, each section missing, each model with an unknown key, perk pages with 2 bits per perk, and every group tree of up to 4 groups, cycles included; 6,624 states |

`CHECK_DEADLOCK FALSE` stands in the two configurations of `CombineStreams` where
the process can really hang (`EndsUnlessSaveRaised` says exactly when it may), and
in `MCDataRules`, whose behaviours end after their one step.

**Fairness.** `FairSpec` of `MatchDataRecovery`: the process goes on while it can
(one asyncio process; flow runs are repeated by a Prefect automation), and the stop
flag goes (a new container has none). The fetch of a payload that exists is not
assumed to succeed; it fails only finitely often because incidents are bounded.
`CombineStreams` and `MatchIdCrawl`: each task that can run is run by the loop, and
every fetch is answered or fails, which the client's timeouts and bounded retries
justify. `RiotClient`: time passes, a task whose timer is due is run after at most `MaxStall`
ticks, and a request that is not answered times out; an answer is never assumed.
`PlayerCrawl`: the process goes on (`WF` of all its work together; probes and fetches
that never succeed end as failures, by the client's property `FetchEnds`). Nothing is
assumed of stops, crashes and errors.

## Disagreements found

Each is a run that TLC must find violated; the quotation is in `PROJECT.json`.

1. A delete for failed matches matches on the number of the id only
   (`recovery_shared_ids`).
2. One payload that a parser rejects fails its whole batch, and the fixed claim order
   brings the same batch again: the failure is not the match's own
   (`recovery_malformed`).
3. A stop noticed by `save` while the queue is full hangs the process
   (`combine_hang`).
4. A pump's failure cancels `save` past its roll-back (`combine_no_rollback`).
5. A stop between the steps loses a run (`cycle_lost_run`).

Others were seen while the modules were written, and have no run of their own:

- RECOVERY_SYSTEM.md:39 says that the claim is `ORDER BY matchid`. The query
  (`work_state.py:155-177`) numbers the matches of each continent and interleaves the
  continents; the module follows the query, and `FairClaim` states its fairness. The
  order of the document is the slip `ClaimedBefore_ByIdOnly`, which breaks it.
- The limiter's docstring (`rate_limiter.py:89-91`) promises no bursts and one permit
  every interval. It assigns slots an interval apart, but the sleeps end when the loop
  runs: after a stall the tasks that were due wake together. `SteadyButForStalls` says
  by how much the promise is missed.
- A crawl lists the newest 1000 ids of a key at most (`match_ids.py:62-66`) and takes a
  404 for an empty page (`match_ids.py:125`). In both cases the key counts as collected,
  the anchor moves past the matches that were left out, and no later crawl asks for
  them. `AnchorCovers` and `Covered` except them (`cut`).
- The loader keeps the player and drops the queue of a collected key
  (`matchids_orchestrator.py:136`): a key for another queue, found later or failed, is
  crawled from the anchor, and its earlier matches are never listed. `AnchorCovers` and
  `Covered` except such keys (`shadowed`).
- A mark that is applied at its last attempt while the answer is lost is followed by the
  roll-back of its batch: the matches are finished and have no rows. The code cannot
  know it; `FinishedIsPersisted` excepts them (`doubtful`).
- Matches that can never be fetched stay in the queue; a batch full of them is claimed
  again and again, and what is behind them is never reached. `HealthyDrained` excepts
  it (`Blocked`).
- After a crawl that failed for a key, matches that were finished are seeded again:
  the queue forgets them (RECOVERY_SYSTEM.md:37, "only inserting unseen").
- The two parsers skip an aborted game by different rules (`timeline.py:629`,
  `non_timeline.py:677`), so one of its payloads may be skipped and the other
  rejected.
- `StatPerks`, `PerkStyle`, `PerkSelection`, `FeatState` and `ObjectiveStat` forbid
  unknown keys, and the drift check does not compare them: a new key there rejects
  the payload without a report. `RejectionIsReported` excepts them.
- A participant without one of its perk styles passes the models and raises
  `KeyError` in the parser.
- lol_dynamic_metric_model.md describes a member plan of the group's own
  members; `dynamic_metrics_pipeline.py:211` takes those of all groups on the path,
  and dependencies of metrics one level deep.
- The limiters forget their permits with the process, and Retry-After is not read.

## Proofs

Every invariant and every action property of the runs that pass has a theorem, and so
have both refinements; liveness is out of the prover's reach and stays with TLC. The
theorems hold for every choice of the constants that satisfies the named assumptions
below, which TLC evaluates in the runs, and have no further premises.

| Assumption | Says |
|---|---|
| `DataAssumption`, `BoundAssumption` (queue and batches) | constants have their types, sizes and limits are positive |
| `ClaimAssumption` (queue and batches) | finitely many matches; the keys of the claim's order are numbers, a match has its own place by (shuffle_key, matchid), a continent its own rank |
| `SizeAssumption`, `CrawlAssumption`, `ClientAssumption`, `PlayersAssumption`, `CycleAssumption` | constants have their types, sizes and limits are positive; the pumps' burst is smaller than the buffer; the crawl's markers are none of its jobs; an elite list is one page |
| `ListsAssumption` (players) | no region, tier, rank or queue is configured twice; a queue's bounds are tiers in the order the code searches them |
| `OtherAssumption` (timelines) | the value that stands for an unknown event type is none of the known ones |
| `PerkAssumption`, `PayloadAssumption` (parsers) | frame times are natural numbers; a player dies at most once at one moment; puuids of a game differ; a perk id fits its field in the combination key; a payload lacks known sections only |
| `SnapshotAssumption` (metrics) | a snapshot has finitely many groups |

### NatRecursion

The library's induction theorems take an operator as a parameter, which the provers here
cannot instantiate. This module states induction with a set of numbers in the place of
the predicate (`AllOfThem`, from `LeastOne`; `GreatestOne` for a bounded set), and
recursion with a function on pairs in the place of the step: a function that follows it
exists up to any number (`FollowsExists`), and `Recursion` makes one of all of them. The
totals of back-offs, the powers of two in perk keys, the joining of page lists and the
closure of the group tree are reasoned about this way.

### MatchDataRecovery_proofs

It proves, for every choice of the constants that
satisfies `DataAssumption` and `BoundAssumption`:

- `TypeCorrect`, from the type invariant alone;
- `Invariant`: `Spec => []IInv`;
- `FinishedStaysPersisted`, `RollBackIsComplete`, `MarkedBatchIsExact` and
  `RowsAreKeptWithTheirMatch`, each from `IInv`;
- `Refinement`: the transaction implements `WorkLedger`;
- `RowsAreStoredOnce`: `StoredOnce`;
- `ClaimsAreFair`: `FairClaim`, with `ClaimAssumption`.

None of them assumes that ids have different numbers or that an error of the mark means
that nothing was removed. `FinishedIsPersisted` instead excepts the matches in `doubtful`,
and `Unharmed` are the successful ones that the delete of the failed cannot touch.

The argument: `FinishedIsPersisted` is not inductive, because a step that removes
rows could remove those of a finished match. `IInv` adds that a batch in progress
is still queued or doubtful (`BatchPending`), that memory and `cur` hold rows of that batch only
(`RowsOfBatch`), where each phase may hold rows (`BuffersByPhase`), that each row of
a received item is in a buffer, in flight or in the tables (`RowsAccounted`), and
what the delete loops have already achieved (`DeletesAreComplete`). At `mark` all
rows of unharmed matches are then in `cur`, which becomes part of `kept`. For the
refinement every action either adds rows (`AddingStores`), removes rows of queued
matches (`RemovingTakesBack`), seeds, marks, or leaves queue and rows alone.

`StoredOnce` has an invariant of its own, `Apart`: the parsed item, the buffers, the insert
in flight and the tables have no row in common, but for rows in flight that an insert has
stored before its error (`hidden`); and they hold rows of received items only, none of
which will be received again. So a row can be stored a second time by the retry of its own
insert only.

`FairClaim` rests on `ClaimStands` (while a batch is received the queue is the one it
was claimed from) and on the claim order alone. Row numbers follow the keys within a
continent, so the order is total and strict (`ClaimOrder`), and what is claimed is an
initial part of it (`ClaimedGoFirst`). The first match that is left out has exactly the
claimed ones before it, and the last claimed one fewer than the limit: so a claim that
leaves something has the size of the limit (`ClaimIsFull`). A continent's claim is at
most the row number of its last claimed match, the first waiting match of another has
all smaller row numbers claimed, and the former is not behind the latter
(`ClaimIsFair`).

The model numbers the whole queue; the query first limits each continent. Both claim the
same (`LimitingDropsNothing`): a match within its continent's limit has all smaller ones
within it, so row numbers agree, and a claimed match is within it, because all smaller
ones of its continent are claimed before it.

### CycleAnchors_proofs

It proves, for any set of keys, number of runs and number of incidents:

- `TypeCorrect`: the types, and that the newest anchor is always defined;
- `AnchorsKeepTheirPromise`: `AnchorCovers`;
- `Invariant`: `CycleInv`;
- `NothingIsLost`: `Covered`.

There are no premises: players may be ranked in several queues, pages end where they end,
and cycles end anywhere. That `Covered` must except a run cut off between anchor and seed
is what `cycle_lost_run` shows.

The argument: `AnchorCovers` speaks of the newest anchor, and when a failed save
takes its anchor back the one before is the newest again. `KeysAreListed` therefore
says of every run that its recorded keys have their matches listed, and that the
keys of a run are gone before its rows are deleted; a crawl that starts at `since`
completes what was listed up to there (`CrawlCompletes`), but for what is added to `cut`.
`AnchorsAreSeeded` does the same for the queue: the rows of an anchored run have been
seeded, unless it is the run at hand on its way to the seed, or one of `gaps`; so that a
later crawl starts at matches that are accounted for (`CrawlAccounts`), and what the seed
has yet to add the key's own run has listed (`SeedAddsLatestRows`).

### CombineStreams_proofs

For any number of streams and payloads, any queue and any failures: `TypeCorrect`,
`Invariant`, `PayloadsInOrder` (`InOrderOnce`) and `OnlyCompleteIsSettled`
(`SettledMeansComplete`). `InOrderOnce` speaks of each stream's part of the queue;
`QueueInv` says the same of single messages, which a put at the end and a take at the
front disturb one at a time: a payload in the queue lies strictly between what was
taken and what comes next, every such payload is there, and an earlier message of a
stream has the smaller number. The loop passes over leading `_Done` messages, so
the first payload is the smallest that is left of its stream (`FirstIsNext`). A
`_Done` is the last message of a pump that has ended, and a pump that has ended
without a failure in a group that is not aborting has yielded all (`EndMeansAll`).

### MatchIdCrawl_proofs

For any keys, histories and number of workers: `TypeCorrect`, `Invariant`,
`JobsAreCounted` (`JobsCounted`), `CloserWaitsForTheJobs`, `PagesAreInOrder`
(`PagesInOrder`) and `CrawlsAreComplete` (`CrawlIsComplete`). Until the
pool is cancelled the count is the number of queued jobs and of busy workers (`Counted`),
and no two of them are of one key (`OneJobEach`): a worker queues the next page of its key
in the step in which it counts its own as done. So a count of zero leaves neither, and
since nobody can add a job then, nothing is left when the woken closer goes on
(`NothingLeft`). All of this also holds while the pool goes on after a stop; once the
generator is closed the count means nothing.

For the pages, `OrderInv` follows a key through the pool: its job, wherever it is, asks
for the page after those handed on (`JobIsNext`); a key without a job and without a
failure has handed on all it has (`Complete`); the output queue holds the pages of a key
in order, after those yielded (`ResultsInOrder`); and the closer's mark is its last
element (`DoneIsLast`). At the end the output queue is empty and there is no job, so
what was yielded is everything.

### RiotClient_proofs

For any limit, number of tasks and stalls: `TypeCorrect`, `SlotsStayApart`,
`PermitsFollowSlots` (`OwnSlot`), `BudgetIsKept` (`WithinBudget`), `LimiterIsSteady`
(`SteadyButForStalls`), `GivenUpLate` (`GivesUpAfterBackoff`) and `MetricsStayRight`
(`MetricsAgree`). Slots `i` and `j` are `j - i` intervals apart because the
next free time is (`SpacingInv`). A waiting task holds a slot of its own and is late by
no more than the stalls (`LineInv`). The budget follows without further induction:
permits have different slots, those within any span of time have slots within the span
and the stalls, and an injection bounds their number (`FewInASpan`): for one period by
`Calls + ceil(stalled / Interval)`, and between two permits by the intervals that fit
between them and into the stalls (`PermitsPaced`), which makes every permit a step of the
steady stream.

`BackedOff` says for each phase of a fetch how much of the back-off it has behind it or
ahead: a task that has failed `n` times and waits for its timer does not wake before
`TotalBackoff[n]` has passed since it began, and one that asks again has waited it out. Of the metrics,
`MetricsInv` says that the telemetry window is the sorted sequence of the permits of one period, up to the last permit, and that the debug
record counts the permits since it was started: a permit drops old entries at the front
and adds one at the end, at a time that is not before any other's.

### PlayerCrawl_proofs

For any regions, tiers, bounds, lists, limit, batches and failures: `TypeCorrect`,
`ProbesFindLastPages` (`BoundIsLastPage`), `RunsAreAllOrNothing` (`AllOrNothing`) and
`SnapshotIsRotated` (`SnapshotSurvives`).

- `BoundIsLastPage` is inductive together with what is known of the batch being probed
  (`ProbesOfChunk`); a probe that is neither failed nor cut has `low + 1 = high`, and the
  last page lies between them. That the probes are the configured lists, each once, is
  proved of the code's nested loops and of the spreading over regions.
- Of `AllOrNothing`, `RunsInv` carries the timestamps: the run whose timestamp is written
  is the one at hand, and an undone run has no rows. That a stored run is whole takes
  three more: every item of a stage is in the batch that is awaited or in those to come,
  once (`TypeInv`); what is not reported as lost has been answered or will be asked for
  (`ReportInv`); and while a run fetches, the players in the table and in memory are
  those of the answered jobs, no more and no less (`StockInv`). When the last batch is
  stored nothing is left to ask and nothing is in memory, and what is in the table is
  what was promised (`WholeInv`), up to the timestamp.

### DataRules_proofs

For any payloads and snapshots that meet the assumptions:

- `NearestIsWithinHalfABucket` and `NearestIsMonotone` hold for every time.
- `EventsAreFiled` (`EventsFiledOnce`): every row has its columns whichever optional keys
  its event lacks (`TypedRowIsComplete`, one case per table), and the tables share no
  event type.
- `NothingIsLost` (`NothingLostSilently`): a key that a model accepts is a column of its
  table, or one of those stored under another name (`TypedKeyIsStored`); any other is
  unknown to the model, and the drift check names what the model does not know.
- `DamageIsJoined` (`DamageJoinsItsKill`): the id is made of time, killer and victim, and
  two kills of one victim at one moment are the same event.
- `RejectionsAreReported` (`RejectionIsReported`): case by case over what makes a model
  refuse, with the condition under which the drift check sees it.
- `KeyTellsThePerks`: the combination key is a number in base `2^PerkBits` with the perks
  as digits, and a lower digit sum never reaches the next place (`SumsFit`); so equal keys
  of equally many perks mean equal perks. `PerkKeysAreThePages` (`PerkKeyIsThePage`)
  applies it to full pages. The premise that an id fits its field is needed: with
  `Place_Narrow` TLC finds two pages with one key.
- `PlansFollowTheTree` (`PlanFollowsTheTree`): the groups above a group are the least set
  closed under parents (`AboveIsClosed`, `AboveIsLeast`), though computed by a loop as
  long as the number of groups. If the selected group is not below itself, the code's walk
  ends, its branches are paths down from it, and each group below ends exactly one
  (`OneBranchEach`, `BranchesAreCounted`); if it is, the walk refuses (`CycleIsBelow`).
  In a branch the later declaration overwrites the earlier (`LastOneCounts`), and a path
  leads through exactly the groups between the selected one and its end
  (`PathIsBetween`).

### Only model-checked

Liveness: `HealthyDrained`, `FailureSurfaces`, `EndsUnlessSaveRaised`, `CrawlEnds`,
`FetchEnds` and `RunEnds`. They rest on fairness, hence on ENABLED, which the prover does
not support. The runs that TLC must find violated show what the exceptions in the
properties stand for. What a recursive definition computes is proved where a set can stand
for the induction predicate (see `NatRecursion`).

## Plan

All modules of the plan are written: queue and batches, streams, id crawl, cycles,
HTTP client, players step, parsers, metric plans, each with a proof module of its own.
What could follow:

1. Pending mutations of ClickHouse: a delete that applies late, in another order than
   it was sent. It needs a statement of what the server guarantees.
2. The validity filter, with rows that views derived before a roll-back.
3. The safety part of liveness: that before its end the crawl, a fetch or a stream always
   has somebody who can go on, with the guards written out in the place of ENABLED, and
   that each step makes a named measure smaller. Both are within the prover's reach.

## Not modelled

- Materialized views, filtered tables and the SQL of the metrics: their meaning is the
  server's. Rows they derive from a batch are in no delete list and survive its
  roll-back.
- ClickHouse applies `ALTER ... DELETE` asynchronously unless told otherwise; the models
  apply it at once. Only the mark sets `mutations_sync = 2`.
- Configuration, logging, the telemetry endpoint, the container handling of the
  scripts, URLs and queries of the fetches.
- Lists of the league change while they are read; in the model they do not during a run.
- The penalty the service has for requests after a 429, and what it answers beyond the
  last page: a 404 and an empty page are both possible in the model.
- Of the rows: values that no property tells apart. UInt8 columns are clamped for some
  counters only, an atakhan objective is dropped and UNKNOWN events are not in the
  table's Enum8; what the server does with a value out of range is not in the
  repository. The last frame of a game may share the bucket of the one before it.
- The players snapshot timestamp is written and rotated but nothing reads it.
- An item whose payload has no `metadata.matchId` counts for no match; the parsers'
  models require that field, so such a payload is rejected, unless it is that of an
  aborted game, which has no rows.
