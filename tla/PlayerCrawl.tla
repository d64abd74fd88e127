------------------------------ MODULE PlayerCrawl ------------------------------
(***************************************************************************)
(* The players step: which league lists are asked for, the bisection that  *)
(* finds the last page of each, the pages, the insertion of the players    *)
(* and the snapshot timestamp; run after run, as the cycle repeats it.     *)
(*                                                                         *)
(* One task pulls players through the generators and awaits each insert;   *)
(* concurrent are the fetches of one batch, which gather awaits together.  *)
(* Lists do not change during a run.                                       *)
(***************************************************************************)
EXTENDS Integers, Sequences, FiniteSets, TLC, SequencesExt

CONSTANTS
    Regions,       \* PLAYERS_REGIONS, in order
    Continent,     \* REGION_TO_CONTINENT
    EliteTiers,    \* the elite tiers, in order
    Ranks,         \* the (tier, division) pairs, in order
    EliteBounds,   \* one [queue, collect, upper, lower] for each queue, in order;
    BasicBounds,   \* upper and lower are members of the order, or None
    None,
    Entry,         \* what a page may hold
    Book,          \* <<region, queue, tier>> -> its list: pages, none of them empty
    Invalid,       \* the entries that the models reject
    Upper,         \* LEAGUE_PAGE_UPPER_BOUND
    InFlight,      \* MAX_IN_FLIGHT
    BatchSize,     \* insert_players_stream_in_batches' batch_size
    Attempts,      \* stop_after_attempt of run_sync_with_retry
    Runs,          \* bound: how often the step runs
    MaxIncidents   \* bound: failures, stops and crashes

-----------------------------------------------------------------------------
(* what is asked for *)

\* The tiers of a queue between its bounds, both included.
Between(order, limits) ==
    LET first == IF limits.upper = None THEN 1
                 ELSE CHOOSE i \in DOMAIN order : order[i] = limits.upper
        last == IF limits.lower = None THEN Len(order)
                ELSE CHOOSE i \in DOMAIN order : order[i] = limits.lower
    IN  IF limits.collect THEN SubSeq(order, first, last) ELSE <<>>

\* The entries of s that are in S.
Only(s, S) == FlattenSeq([i \in DOMAIN s |-> IF s[i] \in S THEN <<s[i]>> ELSE <<>>])

\* spreading, where groups[i] is the group of items[i]: the items in rounds, the first
\* of every group, the second one, and so on; the groups of a round in the order in
\* which they first occur.
Turn(groups, i) == Cardinality({j \in 1 .. i : groups[j] = groups[i]})
DueAfter(groups, first, n) ==
    {i \in DOMAIN groups : groups[i] = groups[first] /\ Turn(groups, i) = n}
Round(groups, n) ==
    FlattenSeq([first \in DOMAIN groups |->
        IF Turn(groups, first) = 1 THEN SetToSeq(DueAfter(groups, first, n)) ELSE <<>>])
Spreading(items, groups) ==
    LET order == FlattenSeq([n \in DOMAIN groups |-> Round(groups, n)])
    IN  [k \in DOMAIN order |-> items[order[k]]]

\* A list of the league, for every queue, tier of the queue, and region.
EliteLists ==
    FlattenSeq([q \in DOMAIN EliteBounds |->
        LET tiers == Between(EliteTiers, EliteBounds[q]) IN
        FlattenSeq([i \in DOMAIN tiers |->
            [r \in DOMAIN Regions |-> <<Regions[r], EliteBounds[q].queue, tiers[i]>>]])])

BasicLists ==
    FlattenSeq([r \in DOMAIN Regions |->
        FlattenSeq([q \in DOMAIN BasicBounds |->
            LET ranks == Between(Ranks, BasicBounds[q]) IN
            [i \in DOMAIN ranks |-> <<Regions[r], BasicBounds[q].queue, ranks[i]>>]])])

\* A job is a list and the number of a page; an elite list has one.
EliteJobs ==
    Spreading([i \in DOMAIN EliteLists |-> <<EliteLists[i], 1>>],
              [i \in DOMAIN EliteLists |-> Continent[EliteLists[i][1]]])
ProbeKeys == Spreading(BasicLists, [i \in DOMAIN BasicLists |-> BasicLists[i][1]])

EliteKeys == ToSet(EliteLists)
BasicKeys == ToSet(BasicLists)
\* Pages 1 to the last of every key with a bound, also where the first is empty.
PageList(last) ==
    FlattenSeq([i \in DOMAIN ProbeKeys |-> [p \in 1 .. last[ProbeKeys[i]] |-> <<ProbeKeys[i], p>>]])
PageJobs ==
    [last \in [BasicKeys -> 0 .. Upper] |->
        LET jobs == PageList(last) IN Spreading(jobs, [i \in DOMAIN jobs |-> jobs[i][1][1]])]

Pages(key) == Len(Book[key])

ASSUME PlayersAssumption ==
    /\ Upper \in Nat \ {0} /\ InFlight \in Nat \ {0} /\ BatchSize \in Nat \ {0}
    /\ Attempts \in Nat \ {0} /\ Runs \in Nat /\ MaxIncidents \in Nat
    /\ \A key \in EliteKeys : Pages(key) = 1
    /\ \A key \in BasicKeys : Pages(key) \in Nat

\* The regions, queues, tiers and divisions are members of enumerations, the queues
\* keys of a dictionary, and the tiers of the two kinds of lists differ.  A queue whose
\* bounds are in the wrong order is refused.
InOrder(order, limits) ==
    limits.collect =>
        \A i, j \in DOMAIN order : order[i] = limits.upper /\ order[j] = limits.lower => i <= j
ASSUME ListsAssumption ==
    /\ Regions \in Seq(ToSet(Regions)) /\ IsInjective(Regions)
    /\ EliteTiers \in Seq(ToSet(EliteTiers)) /\ IsInjective(EliteTiers)
    /\ Ranks \in Seq(ToSet(Ranks)) /\ IsInjective(Ranks)
    /\ ToSet(EliteTiers) \cap ToSet(Ranks) = {}
    /\ EliteBounds \in Seq(ToSet(EliteBounds)) /\ BasicBounds \in Seq(ToSet(BasicBounds))
    /\ \A i, j \in DOMAIN EliteBounds : EliteBounds[i].queue = EliteBounds[j].queue => i = j
    /\ \A i, j \in DOMAIN BasicBounds : BasicBounds[i].queue = BasicBounds[j].queue => i = j
    /\ \A limits \in ToSet(EliteBounds) :
           /\ {limits.upper, limits.lower} \subseteq ToSet(EliteTiers) \cup {None}
           /\ InOrder(EliteTiers, limits)
    /\ \A limits \in ToSet(BasicBounds) :
           /\ {limits.upper, limits.lower} \subseteq ToSet(Ranks) \cup {None}
           /\ InOrder(Ranks, limits)
    /\ EliteKeys \cup BasicKeys \subseteq DOMAIN Book
    /\ \A key \in DOMAIN Book : Book[key] \in Seq(Seq(Entry))

VARIABLES
    stage,     \* where the run at hand is; "start" between two runs
    todo,      \* what the batches to come consist of
    chunk,     \* the batch whose fetches are awaited
    flight,    \* item of chunk -> "pending", "answered", "failed"
    range,     \* key of chunk -> [low, high] of its probe
    bounds,    \* key -> its last page; 0 until it has been probed
    ready,     \* fetched players the insertion has not pulled yet
    batch,     \* insert_players_stream_in_batches' batch
    sending,   \* the rows of an insert in the executor
    tries,     \* failed attempts of the database call at hand
    rows,      \* players: <<run, entry>>
    ts,        \* data_timestamps: the runs with a snapshot timestamp
    stop,      \* the stop flag exists
    outcome,   \* history: how each run has ended
    lost,      \* history: jobs whose fetch failed, keys whose probe failed
    cut,       \* history: keys whose probe was answered 404
    whole,     \* history: run that stored its last batch -> what it had to store
    incidents  \* failures, stops and crashes so far

memory == <<todo, chunk, flight, range, bounds, ready, batch, sending>>
tables == <<rows, ts>>
history == <<outcome, lost, cut, whole>>
vars == <<stage, todo, chunk, flight, range, bounds, ready, batch, sending, tries,
          rows, ts, stop, outcome, lost, cut, whole, incidents>>

\* The run at hand; its run_id is used once.
run == Len(outcome) + 1

Init ==
    /\ stage = "start" /\ tries = 0
    /\ todo = <<>> /\ chunk = <<>> /\ flight = <<>> /\ range = <<>>
    /\ bounds = [key \in BasicKeys |-> 0]
    /\ ready = <<>> /\ batch = <<>> /\ sending = <<>>
    /\ rows = {} /\ ts = {} /\ stop = FALSE
    /\ outcome = <<>> /\ lost = {} /\ cut = {} /\ whole = <<>> /\ incidents = 0

Incident == incidents < MaxIncidents /\ incidents' = incidents + 1

Forget ==
    /\ todo' = <<>> /\ chunk' = <<>> /\ flight' = <<>> /\ range' = <<>>
    /\ bounds' = [key \in BasicKeys |-> 0]
    /\ ready' = <<>> /\ batch' = <<>> /\ sending' = <<>>

Enter(next) == stage' = next /\ tries' = 0

EndRun(how) ==
    /\ Enter("start") /\ Forget
    /\ outcome' = Append(outcome, how) /\ UNCHANGED <<lost, cut, whole>>

\* An exception in PlayerSaver.save: what is in memory is dropped.
Fail == Enter("undo") /\ Forget /\ UNCHANGED history

\* The insertion asks the generators for the next player, and none is in hand.
Pulling == ready = <<>> /\ chunk = <<>> /\ sending = <<>>

-----------------------------------------------------------------------------
(* batches of fetches *)

NextChunk ==
    /\ stage \in {"elite", "probe", "pages"} /\ Pulling /\ todo # <<>>
    /\ LET n == IF Len(todo) < InFlight THEN Len(todo) ELSE InFlight
           first == SubSeq(todo, 1, n) IN
       /\ chunk' = first /\ todo' = SubSeq(todo, n + 1, Len(todo))
       /\ flight' = [item \in ToSet(first) |-> "pending"]
       /\ range' = IF stage = "probe"
                   THEN [key \in ToSet(first) |-> [low |-> 1, high |-> Upper + 1]]
                   ELSE <<>>
    /\ UNCHANGED <<stage, bounds, ready, batch, sending, tries, tables, stop, history, incidents>>

\* A slip: the loop goes on until both ends meet.
Halving_UntilEqual(r) == r.low < r.high
Halving(r) == r.low + 1 < r.high

Middle(key) == (range[key].low + range[key].high) \div 2
Probing(key) ==
    stage = "probe" /\ key \in DOMAIN flight /\ flight[key] = "pending" /\ Halving(range[key])

\* A slip: the page after one with players is taken to have players.
Probe_PageAfter(key) ==
    /\ Probing(key)
    /\ range' = IF Middle(key) <= Pages(key)
                THEN [range EXCEPT ![key].low = Middle(key) + 1]
                ELSE [range EXCEPT ![key].high = Middle(key)]
    /\ UNCHANGED <<stage, todo, chunk, flight, bounds, ready, batch, sending, tries, tables,
                   stop, history, incidents>>

Probe(key) ==
    /\ Probing(key)
    /\ range' = IF Middle(key) <= Pages(key)
                THEN [range EXCEPT ![key].low = Middle(key)]
                ELSE [range EXCEPT ![key].high = Middle(key)]
    /\ UNCHANGED <<stage, todo, chunk, flight, bounds, ready, batch, sending, tries, tables,
                   stop, history, incidents>>

\* A page that does not exist may be answered 404; the probe returns at once.
NotFound(key) ==
    /\ Probing(key) /\ Middle(key) > Pages(key)
    /\ flight' = [flight EXCEPT ![key] = "answered"]
    /\ cut' = cut \cup {key}
    /\ UNCHANGED <<stage, todo, chunk, range, bounds, ready, batch, sending, tries, tables,
                   stop, outcome, lost, whole, incidents>>

\* Any other outcome, or an answer that is no list, raises within gather.
ProbeFails(key) ==
    /\ Probing(key) /\ Incident
    /\ flight' = [flight EXCEPT ![key] = "failed"]
    /\ lost' = lost \cup {key}
    /\ UNCHANGED <<stage, todo, chunk, range, bounds, ready, batch, sending, tries, tables,
                   stop, outcome, cut, whole>>

Probed(key) == flight[key] # "pending" \/ ~Halving(range[key])

BoundsFound ==
    /\ stage = "probe" /\ chunk # <<>> /\ \A key \in DOMAIN flight : Probed(key)
    /\ bounds' = [key \in BasicKeys |->
                    IF key \in DOMAIN flight /\ flight[key] # "failed" THEN range[key].low
                    ELSE bounds[key]]
    /\ chunk' = <<>> /\ flight' = <<>> /\ range' = <<>>
    /\ UNCHANGED <<stage, todo, ready, batch, sending, tries, tables, stop, history, incidents>>

\* fetch_region_payload: every exception, like every outcome but OK, is None.
Fetch(job) ==
    /\ stage \in {"elite", "pages"} /\ job \in DOMAIN flight /\ flight[job] = "pending"
    /\ \/ flight' = [flight EXCEPT ![job] = "answered"] /\ UNCHANGED <<lost, incidents>>
       \/ Incident /\ flight' = [flight EXCEPT ![job] = "failed"] /\ lost' = lost \cup {job}
    /\ UNCHANGED <<stage, todo, chunk, range, bounds, ready, batch, sending, tries, tables,
                   stop, outcome, cut, whole>>

Page(job) == IF job[2] <= Pages(job[1]) THEN Book[job[1]][job[2]] ELSE <<>>

\* An elite list with an entry that is rejected is skipped, of a page the entry.
Players(job) ==
    IF job[1] \in EliteKeys
    THEN IF ToSet(Page(job)) \cap Invalid = {} THEN Page(job) ELSE <<>>
    ELSE Only(Page(job), Entry \ Invalid)

Deliver ==
    /\ stage \in {"elite", "pages"} /\ chunk # <<>>
    /\ \A job \in DOMAIN flight : flight[job] # "pending"
    /\ ready' = FlattenSeq([i \in DOMAIN chunk |->
                    IF flight[chunk[i]] = "failed" THEN <<>> ELSE Players(chunk[i])])
    /\ chunk' = <<>> /\ flight' = <<>>
    /\ UNCHANGED <<stage, todo, range, bounds, batch, sending, tries, tables, stop,
                   history, incidents>>

-----------------------------------------------------------------------------
(* the stages of the generator, and the insertion that pulls from it *)

Start ==
    /\ stage = "start" /\ run <= Runs
    /\ IF stop THEN Enter("undo") /\ UNCHANGED memory
       ELSE /\ Enter("elite") /\ todo' = EliteJobs
            /\ UNCHANGED <<chunk, flight, range, bounds, ready, batch, sending>>
    /\ lost' = {} /\ cut' = {}
    /\ UNCHANGED <<tables, stop, outcome, whole, incidents>>

StartProbes ==
    /\ stage = "elite" /\ Pulling /\ todo = <<>>
    /\ IF stop THEN Fail
       ELSE /\ Enter("probe") /\ todo' = ProbeKeys
            /\ UNCHANGED <<chunk, flight, range, bounds, ready, batch, sending, history>>
    /\ UNCHANGED <<tables, stop, incidents>>

StartPages ==
    /\ stage = "probe" /\ Pulling /\ todo = <<>>
    /\ Enter("pages") /\ todo' = PageJobs[bounds]
    /\ UNCHANGED <<chunk, flight, range, bounds, ready, batch, sending, tables, stop,
                   history, incidents>>

\* A slip: the batch is sent when it is over full.
FlushAt_Late(rowsInBatch) == rowsInBatch > BatchSize
FlushAt(rowsInBatch) == rowsInBatch >= BatchSize

\* One more player: the batch is sent when it is full or five seconds have passed.
Pull ==
    /\ ready # <<>> /\ sending = <<>>
    /\ IF stop THEN Fail
       ELSE /\ ready' = Tail(ready)
            /\ LET grown == Append(batch, Head(ready)) IN
               \/ batch' = <<>> /\ sending' = grown
               \/ ~FlushAt(Len(grown)) /\ batch' = grown /\ sending' = sending
            /\ UNCHANGED <<stage, todo, chunk, flight, range, bounds, tries, history>>
    /\ UNCHANGED <<tables, stop, incidents>>

RowsOf(entries) == {<<run, entry>> : entry \in ToSet(entries)}

Insert ==
    /\ sending # <<>>
    /\ rows' = rows \cup RowsOf(sending) /\ sending' = <<>>
    /\ UNCHANGED <<stage, todo, chunk, flight, range, bounds, ready, batch, tries, ts, stop,
                   history, incidents>>

\* There is no second attempt, and the rows may have been stored.
InsertError ==
    /\ sending # <<>> /\ Incident /\ Fail
    /\ \E stored \in {{}, RowsOf(sending)} : rows' = rows \cup stored
    /\ UNCHANGED <<ts, stop>>

Exhausted == stage = "pages" /\ Pulling /\ todo = <<>>

LastBatch ==
    /\ Exhausted /\ batch # <<>>
    /\ sending' = batch /\ batch' = <<>>
    /\ UNCHANGED <<stage, todo, chunk, flight, range, bounds, ready, tries, tables, stop,
                   history, incidents>>

\* What a run has to store: every valid player of the lists within the limit,
\* those excepted that the run has reported as failed or cut short.
LastPage(key) ==
    IF key \in cut THEN bounds[key] ELSE IF Pages(key) < Upper THEN Pages(key) ELSE Upper
Promised ==
    LET jobs == ToSet(EliteJobs) \cup
                UNION {{key} \X (1 .. LastPage(key)) : key \in BasicKeys \ lost}
    IN  UNION {ToSet(Players(job)) : job \in jobs \ lost}

\* A slip: the timestamps are rotated first.
Stored_TrimFirst ==
    /\ Exhausted /\ batch = <<>>
    /\ whole' = [r \in DOMAIN whole \cup {run} |-> IF r = run THEN Promised ELSE whole[r]]
    /\ ts' = {}
    /\ Enter("upsert") /\ Forget
    /\ UNCHANGED <<rows, stop, outcome, lost, cut, incidents>>

Stored ==
    /\ Exhausted /\ batch = <<>>
    /\ whole' = [r \in DOMAIN whole \cup {run} |-> IF r = run THEN Promised ELSE whole[r]]
    /\ Enter("upsert") /\ Forget
    /\ UNCHANGED <<tables, stop, outcome, lost, cut, incidents>>

-----------------------------------------------------------------------------
(* the calls that are retried *)

CallFails == Incident /\ tries + 1 < Attempts /\ tries' = tries + 1
CallFailsForGood == Incident /\ tries + 1 = Attempts

\* A slip: the delete names no run.
Undone_AllRuns == rows' = {}
\* The partial run, with RECOVERY_SYSTEM's "rollback of partial run rows".
Undone == rows' = {row \in rows : row[1] # run}
Undo ==
    /\ stage = "undo"
    /\ \/ Undone /\ EndRun("undone") /\ UNCHANGED incidents
       \/ CallFails /\ (Undone \/ UNCHANGED rows) /\ UNCHANGED <<stage, memory, history>>
       \/ CallFailsForGood /\ (Undone \/ UNCHANGED rows) /\ EndRun("stuck")
    /\ UNCHANGED <<ts, stop>>

UpsertTs ==
    /\ stage = "upsert"
    /\ \/ ts' = ts \cup {run} /\ Enter("trim") /\ UNCHANGED incidents
       \/ CallFails /\ ts' \in {ts, ts \cup {run}} /\ UNCHANGED stage
       \/ CallFailsForGood /\ ts' \in {ts, ts \cup {run}} /\ Enter("forget")
    /\ UNCHANGED <<memory, rows, stop, history>>

\* delete_failed_players_snapshot_ts, then the error goes on.
ForgetTs ==
    /\ stage = "forget"
    /\ \/ ts' = ts \ {run} /\ EndRun("unanchored") /\ UNCHANGED incidents
       \/ CallFails /\ ts' \in {ts, ts \ {run}} /\ UNCHANGED <<stage, memory, history>>
       \/ CallFailsForGood /\ ts' \in {ts, ts \ {run}} /\ EndRun("unanchored")
    /\ UNCHANGED <<rows, stop>>

\* delete_old_players_snapshot_ts.
TrimTs ==
    /\ stage = "trim"
    /\ \/ ts' = ts \cap {run} /\ EndRun("complete") /\ UNCHANGED incidents
       \/ CallFails /\ ts' \in {ts, ts \cap {run}} /\ UNCHANGED <<stage, memory, history>>
       \/ CallFailsForGood /\ ts' \in {ts, ts \cap {run}} /\ EndRun("untrimmed")
    /\ UNCHANGED <<rows, stop>>

-----------------------------------------------------------------------------
(* stops and crashes *)

RequestStop ==
    /\ ~stop /\ Incident /\ stop' = TRUE
    /\ UNCHANGED <<stage, memory, tries, tables, history>>

\* The flag is gone when the container has been started anew.
ClearStop ==
    /\ stage = "start" /\ stop /\ stop' = FALSE
    /\ UNCHANGED <<stage, memory, tries, tables, history, incidents>>

\* A crash or a cancellation: no handler runs.
Interrupt ==
    /\ stage # "start" /\ Incident /\ EndRun("interrupted")
    /\ UNCHANGED <<tables, stop>>

AllRun == stage = "start" /\ run > Runs /\ UNCHANGED vars

Work ==
    \/ Start \/ StartProbes \/ StartPages \/ NextChunk \/ BoundsFound \/ Deliver
    \/ \E key \in DOMAIN flight : Probe(key) \/ NotFound(key) \/ ProbeFails(key) \/ Fetch(key)
    \/ Pull \/ Insert \/ InsertError \/ LastBatch \/ Stored
    \/ Undo \/ UpsertTs \/ ForgetTs \/ TrimTs

Next == Work \/ RequestStop \/ ClearStop \/ Interrupt \/ AllRun

Spec == Init /\ [][Next]_vars

\* The process goes on while it can.
FairSpec == Spec /\ WF_vars(Work)
-----------------------------------------------------------------------------
(* properties *)

\* Types: also, a batch is never over full.
TypeOK ==
    /\ stage \in {"start", "elite", "probe", "pages", "undo", "upsert", "forget", "trim"}
    /\ tries \in 0 .. Attempts - 1 /\ incidents \in 0 .. MaxIncidents /\ stop \in BOOLEAN
    /\ Len(batch) < BatchSize /\ Len(sending) <= BatchSize /\ Len(chunk) <= InFlight
    /\ DOMAIN flight = ToSet(chunk) /\ bounds \in [BasicKeys -> 0 .. Upper]
    /\ stage = "probe" => DOMAIN range = ToSet(chunk)
    /\ ts \subseteq 1 .. Runs
    /\ rows \subseteq (1 .. Runs) \X Entry

\* The probe keeps the last page between its ends, and what it returns is the
\* last page within the limit (page 1 at least); after a 404 no more than that.
WithinLimit(key) == IF Pages(key) < Upper THEN Pages(key) ELSE Upper
BoundIsLastPage ==
    /\ \A key \in DOMAIN range :
           /\ 1 <= range[key].low /\ range[key].low < range[key].high
           /\ range[key].low > 1 => range[key].low <= Pages(key)
           /\ range[key].high <= Upper => range[key].high > Pages(key)
    /\ \A key \in {k \in BasicKeys : bounds[k] # 0} :
           /\ (bounds[key] > 1 => bounds[key] <= WithinLimit(key))
           /\ key \notin cut => bounds[key] >= WithinLimit(key)

\* A run that went through has stored every player it had to and no other, and
\* no later run, whether it fails or not, takes anything of it back; only such
\* a run has a snapshot timestamp.  A run that reports its error, and not a
\* failure of the delete as well, leaves no row.
StoredBy(r) == {row[2] : row \in {row \in rows : row[1] = r}}
WholeIsStored == \A r \in DOMAIN whole : StoredBy(r) = whole[r]
AnchoredIsWhole == ts \subseteq DOMAIN whole
UndoneIsGone == \A r \in DOMAIN outcome : outcome[r] = "undone" => StoredBy(r) = {}
AllOrNothing == WholeIsStored /\ AnchoredIsWhole /\ UndoneIsGone

\* The timestamp is rotated so that a finished run's is there at any time.
SnapshotSurvives == [][ts \ {run} # {} => ts' # {}]_vars

\* A run ends, however its probes, fetches and calls are answered.
RunEnds == stage # "start" ~> stage = "start"
================================================================================
