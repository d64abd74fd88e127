----------------------------- MODULE CycleAnchors -----------------------------
(***************************************************************************)
(* Whole pipeline cycles: players -> match_ids -> match_data.  What a      *)
(* cycle may skip is decided by what an earlier one left in the database:  *)
(* the anchor row of the last match_ids run, the player keys that run      *)
(* collected, and the run that match_data has seeded its queue from.       *)
(*                                                                         *)
(* Every key plays one match between two runs.  Time is counted in         *)
(* match_ids runs: run_id and stored_at of a run are the number of the     *)
(* run, <<k, j>> is the match k played before run j.  What match_data does *)
(* with its queue is the subject of MatchDataRecovery.                     *)
(***************************************************************************)
EXTENDS Naturals, FiniteSets

CONSTANTS
    Puuid, Queue,
    Key,            \* the (puuid, queue_type) pairs that may be found
    Reach,          \* the newest matches of a key that its pages reach (1000 ids)
    MaxRuns,        \* bound: match_ids runs
    MaxIncidents    \* bound: crashes, stops and errors

ASSUME CycleAssumption ==
    /\ IsFiniteSet(Key) /\ Key \subseteq Puuid \X Queue
    /\ Reach \in Nat \ {0} /\ MaxRuns \in Nat /\ MaxIncidents \in Nat

Run == 1 .. MaxRuns
Match == Key \X Run

VARIABLES
    stage,      \* what the flow does next
    now,        \* the current, or latest, match_ids run
    players,    \* keys in game_data.players
    rows,       \* game_data.matchids: <<run, match>>
    puuids,     \* game_data.matchid_puuids: <<run, key>>
    anchors,    \* runs with a matchids_puuids_ts row in data_timestamps
    seeded,     \* the latest matchdata_seeded_matchids_run, 0 if none
    pending,    \* game_data.matchdata_matchids
    seen,       \* history: matches that were ever in it
    cut,        \* history: <<run, match>> that a completed crawl never listed
    shadowed,   \* history: keys crawled from the anchor for another key's sake
    gaps,       \* history: runs whose cycle ended after the anchor, before the seed
    loaded,     \* full_player_keys of this run
    since,      \* key -> startTime of its crawl in this run
    todo,       \* keys whose crawl has not ended
    failed,     \* failed_player_keys
    incidents

database == <<players, rows, puuids, anchors, seeded, pending>>
crawl == <<loaded, since, todo, failed>>
history == <<seen, cut, shadowed, gaps>>
vars == <<stage, now, database, history, crawl, incidents>>

Init ==
    /\ stage = "players" /\ now = 0 /\ players = {}
    /\ rows = {} /\ puuids = {} /\ anchors = {} /\ seeded = 0
    /\ pending = {} /\ seen = {} /\ cut = {} /\ shadowed = {} /\ gaps = {}
    /\ loaded = {} /\ since = [k \in Key |-> 0] /\ todo = {} /\ failed = {}
    /\ incidents = 0

\* max(stored_at), and the run_id that goes with it.
Latest == IF anchors = {} THEN 0 ELSE CHOOSE r \in anchors : \A a \in anchors : a <= r

\* load_matchid_puuids, of which the loader keeps the puuid and drops the queue.
Collected(k) == \E c \in Key : c[1] = k[1] /\ <<Latest, c>> \in puuids

Incident == incidents < MaxIncidents /\ incidents' = incidents + 1

-----------------------------------------------------------------------------
(* players *)

\* Rows are only ever added: a run that fails deletes its own rows.  A run that
\* crashes leaves some, as if it had found fewer and crashed at the next stage.
FindPlayers(found) ==
    /\ stage = "players" /\ stage' = "load"
    /\ players' = players \cup found
    /\ UNCHANGED <<now, rows, puuids, anchors, seeded, pending, history, crawl, incidents>>

-----------------------------------------------------------------------------
(* match_ids *)

StartTime(k) == IF Collected(k) THEN Latest ELSE 0

\* MatchIDLoader.load
Load ==
    /\ stage = "load" /\ now < MaxRuns
    /\ stage' = "crawl" /\ now' = now + 1
    /\ loaded' = players /\ todo' = players /\ failed' = {}
    /\ since' = [k \in Key |-> StartTime(k)]
    /\ shadowed' = shadowed \cup {k \in players : Collected(k) /\ <<Latest, k>> \notin puuids}
    /\ UNCHANGED <<database, seen, cut, gaps, incidents>>

\* A slip: no endTime, the match that is played during the crawl is listed.
Listed_NoEnd(k, from) == {<<now, <<k, j>>>> : j \in from + 1 .. now + 1}

Listed(k, from) == {<<now, <<k, j>>>> : j \in from + 1 .. now}

\* The oldest match the pages reach is the one after this: the last page starts at 900.
Oldest(k) == IF since[k] + Reach < now THEN now - Reach ELSE since[k]

\* The crawl of a key ends and counts as complete, having listed the matches after
\* `from`.  The rows reach the table in batches, the last of them before InsertPuuids;
\* nothing reads them earlier.
Complete(k, from) ==
    /\ stage = "crawl" /\ k \in todo
    /\ todo' = todo \ {k}
    /\ rows' = rows \cup Listed(k, from)
    /\ cut' = cut \cup {<<now, <<k, j>>>> : j \in since[k] + 1 .. from}
    /\ UNCHANGED <<stage, now, players, puuids, anchors, seeded, pending, seen, shadowed,
                   gaps, loaded, since, failed>>

CrawlKey(k) == Complete(k, Oldest(k)) /\ UNCHANGED incidents

\* A page is answered with 404, which counts as an empty page, the last one.
CrawlKeyNotFound(k) == Incident /\ \E from \in Oldest(k) .. now : Complete(k, from)

\* A page could not be fetched: the pages before it hold the newest matches.
CrawlKeyFails(k) ==
    /\ stage = "crawl" /\ k \in todo /\ Incident
    /\ todo' = todo \ {k} /\ failed' = failed \cup {k}
    /\ \E from \in Oldest(k) .. now : rows' = rows \cup Listed(k, from)
    /\ UNCHANGED <<stage, now, players, puuids, anchors, seeded, pending, history, loaded,
                   since>>

\* A slip: failed keys count as collected.
Successful_All == loaded

Successful == loaded \ failed

InsertPuuids ==
    /\ stage = "crawl" /\ todo = {} /\ stage' = "anchor"
    /\ puuids' = puuids \cup ({now} \X Successful)
    /\ UNCHANGED <<now, players, rows, anchors, seeded, pending, history, crawl, incidents>>

\* upsert_puuid_timestamp
Anchor ==
    /\ stage = "anchor" /\ stage' = "delete_old"
    /\ anchors' = anchors \cup {now}
    /\ UNCHANGED <<now, players, rows, puuids, seeded, pending, history, crawl, incidents>>

\* A slip: the rows go before the anchor that vouches for them.
UndoOrder_RowsFirst == <<"undo_rows", "undo_puuids", "undo_anchor">>

\* The deletes of save's handler.  Each is retried until it succeeds; after the
\* last the exception goes on and ends the cycle.
UndoOrder == <<"undo_anchor", "undo_puuids", "undo_rows">>

Undone(what) ==
    \E i \in 1 .. 3 :
        /\ stage = what /\ UndoOrder[i] = what
        /\ stage' = IF i = 3 THEN "players" ELSE UndoOrder[i + 1]

\* A stop, or an error of the crawl or of an insert, which may have been applied.
SaveError ==
    /\ Incident /\ stage' = UndoOrder[1]
    /\ \/ stage = "crawl" /\ UNCHANGED <<puuids, anchors>>
       \/ /\ stage = "crawl" /\ todo = {}
          /\ puuids' = puuids \cup ({now} \X Successful)
          /\ UNCHANGED anchors
       \/ /\ stage = "anchor"
          /\ anchors' \in {anchors, anchors \cup {now}}
          /\ UNCHANGED puuids
    /\ UNCHANGED <<now, players, rows, seeded, pending, history, crawl>>

UndoAnchor ==
    /\ Undone("undo_anchor")
    /\ anchors' = anchors \ {now}
    /\ UNCHANGED <<now, players, rows, puuids, seeded, pending, history, crawl, incidents>>

UndoPuuids ==
    /\ Undone("undo_puuids")
    /\ puuids' = {p \in puuids : p[1] # now}
    /\ UNCHANGED <<now, players, rows, anchors, seeded, pending, history, crawl, incidents>>

UndoRows ==
    /\ Undone("undo_rows")
    /\ rows' = {r \in rows : r[1] # now}
    /\ UNCHANGED <<now, players, puuids, anchors, seeded, pending, history, crawl, incidents>>

DeleteOld ==
    /\ stage = "delete_old" /\ stage' = "seed"
    /\ anchors' = anchors \cap {now}
    /\ UNCHANGED <<now, players, rows, puuids, seeded, pending, history, crawl, incidents>>

-----------------------------------------------------------------------------
(* match_data *)

LatestRows == {r[2] : r \in {r \in rows : r[1] = Latest}}

\* The matches of the run whose anchor is newest, unless they were seeded before.
Seed ==
    /\ stage = "seed"
    /\ IF seeded = Latest
       THEN stage' = "drain" /\ UNCHANGED <<pending, seen>>
       ELSE /\ stage' = "mark"
            /\ pending' = pending \cup LatestRows
            /\ seen' = seen \cup LatestRows
    /\ UNCHANGED <<now, players, rows, puuids, anchors, seeded, cut, shadowed, gaps, crawl,
                   incidents>>

MarkSeeded ==
    /\ stage = "mark" /\ stage' = "drain"
    /\ seeded' = Latest
    /\ UNCHANGED <<now, players, rows, puuids, anchors, pending, history, crawl, incidents>>

\* The batches: the queue is worked off, or the run ends before that.
Drain(left) ==
    /\ stage = "drain" /\ stage' = "players"
    /\ left \in {{}, pending} /\ pending' = left
    /\ UNCHANGED <<now, players, rows, puuids, anchors, seeded, history, crawl, incidents>>

\* python -m app.worker.pipelines.matchdata_orchestrator runs this step alone.
MatchDataAlone ==
    /\ stage = "players" /\ stage' = "seed"
    /\ UNCHANGED <<now, database, history, crawl, incidents>>

-----------------------------------------------------------------------------
InGap ==
    /\ now \in anchors /\ seeded # now
    /\ stage \in {"undo_anchor", "delete_old", "seed"}

\* The process dies, or a stop check or a query raises: the next cycle starts over.
CycleEnds ==
    /\ stage # "players" /\ Incident
    /\ stage' = "players"
    /\ gaps' = IF InGap THEN gaps \cup {now} ELSE gaps
    /\ UNCHANGED <<now, database, seen, cut, shadowed, crawl>>

Over == stage = "load" /\ now = MaxRuns

Next ==
    \/ \E found \in SUBSET Key : FindPlayers(found)
    \/ Load
    \/ \E k \in Key : CrawlKey(k) \/ CrawlKeyNotFound(k) \/ CrawlKeyFails(k)
    \/ InsertPuuids \/ Anchor \/ SaveError
    \/ UndoAnchor \/ UndoPuuids \/ UndoRows \/ DeleteOld
    \/ Seed \/ MarkSeeded \/ MatchDataAlone
    \/ \E left \in {{}, pending} : Drain(left)
    \/ CycleEnds
    \/ Over /\ UNCHANGED vars

Spec == Init /\ [][Next]_vars

-----------------------------------------------------------------------------
(* Properties *)

TypeOK ==
    /\ stage \in {"players", "load", "crawl", "anchor", "undo_anchor", "undo_puuids",
                  "undo_rows", "delete_old", "seed", "mark", "drain"}
    /\ now \in 0 .. MaxRuns /\ players \subseteq Key
    /\ rows \subseteq Run \X Match /\ puuids \subseteq Run \X Key
    /\ anchors \subseteq Run /\ seeded \in 0 .. MaxRuns
    /\ pending \subseteq Match /\ seen \subseteq Match /\ cut \subseteq Run \X Match
    /\ shadowed \subseteq Key /\ gaps \subseteq Run
    /\ loaded \subseteq Key /\ since \in [Key -> 0 .. MaxRuns]
    /\ todo \subseteq Key /\ failed \subseteq Key /\ incidents \in 0 .. MaxIncidents

\* A crawl that counted as complete did not reach the match: more than Reach newer ones
\* had been played, or a page was answered with 404 (match_ids.py:62, 125).
LeftOut(r, k, j) == \E i \in 1 .. r : <<i, k>> \in puuids /\ <<i, <<k, j>>>> \in cut

\* The run that listed the match was anchored, and its cycle ended before the seed.
Missed(k, j) == \E i \in gaps : <<i, <<k, j>>>> \in rows

\* The anchor keeps its promise: of every key the anchored run collected, each
\* match up to the anchor was listed, by that run or by an earlier one, unless a
\* crawl that counted as complete left it out.  The next cycle never asks for those
\* again.  A key is exempt once the loader took it for collected because the player's
\* key for another queue was (matchids_orchestrator.py:136).
AnchorCovers ==
    \A k \in Key \ shadowed : <<Latest, k>> \in puuids =>
        \A j \in 1 .. Latest : \/ \E r \in 1 .. Latest : <<r, <<k, j>>>> \in rows
                              \/ LeftOut(Latest, k, j)

\* When match_data starts on its batches, each match up to the anchor of such a key
\* has reached the queue, now or before, unless it was never listed or its run was
\* cut off between anchor and seed.
Covered ==
    stage = "drain" =>
        \A k \in Key \ shadowed : <<Latest, k>> \in puuids =>
            \A j \in 1 .. Latest : \/ <<k, j>> \in seen
                                  \/ LeftOut(Latest, k, j) \/ Missed(k, j)

\* What the comment at database/clickhouse/operations/matchids.py:157 says, that the
\* anchor advances only after all of a cycle has succeeded: what lies before it has
\* been through the cycle, so no listed run is skipped by the queue.
EveryRunSeeded ==
    stage = "drain" =>
        \A k \in Key \ shadowed : <<Latest, k>> \in puuids =>
            \A j \in 1 .. Latest : <<k, j>> \in seen \/ LeftOut(Latest, k, j)
-----------------------------------------------------------------------------
(* The inductive invariants behind AnchorCovers and Covered *)

HasMax(S) == S = {} \/ \E a \in S : \A b \in S : b <= a

\* max(stored_at) is always defined, also once the run at hand takes its row back.
AnchorsOrdered ==
    /\ anchors \subseteq 1 .. now
    /\ HasMax(anchors) /\ HasMax(anchors \ {now})
    /\ stage \in {"crawl", "anchor", "undo_anchor", "undo_puuids", "undo_rows", "delete_old"}
         => now > 0
    /\ stage = "crawl" => \A k \in Key : since[k] <= now

\* Run i has dealt with a match: listed it, or recorded its key without it.
Asked(i, k, j) ==
    <<i, <<k, j>>>> \in rows \/ (<<i, k>> \in puuids /\ <<i, <<k, j>>>> \in cut)

ListedUpTo(r, k) == \A j \in 1 .. r : \E i \in 1 .. r : Asked(i, k, j)
Crawled(k) ==
    \A j \in 1 .. now : (\E i \in 1 .. now : Asked(i, k, j)) \/ <<now, <<k, j>>>> \in cut

\* Not the anchor alone: whatever run a key is recorded for, its matches up to
\* that run are listed, since a run's keys are deleted before its rows are.
KeysAreListed ==
    /\ \A r \in Run, k \in Key : <<r, k>> \in puuids => r <= now
    /\ \A r \in Run, k \in Key \ shadowed : <<r, k>> \in puuids => ListedUpTo(r, k)
    /\ stage = "crawl" =>
         /\ todo \subseteq loaded
         /\ \A k \in loaded \ shadowed : ListedUpTo(since[k], k)
         /\ \A k \in loaded \ (todo \cup failed \cup shadowed) : Crawled(k)
    /\ stage = "undo_rows" => \A k \in Key : <<now, k>> \notin puuids

RowsOfRun(r) == {m \in Match : <<r, m>> \in rows}
Accounted(r, k, j) == <<k, j>> \in seen \/ LeftOut(r, k, j) \/ Missed(k, j)
AccountedUpTo(r, k) == \A j \in 1 .. r : Accounted(r, k, j)
AccountedOrListed(r, k) ==
    \A j \in 1 .. r : Accounted(r, k, j) \/ <<r, <<k, j>>>> \in rows
CrawlAccounted(k) ==
    \A j \in 1 .. now : Accounted(now, k, j) \/ <<now, <<k, j>>>> \in rows \cup cut

\* The matches of an anchored run have been seeded, unless the run is the one at
\* hand and on its way to the seed, or its cycle ended there; so a key that is crawled
\* from the anchor has had all its earlier matches in the queue, or they are accounted
\* for.
AnchorsAreSeeded ==
    /\ \A a \in anchors : \/ RowsOfRun(a) \subseteq seen \/ a \in gaps
                          \/ a = now /\ stage \in {"undo_anchor", "delete_old", "seed"}
    /\ RowsOfRun(seeded) \subseteq seen /\ seeded <= now
    /\ stage = "mark" => RowsOfRun(Latest) \subseteq seen
    /\ stage \in {"crawl", "anchor"} => seeded < now /\ now \notin anchors
    /\ gaps \subseteq 1 .. now
    /\ now \in gaps => stage \in {"players", "load", "seed", "mark", "drain"}
    /\ stage = "crawl" =>
         /\ \A k \in loaded \ shadowed : AccountedUpTo(since[k], k)
         /\ \A k \in loaded \ (todo \cup failed \cup shadowed) : CrawlAccounted(k)
    /\ \A r \in Run, k \in Key \ shadowed : <<r, k>> \in puuids => AccountedOrListed(r, k)

\* What AnchorCovers and Covered rest on: the keys, rows and anchors that any
\* interrupted cycle leaves behind are consistent with each other.
CycleInv == TypeOK /\ AnchorsOrdered /\ KeysAreListed /\ AnchorsAreSeeded
===============================================================================
