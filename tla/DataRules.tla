------------------------------- MODULE DataRules -------------------------------
(***************************************************************************)
(* The pure steps of the system on one input each: both payloads of a      *)
(* match are parsed, as MatchDataSaver.save does with every payload, or a  *)
(* metric plan is built.                                                   *)
(***************************************************************************)
EXTENDS TimelineRows, NonTimelineRows, MetricPlan

CONSTANTS
  Matches,    \* the pairs [timeline, non_timeline] of payloads
  Snapshots   \* the pairs [snap, selected] of plan requests

\* What is known of a payload beyond what its models ask for.  A frame's timestamp,
\* and the number of damage instances in a list, are natural numbers.
FramesHaveTimes ==
  \A m \in Matches : ValidTimeline(m.timeline) =>
    \A i \in DOMAIN m.timeline.frames :
      /\ m.timeline.frames[i].time \in Nat
      /\ \A j \in DOMAIN m.timeline.frames[i].events :
           \A d \in DamageLists : m.timeline.frames[i].events[j].damage[d] \in Nat

\* A player dies at most once at one moment.
Plausible(frames) ==
  \A i, k \in DOMAIN frames : \A j \in DOMAIN frames[i].events, l \in DOMAIN frames[k].events :
    LET e == frames[i].events[j]  f == frames[k].events[l]
    IN  e.type = "CHAMPION_KILL" /\ f.type = "CHAMPION_KILL"
          /\ e.time = f.time /\ e.victim = f.victim => i = k /\ j = l
DeathsArePlausible ==
  \A m \in Matches : ValidTimeline(m.timeline) => Plausible(m.timeline.frames)

\* The participants of a game have puuids of their own, and a perk's id fits its
\* place in the combination key.
PlayersHavePages ==
  \A m \in Matches : ValidNonTimeline(m.non_timeline) =>
    LET players == m.non_timeline.participants
    IN  \A i \in DOMAIN players :
          /\ \A k \in DOMAIN players : players[i].puuid = players[k].puuid => i = k
          /\ players[i].styles \in Seq([description : STRING, perks : Seq(0..(Bit[PerkBits] - 1))])
SectionsAreKnown == \A m \in Matches : m.non_timeline.missing \subseteq Sections

\* A snapshot has finitely many groups.
SnapshotsAreFinite == \A s \in Snapshots : IsFiniteSet(Groups(s.snap))

ASSUME SnapshotAssumption == SnapshotsAreFinite
ASSUME PayloadAssumption ==
  FramesHaveTimes /\ DeathsArePlausible /\ PlayersHavePages /\ SectionsAreKnown

VARIABLES job, result
vars == <<job, result>>

Pending == [verdict |-> "pending"]

Init == /\ job \in Matches \cup Snapshots
        /\ result = Pending

Parse == /\ result = Pending /\ job \in Matches
         /\ result' = [verdict |-> "match", timeline |-> TimelineRun(job.timeline),
                       non_timeline |-> NonTimelineRun(job.non_timeline)]
         /\ UNCHANGED job

Plan == /\ result = Pending /\ job \in Snapshots
        /\ result' = PlanRun(job.snap, job.selected)
        /\ UNCHANGED job

Next == Parse \/ Plan
Spec == Init /\ [][Next]_vars

Parsed == result.verdict = "match"
TimelineParsed == Parsed /\ result.timeline.verdict = "parsed"
NonTimelineParsed == Parsed /\ result.non_timeline.verdict = "parsed"

Events == UNION {{i} \X DOMAIN job.timeline.frames[i].events : i \in DOMAIN job.timeline.frames}
Event(at) == job.timeline.frames[at[1]].events[at[2]]

(***************************************************************************)
(* Properties                                                              *)
(***************************************************************************)

\* Every event of an accepted timeline becomes one row of one event table, in the
\* bucket nearest to its frame's time, and whatever optional fields it lacks, that
\* row and its damage rows have every column that persist_data reads with item[c]:
\* a row without one would raise KeyError in the middle of the batch's inserts.
EventsFiledOnce ==
  TimelineParsed =>
    /\ \A at \in Events :
         \E r \in result.timeline.rows :
           /\ r.event = at /\ r.table \in EventTables
           /\ 2 * (r.bucket - job.timeline.frames[at[1]].time)
                \in (1 - FrameBucket)..FrameBucket
           /\ \A q \in result.timeline.rows :
                q.event = at /\ q.table \in EventTables => q = r
    /\ \A r \in result.timeline.rows : TimelineColumns(r.table) \subseteq r.keys

\* A damage row finds its kill by champion_kill_event_id alone, also when one
\* player kills several at the same moment.
DamageJoinsItsKill ==
  TimelineParsed =>
    \A d \in {r \in result.timeline.rows : r.table \in DOMAIN DamageTable} :
      \A k \in {r \in result.timeline.rows : r.table = "championKill"} :
        k.id = d.id <=> k.event = d.event

\* A key that an accepted event has in the raw payload is stored in some row of
\* that event, or the drift check has named it.  The game id of GAME_END and a
\* damage list that its other name shadows are given up on purpose.
StoredKeys(r) ==
  (r.keys \cap TimelineColumns(r.table)) \cup r.payload \cup {r.list}
    \cup (IF Position \subseteq r.keys \cap TimelineColumns(r.table) THEN {"position"} ELSE {})

NothingLostSilently ==
  TimelineParsed =>
    \A at \in Events :
      LET e == Event(at)
          stored == UNION {StoredKeys(r) : r \in {q \in result.timeline.rows : q.event = at}}
          shadowed == {d \in DamageLists : \E t \in DOMAIN DamageTable :
                         DamageTable[t].alias = d /\ DamageTable[t].key \in e.keys}
          empty == {d \in DamageLists : e.damage[d] = 0}
      IN  \A k \in e.keys :
            \/ k \in stored \cup shadowed \cup empty
            \/ k = "gameId" /\ e.type = "GAME_END"
            \/ <<e.type, "unexpected_key", k>> \in TimelineDrift(job.timeline)

\* A payload that is rejected stops its batch, so the log must say why: an event,
\* frame or list that the models refuse is reported by the drift check before, and
\* so is a missing section or an unknown key of a watched model that forbids them.
\* What it cannot see are values, and models that are not watched.
RejectionIsReported ==
  Parsed =>
    /\ result.timeline.verdict = "rejected" =>
         \/ TimelineDrift(job.timeline) # {}
         \/ ~job.timeline.head
         \/ \E i \in DOMAIN job.timeline.frames :
              /\ job.timeline.frames[i] # Other
              /\ \/ job.timeline.frames[i].stats \in {Other, Null}
                 \/ /\ job.timeline.frames[i].events # Other
                    /\ \E j \in DOMAIN job.timeline.frames[i].events :
                         LET e == job.timeline.frames[i].events[j]
                         IN  e # Other /\ e.wrong
    /\ result.non_timeline.verdict = "rejected" =>
         \/ NonTimelineDrift(job.non_timeline) # {}
         \/ job.non_timeline.wrong \/ ~ReadsStyles(job.non_timeline)
         \/ \E x \in job.non_timeline.extra : x[1] \in Forbidding \ DOMAIN Watched

\* perk_combo_key stands for the whole page: players of full pages have the same key
\* if and only if they selected the same perks at the same places.  The row of a
\* full page has all the columns of its table.
FullPlayers == {p \in ToSet(job.non_timeline.participants) :
                  Len(Style(p, "primaryStyle").perks) = 4 /\ Len(Style(p, "subStyle").perks) = 2}
PerkRowOf(p) == CHOOSE r \in result.non_timeline.perks : r.puuid = p.puuid
PerkKeyIsThePage ==
  NonTimelineParsed =>
    \A p, q \in FullPlayers :
      /\ PerkRowOf(p).perk_combo_key = PerkRowOf(q).perk_combo_key <=> Selected(p) = Selected(q)
      /\ PerkRowOf(p).columns = PerkRowColumns

\* The groups above g, by going up from parent to parent.
Above(snap, g) ==
  LET n == Cardinality(Groups(snap))
      up[k \in 0..n] ==
        IF k = 0 THEN {} ELSE up[k - 1] \cup ({snap.groups[h] : h \in up[k - 1] \cup {g}}
                                                \cap Groups(snap))
  IN  up[n]

\* A plan has one branch for the selected group and for each group below it; it is
\* refused exactly if the selected group is below itself; and in every branch each
\* metric declared on its path is planned once, as the group closest to the leaf
\* declares it.
PlanFollowsTheTree ==
  result.verdict \in {"cycle", "planned"} =>
    LET below == {g \in Groups(job.snap) : job.selected \in Above(job.snap, g)}
    IN  /\ result.verdict = "cycle" <=> job.selected \in below
        /\ result.verdict = "planned" =>
             /\ {Last(p) : p \in DOMAIN result.metrics} = below \cup {job.selected}
             /\ Cardinality(DOMAIN result.metrics) = Cardinality(below) + 1
             /\ \A p \in DOMAIN result.metrics :
                  ToSet(p) = {Last(p)} \cup (Above(job.snap, Last(p))
                                               \cap (below \cup {job.selected}))
             /\ \A p \in DOMAIN result.metrics :
                  /\ DOMAIN result.metrics[p] = UNION {Declared(job.snap, g) : g \in ToSet(p)}
                  /\ \A m \in DOMAIN result.metrics[p], g \in ToSet(p) :
                       m \in Declared(job.snap, g) =>
                         g = result.metrics[p][m] \/ g \in Above(job.snap, result.metrics[p][m])
===============================================================================
