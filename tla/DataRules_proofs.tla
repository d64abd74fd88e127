--------------------------- MODULE DataRules_proofs ---------------------------
(***************************************************************************)
(* What the parsers and the metric plan promise for every payload and      *)
(* snapshot, not only for those of a run: where an event is filed, what is *)
(* kept or reported of it, which perks a key stands for, and which groups  *)
(* and declarations a plan follows.                                        *)
(***************************************************************************)
EXTENDS DataRules, NatRecursion, FiniteSetTheorems, SequenceTheorems, TLAPS

-----------------------------------------------------------------------------
(* The buckets of time *)

\* A number of milliseconds lies in the bucket its division gives.
LEMMA BucketBounds ==
    ASSUME NEW x \in Nat
    PROVE  /\ (x \div 60000) * 60000 <= x /\ x < (x \div 60000) * 60000 + 60000
           /\ x \div 60000 \in Nat
BY SMT

\* The bucket of a frame is a multiple of the bucket's length, and the frame is at
\* most half a bucket away: a frame that Riot sends late or early, by less than
\* that, is filed under its own minute.
THEOREM NearestIsWithinHalfABucket ==
    ASSUME NEW ms \in Nat
    PROVE  /\ NearestFrameTimestamp(ms) \in Nat
           /\ \E k \in Nat : NearestFrameTimestamp(ms) = k * FrameBucket
           /\ 2 * (NearestFrameTimestamp(ms) - ms) \in (1 - FrameBucket) .. FrameBucket
<1>1. CASE ms = 0
  <2>1. NearestFrameTimestamp(ms) = 0
    BY <1>1 DEF NearestFrameTimestamp
  <2>2. 0 = 0 * FrameBucket /\ 2 * (0 - 0) \in (1 - FrameBucket) .. FrameBucket
    BY DEF FrameBucket
  <2> QED
    BY <1>1, <2>1, <2>2
<1>2. CASE ms > 0
  <2> DEFINE k == (ms + 30000) \div 60000
  <2>1. k \in Nat /\ k * 60000 <= ms + 30000 /\ ms + 30000 < k * 60000 + 60000
    BY BucketBounds
  <2>2. FrameBucket \div 2 = 30000
    BY SMT DEF FrameBucket
  <2>3. NearestFrameTimestamp(ms) = k * 60000
    BY <1>2, <2>2 DEF NearestFrameTimestamp, FrameBucket
  <2> HIDE DEF k
  <2> DEFINE bucket == k * 60000
  <2>4. bucket \in Nat /\ bucket <= ms + 30000 /\ ms + 30000 < bucket + 60000
    BY <2>1
  <2>5. bucket = k * FrameBucket
    BY DEF FrameBucket
  <2> HIDE DEF bucket
  <2>6. 2 * (bucket - ms) \in (1 - FrameBucket) .. FrameBucket
    <3>1. bucket - ms \in Int /\ - 30000 < bucket - ms /\ bucket - ms <= 30000
      BY <2>4
    <3> DEFINE d == bucket - ms
    <3>2. d \in Int /\ -30000 < d /\ d <= 30000
      BY <3>1
    <3> HIDE DEF d
    <3>3. 2 * d \in Int /\ 1 - FrameBucket <= 2 * d /\ 2 * d <= FrameBucket /\ FrameBucket \in Nat
      BY <3>2 DEF FrameBucket
    <3> QED
      BY <3>3 DEF d
  <2> QED
    BY <2>1, <2>3, <2>4, <2>5, <2>6 DEF bucket
<1> QED
  BY <1>1, <1>2

\* Frames keep their order: of two frames the later is not filed under an earlier
\* bucket.
THEOREM NearestIsMonotone ==
    ASSUME NEW a \in Nat, NEW b \in Nat, a <= b
    PROVE  NearestFrameTimestamp(a) <= NearestFrameTimestamp(b)
<1> DEFINE j == (a + 30000) \div 60000
           k == (b + 30000) \div 60000
<1>1. /\ j \in Nat /\ j * 60000 <= a + 30000 /\ a + 30000 < j * 60000 + 60000
      /\ k \in Nat /\ k * 60000 <= b + 30000 /\ b + 30000 < k * 60000 + 60000
  BY BucketBounds
<1>2. FrameBucket \div 2 = 30000
  BY SMT DEF FrameBucket
<1>3. /\ NearestFrameTimestamp(a) = IF a = 0 THEN 0 ELSE j * 60000
      /\ NearestFrameTimestamp(b) = IF b = 0 THEN 0 ELSE k * 60000
  BY <1>2 DEF NearestFrameTimestamp, FrameBucket
<1> HIDE DEF j, k
<1> QED
  BY <1>1, <1>3

-----------------------------------------------------------------------------
(* Where an event is filed *)

\* The tables with columns of their own and the payload table share the types of
\* the models out among themselves.
LEMMA TypesAreShared ==
    /\ \A t, u \in DOMAIN TypedTable : TypedTable[t] = TypedTable[u] => t = u
    /\ \A t \in DOMAIN TypedTable : TypedTable[t] \notin PayloadTypes
    /\ \A type \in EventTypes :
           type \in PayloadTypes \/ \E t \in DOMAIN TypedTable : TypedTable[t] = type
    /\ "payloadEvents" \notin DOMAIN TypedTable
    /\ DOMAIN DamageTable \cap EventTables = {}
BY DEF TypedTable, PayloadTypes, EventTypes, Required, EventTables, DamageTable

\* Validation keeps an event's type, and every key that its model requires.
LEMMA ValidatedKeeps ==
    ASSUME NEW raw, ValidEvent(raw)
    PROVE  /\ Validated(raw).type \in EventTypes /\ Validated(raw).type = raw.type
           /\ RequiredKeys(raw.type) \subseteq Validated(raw).keys
BY DEF ValidEvent, Validated, KnownKeys

\* A row of a typed table has the columns of the table, whichever of its optional
\* keys the event lacks.
LEMMA TypedRowIsComplete ==
    ASSUME NEW table \in DOMAIN TypedTable, NEW e, e.type = TypedTable[table],
           RequiredKeys(e.type) \subseteq e.keys
    PROVE  TimelineColumns(table) \subseteq TypedKeys(e)
<1>1. BaseKeys \cup Required[e.type] \subseteq e.keys
  BY DEF RequiredKeys
<1> USE <1>1 DEF TypedKeys, TimelineColumns, SplitPosition, Position, RowBase, BaseKeys,
        Defaulted, DamageLists
<1>2. CASE table = "buildingKill"
  <2>1. e.type = "BUILDING_KILL"
    BY <1>2 DEF TypedTable
  <2> QED
    BY <1>2, <2>1 DEF Required
<1>3. CASE table = "championKill"
  <2>1. e.type = "CHAMPION_KILL"
    BY <1>3 DEF TypedTable
  <2> QED
    BY <1>3, <2>1 DEF Required
<1>4. CASE table = "championSpecialKill"
  <2>1. e.type = "CHAMPION_SPECIAL_KILL"
    BY <1>4 DEF TypedTable
  <2> QED
    BY <1>4, <2>1 DEF Required
<1>5. CASE table = "dragonSoulGiven"
  <2>1. e.type = "DRAGON_SOUL_GIVEN"
    BY <1>5 DEF TypedTable
  <2> QED
    BY <1>5, <2>1 DEF Required
<1>6. CASE table = "eliteMonsterKill"
  <2>1. e.type = "ELITE_MONSTER_KILL"
    BY <1>6 DEF TypedTable
  <2> QED
    BY <1>6, <2>1 DEF Required
<1>7. CASE table = "turretPlateDestroyed"
  <2>1. e.type = "TURRET_PLATE_DESTROYED"
    BY <1>7 DEF TypedTable
  <2> QED
    BY <1>7, <2>1 DEF Required
<1> QED
  BY <1>2, <1>3, <1>4, <1>5, <1>6, <1>7 DEF TypedTable

\* Every row of an event has the columns of its table.
LEMMA RowsAreComplete ==
    ASSUME NEW at, NEW bucket, NEW e, e.type \in EventTypes, RequiredKeys(e.type) \subseteq e.keys,
           NEW r \in TypedRows(at, bucket, e) \cup PayloadRows(at, bucket, e)
                       \cup DamageRows(at, bucket, e)
    PROVE  TimelineColumns(r.table) \subseteq r.keys /\ r.event = at /\ r.bucket = bucket
<1>1. CASE r \in TypedRows(at, bucket, e)
  <2>1. PICK table \in DOMAIN TypedTable :
            /\ TypedTable[table] = e.type
            /\ r = Row(table, at, bucket, e, TypedKeys(e), {}, "none", 0)
    BY <1>1 DEF TypedRows
  <2>2. r.table = table /\ r.keys = TypedKeys(e) /\ r.event = at /\ r.bucket = bucket
    BY <2>1 DEF Row
  <2> QED
    BY <2>1, <2>2, TypedRowIsComplete
<1>2. CASE r \in PayloadRows(at, bucket, e)
  <2>1. /\ r.table = "payloadEvents" /\ r.keys = RowBase \cup {"payload"}
        /\ r.event = at /\ r.bucket = bucket
    BY <1>2 DEF PayloadRows, Row
  <2> QED
    BY <2>1 DEF TimelineColumns
<1>3. CASE r \in DamageRows(at, bucket, e)
  <2>1. /\ r.table \in DOMAIN DamageTable
        /\ r.keys = DamageInstance \cup {"matchId", "frame_timestamp", "timestamp",
                                         "direction", "champion_kill_event_id", "idx"}
        /\ r.event = at /\ r.bucket = bucket
    BY <1>3 DEF DamageRows, Row
  <2>2. r.table \in {"championKillVictimDamageDealt", "championKillVictimDamageReceived"}
    BY <2>1 DEF DamageTable
  <2> QED
    BY <2>1, <2>2 DEF TimelineColumns
<1> QED
  BY <1>1, <1>2, <1>3

\* An event has one row in the event tables; its damage rows are in tables of
\* their own.
LEMMA OneEventRow ==
    ASSUME NEW at, NEW bucket, NEW e, e.type \in EventTypes
    PROVE  LET rows == TypedRows(at, bucket, e) \cup PayloadRows(at, bucket, e)
                         \cup DamageRows(at, bucket, e)
           IN  \E r \in rows : /\ r.table \in EventTables
                               /\ \A q \in rows : q.table \in EventTables => q = r
<1> DEFINE rows == TypedRows(at, bucket, e) \cup PayloadRows(at, bucket, e)
                     \cup DamageRows(at, bucket, e)
<1>1. \A q \in DamageRows(at, bucket, e) : q.table \notin EventTables
  <2>1. \A q \in DamageRows(at, bucket, e) : q.table \in DOMAIN DamageTable
    BY DEF DamageRows, Row
  <2> QED
    BY <2>1, TypesAreShared
<1>2. CASE e.type \in PayloadTypes
  <2> DEFINE r == Row("payloadEvents", at, bucket, e, RowBase \cup {"payload"},
                      PayloadKeys(e), "none", 0)
  <2>1. PayloadRows(at, bucket, e) = {r}
    BY <1>2 DEF PayloadRows
  <2>2. TypedRows(at, bucket, e) = {}
    BY <1>2, TypesAreShared DEF TypedRows
  <2>3. r.table \in EventTables
    BY DEF Row, EventTables
  <2> HIDE DEF r
  <2> QED
    BY <1>1, <2>1, <2>2, <2>3
<1>3. ASSUME NEW table \in DOMAIN TypedTable, TypedTable[table] = e.type
      PROVE  \E r \in rows : /\ r.table \in EventTables
                             /\ \A q \in rows : q.table \in EventTables => q = r
  <2> DEFINE r == Row(table, at, bucket, e, TypedKeys(e), {}, "none", 0)
  <2>1. TypedRows(at, bucket, e) = {r}
    BY <1>3, TypesAreShared DEF TypedRows
  <2>2. PayloadRows(at, bucket, e) = {}
    BY <1>3, TypesAreShared DEF PayloadRows
  <2>3. r.table \in EventTables
    BY DEF Row, EventTables
  <2> HIDE DEF r
  <2> QED
    BY <1>1, <2>1, <2>2, <2>3
<1> QED
  BY <1>2, <1>3, TypesAreShared

-----------------------------------------------------------------------------
(* The theorem about the parsers *)

\* A parsed match is one of Matches, and what is stored is what its parsers made.
ParsedInv ==
    Parsed => /\ job \in Matches /\ result.timeline = TimelineRun(job.timeline)
              /\ result.non_timeline = NonTimelineRun(job.non_timeline)

LEMMA ParsedHolds == Spec => []ParsedInv
<1>1. Init => ParsedInv
  BY DEF Init, ParsedInv, Parsed, Pending
<1>2. ASSUME ParsedInv, [Next]_vars PROVE ParsedInv'
  <2>1. CASE Parse
    BY <2>1 DEF Parse, ParsedInv
  <2>2. CASE Plan
    <3>1. PlanRun(job.snap, job.selected).verdict \in {"unknown_group", "cycle", "planned"}
      BY DEF PlanRun
    <3> QED
      BY <2>2, <3>1 DEF Plan, ParsedInv, Parsed
  <2>3. CASE UNCHANGED vars
    BY <1>2, <2>3 DEF vars, ParsedInv, Parsed
  <2> QED
    BY <1>2, <2>1, <2>2, <2>3 DEF Next
<1> QED
  BY <1>1, <1>2, PTL DEF Spec

LEMMA ParsedIsFiled ==
    ASSUME ParsedInv
    PROVE  EventsFiledOnce
<1> SUFFICES ASSUME TimelineParsed PROVE EventsFiledOnce
  BY DEF EventsFiledOnce
<1> DEFINE frames == job.timeline.frames
           rows == result.timeline.rows
<1>0. job \in Matches
  BY DEF TimelineParsed, ParsedInv
<1>1. /\ ValidTimeline(job.timeline)
      /\ rows = UNION {FrameRows(frames[i], i) : i \in DOMAIN frames}
  BY DEF TimelineParsed, ParsedInv, TimelineRun
<1>2. ASSUME NEW i \in DOMAIN frames, NEW j \in DOMAIN frames[i].events
      PROVE  /\ frames[i].time \in Nat
             /\ Validated(frames[i].events[j]).type \in EventTypes
             /\ RequiredKeys(Validated(frames[i].events[j]).type)
                  \subseteq Validated(frames[i].events[j]).keys
  <2>1. ValidEvent(frames[i].events[j]) /\ frames[i].time \in Nat
    BY <1>0, <1>1, PayloadAssumption DEF ValidTimeline, ValidFrame, FramesHaveTimes
  <2> QED
    BY <2>1, ValidatedKeeps
<1>3. ASSUME NEW i \in DOMAIN frames, NEW j \in DOMAIN frames[i].events,
             NEW r \in EventRows(frames[i], i, j)
      PROVE  /\ TimelineColumns(r.table) \subseteq r.keys /\ r.event = <<i, j>>
             /\ r.bucket = NearestFrameTimestamp(frames[i].time)
  <2> DEFINE e == Validated(frames[i].events[j])
             bucket == NearestFrameTimestamp(frames[i].time)
  <2>1. r \in TypedRows(<<i, j>>, bucket, e) \cup PayloadRows(<<i, j>>, bucket, e)
                \cup DamageRows(<<i, j>>, bucket, e)
    BY DEF EventRows
  <2>2. e.type \in EventTypes /\ RequiredKeys(e.type) \subseteq e.keys
    BY <1>2
  <2> HIDE DEF e, bucket
  <2>3. TimelineColumns(r.table) \subseteq r.keys /\ r.event = <<i, j>> /\ r.bucket = bucket
    BY <2>1, <2>2, RowsAreComplete
  <2> QED
    BY <2>3 DEF bucket
<1>4. ASSUME NEW r \in rows
      PROVE  \E i \in DOMAIN frames : \E j \in DOMAIN frames[i].events :
                 r \in EventRows(frames[i], i, j)
  BY <1>1 DEF FrameRows
<1>5. \A r \in rows : TimelineColumns(r.table) \subseteq r.keys
  BY <1>3, <1>4
<1>6. ASSUME NEW at \in Events
      PROVE  \E r \in rows :
                 /\ r.event = at /\ r.table \in EventTables
                 /\ 2 * (r.bucket - job.timeline.frames[at[1]].time)
                      \in (1 - FrameBucket) .. FrameBucket
                 /\ \A q \in rows : q.event = at /\ q.table \in EventTables => q = r
  <2>0. PICK i \in DOMAIN frames : at \in {i} \X DOMAIN frames[i].events
    BY DEF Events
  <2>1. PICK j \in DOMAIN frames[i].events : at = <<i, j>>
    BY <2>0
  <2>2. PICK r \in EventRows(frames[i], i, j) :
            /\ r.table \in EventTables
            /\ \A q \in EventRows(frames[i], i, j) : q.table \in EventTables => q = r
    BY <1>2, OneEventRow DEF EventRows
  <2>3. r \in rows
    BY <1>1 DEF FrameRows
  <2>4. r.event = at /\ r.bucket = NearestFrameTimestamp(frames[at[1]].time)
    BY <1>3, <2>1
  <2>5. 2 * (r.bucket - frames[at[1]].time) \in (1 - FrameBucket) .. FrameBucket
    BY <1>2, <2>1, <2>4, NearestIsWithinHalfABucket
  <2>6. ASSUME NEW q \in rows, q.event = at, q.table \in EventTables PROVE q = r
    <3>0. PICK i2 \in DOMAIN frames :
              \E j2 \in DOMAIN frames[i2].events : q \in EventRows(frames[i2], i2, j2)
      BY <1>4
    <3>1. PICK j2 \in DOMAIN frames[i2].events : q \in EventRows(frames[i2], i2, j2)
      BY <3>0
    <3>2. i2 = i /\ j2 = j
      BY <1>3, <2>1, <2>6, <3>1
    <3> QED
      BY <2>2, <2>6, <3>1, <3>2
  <2> QED
    BY <2>2, <2>3, <2>4, <2>5, <2>6
<1> QED
  BY <1>5, <1>6 DEF EventsFiledOnce

\* Every event of every payload that the models accept is filed once, under its own
\* minute, in rows that have all the columns their tables ask for.
THEOREM EventsAreFiled == Spec => []EventsFiledOnce
BY ParsedHolds, ParsedIsFiled, PTL

-----------------------------------------------------------------------------
(* Why a payload was rejected *)

\* What the drift check says of a frame, or of an event in it, it says of the payload.
LEMMA DriftOfParts ==
    ASSUME NEW raw, raw.frames # Other, NEW i \in DOMAIN raw.frames
    PROVE  /\ FrameDrift(raw.frames[i]) \subseteq TimelineDrift(raw)
           /\ \A j \in DOMAIN raw.frames[i].events :
                raw.frames[i] # Other /\ raw.frames[i].events # Other =>
                  EventDrift(raw.frames[i].events[j]) \subseteq TimelineDrift(raw)
<1>1. FrameDrift(raw.frames[i]) \subseteq TimelineDrift(raw)
  BY DEF TimelineDrift
<1>2. ASSUME NEW j \in DOMAIN raw.frames[i].events,
             raw.frames[i] # Other, raw.frames[i].events # Other
      PROVE  EventDrift(raw.frames[i].events[j]) \subseteq FrameDrift(raw.frames[i])
  BY <1>2 DEF FrameDrift
<1> QED
  BY <1>1, <1>2

\* An event that the models refuse has drifted, or has a value they do not take.
LEMMA RefusedEvent ==
    ASSUME NEW e, ~ ValidEvent(e), e # Other => ~ e.wrong
    PROVE  EventDrift(e) # {}
<1>1. CASE e = Other \/ e.type = Other \/ e.type \notin EventTypes
  BY <1>1 DEF EventDrift
<1>2. CASE e # Other /\ e.type # Other /\ e.type \in EventTypes
  <2>1. PICK k : k \in RequiredKeys(e.type) \ e.keys
    BY <1>2 DEF ValidEvent
  <2>2. <<e.type, "missing_required_key", k>> \in EventDrift(e)
    BY <1>2, <2>1 DEF EventDrift
  <2> QED
    BY <2>2
<1> QED
  BY <1>1, <1>2

LEMMA TimelineRejection ==
    ASSUME NEW raw, TimelineRun(raw).verdict = "rejected"
    PROVE  \/ TimelineDrift(raw) # {}
           \/ ~ raw.head
           \/ \E i \in DOMAIN raw.frames :
                /\ raw.frames[i] # Other
                /\ \/ raw.frames[i].stats \in {Other, Null}
                   \/ /\ raw.frames[i].events # Other
                      /\ \E j \in DOMAIN raw.frames[i].events :
                           LET e == raw.frames[i].events[j]
                           IN  e # Other /\ e.wrong
<1>1. ~ ValidTimeline(raw)
  BY DEF TimelineRun
<1>2. CASE raw.frames = Other
  BY <1>2 DEF TimelineDrift
<1>3. ASSUME raw.frames # Other, NEW i \in DOMAIN raw.frames, ~ ValidFrame(raw.frames[i]),
             TimelineDrift(raw) = {}
      PROVE  /\ raw.frames[i] # Other
             /\ \/ raw.frames[i].stats \in {Other, Null}
                \/ /\ raw.frames[i].events # Other
                   /\ \E j \in DOMAIN raw.frames[i].events :
                        raw.frames[i].events[j] # Other /\ raw.frames[i].events[j].wrong
  <2> DEFINE f == raw.frames[i]
  <2>1. FrameDrift(f) = {}
    BY <1>3, DriftOfParts
  <2>2. f # Other
    BY <2>1 DEF FrameDrift
  <2>3. f.events # Other
    BY <2>1, <2>2 DEF FrameDrift
  <2>4. ASSUME f.stats \notin {Other, Null}
        PROVE  \E j \in DOMAIN f.events : f.events[j] # Other /\ f.events[j].wrong
    <3>1. PICK j \in DOMAIN f.events : ~ ValidEvent(f.events[j])
      BY <1>3, <2>2, <2>3, <2>4 DEF ValidFrame
    <3>2. EventDrift(f.events[j]) = {}
      BY <2>1, <2>2, <2>3 DEF FrameDrift
    <3> QED
      BY <3>1, <3>2, RefusedEvent
  <2> QED
    BY <2>2, <2>3, <2>4
<1> QED
  BY <1>1, <1>2, <1>3 DEF ValidTimeline

\* Every section that may not be missing is on the path to a watched model.
LEMMA SectionIsWatched ==
    ASSUME NEW s \in Sections \ OptionalSections
    PROVE  \E m \in DOMAIN Watched : s \in Watched[m] /\ m # "Feats"
<1>1. PICK m \in DOMAIN Watched : s \in Watched[m]
  BY DEF Sections
<1>2. CASE m = "Feats"
  <2>1. s \in Watched["Ban"] /\ "Ban" \in DOMAIN Watched /\ "Ban" # "Feats"
    BY <1>1, <1>2 DEF Watched, OptionalSections
  <2> QED
    BY <2>1
<1> QED
  BY <1>1, <1>2

LEMMA NonTimelineRejection ==
    ASSUME NEW raw, NonTimelineRun(raw).verdict = "rejected", raw.missing \subseteq Sections
    PROVE  \/ NonTimelineDrift(raw) # {}
           \/ raw.wrong \/ ~ ReadsStyles(raw)
           \/ \E x \in raw.extra : x[1] \in Forbidding \ DOMAIN Watched
<1>1. ~ ValidNonTimeline(raw) \/ ~ ReadsStyles(raw)
  BY DEF NonTimelineRun, NoNonTimelineRows
<1>2. ASSUME ~ (raw.missing \subseteq OptionalSections)
      PROVE  NonTimelineDrift(raw) # {}
  <2>1. PICK s \in Sections \ OptionalSections : s \in raw.missing
    BY <1>2
  <2>2. PICK m \in DOMAIN Watched : s \in Watched[m] /\ m # "Feats"
    BY SectionIsWatched
  <2>3. <<m, "missing_path_segment">> \in NonTimelineDrift(raw)
    BY <2>1, <2>2 DEF NonTimelineDrift
  <2> QED
    BY <2>3
<1>3. ASSUME NEW x \in raw.extra, x[1] \in Forbidding, x[1] \in DOMAIN Watched
      PROVE  NonTimelineDrift(raw) # {}
  <2>1. CASE Watched[x[1]] \cap raw.missing = {}
    <3>1. <<x[1], "unexpected_key">> \in NonTimelineDrift(raw)
      BY <1>3, <2>1 DEF NonTimelineDrift
    <3> QED
      BY <3>1
  <2>2. CASE Watched[x[1]] \cap raw.missing # {}
    <3>1. x[1] # "Feats"
      BY <1>3 DEF Forbidding
    <3>2. <<x[1], "missing_path_segment">> \in NonTimelineDrift(raw)
      BY <1>3, <2>2, <3>1 DEF NonTimelineDrift
    <3> QED
      BY <3>2
  <2> QED
    BY <2>1, <2>2
<1> QED
  BY <1>1, <1>2, <1>3 DEF ValidNonTimeline

\* A rejected payload has been named by the drift check, unless a value or a model
\* that is not watched is the reason: the log of a batch that stops says why.
THEOREM RejectionsAreReported == Spec => []RejectionIsReported
<1>1. ASSUME ParsedInv PROVE RejectionIsReported
  <2> SUFFICES ASSUME Parsed PROVE RejectionIsReported
    BY DEF RejectionIsReported
  <2>1. /\ job \in Matches /\ result.timeline = TimelineRun(job.timeline)
        /\ result.non_timeline = NonTimelineRun(job.non_timeline)
    BY <1>1 DEF ParsedInv
  <2>2. job.non_timeline.missing \subseteq Sections
    BY <2>1, PayloadAssumption DEF SectionsAreKnown
  <2> QED
    BY <2>1, <2>2, TimelineRejection, NonTimelineRejection DEF RejectionIsReported
<1> QED
  BY <1>1, ParsedHolds, PTL

-----------------------------------------------------------------------------
(* What is stored of an event *)

\* The rows of one event, after validation.
RowsOf(at, bucket, e) ==
    TypedRows(at, bucket, e) \cup PayloadRows(at, bucket, e) \cup DamageRows(at, bucket, e)

\* The rows of an accepted timeline are those of its events, and these are valid.
LEMMA RowsAreOfEvents ==
    ASSUME ParsedInv, TimelineParsed
    PROVE  /\ job \in Matches /\ ValidTimeline(job.timeline)
           /\ \A r \in result.timeline.rows : \E at \in Events : \E bucket :
                r \in RowsOf(at, bucket, Validated(Event(at)))
           /\ \A at \in Events : ValidEvent(Event(at)) /\ \E bucket :
                RowsOf(at, bucket, Validated(Event(at))) \subseteq result.timeline.rows
<1> DEFINE frames == job.timeline.frames
<1>1. /\ job \in Matches /\ ValidTimeline(job.timeline)
      /\ result.timeline.rows = UNION {FrameRows(frames[i], i) : i \in DOMAIN frames}
  BY DEF TimelineParsed, ParsedInv, TimelineRun
<1>2. ASSUME NEW i \in DOMAIN frames, NEW j \in DOMAIN frames[i].events
      PROVE  /\ <<i, j>> \in Events /\ Event(<<i, j>>) = frames[i].events[j]
             /\ EventRows(frames[i], i, j)
                  = RowsOf(<<i, j>>, NearestFrameTimestamp(frames[i].time),
                           Validated(frames[i].events[j]))
  BY DEF Events, Event, EventRows, RowsOf
<1>3. ASSUME NEW r \in result.timeline.rows
      PROVE  \E at \in Events : \E bucket : r \in RowsOf(at, bucket, Validated(Event(at)))
  <2>1. PICK i \in DOMAIN frames : r \in FrameRows(frames[i], i)
    BY <1>1
  <2>2. PICK j \in DOMAIN frames[i].events : r \in EventRows(frames[i], i, j)
    BY <2>1 DEF FrameRows
  <2>3. <<i, j>> \in Events
    BY <1>2
  <2>4. r \in RowsOf(<<i, j>>, NearestFrameTimestamp(frames[i].time), Validated(Event(<<i, j>>)))
    BY <1>2, <2>2
  <2> QED
    BY <2>3, <2>4
<1>4. ASSUME NEW at \in Events
      PROVE  ValidEvent(Event(at)) /\ \E bucket :
                 RowsOf(at, bucket, Validated(Event(at))) \subseteq result.timeline.rows
  <2>1. PICK i \in DOMAIN frames : at \in {i} \X DOMAIN frames[i].events
    BY DEF Events
  <2>2. PICK j \in DOMAIN frames[i].events : at = <<i, j>>
    BY <2>1
  <2>3. ValidEvent(frames[i].events[j])
    BY <1>1 DEF ValidTimeline, ValidFrame
  <2>4. EventRows(frames[i], i, j) \subseteq result.timeline.rows
    BY <1>1 DEF FrameRows
  <2> QED
    BY <1>2, <2>2, <2>3, <2>4
<1> QED
  BY <1>1, <1>3, <1>4

\* Rows of kills and damage are made of champion kills, and carry the kill's id.
LEMMA KillRows ==
    ASSUME NEW at, NEW bucket, NEW e, NEW r \in RowsOf(at, bucket, e)
    PROVE  /\ r.event = at /\ r.id = KillId(e)
           /\ r.table \in DOMAIN DamageTable \cup {"championKill"} => e.type = "CHAMPION_KILL"
<1>1. CASE r \in TypedRows(at, bucket, e)
  <2>1. PICK table \in DOMAIN TypedTable :
            /\ TypedTable[table] = e.type
            /\ r = Row(table, at, bucket, e, TypedKeys(e), {}, "none", 0)
    BY <1>1 DEF TypedRows
  <2>2. r.table = table /\ r.event = at /\ r.id = KillId(e)
    BY <2>1 DEF Row
  <2>3. table \in DOMAIN DamageTable \cup {"championKill"} => table = "championKill"
    BY DEF TypedTable, DamageTable
  <2> QED
    BY <2>1, <2>2, <2>3 DEF TypedTable
<1>2. CASE r \in PayloadRows(at, bucket, e)
  <2>1. r.table = "payloadEvents" /\ r.event = at /\ r.id = KillId(e)
    BY <1>2 DEF PayloadRows, Row
  <2> QED
    BY <2>1 DEF DamageTable
<1>3. CASE r \in DamageRows(at, bucket, e)
  BY <1>3 DEF DamageRows, Row
<1> QED
  BY <1>1, <1>2, <1>3 DEF RowsOf

\* The id of a kill tells it from every other kill of its game, so damage is joined
\* with its own kill, also when one player kills several at the same moment.
THEOREM DamageIsJoined == Spec => []DamageJoinsItsKill
<1>1. ASSUME ParsedInv PROVE DamageJoinsItsKill
  <2> SUFFICES ASSUME TimelineParsed,
                      NEW d \in result.timeline.rows, d.table \in DOMAIN DamageTable,
                      NEW k \in result.timeline.rows, k.table = "championKill"
               PROVE  k.id = d.id <=> k.event = d.event
    BY DEF DamageJoinsItsKill
  <2>1. PICK at \in Events : \E bucket : d \in RowsOf(at, bucket, Validated(Event(at)))
    BY <1>1, RowsAreOfEvents
  <2>2. PICK of \in Events : \E bucket : k \in RowsOf(of, bucket, Validated(Event(of)))
    BY <1>1, RowsAreOfEvents
  <2>3. /\ d.event = at /\ d.id = KillId(Validated(Event(at)))
        /\ Validated(Event(at)).type = "CHAMPION_KILL"
    BY <2>1, KillRows
  <2>4. /\ k.event = of /\ k.id = KillId(Validated(Event(of)))
        /\ Validated(Event(of)).type = "CHAMPION_KILL"
    BY <2>2, KillRows
  <2>5. ASSUME k.id = d.id PROVE of = at
    <3>1. ASSUME NEW e
          PROVE  Validated(e).type = e.type /\ KillId(Validated(e)) = <<e.time, e.killer, e.victim>>
      BY DEF Validated, KillId
    <3>2. /\ Event(of).type = "CHAMPION_KILL" /\ Event(at).type = "CHAMPION_KILL"
          /\ Event(of).time = Event(at).time /\ Event(of).victim = Event(at).victim
      <4>1. Event(of).type = "CHAMPION_KILL" /\ Event(at).type = "CHAMPION_KILL"
        BY <2>3, <2>4, <3>1
      <4>2. KillId(Validated(Event(of))) = KillId(Validated(Event(at)))
        BY <2>3, <2>4, <2>5
      <4>3. <<Event(of).time, Event(of).killer, Event(of).victim>>
              = <<Event(at).time, Event(at).killer, Event(at).victim>>
        BY <3>1, <4>2
      <4> QED
        BY <4>1, <4>3
    <3>3. Plausible(job.timeline.frames)
      BY <1>1, RowsAreOfEvents, PayloadAssumption DEF DeathsArePlausible
    <3>4. PICK i \in DOMAIN job.timeline.frames : at \in {i} \X DOMAIN job.timeline.frames[i].events
      BY DEF Events
    <3>5. PICK i2 \in DOMAIN job.timeline.frames : of \in {i2} \X DOMAIN job.timeline.frames[i2].events
      BY DEF Events
    <3>6. PICK j \in DOMAIN job.timeline.frames[i].events : at = <<i, j>>
      BY <3>4
    <3>7. PICK j2 \in DOMAIN job.timeline.frames[i2].events : of = <<i2, j2>>
      BY <3>5
    <3>8. /\ Event(at) = job.timeline.frames[i].events[j]
          /\ Event(of) = job.timeline.frames[i2].events[j2]
      BY <3>6, <3>7 DEF Event
    <3>9. i = i2 /\ j = j2
      <4> DEFINE frames == job.timeline.frames
      <4>1. \A a, b \in DOMAIN frames :
              \A c \in DOMAIN frames[a].events, d2 \in DOMAIN frames[b].events :
                frames[a].events[c].type = "CHAMPION_KILL"
                  /\ frames[b].events[d2].type = "CHAMPION_KILL"
                  /\ frames[a].events[c].time = frames[b].events[d2].time
                  /\ frames[a].events[c].victim = frames[b].events[d2].victim => a = b /\ c = d2
        BY <3>3 DEF Plausible
      <4> HIDE DEF frames
      <4>2. /\ i \in DOMAIN frames /\ i2 \in DOMAIN frames
            /\ j \in DOMAIN frames[i].events /\ j2 \in DOMAIN frames[i2].events
        BY <3>4, <3>6, <3>7 DEF frames
      <4>3. Event(at) = frames[i].events[j] /\ Event(of) = frames[i2].events[j2]
        BY <3>8 DEF frames
      <4> QED
        BY <3>2, <4>1, <4>2, <4>3
    <3> QED
      BY <3>6, <3>7, <3>9
  <2> QED
    BY <2>3, <2>4, <2>5
<1> QED
  BY <1>1, ParsedHolds, PTL

\* The keys that only one model, or few, know.
LEMMA KeysOfModels ==
    ASSUME NEW type \in EventTypes, NEW k \in KnownKeys(type)
    PROVE  /\ k \in DamageLists => type = "CHAMPION_KILL"
           /\ k = "gameId" => type = "GAME_END"
<1> USE DEF KnownKeys, RequiredKeys, BaseKeys, DamageLists
<1>1. k \in Required[type] => k \notin DamageLists /\ k # "gameId"
  BY DEF EventTypes, Required
<1>2. k \in Optional(type) =>
        (k \in DamageLists => type = "CHAMPION_KILL") /\ (k = "gameId" => type = "GAME_END")
  BY DEF Optional
<1> QED
  BY <1>1, <1>2

\* What a model with a table of its own knows, the table has a column for, but for
\* the damage lists; a position has two.
LEMMA KnownIsAColumn ==
    ASSUME NEW table \in DOMAIN TypedTable, NEW k \in KnownKeys(TypedTable[table]) \ DamageLists
    PROVE  \/ k \in TimelineColumns(table) /\ k # "position"
           \/ k = "position" /\ Position \subseteq TimelineColumns(table)
<1> DEFINE type == TypedTable[table]
<1>1. k \in BaseKeys \cup Required[type] \cup (Optional(type) \ DamageLists)
  BY DEF KnownKeys, RequiredKeys
<1>2. CASE k \in BaseKeys
  <2>1. k \in TimelineColumns(table) /\ k # "position"
    BY <1>2 DEF BaseKeys, TimelineColumns, RowBase, TypedTable
  <2> QED
    BY <2>1
<1> USE DEF TimelineColumns, RowBase, Position, DamageLists
<1>3. CASE table = "buildingKill"
  <2>1. type = "BUILDING_KILL"
    BY <1>3 DEF TypedTable
  <2> QED
    BY <1>1, <1>2, <1>3, <2>1 DEF Required, Optional
<1>4. CASE table = "championKill"
  <2>1. type = "CHAMPION_KILL"
    BY <1>4 DEF TypedTable
  <2> QED
    BY <1>1, <1>2, <1>4, <2>1 DEF Required, Optional
<1>5. CASE table = "championSpecialKill"
  <2>1. type = "CHAMPION_SPECIAL_KILL"
    BY <1>5 DEF TypedTable
  <2> QED
    BY <1>1, <1>2, <1>5, <2>1 DEF Required, Optional
<1>6. CASE table = "dragonSoulGiven"
  <2>1. type = "DRAGON_SOUL_GIVEN"
    BY <1>6 DEF TypedTable
  <2> QED
    BY <1>1, <1>2, <1>6, <2>1 DEF Required, Optional
<1>7. CASE table = "eliteMonsterKill"
  <2>1. type = "ELITE_MONSTER_KILL"
    BY <1>7 DEF TypedTable
  <2> QED
    BY <1>1, <1>2, <1>7, <2>1 DEF Required, Optional
<1>8. CASE table = "turretPlateDestroyed"
  <2>1. type = "TURRET_PLATE_DESTROYED"
    BY <1>8 DEF TypedTable
  <2> QED
    BY <1>1, <1>2, <1>8, <2>1 DEF Required, Optional
<1> QED
  BY <1>3, <1>4, <1>5, <1>6, <1>7, <1>8 DEF TypedTable

\* A key of an event that goes to a table of its own is in the event's row.
LEMMA TypedKeyIsStored ==
    ASSUME NEW at, NEW bucket, NEW e, NEW table \in DOMAIN TypedTable, TypedTable[table] = e.type,
           NEW k \in (e.keys \cap KnownKeys(e.type)) \ DamageLists
    PROVE  \E r \in RowsOf(at, bucket, e) : k \in StoredKeys(r)
<1> DEFINE r == Row(table, at, bucket, e, TypedKeys(e), {}, "none", 0)
<1>1. r \in RowsOf(at, bucket, e) /\ r.keys = TypedKeys(e) /\ r.table = table
  BY DEF RowsOf, TypedRows, Row
<1> HIDE DEF r
<1>2. CASE k # "position"
  <2>1. k \in TimelineColumns(table)
    BY <1>2, KnownIsAColumn
  <2>2. k \in TypedKeys(e)
    BY <1>2 DEF TypedKeys, SplitPosition
  <2> QED
    BY <1>1, <2>1, <2>2 DEF StoredKeys
<1>3. CASE k = "position"
  <2>1. Position \subseteq TimelineColumns(table)
    BY <1>3, KnownIsAColumn
  <2>2. Position \subseteq TypedKeys(e)
    BY <1>3 DEF TypedKeys, SplitPosition
  <2>3. k \in StoredKeys(r)
    BY <1>1, <1>3, <2>1, <2>2 DEF StoredKeys
  <2> QED
    BY <1>1, <2>3
<1> QED
  BY <1>2, <1>3

\* A key of an event that goes to the payload table is in its payload, or is a column.
LEMMA PayloadKeyIsStored ==
    ASSUME NEW at, NEW bucket, NEW e, e.type \in PayloadTypes, NEW k \in e.keys, k # "gameId"
    PROVE  \E r \in RowsOf(at, bucket, e) : k \in StoredKeys(r)
<1> DEFINE r == Row("payloadEvents", at, bucket, e, RowBase \cup {"payload"}, PayloadKeys(e),
                    "none", 0)
<1>1. /\ r \in RowsOf(at, bucket, e) /\ r.keys = RowBase \cup {"payload"}
      /\ r.table = "payloadEvents" /\ r.payload = PayloadKeys(e)
  BY DEF RowsOf, PayloadRows, Row
<1> HIDE DEF r
<1>2. k \in PayloadKeys(e) \cup (RowBase \cap TimelineColumns("payloadEvents"))
  BY DEF PayloadKeys, RowBase, BaseKeys, TimelineColumns
<1> QED
  BY <1>1, <1>2 DEF StoredKeys

\* A damage list that is not empty, and that no other name shadows, is in the damage
\* rows.
LEMMA DamageListIsStored ==
    ASSUME NEW at, NEW bucket, NEW e, e.type = "CHAMPION_KILL", NEW k \in e.keys \cap DamageLists,
           e.damage[k] \in Nat \ {0},
           \A t \in DOMAIN DamageTable : DamageTable[t].alias = k => DamageTable[t].key \notin e.keys
    PROVE  \E r \in RowsOf(at, bucket, e) : k \in StoredKeys(r)
<1>1. PICK t \in DOMAIN DamageTable : k \in {DamageTable[t].key, DamageTable[t].alias}
  BY DEF DamageLists, DamageTable
<1>2. DamageList(e, DamageTable[t]) = k
  BY <1>1 DEF DamageList
<1> DEFINE keys == DamageInstance \cup {"matchId", "frame_timestamp", "timestamp", "direction",
                                        "champion_kill_event_id", "idx"}
           r == Row(t, at, bucket, e, keys, {}, k, 1)
<1>3. 1 \in 1 .. e.damage[k]
  OBVIOUS
<1>4. r \in DamageRows(at, bucket, e)
  BY <1>2, <1>3 DEF DamageRows
<1>5. r.list = k
  BY DEF Row
<1> HIDE DEF r
<1> QED
  BY <1>4, <1>5 DEF RowsOf, StoredKeys

\* The theorem for one event: each of its keys is stored, given up on purpose, or
\* named by the drift check.
LEMMA KeyIsKept ==
    ASSUME NEW raw, ValidEvent(raw), NEW at, NEW bucket, NEW k \in raw.keys,
           \A d \in DamageLists : raw.damage[d] \in Nat
    PROVE  \/ \E r \in RowsOf(at, bucket, Validated(raw)) : k \in StoredKeys(r)
           \/ k \in DamageLists /\ raw.damage[k] = 0
           \/ k \in DamageLists /\ \E t \in DOMAIN DamageTable :
                DamageTable[t].alias = k /\ DamageTable[t].key \in raw.keys
           \/ k = "gameId" /\ raw.type = "GAME_END"
           \/ <<raw.type, "unexpected_key", k>> \in EventDrift(raw)
<1> DEFINE e == Validated(raw)
<1>1. /\ raw # Other /\ raw.type \in EventTypes /\ raw.type # Other
  BY OtherAssumption DEF ValidEvent
<1>2. /\ e.type = raw.type /\ e.damage = raw.damage
      /\ e.keys = raw.keys \cap KnownKeys(raw.type)
  BY <1>1 DEF Validated
<1> HIDE DEF e
<1>3. CASE k \notin KnownKeys(raw.type)
  BY <1>1, <1>3 DEF EventDrift
<1>4. CASE k \in KnownKeys(raw.type) /\ k \in DamageLists
  <2>1. raw.type = "CHAMPION_KILL"
    BY <1>1, <1>4, KeysOfModels
  <2>2. raw.damage[k] \in Nat
    BY <1>4
  <2> QED
    BY <1>2, <1>4, <2>1, <2>2, DamageListIsStored DEF e
<1>5. CASE k \in KnownKeys(raw.type) /\ k \notin DamageLists /\ raw.type \in PayloadTypes
  <2>1. k = "gameId" => raw.type = "GAME_END"
    BY <1>1, <1>5, KeysOfModels
  <2> QED
    BY <1>2, <1>5, <2>1, PayloadKeyIsStored DEF e
<1>6. CASE k \in KnownKeys(raw.type) /\ k \notin DamageLists /\ raw.type \notin PayloadTypes
  <2>1. PICK table \in DOMAIN TypedTable : TypedTable[table] = raw.type
    BY <1>1, <1>6, TypesAreShared
  <2> QED
    BY <1>2, <1>6, <2>1, TypedKeyIsStored DEF e
<1> QED
  BY <1>3, <1>4, <1>5, <1>6

\* No key of an accepted event disappears without a trace: it is stored, given up on
\* purpose, or named by the drift check.
THEOREM NothingIsLost == Spec => []NothingLostSilently
<1>1. ASSUME ParsedInv PROVE NothingLostSilently
  <2> SUFFICES ASSUME TimelineParsed PROVE NothingLostSilently
    BY DEF NothingLostSilently
  <2> SUFFICES ASSUME NEW at \in Events, NEW k \in Event(at).keys
               PROVE  \/ \E r \in result.timeline.rows : r.event = at /\ k \in StoredKeys(r)
                      \/ k \in DamageLists /\ Event(at).damage[k] = 0
                      \/ k \in DamageLists /\ \E t \in DOMAIN DamageTable :
                           DamageTable[t].alias = k /\ DamageTable[t].key \in Event(at).keys
                      \/ k = "gameId" /\ Event(at).type = "GAME_END"
                      \/ <<Event(at).type, "unexpected_key", k>> \in TimelineDrift(job.timeline)
    BY DEF NothingLostSilently
  <2>1. job \in Matches /\ ValidTimeline(job.timeline) /\ ValidEvent(Event(at))
    BY <1>1, RowsAreOfEvents
  <2>2. PICK bucket : RowsOf(at, bucket, Validated(Event(at))) \subseteq result.timeline.rows
    BY <1>1, RowsAreOfEvents
  <2>3. PICK i \in DOMAIN job.timeline.frames : at \in {i} \X DOMAIN job.timeline.frames[i].events
    BY DEF Events
  <2>4. PICK j \in DOMAIN job.timeline.frames[i].events : at = <<i, j>>
    BY <2>3
  <2>5. Event(at) = job.timeline.frames[i].events[j]
    BY <2>4 DEF Event
  <2>6. \A d \in DamageLists : Event(at).damage[d] \in Nat
    BY <2>1, <2>4, <2>5, PayloadAssumption DEF FramesHaveTimes
  <2>7. EventDrift(Event(at)) \subseteq TimelineDrift(job.timeline)
    <3>1. ValidFrame(job.timeline.frames[i]) /\ job.timeline.frames # Other
      BY <2>1 DEF ValidTimeline
    <3> QED
      BY <2>4, <2>5, <3>1, DriftOfParts DEF ValidFrame
  <2>8. \A r \in RowsOf(at, bucket, Validated(Event(at))) : r.event = at
    BY KillRows
  <2> QED
    BY <2>1, <2>2, <2>6, <2>7, <2>8, KeyIsKept
<1> QED
  BY <1>1, ParsedHolds, PTL

-----------------------------------------------------------------------------
(* The key of a perk page *)

\* What Bit is defined by.
LEMMA BitIs ==
    /\ Bit \in [Nat -> Nat \ {0}] /\ Bit[0] = 1
    /\ \A n \in Nat : Bit[n + 1] = 2 * Bit[n]
<1> DEFINE S == Nat \ {0}
           step == [p \in S \X Nat |-> 2 * p[1]]
           Defines(f) == f = [n \in Nat |-> IF n = 0 THEN 1 ELSE 2 * f[n - 1]]
<1>1. step \in [S \X Nat -> S] /\ 1 \in S
  OBVIOUS
<1>2. PICK f : DefinedBy(f, S, 1, step)
  <2> HIDE DEF S, step
  <2> QED
    BY <1>1, Recursion
<1>3. /\ f \in [Nat -> S] /\ f[0] = 1
      /\ \A n \in Nat \ {0} : f[n] = step[<<f[n - 1], n>>]
  BY <1>2 DEF DefinedBy
<1>4. ASSUME NEW n \in Nat \ {0} PROVE f[n] = 2 * f[n - 1]
  <2>1. n - 1 \in Nat
    OBVIOUS
  <2>2. f[n - 1] \in S
    BY <1>3, <2>1
  <2>3. <<f[n - 1], n>> \in S \X Nat
    BY <2>2
  <2> QED
    BY <1>3, <2>3
<1>5. Defines(f)
  <2>1. \A n \in Nat : f[n] = IF n = 0 THEN 1 ELSE 2 * f[n - 1]
    BY <1>3, <1>4
  <2> QED
    BY <1>3, <2>1
<1>6. Defines(Bit)
  <2>1. Bit = CHOOSE g : Defines(g)
    BY DEF Bit
  <2> HIDE DEF Defines
  <2> QED
    BY <1>5, <2>1
<1>7. \A n \in Nat : Bit[n] = IF n = 0 THEN 1 ELSE 2 * Bit[n - 1]
  BY <1>6
<1>8. ASSUME NEW n \in Nat PROVE Bit[n + 1] = 2 * Bit[n]
  <2>1. n + 1 \in Nat /\ n + 1 # 0 /\ (n + 1) - 1 = n
    OBVIOUS
  <2> QED
    BY <1>7, <2>1
<1>9. Bit[0] = 1
  BY <1>7
<1>10. \A n \in Nat : Bit[n] \in Nat \ {0}
  <2> DEFINE I == {n \in Nat : Bit[n] \in Nat \ {0}}
  <2>1. 0 \in I
    BY <1>9
  <2>2. ASSUME NEW n \in Nat, n \in I PROVE n + 1 \in I
    BY <1>8, <2>2
  <2> HIDE DEF I
  <2>3. \A n \in Nat : n \in I
    BY <2>1, <2>2, AllOfThem
  <2> QED
    BY <2>3 DEF I
<1>11. Bit = [n \in Nat |-> Bit[n]]
  <2> DEFINE g == [n \in Nat |-> IF n = 0 THEN 1 ELSE 2 * Bit[n - 1]]
  <2>1. Bit = g
    BY <1>6
  <2>2. g = [n \in Nat |-> g[n]]
    OBVIOUS
  <2> HIDE DEF g
  <2> QED
    BY <2>1, <2>2
<1> QED
  BY <1>8, <1>9, <1>10, <1>11

\* To shift twice is to shift by the sum.
LEMMA BitSum ==
    ASSUME NEW a \in Nat, NEW b \in Nat
    PROVE  Bit[a + b] = Bit[a] * Bit[b]
<1> DEFINE I == {n \in Nat : Bit[n + b] = Bit[n] * Bit[b]}
<1>0. \A n \in Nat : Bit[n] \in Nat
  BY BitIs
<1>1. 0 \in I
  <2>1. 0 + b = b /\ Bit[b] \in Nat
    BY <1>0
  <2>2. 1 * Bit[b] = Bit[b]
    BY <2>1
  <2> QED
    BY <2>1, <2>2, BitIs
<1>2. ASSUME NEW n \in Nat, n \in I PROVE n + 1 \in I
  <2>1. (n + 1) + b = (n + b) + 1 /\ n + b \in Nat
    OBVIOUS
  <2>2. Bit[(n + 1) + b] = 2 * Bit[n + b] /\ Bit[n + 1] = 2 * Bit[n]
    BY <2>1, BitIs
  <2>3. ASSUME NEW x \in Nat, NEW y \in Nat PROVE 2 * (x * y) = (2 * x) * y
    OBVIOUS
  <2>4. 2 * (Bit[n] * Bit[b]) = (2 * Bit[n]) * Bit[b]
    BY <1>0, <2>3
  <2> QED
    BY <1>2, <2>2, <2>4
<1> HIDE DEF I
<1>3. a \in I
  BY <1>1, <1>2, AllOfThem
<1> QED
  BY <1>3 DEF I

\* How many ids fit a place.
Width == Bit[PerkBits]

\* Every place is as many times the one before as ids fit it.
LEMMA Places ==
    /\ Width \in Nat \ {0} /\ Place(1) = 1
    /\ \A i \in Nat \ {0} : Place(i) \in Nat \ {0} /\ Place(i + 1) = Width * Place(i)
<1>1. PerkBits \in Nat
  BY PerkAssumption
<1>2. Width \in Nat \ {0}
  BY <1>1, BitIs DEF Width
<1>3. Place(1) = 1
  <2>1. PerkBits * (1 - 1) = 0
    BY <1>1
  <2> QED
    BY <2>1, BitIs DEF Place
<1>4. ASSUME NEW i \in Nat \ {0}
      PROVE  Place(i) \in Nat \ {0} /\ Place(i + 1) = Width * Place(i)
  <2> DEFINE n == PerkBits * (i - 1)
  <2>1. n \in Nat
    <3>1. ASSUME NEW x \in Nat, NEW y \in Nat PROVE x * y \in Nat
      OBVIOUS
    <3>2. i - 1 \in Nat
      OBVIOUS
    <3> QED
      BY <1>1, <3>1, <3>2
  <2>2. PerkBits * ((i + 1) - 1) = PerkBits + n
    BY <1>1
  <2> HIDE DEF n
  <2>3. Bit[PerkBits + n] = Width * Bit[n]
    BY <1>1, <2>1, BitSum DEF Width
  <2>4. Place(i) = Bit[n] /\ Place(i + 1) = Bit[PerkBits + n]
    BY <2>2 DEF Place, n
  <2> QED
    BY <2>1, <2>3, <2>4, BitIs
<1> QED
  BY <1>2, <1>3, <1>4

\* f holds the sums of the first perks, each at its place.
Sums(f, perks) ==
    /\ f \in [0 .. Len(perks) -> Nat] /\ f[0] = 0
    /\ \A n \in 1 .. Len(perks) : f[n] = f[n - 1] + perks[n] * Place(n)
    /\ ComboKey(perks) = f[Len(perks)]

LEMMA ComboIs ==
    ASSUME NEW perks \in Seq(Nat)
    PROVE  \E f : Sums(f, perks)
<1> DEFINE L == Len(perks)
           add == [n \in Nat |-> IF n \in 1 .. L THEN perks[n] * Place(n) ELSE 0]
           step == [p \in Nat \X Nat |-> p[1] + add[p[2]]]
           Defines(f) == f = [n \in 0 .. L |-> IF n = 0 THEN 0 ELSE f[n - 1] + perks[n] * Place(n)]
<1>1. L \in Nat /\ \A n \in 1 .. L : perks[n] \in Nat
  OBVIOUS
<1>2. \A n \in Nat : add[n] \in Nat
  <2>1. ASSUME NEW n \in 1 .. L PROVE perks[n] * Place(n) \in Nat
    <3>0. n \in Nat \ {0}
      BY <1>1
    <3>1. perks[n] \in Nat /\ Place(n) \in Nat
      BY <1>1, <3>0, Places
    <3>2. ASSUME NEW x \in Nat, NEW y \in Nat PROVE x * y \in Nat
      OBVIOUS
    <3> QED
      BY <3>1, <3>2
  <2> HIDE DEF L
  <2> QED
    BY <2>1
<1> HIDE DEF L
<1>3. step \in [Nat \X Nat -> Nat]
  <2> HIDE DEF add
  <2>1. ASSUME NEW p \in Nat \X Nat PROVE p[1] + add[p[2]] \in Nat
    BY <1>2
  <2> QED
    BY <2>1
<1>4. PICK f : Follows(f, L, Nat, 0, step)
  <2> HIDE DEF step
  <2> QED
    BY <1>1, <1>3, FollowsExists
<1>5. /\ f \in [0 .. L -> Nat] /\ f[0] = 0
      /\ \A n \in 1 .. L : f[n] = step[<<f[n - 1], n>>]
  BY <1>4 DEF Follows
<1>6. ASSUME NEW n \in 1 .. L PROVE f[n] = f[n - 1] + perks[n] * Place(n)
  <2>1. n \in Nat /\ n - 1 \in 0 .. L
    BY <1>1
  <2>2. f[n - 1] \in Nat
    BY <1>5, <2>1
  <2>3. step[<<f[n - 1], n>>] = f[n - 1] + add[n]
    BY <2>1, <2>2
  <2>4. add[n] = perks[n] * Place(n)
    BY <2>1
  <2> QED
    BY <1>5, <2>3, <2>4
<1> HIDE DEF step, add
<1>7. Defines(f)
  <2>1. \A n \in 0 .. L : n # 0 => n \in 1 .. L
    BY <1>1
  <2>2. \A n \in 0 .. L : f[n] = IF n = 0 THEN 0 ELSE f[n - 1] + perks[n] * Place(n)
    BY <1>5, <1>6, <2>1
  <2> QED
    BY <1>5, <2>2
<1> DEFINE g == CHOOSE h : Defines(h)
<1>8. ComboKey(perks) = g[L]
  BY DEF ComboKey, L
<1>9. Defines(g)
  <2> HIDE DEF Defines
  <2> QED
    BY <1>7
<1> HIDE DEF g
<1>10. \A n \in 0 .. L : g[n] = IF n = 0 THEN 0 ELSE g[n - 1] + perks[n] * Place(n)
  BY <1>9
<1>11. \A n \in Nat : n \in 0 .. L => g[n] = f[n]
  <2> DEFINE I == {n \in Nat : n \in 0 .. L => g[n] = f[n]}
  <2>1. 0 \in I
    BY <1>1, <1>5, <1>10
  <2>2. ASSUME NEW n \in Nat, n \in I PROVE n + 1 \in I
    <3> SUFFICES ASSUME n + 1 \in 0 .. L PROVE g[n + 1] = f[n + 1]
      OBVIOUS
    <3>1. n \in 0 .. L /\ n + 1 \in 1 .. L /\ (n + 1) - 1 = n /\ n + 1 # 0
      BY <1>1
    <3>2. g[n + 1] = g[n] + perks[n + 1] * Place(n + 1)
      BY <1>10, <3>1
    <3>3. f[n + 1] = f[n] + perks[n + 1] * Place(n + 1)
      BY <1>6, <3>1
    <3> QED
      BY <2>2, <3>1, <3>2, <3>3
  <2> HIDE DEF I
  <2>3. \A n \in Nat : n \in I
    BY <2>1, <2>2, AllOfThem
  <2> QED
    BY <2>3 DEF I
<1>12. ComboKey(perks) = f[L]
  <2>1. L \in 0 .. L
    BY <1>1
  <2> QED
    BY <1>1, <1>8, <1>11, <2>1
<1>13. Sums(f, perks)
  BY <1>5, <1>6, <1>12 DEF Sums, L
<1> QED
  BY <1>13

\* The elements of a sequence.
LEMMA Elements ==
    ASSUME NEW S, NEW s \in Seq(S)
    PROVE  Len(s) \in Nat /\ DOMAIN s = 1 .. Len(s) /\ \A i \in 1 .. Len(s) : s[i] \in S
OBVIOUS

LEMMA WiderElements ==
    ASSUME NEW S, NEW T, S \subseteq T, NEW s \in Seq(S)
    PROVE  s \in Seq(T)
OBVIOUS

\* The first n perks add up to less than the next place.
LEMMA SumsFit ==
    ASSUME NEW perks \in Seq(0 .. (Width - 1)), NEW f, Sums(f, perks)
    PROVE  \A n \in 0 .. Len(perks) : f[n] < Place(n + 1)
<1> DEFINE L == Len(perks)
           I == {n \in Nat : n \in 0 .. L => f[n] < Place(n + 1)}
<1>0. Width \in Nat \ {0} /\ L \in Nat /\ \A n \in 1 .. L : perks[n] \in 0 .. (Width - 1)
  <2> DEFINE ids == 0 .. (Width - 1)
  <2>1. perks \in Seq(ids)
    OBVIOUS
  <2> HIDE DEF ids
  <2>2. Len(perks) \in Nat /\ \A n \in 1 .. Len(perks) : perks[n] \in ids
    BY <2>1, Elements
  <2> QED
    BY <2>2, Places DEF ids
<1>1. 0 \in I
  BY Places DEF Sums
<1>2. ASSUME NEW n \in Nat, n \in I PROVE n + 1 \in I
  <2> SUFFICES ASSUME n + 1 \in 0 .. L PROVE f[n + 1] < Place((n + 1) + 1)
    OBVIOUS
  <2>1. n \in 0 .. L /\ n + 1 \in 1 .. L /\ (n + 1) - 1 = n /\ n + 1 \in Nat \ {0}
    BY <1>0
  <2>2. f[n] < Place(n + 1) /\ f[n] \in Nat
    BY <1>2, <2>1 DEF Sums
  <2>3. f[n + 1] = f[n] + perks[n + 1] * Place(n + 1)
    BY <2>1 DEF Sums
  <2>4. Place(n + 1) \in Nat \ {0} /\ Place((n + 1) + 1) = Width * Place(n + 1)
    BY <2>1, Places
  <2>5. ASSUME NEW W \in Nat, NEW P \in Nat, NEW d \in 0 .. (W - 1), NEW r \in Nat, r < P
        PROVE  r + d * P < W * P
    <3>1. (W - d) * P = W * P - d * P /\ W * P \in Int /\ d * P \in Int
      OBVIOUS
    <3>2. W - d \in Nat /\ W - d >= 1
      OBVIOUS
    <3>3. ASSUME NEW x \in Nat, x >= 1 PROVE x * P >= P
      BY <3>3
    <3>4. (W - d) * P >= P
      BY <3>2, <3>3
    <3> QED
      BY <2>5, <3>1, <3>4
  <2>6. perks[n + 1] \in 0 .. (Width - 1)
    BY <1>0, <2>1
  <2>7. f[n] + perks[n + 1] * Place(n + 1) < Width * Place(n + 1)
    BY <1>0, <2>2, <2>4, <2>5, <2>6
  <2> QED
    BY <2>3, <2>4, <2>7
<1> HIDE DEF I
<1>3. \A n \in Nat : n \in I
  BY <1>1, <1>2, AllOfThem
<1> QED
  BY <1>3 DEF I

\* Two lists of as many perks have the same key if and only if they are the same: the
\* key stands for the perks and their places.
THEOREM KeyTellsThePerks ==
    ASSUME NEW p \in Seq(0 .. (Width - 1)), NEW q \in Seq(0 .. (Width - 1)), Len(p) = Len(q)
    PROVE  ComboKey(p) = ComboKey(q) <=> p = q
<1> SUFFICES ASSUME ComboKey(p) = ComboKey(q) PROVE p = q
  OBVIOUS
<1> DEFINE L == Len(p)
<1>0. Width \in Nat \ {0} /\ L \in Nat /\ p \in Seq(Nat) /\ q \in Seq(Nat)
  <2>1. Width \in Nat \ {0}
    BY Places
  <2> DEFINE ids == 0 .. (Width - 1)
  <2>2. ids \subseteq Nat
    BY <2>1
  <2>3. p \in Seq(ids) /\ q \in Seq(ids)
    OBVIOUS
  <2> HIDE DEF ids
  <2>4. p \in Seq(Nat) /\ q \in Seq(Nat)
    BY <2>2, <2>3, WiderElements
  <2> QED
    BY <2>1, <2>4
<1>1. PICK f : Sums(f, p)
  BY <1>0, ComboIs
<1>2. PICK g : Sums(g, q)
  BY <1>0, ComboIs
<1> DEFINE I == {n \in Nat : n \in 0 .. L /\ f[n] = g[n] => \A i \in 1 .. n : p[i] = q[i]}
<1>3. 0 \in I
  OBVIOUS
<1>4. ASSUME NEW n \in Nat, n \in I PROVE n + 1 \in I
  <2> SUFFICES ASSUME n + 1 \in 0 .. L, f[n + 1] = g[n + 1], NEW i \in 1 .. n + 1 PROVE p[i] = q[i]
    OBVIOUS
  <2>1. n \in 0 .. L /\ n + 1 \in 1 .. L /\ (n + 1) - 1 = n /\ n + 1 \in Nat \ {0}
    BY <1>0
  <2>2. f[n] \in Nat /\ f[n + 1] = f[n] + p[n + 1] * Place(n + 1)
    BY <1>1, <2>1 DEF Sums
  <2>3. g[n] \in Nat /\ g[n + 1] = g[n] + q[n + 1] * Place(n + 1)
    BY <1>2, <2>1 DEF Sums
  <2>4. f[n] < Place(n + 1)
    BY <1>1, <2>1, SumsFit
  <2>5. g[n] < Place(n + 1)
    BY <1>2, <2>1, SumsFit
  <2>6. Place(n + 1) \in Nat
    BY <2>1, Places
  <2>7. p[n + 1] \in Nat /\ q[n + 1] \in Nat
    BY <1>0, <2>1
  <2>8. p[n + 1] = q[n + 1] /\ f[n] = g[n]
    <3>1. f[n] + p[n + 1] * Place(n + 1) = g[n] + q[n + 1] * Place(n + 1)
      BY <2>2, <2>3
    <3> DEFINE P == Place(n + 1)
               a == p[n + 1]
               b == q[n + 1]
               r == f[n]
               s == g[n]
    <3>2. /\ P \in Nat /\ a \in Nat /\ b \in Nat /\ r \in Nat /\ s \in Nat
          /\ r < P /\ s < P /\ r + a * P = s + b * P
      BY <2>2, <2>3, <2>4, <2>5, <2>6, <2>7, <3>1
    <3> HIDE DEF P, a, b, r, s
    <3>3. a = b
      <4>1. (a - b) * P = a * P - b * P /\ (b - a) * P = b * P - a * P
            /\ a * P \in Int /\ b * P \in Int
        BY <3>2
      <4>2. ASSUME NEW x \in Nat, x >= 1 PROVE x * P >= P
        BY <3>2, <4>2
      <4>3. CASE a > b
        <5>1. (a - b) * P >= P
          BY <3>2, <4>2, <4>3
        <5> QED
          BY <3>2, <4>1, <5>1
      <4>4. CASE b > a
        <5>1. (b - a) * P >= P
          BY <3>2, <4>2, <4>4
        <5> QED
          BY <3>2, <4>1, <5>1
      <4> QED
        BY <3>2, <4>3, <4>4
    <3>4. r = s
      BY <3>2, <3>3
    <3> QED
      BY <3>3, <3>4 DEF a, b, r, s
  <2>9. \A k \in 1 .. n : p[k] = q[k]
    BY <1>4, <2>1, <2>8
  <2>10. i = n + 1 \/ i \in 1 .. n
    OBVIOUS
  <2> QED
    BY <2>8, <2>9, <2>10
<1> HIDE DEF I
<1>5. L \in I
  BY <1>0, <1>3, <1>4, AllOfThem
<1>6. f[L] = g[L] /\ L \in 0 .. L
  <2>1. f[L] = ComboKey(p) /\ g[L] = ComboKey(q)
    BY <1>1, <1>2 DEF Sums
  <2> QED
    BY <1>0, <2>1
<1>7. \A i \in 1 .. L : p[i] = q[i]
  BY <1>5, <1>6 DEF I
<1> QED
  BY <1>7

-----------------------------------------------------------------------------
(* The rows of perk pages *)

\* The style that counts is one of the page's, if it has one of the description.
LEMMA StyleIs ==
    ASSUME NEW S, NEW p, p.styles \in Seq(S), NEW d, HasStyle(p, d)
    PROVE  Style(p, d) \in S
<1> DEFINE n == Len(p.styles)
           of == {s \in DOMAIN p.styles : p.styles[s].description = d}
           I == {n - s : s \in of}
<1>1. n \in Nat /\ DOMAIN p.styles = 1 .. n /\ \A s \in 1 .. n : p.styles[s] \in S
  OBVIOUS
<1>2. of \subseteq 1 .. n /\ of # {}
  BY <1>1 DEF HasStyle
<1> HIDE DEF n, of
<1>3. I \subseteq Nat /\ I # {}
  <2>1. ASSUME NEW s \in of PROVE n - s \in Nat
    <3>1. s \in 1 .. n
      BY <1>2
    <3> QED
      BY <1>1, <3>1
  <2> QED
    BY <1>2, <2>1
<1>4. PICK x \in I : \A y \in I : x <= y
  <2> HIDE DEF I
  <2> QED
    BY <1>3, LeastOne
<1>5. PICK s \in of : x = n - s
  OBVIOUS
<1>6. \A r \in of : r <= s
  <2> SUFFICES ASSUME NEW r \in of PROVE r <= s
    OBVIOUS
  <2>1. n - s <= n - r
    BY <1>4, <1>5
  <2>2. r \in 1 .. n /\ s \in 1 .. n
    BY <1>2
  <2> QED
    BY <1>1, <2>1, <2>2
<1> DEFINE top == CHOOSE t \in of : \A r \in of : r <= t
<1>7. top \in of
  BY <1>6
<1>8. Style(p, d) = p.styles[top]
  BY DEF Style, of
<1> HIDE DEF top
<1> QED
  BY <1>1, <1>2, <1>7, <1>8

\* The rows of the perk tables stand for the pages, as far as pages are full.
THEOREM PerkKeysAreThePages == Spec => []PerkKeyIsThePage
<1>1. ASSUME ParsedInv PROVE PerkKeyIsThePage
  <2> SUFFICES ASSUME NonTimelineParsed PROVE PerkKeyIsThePage
    BY DEF PerkKeyIsThePage
  <2> DEFINE raw == job.non_timeline
             players == {raw.participants[i] : i \in DOMAIN raw.participants}
             ids == 0 .. (Width - 1)
             page == [description : STRING, perks : Seq(ids)]
  <2>1. /\ job \in Matches /\ ValidNonTimeline(raw) /\ ReadsStyles(raw)
        /\ result.non_timeline.perks = {PerkRow(p) : p \in players}
    BY <1>1 DEF NonTimelineParsed, ParsedInv, NonTimelineRun, NoNonTimelineRows
  <2>2. \A i \in DOMAIN raw.participants :
          /\ \A k \in DOMAIN raw.participants :
               raw.participants[i].puuid = raw.participants[k].puuid => i = k
          /\ raw.participants[i].styles \in Seq(page)
    BY <2>1, PayloadAssumption DEF PlayersHavePages, Width
  <2> HIDE DEF ids
  <2>3. ASSUME NEW p \in FullPlayers
        PROVE  /\ p \in players
               /\ Style(p, "primaryStyle").perks \in Seq(ids)
               /\ Style(p, "subStyle").perks \in Seq(ids)
               /\ Len(Style(p, "primaryStyle").perks) = 4 /\ Len(Style(p, "subStyle").perks) = 2
    <3>1. PICK i \in DOMAIN raw.participants : p = raw.participants[i]
      BY DEF FullPlayers, ToSet
    <3>2. HasStyle(p, "primaryStyle") /\ HasStyle(p, "subStyle")
      BY <2>1, <3>1 DEF ReadsStyles
    <3>3. p.styles \in Seq(page)
      BY <2>2, <3>1
    <3>4. Style(p, "primaryStyle") \in page /\ Style(p, "subStyle") \in page
      <4> HIDE DEF page
      <4> QED
        BY <3>2, <3>3, StyleIs
    <3> QED
      BY <3>1, <3>4 DEF FullPlayers
  <2>4. ASSUME NEW p \in FullPlayers PROVE PerkRowOf(p) = PerkRow(p)
    <3>1. p \in players
      BY <2>3
    <3>2. PerkRow(p) \in result.non_timeline.perks /\ PerkRow(p).puuid = p.puuid
      BY <2>1, <3>1 DEF PerkRow
    <3>3. ASSUME NEW r \in result.non_timeline.perks, r.puuid = p.puuid PROVE r = PerkRow(p)
      <4>1. PICK q \in players : r = PerkRow(q)
        BY <2>1
      <4>2. q.puuid = p.puuid
        BY <3>3, <4>1 DEF PerkRow
      <4>3. q = p
        BY <2>2, <3>1, <4>2
      <4> QED
        BY <4>1, <4>3
    <3> QED
      BY <3>2, <3>3 DEF PerkRowOf
  <2>5. ASSUME NEW p \in FullPlayers PROVE PerkRowOf(p).columns = PerkRowColumns
    <3>1. PerkRowOf(p).columns = PerkColumns(p)
      BY <2>4 DEF PerkRow
    <3>2. /\ DOMAIN Style(p, "primaryStyle").perks = 1 .. 4
          /\ DOMAIN Style(p, "subStyle").perks = 1 .. 2
      BY <2>3, Elements
    <3> QED
      BY <3>1, <3>2 DEF PerkColumns, PerkRowColumns
  <2>6. ASSUME NEW p \in FullPlayers, NEW q \in FullPlayers
        PROVE  PerkRowOf(p).perk_combo_key = PerkRowOf(q).perk_combo_key
                 <=> Selected(p) = Selected(q)
    <3>1. /\ PerkRowOf(p).perk_combo_key = ComboKey(Selected(p))
          /\ PerkRowOf(q).perk_combo_key = ComboKey(Selected(q))
      BY <2>4 DEF PerkRow
    <3>2. ASSUME NEW x \in FullPlayers PROVE Selected(x) \in Seq(ids) /\ Len(Selected(x)) = 6
      <4> DEFINE first == Style(x, "primaryStyle").perks
                 second == Style(x, "subStyle").perks
      <4>1. first \in Seq(ids) /\ second \in Seq(ids) /\ Len(first) = 4 /\ Len(second) = 2
        BY <2>3
      <4> HIDE DEF first, second
      <4>2. first \o second \in Seq(ids) /\ Len(first \o second) = Len(first) + Len(second)
        BY <4>1, ConcatProperties
      <4>3. Len(first \o second) = 6
        BY <4>1, <4>2
      <4> QED
        BY <4>2, <4>3 DEF Selected, first, second
    <3>3. /\ Selected(p) \in Seq(0 .. (Width - 1)) /\ Selected(q) \in Seq(0 .. (Width - 1))
          /\ Len(Selected(p)) = Len(Selected(q))
      BY <3>2 DEF ids
    <3>4. ComboKey(Selected(p)) = ComboKey(Selected(q)) <=> Selected(p) = Selected(q)
      BY <3>3, KeyTellsThePerks
    <3> QED
      BY <3>1, <3>4
  <2> QED
    BY <2>5, <2>6 DEF PerkKeyIsThePage
<1> QED
  BY <1>1, ParsedHolds, PTL

-----------------------------------------------------------------------------
(* The groups above a group *)

\* The parents, as far as they are groups, of g and of those in S.
Parents(snap, g, S) == {snap.groups[h] : h \in S \cup {g}} \cap Groups(snap)

\* u holds the groups that up to so many steps lead to.
Climbs(u, n, snap, g) ==
    /\ u \in [0 .. n -> SUBSET Groups(snap)] /\ u[0] = {}
    /\ \A k \in 1 .. n : u[k] = u[k - 1] \cup Parents(snap, g, u[k - 1])
    /\ Above(snap, g) = u[n]

LEMMA AboveClimbs ==
    ASSUME NEW snap, NEW n \in Nat, n = Cardinality(Groups(snap)), NEW g
    PROVE  \E u : Climbs(u, n, snap, g)
<1> DEFINE S == SUBSET Groups(snap)
           step == [p \in S \X Nat |-> p[1] \cup Parents(snap, g, p[1])]
           Defines(u) == u = [k \in 0 .. n |->
                                IF k = 0 THEN {} ELSE u[k - 1] \cup Parents(snap, g, u[k - 1])]
           above == CHOOSE u : Defines(u)
<1>1. ASSUME NEW p \in S \X Nat PROVE p[1] \cup Parents(snap, g, p[1]) \in S
  BY DEF Parents
<1>2. step \in [S \X Nat -> S] /\ {} \in S
  BY <1>1
<1>3. PICK f : Follows(f, n, S, {}, step)
  <2> HIDE DEF step, S
  <2> QED
    BY <1>2, FollowsExists
<1>4. /\ f \in [0 .. n -> S] /\ f[0] = {}
      /\ \A i \in 1 .. n : f[i] = step[<<f[i - 1], i>>]
  BY <1>3 DEF Follows
<1>5. ASSUME NEW k \in 1 .. n PROVE f[k] = f[k - 1] \cup Parents(snap, g, f[k - 1])
  <2>1. k - 1 \in 0 .. n /\ k \in Nat
    OBVIOUS
  <2>2. f[k - 1] \in S
    BY <1>4, <2>1
  <2> HIDE DEF S
  <2>3. step[<<f[k - 1], k>>] = f[k - 1] \cup Parents(snap, g, f[k - 1])
    BY <2>1, <2>2
  <2> QED
    BY <1>4, <2>3
<1> HIDE DEF step
<1>6. Defines(f)
  <2> DEFINE h == [k \in 0 .. n |-> IF k = 0 THEN {} ELSE f[k - 1] \cup Parents(snap, g, f[k - 1])]
  <2>1. \A k \in 0 .. n : k # 0 => k \in 1 .. n
    OBVIOUS
  <2>2. \A k \in 0 .. n : f[k] = h[k]
    BY <1>4, <1>5, <2>1
  <2>3. f = h
    BY <1>4, <2>2
  <2> QED
    BY <2>3
<1>7. Defines(above)
  <2> HIDE DEF Defines
  <2> QED
    BY <1>6
<1>8. Above(snap, g) = above[n]
  BY DEF Above, Parents
<1> HIDE DEF above
<1>9. \A k \in 0 .. n :
        above[k] = IF k = 0 THEN {} ELSE above[k - 1] \cup Parents(snap, g, above[k - 1])
  BY <1>7
<1>10. ASSUME NEW k \in Nat PROVE k \in 0 .. n => above[k] = f[k]
  <2> DEFINE I == {i \in Nat : i \in 0 .. n => above[i] = f[i]}
  <2>1. 0 \in I
    BY <1>4, <1>9
  <2>2. ASSUME NEW i \in Nat, i \in I PROVE i + 1 \in I
    <3> SUFFICES ASSUME i + 1 \in 0 .. n PROVE above[i + 1] = f[i + 1]
      OBVIOUS
    <3>1. i \in 0 .. n /\ i + 1 \in 1 .. n /\ (i + 1) - 1 = i /\ i + 1 # 0
      OBVIOUS
    <3>2. above[i + 1] = above[i] \cup Parents(snap, g, above[i])
      BY <1>9, <3>1
    <3>3. f[i + 1] = f[i] \cup Parents(snap, g, f[i])
      BY <1>5, <3>1
    <3> QED
      BY <2>2, <3>1, <3>2, <3>3
  <2> HIDE DEF I
  <2>3. k \in I
    BY <2>1, <2>2, AllOfThem
  <2> QED
    BY <2>3 DEF I
<1>11. Above(snap, g) = f[n]
  BY <1>8, <1>10
<1>12. Climbs(f, n, snap, g)
  BY <1>4, <1>5, <1>11 DEF Climbs
<1> QED
  BY <1>12

\* With g's parent, and with a group its parent, is in C.
Closed(snap, g, C) ==
    /\ snap.groups[g] \in Groups(snap) => snap.groups[g] \in C
    /\ \A h \in C : snap.groups[h] \in Groups(snap) => snap.groups[h] \in C

\* As many steps as there are groups lead to every group above.
LEMMA AboveIsClosed ==
    ASSUME NEW snap, IsFiniteSet(Groups(snap)), NEW g
    PROVE  Above(snap, g) \subseteq Groups(snap) /\ Closed(snap, g, Above(snap, g))
<1> DEFINE n == Cardinality(Groups(snap))
<1>1. n \in Nat
  BY FS_CardinalityType
<1>2. PICK u : Climbs(u, n, snap, g)
  BY <1>1, AboveClimbs
<1> DEFINE Stable(k) == Parents(snap, g, u[k]) \subseteq u[k]
           I == {k \in Nat : k \in 0 .. n => Stable(k) \/ Cardinality(u[k]) >= k}
<1>3. /\ \A k \in 0 .. n : u[k] \subseteq Groups(snap)
      /\ u[0] = {} /\ Above(snap, g) = u[n]
      /\ \A k \in 1 .. n : u[k] = u[k - 1] \cup Parents(snap, g, u[k - 1])
  BY <1>2 DEF Climbs
<1>4. \A k \in 0 .. n : IsFiniteSet(u[k]) /\ Cardinality(u[k]) \in Nat
  BY <1>3, FS_Subset, FS_CardinalityType
<1> HIDE DEF n
<1>5. 0 \in I
  BY <1>4
<1>6. ASSUME NEW k \in Nat, k \in I PROVE k + 1 \in I
  <2> SUFFICES ASSUME k + 1 \in 0 .. n, ~ Stable(k + 1) PROVE Cardinality(u[k + 1]) >= k + 1
    OBVIOUS
  <2>1. k \in 0 .. n /\ k + 1 \in 1 .. n /\ (k + 1) - 1 = k
    BY <1>1
  <2>2. u[k + 1] = u[k] \cup Parents(snap, g, u[k])
    BY <1>3, <2>1
  <2>3. ~ Stable(k)
    <3> SUFFICES ASSUME Stable(k) PROVE FALSE
      OBVIOUS
    <3>1. u[k + 1] = u[k]
      BY <2>2
    <3> QED
      BY <3>1
  <2>4. Cardinality(u[k]) >= k
    BY <1>6, <2>1, <2>3
  <2>5. PICK x \in Parents(snap, g, u[k]) : x \notin u[k]
    BY <2>3
  <2>6. u[k] \cup {x} \in SUBSET u[k + 1]
    BY <2>2, <2>5
  <2>7. Cardinality(u[k] \cup {x}) = Cardinality(u[k]) + 1
    BY <1>4, <2>1, <2>5, FS_AddElement
  <2>8. Cardinality(u[k] \cup {x}) <= Cardinality(u[k + 1])
    BY <1>4, <2>6, FS_Subset
  <2>9. Cardinality(u[k]) \in Nat /\ Cardinality(u[k + 1]) \in Nat
    BY <1>4, <2>1
  <2> HIDE DEF Stable
  <2> QED
    BY <2>4, <2>7, <2>8, <2>9
<1> HIDE DEF I
<1>7. n \in I
  BY <1>1, <1>5, <1>6, AllOfThem
<1>8. n \in 0 .. n
  BY <1>1
<1>9. Stable(n)
  <2>1. CASE Cardinality(u[n]) >= n
    <3>1. u[n] \in SUBSET Groups(snap)
      BY <1>3, <1>8
    <3>2. Cardinality(u[n]) <= n /\ (Cardinality(u[n]) = n => Groups(snap) = u[n])
      BY <3>1, FS_Subset DEF n
    <3>3. Cardinality(u[n]) \in Nat
      BY <1>4, <1>8
    <3>4. Groups(snap) = u[n]
      BY <1>1, <2>1, <3>2, <3>3
    <3> QED
      BY <3>4 DEF Parents
  <2> QED
    BY <1>7, <1>8, <2>1 DEF I
<1>10. Above(snap, g) \subseteq Groups(snap)
  BY <1>3, <1>8
<1>11. Closed(snap, g, u[n])
  BY <1>9 DEF Closed, Parents
<1> QED
  BY <1>3, <1>10, <1>11

\* And only to these: what is above g is in every set that has the parents.
LEMMA AboveIsLeast ==
    ASSUME NEW snap, IsFiniteSet(Groups(snap)), NEW g, NEW C, Closed(snap, g, C)
    PROVE  Above(snap, g) \subseteq C
<1> DEFINE n == Cardinality(Groups(snap))
<1>1. n \in Nat
  BY FS_CardinalityType
<1>2. PICK u : Climbs(u, n, snap, g)
  BY <1>1, AboveClimbs
<1> HIDE DEF n
<1> DEFINE I == {k \in Nat : k \in 0 .. n => u[k] \subseteq C}
<1>3. 0 \in I
  BY <1>2 DEF Climbs
<1>4. ASSUME NEW k \in Nat, k \in I PROVE k + 1 \in I
  <2> SUFFICES ASSUME k + 1 \in 0 .. n PROVE u[k + 1] \subseteq C
    OBVIOUS
  <2>1. k \in 0 .. n /\ k + 1 \in 1 .. n /\ (k + 1) - 1 = k
    BY <1>1
  <2>2. u[k + 1] = u[k] \cup Parents(snap, g, u[k])
    BY <1>2, <2>1 DEF Climbs
  <2>3. u[k] \subseteq C
    BY <1>4, <2>1
  <2>4. Parents(snap, g, u[k]) \subseteq C
    BY <2>3 DEF Parents, Closed
  <2> QED
    BY <2>2, <2>3, <2>4
<1> HIDE DEF I
<1>5. n \in I
  BY <1>1, <1>3, <1>4, AllOfThem
<1> QED
  BY <1>1, <1>2, <1>5 DEF I, Climbs

\* Above a child are its parent and what is above that.
LEMMA AboveOfChild ==
    ASSUME NEW snap, IsFiniteSet(Groups(snap)), NEW g \in Groups(snap), NEW c \in Children(snap, g)
    PROVE  Above(snap, c) = {g} \cup Above(snap, g)
<1>0. snap.groups[c] = g
  BY DEF Children
<1>1. Closed(snap, c, Above(snap, c))
  BY AboveIsClosed
<1>2. Closed(snap, g, Above(snap, g))
  BY AboveIsClosed
<1>3. g \in Above(snap, c)
  BY <1>0, <1>1 DEF Closed
<1>4. Above(snap, g) \subseteq Above(snap, c)
  <2>1. Closed(snap, g, Above(snap, c))
    BY <1>1, <1>3 DEF Closed
  <2> QED
    BY <2>1, AboveIsLeast
<1>5. Above(snap, c) \subseteq {g} \cup Above(snap, g)
  <2>1. Closed(snap, c, {g} \cup Above(snap, g))
    BY <1>0, <1>2 DEF Closed
  <2> QED
    BY <2>1, AboveIsLeast
<1> QED
  BY <1>3, <1>4, <1>5

\* Nothing is above a group without a parent among the groups.
LEMMA AboveOfTop ==
    ASSUME NEW snap, IsFiniteSet(Groups(snap)), NEW g, snap.groups[g] \notin Groups(snap)
    PROVE  Above(snap, g) = {}
<1>1. Closed(snap, g, {})
  BY DEF Closed
<1> QED
  BY <1>1, AboveIsLeast

\* What is above a group on a cycle is on the cycle.
LEMMA CycleAbove ==
    ASSUME NEW snap, IsFiniteSet(Groups(snap)), NEW c, c \in Above(snap, c), NEW s \in Above(snap, c)
    PROVE  s \in Above(snap, s)
<1> DEFINE C == {h \in Above(snap, c) : c \in Above(snap, h)}
<1>1. Above(snap, c) \subseteq Groups(snap) /\ Closed(snap, c, Above(snap, c))
  BY AboveIsClosed
<1>2. ASSUME NEW x \in Groups(snap), c \in Above(snap, x), snap.groups[x] \in Groups(snap)
      PROVE  c \in Above(snap, snap.groups[x])
  <2> DEFINE h == snap.groups[x]
  <2>1. x \in Children(snap, h)
    BY DEF Children
  <2>2. Above(snap, x) = {h} \cup Above(snap, h)
    BY <1>2, <2>1, AboveOfChild
  <2> QED
    BY <1>2, <2>2
<1>3. Closed(snap, c, C)
  BY <1>1, <1>2 DEF Closed
<1>4. c \in Above(snap, s)
  BY <1>3, AboveIsLeast
<1>5. Closed(snap, s, Above(snap, s)) /\ Above(snap, s) \subseteq Groups(snap)
  BY AboveIsClosed
<1>6. Closed(snap, c, Above(snap, s))
  BY <1>4, <1>5 DEF Closed
<1> QED
  BY <1>6, AboveIsLeast

-----------------------------------------------------------------------------
(* The branches of a plan *)

\* The paths that go one step further.
Longer(snap, paths) == UNION {{Append(p, c) : c \in Children(snap, Last(p))} : p \in paths}

\* w holds the branches of each length.
Walks(w, n, snap, sel) ==
    /\ w \in [1 .. n -> SUBSET Seq(Groups(snap))] /\ w[1] = {<<sel>>}
    /\ \A k \in 2 .. n : w[k] = Longer(snap, w[k - 1])
    /\ Branches(snap, sel) = UNION {w[k] : k \in 1 .. n}

LEMMA BranchesWalk ==
    ASSUME NEW snap, NEW n \in Nat \ {0}, n = Cardinality(Groups(snap)), NEW sel \in Groups(snap)
    PROVE  \E w : Walks(w, n, snap, sel)
<1> DEFINE S == SUBSET Seq(Groups(snap))
           step == [p \in S \X Nat |-> Longer(snap, p[1])]
           Defines(w) == w = [k \in 1 .. n |-> IF k = 1 THEN {<<sel>>} ELSE Longer(snap, w[k - 1])]
           walk == CHOOSE w : Defines(w)
<1>1. ASSUME NEW paths \in S PROVE Longer(snap, paths) \in S
  <2> SUFFICES ASSUME NEW p \in paths, NEW c \in Children(snap, Last(p))
               PROVE  Append(p, c) \in Seq(Groups(snap))
    BY DEF Longer
  <2>1. p \in Seq(Groups(snap)) /\ c \in Groups(snap)
    BY DEF Children
  <2> QED
    BY <2>1
<1>2. {<<sel>>} \in S
  OBVIOUS
<1>3. step \in [S \X Nat -> S]
  <2> HIDE DEF S
  <2> QED
    BY <1>1
<1>4. PICK f : Follows(f, n, S, {<<sel>>}, step)
  <2> HIDE DEF step, S
  <2> QED
    BY <1>2, <1>3, FollowsExists
<1>5. /\ f \in [0 .. n -> S] /\ f[0] = {<<sel>>}
      /\ \A i \in 1 .. n : f[i] = step[<<f[i - 1], i>>]
  BY <1>4 DEF Follows
<1>6. ASSUME NEW k \in 1 .. n PROVE f[k] = Longer(snap, f[k - 1])
  <2>1. k - 1 \in 0 .. n /\ k \in Nat
    OBVIOUS
  <2>2. f[k - 1] \in S
    BY <1>5, <2>1
  <2> HIDE DEF S
  <2>3. step[<<f[k - 1], k>>] = Longer(snap, f[k - 1])
    BY <2>1, <2>2
  <2> QED
    BY <1>5, <2>3
<1> HIDE DEF step
<1> DEFINE w == [k \in 1 .. n |-> f[k - 1]]
<1>7. w \in [1 .. n -> S] /\ w[1] = {<<sel>>}
  BY <1>5
<1>8. ASSUME NEW k \in 2 .. n PROVE w[k] = Longer(snap, w[k - 1])
  <2>1. k \in 1 .. n /\ k - 1 \in 1 .. n
    OBVIOUS
  <2>2. w[k] = f[k - 1] /\ w[k - 1] = f[(k - 1) - 1]
    BY <2>1
  <2> HIDE DEF w
  <2> QED
    BY <1>6, <2>1, <2>2
<1> HIDE DEF w
<1>9. Defines(w)
  <2> DEFINE h == [k \in 1 .. n |-> IF k = 1 THEN {<<sel>>} ELSE Longer(snap, w[k - 1])]
  <2>1. \A k \in 1 .. n : k # 1 => k \in 2 .. n
    OBVIOUS
  <2>2. \A k \in 1 .. n : w[k] = h[k]
    BY <1>7, <1>8, <2>1
  <2>3. w = h
    BY <1>7, <2>2
  <2> QED
    BY <2>3
<1>10. Defines(walk)
  <2> HIDE DEF Defines
  <2> QED
    BY <1>9
<1>11. Branches(snap, sel) = UNION {walk[k] : k \in 1 .. n}
  BY DEF Branches, Longer
<1> HIDE DEF walk
<1>12. \A k \in 1 .. n : walk[k] = IF k = 1 THEN {<<sel>>} ELSE Longer(snap, walk[k - 1])
  BY <1>10
<1>13. ASSUME NEW k \in Nat PROVE k \in 1 .. n => walk[k] = w[k]
  <2> DEFINE I == {i \in Nat : i \in 1 .. n => walk[i] = w[i]}
  <2>1. 0 \in I
    OBVIOUS
  <2>2. ASSUME NEW i \in Nat, i \in I PROVE i + 1 \in I
    <3> SUFFICES ASSUME i + 1 \in 1 .. n PROVE walk[i + 1] = w[i + 1]
      OBVIOUS
    <3>1. CASE i = 0
      <4>1. i + 1 = 1 /\ 1 \in 1 .. n
        BY <3>1
      <4>2. walk[1] = {<<sel>>} /\ w[1] = {<<sel>>}
        BY <1>7, <1>12, <4>1
      <4> QED
        BY <4>1, <4>2
    <3>2. CASE i # 0
      <4>1. i \in 1 .. n /\ i + 1 \in 2 .. n /\ (i + 1) - 1 = i /\ i + 1 # 1
        BY <3>2
      <4>2. walk[i + 1] = Longer(snap, walk[i])
        BY <1>12, <4>1
      <4>3. w[i + 1] = Longer(snap, w[i])
        BY <1>8, <4>1
      <4> QED
        BY <2>2, <4>1, <4>2, <4>3
    <3> QED
      BY <3>1, <3>2
  <2> HIDE DEF I
  <2>3. k \in I
    BY <2>1, <2>2, AllOfThem
  <2> QED
    BY <2>3 DEF I
<1>14. Branches(snap, sel) = UNION {w[k] : k \in 1 .. n}
  BY <1>11, <1>13
<1>15. Walks(w, n, snap, sel)
  BY <1>7, <1>8, <1>14 DEF Walks
<1> QED
  BY <1>15

\* There is a group, so there is a length.
LEMMA SizeOfGroups ==
    ASSUME NEW snap, IsFiniteSet(Groups(snap)), NEW sel \in Groups(snap)
    PROVE  Cardinality(Groups(snap)) \in Nat \ {0}
<1>1. Cardinality(Groups(snap)) \in Nat
  BY FS_CardinalityType
<1>2. Cardinality(Groups(snap)) # 0
  BY FS_EmptySet
<1> QED
  BY <1>1, <1>2

\* A set that has the selected group's branch, and with a branch its longer ones, has
\* all of them.
LEMMA EveryBranch ==
    ASSUME NEW snap, IsFiniteSet(Groups(snap)), NEW sel \in Groups(snap), NEW X,
           <<sel>> \in X,
           \A p \in Branches(snap, sel) \cap X : \A c \in Children(snap, Last(p)) :
               Append(p, c) \in Branches(snap, sel) => Append(p, c) \in X
    PROVE  Branches(snap, sel) \subseteq X
<1> DEFINE n == Cardinality(Groups(snap))
<1>1. n \in Nat \ {0}
  BY SizeOfGroups
<1>2. PICK w : Walks(w, n, snap, sel)
  BY <1>1, BranchesWalk
<1> HIDE DEF n
<1>3. /\ w[1] = {<<sel>>} /\ \A k \in 2 .. n : w[k] = Longer(snap, w[k - 1])
      /\ Branches(snap, sel) = UNION {w[k] : k \in 1 .. n}
  BY <1>2 DEF Walks
<1> DEFINE I == {k \in Nat : k \in 1 .. n => w[k] \subseteq X}
<1>4. 0 \in I
  OBVIOUS
<1>5. ASSUME NEW k \in Nat, k \in I PROVE k + 1 \in I
  <2> SUFFICES ASSUME k + 1 \in 1 .. n PROVE w[k + 1] \subseteq X
    OBVIOUS
  <2>1. CASE k = 0
    BY <1>3, <2>1
  <2>2. CASE k # 0
    <3>1. k \in 1 .. n /\ k + 1 \in 2 .. n /\ (k + 1) - 1 = k
      BY <1>1, <2>2
    <3>2. w[k + 1] = Longer(snap, w[k])
      BY <1>3, <3>1
    <3>3. w[k] \subseteq X /\ w[k] \subseteq Branches(snap, sel)
      BY <1>3, <1>5, <3>1
    <3>4. ASSUME NEW p \in w[k], NEW c \in Children(snap, Last(p)) PROVE Append(p, c) \in X
      <4>0. Append(p, c) \in w[k + 1]
        BY <3>2 DEF Longer
      <4>1. p \in Branches(snap, sel) \cap X /\ Append(p, c) \in Branches(snap, sel)
        BY <1>3, <3>3, <4>0
      <4> QED
        BY <4>1
    <3>5. ASSUME NEW q \in Longer(snap, w[k]) PROVE q \in X
      <4>1. PICK p \in w[k] : q \in {Append(p, c) : c \in Children(snap, Last(p))}
        BY DEF Longer
      <4>2. PICK c \in Children(snap, Last(p)) : q = Append(p, c)
        BY <4>1
      <4> QED
        BY <3>4, <4>2
    <3> QED
      BY <3>2, <3>5
  <2> QED
    BY <2>1, <2>2
<1> HIDE DEF I
<1>6. \A k \in Nat : k \in I
  BY <1>4, <1>5, AllOfThem
<1>7. \A k \in 1 .. n : w[k] \subseteq X
  BY <1>1, <1>6 DEF I
<1> QED
  BY <1>3, <1>7

\* A path and the one that is longer by a group.
LEMMA LongerPath ==
    ASSUME NEW S, NEW p \in Seq(S), NEW c \in S
    PROVE  /\ Append(p, c) \in Seq(S) /\ Append(p, c) # <<>>
           /\ Last(Append(p, c)) = c
           /\ ToSet(Append(p, c)) = ToSet(p) \cup {c}
<1> DEFINE q == Append(p, c)
<1>1. /\ q \in Seq(S) /\ Len(q) = Len(p) + 1 /\ q # <<>> /\ Len(p) \in Nat
      /\ \A i \in 1 .. Len(p) : q[i] = p[i]
      /\ q[Len(p) + 1] = c
  BY AppendProperties
<1>2. DOMAIN q = 1 .. Len(p) + 1 /\ DOMAIN p = 1 .. Len(p)
  BY <1>1
<1> HIDE DEF q
<1>3. Last(q) = c
  BY <1>1 DEF Last
<1>4. ToSet(q) \subseteq ToSet(p) \cup {c}
  <2> SUFFICES ASSUME NEW i \in 1 .. Len(p) + 1 PROVE q[i] \in ToSet(p) \cup {c}
    BY <1>2 DEF ToSet
  <2>1. i \in 1 .. Len(p) \/ i = Len(p) + 1
    BY <1>1
  <2> QED
    BY <1>1, <1>2, <2>1 DEF ToSet
<1>5. ToSet(p) \cup {c} \subseteq ToSet(q)
  <2>1. 1 .. Len(p) \subseteq DOMAIN q /\ Len(p) + 1 \in DOMAIN q
    BY <1>1, <1>2
  <2> QED
    BY <1>1, <1>2, <2>1 DEF ToSet
<1> QED
  BY <1>1, <1>3, <1>4, <1>5 DEF q

LEMMA ShortestPath ==
    ASSUME NEW S, NEW s \in S
    PROVE  <<s>> \in Seq(S) /\ Last(<<s>>) = s /\ ToSet(<<s>>) = {s}
<1>1. <<s>> \in Seq(S) /\ Len(<<s>>) = 1 /\ <<s>>[1] = s /\ DOMAIN <<s>> = {1}
  OBVIOUS
<1> QED
  BY <1>1 DEF Last, ToSet

LEMMA FirstBranch ==
    ASSUME NEW snap, IsFiniteSet(Groups(snap)), NEW sel \in Groups(snap)
    PROVE  <<sel>> \in Branches(snap, sel)
<1> DEFINE n == Cardinality(Groups(snap))
<1>1. n \in Nat \ {0}
  BY SizeOfGroups
<1>2. PICK w : Walks(w, n, snap, sel)
  BY <1>1, BranchesWalk
<1>3. 1 \in 1 .. n
  BY <1>1
<1> HIDE DEF n
<1> QED
  BY <1>2, <1>3 DEF Walks

\* Every branch but the first is another one with a child of its last group.
LEMMA BranchStep ==
    ASSUME NEW snap, IsFiniteSet(Groups(snap)), NEW sel \in Groups(snap),
           NEW p \in Branches(snap, sel), p # <<sel>>
    PROVE  \E q \in Branches(snap, sel) : \E c \in Children(snap, Last(q)) : p = Append(q, c)
<1> DEFINE X == {<<sel>>} \cup {x \in Branches(snap, sel) :
                  \E q \in Branches(snap, sel) : \E c \in Children(snap, Last(q)) : x = Append(q, c)}
<1>1. \A x \in Branches(snap, sel) \cap X : \A c \in Children(snap, Last(x)) :
          Append(x, c) \in Branches(snap, sel) => Append(x, c) \in X
  OBVIOUS
<1>2. <<sel>> \in X
  OBVIOUS
<1> HIDE DEF X
<1>3. p \in X
  BY <1>1, <1>2, EveryBranch
<1> QED
  BY <1>3 DEF X

\* The groups that a branch ends in.
Reached(snap, sel) == {Last(p) : p \in Branches(snap, sel)}

\* A path of groups from the selected one down: each but the first has its parent on
\* the path, and they are above the last.
PathDown(snap, sel, p) ==
    /\ p \in Seq(Groups(snap)) /\ Last(p) \in ToSet(p) /\ sel \in ToSet(p)
    /\ ToSet(p) \subseteq Groups(snap)
    /\ ToSet(p) \subseteq {Last(p)} \cup Above(snap, Last(p))
    /\ \A h \in ToSet(p) : h = sel \/ snap.groups[h] \in ToSet(p)
    /\ ToSet(p) \subseteq Reached(snap, sel)

LEMMA BranchesGoDown ==
    ASSUME NEW snap, IsFiniteSet(Groups(snap)), NEW sel \in Groups(snap)
    PROVE  \A p \in Branches(snap, sel) : PathDown(snap, sel, p)
<1> DEFINE G == Groups(snap)
           X == {p \in Seq(G) : PathDown(snap, sel, p)}
<1>1. <<sel>> \in X
  <2>1. <<sel>> \in Seq(G) /\ Last(<<sel>>) = sel /\ ToSet(<<sel>>) = {sel}
    BY ShortestPath
  <2>2. sel \in Reached(snap, sel)
    BY <2>1, FirstBranch DEF Reached
  <2> QED
    BY <2>1, <2>2 DEF PathDown
<1>2. ASSUME NEW p \in Branches(snap, sel), p \in X, NEW c \in Children(snap, Last(p)),
             Append(p, c) \in Branches(snap, sel)
      PROVE  Append(p, c) \in X
  <2> DEFINE q == Append(p, c)
  <2>0. /\ p \in Seq(G) /\ Last(p) \in ToSet(p) /\ sel \in ToSet(p) /\ ToSet(p) \subseteq G
        /\ ToSet(p) \subseteq {Last(p)} \cup Above(snap, Last(p))
        /\ \A h \in ToSet(p) : h = sel \/ snap.groups[h] \in ToSet(p)
        /\ ToSet(p) \subseteq Reached(snap, sel)
    BY <1>2 DEF PathDown
  <2>1. c \in G /\ snap.groups[c] = Last(p) /\ Last(p) \in G
    BY <2>0 DEF Children
  <2>2. q \in Seq(G) /\ Last(q) = c /\ ToSet(q) = ToSet(p) \cup {c}
    <3> HIDE DEF G
    <3> QED
      BY <2>0, <2>1, LongerPath
  <2>3. Above(snap, c) = {Last(p)} \cup Above(snap, Last(p))
    BY <2>1, AboveOfChild
  <2>4. c \in Reached(snap, sel)
    BY <1>2, <2>2 DEF Reached
  <2> HIDE DEF q, G
  <2>5. ToSet(q) \subseteq {Last(q)} \cup Above(snap, Last(q))
    BY <2>0, <2>2, <2>3
  <2>6. \A h \in ToSet(q) : h = sel \/ snap.groups[h] \in ToSet(q)
    BY <2>0, <2>1, <2>2
  <2>7. PathDown(snap, sel, q)
    BY <2>0, <2>1, <2>2, <2>4, <2>5, <2>6 DEF PathDown, G
  <2> QED
    BY <2>2, <2>7 DEF q
<1> HIDE DEF X
<1>3. Branches(snap, sel) \subseteq X
  BY <1>1, <1>2, EveryBranch
<1> QED
  BY <1>3 DEF X

\* Without a cycle every branch goes on wherever its last group has a child: the walk
\* does not end before.
LEMMA BranchesGoOn ==
    ASSUME NEW snap, IsFiniteSet(Groups(snap)), NEW sel \in Groups(snap), ~ CycleFound(snap, sel),
           NEW p \in Branches(snap, sel), NEW c \in Children(snap, Last(p))
    PROVE  Append(p, c) \in Branches(snap, sel)
<1> DEFINE G == Groups(snap)
           n == Cardinality(G)
<1>1. n \in Nat \ {0}
  BY SizeOfGroups
<1>2. PICK w : Walks(w, n, snap, sel)
  BY <1>1, BranchesWalk
<1> HIDE DEF n
<1>3. /\ w[1] = {<<sel>>} /\ \A k \in 2 .. n : w[k] = Longer(snap, w[k - 1])
      /\ Branches(snap, sel) = UNION {w[k] : k \in 1 .. n}
  BY <1>2 DEF Walks
<1>4. \A q \in Branches(snap, sel) : q \in Seq(G) /\ ToSet(q) \subseteq G
  BY BranchesGoDown DEF PathDown
<1>5. \A q \in Branches(snap, sel) : \A d \in Children(snap, Last(q)) : d \notin ToSet(q) /\ d \in G
  BY DEF CycleFound, Children
<1> DEFINE I == {k \in Nat : k \in 1 .. n => \A q \in w[k] : Cardinality(ToSet(q)) = k}
<1>6. 0 \in I
  OBVIOUS
<1>7. ASSUME NEW k \in Nat, k \in I PROVE k + 1 \in I
  <2> SUFFICES ASSUME k + 1 \in 1 .. n, NEW q \in w[k + 1] PROVE Cardinality(ToSet(q)) = k + 1
    OBVIOUS
  <2>1. CASE k = 0
    <3>1. k + 1 = 1
      BY <2>1
    <3>2. q = <<sel>>
      BY <1>3, <3>1
    <3>3. ToSet(q) = {} \cup {sel}
      BY <3>2, ShortestPath
    <3>4. Cardinality({} \cup {sel}) = 0 + 1
      BY FS_EmptySet, FS_AddElement
    <3> QED
      BY <3>1, <3>3, <3>4
  <2>2. CASE k # 0
    <3>1. k \in 1 .. n /\ k + 1 \in 2 .. n /\ (k + 1) - 1 = k
      BY <1>1, <2>2
    <3>2. q \in Longer(snap, w[k])
      BY <1>3, <3>1
    <3>3. PICK r \in w[k] : q \in {Append(r, d) : d \in Children(snap, Last(r))}
      BY <3>2 DEF Longer
    <3>4. PICK d \in Children(snap, Last(r)) : q = Append(r, d)
      BY <3>3
    <3>5. r \in Branches(snap, sel) /\ Cardinality(ToSet(r)) = k
      BY <1>3, <1>7, <3>1
    <3>6. r \in Seq(G) /\ ToSet(r) \subseteq G /\ d \in G /\ d \notin ToSet(r)
      BY <1>4, <1>5, <3>5
    <3>7. ToSet(q) = ToSet(r) \cup {d}
      BY <3>4, <3>6, LongerPath
    <3>8. IsFiniteSet(ToSet(r))
      BY <3>6, FS_Subset
    <3> QED
      BY <3>5, <3>6, <3>7, <3>8, FS_AddElement
  <2> QED
    BY <2>1, <2>2
<1> HIDE DEF I
<1>8. \A k \in Nat : k \in I
  BY <1>6, <1>7, AllOfThem
<1>9. PICK k \in 1 .. n : p \in w[k]
  BY <1>3
<1>10. Cardinality(ToSet(p)) = k
  BY <1>1, <1>8, <1>9 DEF I
<1>11. CASE k = n
  <2>1. ToSet(p) \in SUBSET G
    BY <1>4
  <2>2. ToSet(p) = G
    BY <1>10, <1>11, <2>1, FS_Subset DEF n
  <2> QED
    BY <1>5, <2>2
<1>12. CASE k # n
  <2>1. k + 1 \in 2 .. n /\ k + 1 \in 1 .. n /\ (k + 1) - 1 = k
    BY <1>1, <1>12
  <2>2. w[k + 1] = Longer(snap, w[k])
    BY <1>3, <2>1
  <2>3. Append(p, c) \in w[k + 1]
    BY <1>9, <2>2 DEF Longer
  <2> QED
    BY <1>3, <2>1, <2>3
<1> QED
  BY <1>11, <1>12

\* Without a cycle a branch ends in each child of a group that one ends in, and none
\* ends in the parent of the selected group: going up from there, or from a group that
\* no branch ends in, never leads to one that a branch ends in.
LEMMA OutsideIsClosed ==
    ASSUME NEW snap, IsFiniteSet(Groups(snap)), NEW sel \in Groups(snap), ~ CycleFound(snap, sel),
           NEW g, g = sel \/ g \in Groups(snap) \ Reached(snap, sel)
    PROVE  Closed(snap, g, Groups(snap) \ Reached(snap, sel))
<1>1. ASSUME NEW h \in Groups(snap), h = sel \/ h \notin Reached(snap, sel),
             snap.groups[h] \in Reached(snap, sel)
      PROVE  FALSE
  <2>1. PICK p \in Branches(snap, sel) : Last(p) = snap.groups[h]
    BY <1>1 DEF Reached
  <2>2. h \in Children(snap, Last(p))
    BY <2>1 DEF Children
  <2>3. CASE h = sel
    <3>1. sel \in ToSet(p)
      BY BranchesGoDown DEF PathDown
    <3> QED
      BY <2>2, <2>3, <3>1 DEF CycleFound
  <2>4. CASE h \notin Reached(snap, sel)
    <3>1. Append(p, h) \in Branches(snap, sel)
      BY <2>2, BranchesGoOn
    <3>2. p \in Seq(Groups(snap))
      BY BranchesGoDown DEF PathDown
    <3>3. Last(Append(p, h)) = h
      BY <3>2, LongerPath
    <3> QED
      BY <2>4, <3>1, <3>3 DEF Reached
  <2> QED
    BY <1>1, <2>3, <2>4
<1> QED
  BY <1>1 DEF Closed

\* The groups below the selected one.
Below(snap, sel) == {g \in Groups(snap) : sel \in Above(snap, g)}

\* The walk meets a group again on its own path exactly if the selected group is below
\* itself.
LEMMA CycleIsBelow ==
    ASSUME NEW snap, IsFiniteSet(Groups(snap)), NEW sel \in Groups(snap)
    PROVE  CycleFound(snap, sel) <=> sel \in Below(snap, sel)
<1>1. ASSUME ~ CycleFound(snap, sel), sel \in Above(snap, sel) PROVE FALSE
  <2>1. Closed(snap, sel, Groups(snap) \ Reached(snap, sel))
    BY <1>1, OutsideIsClosed
  <2>2. sel \notin Reached(snap, sel)
    BY <1>1, <2>1, AboveIsLeast
  <2>3. <<sel>> \in Branches(snap, sel) /\ Last(<<sel>>) = sel
    BY FirstBranch, ShortestPath
  <2> QED
    BY <2>2, <2>3 DEF Reached
<1>2. ASSUME CycleFound(snap, sel) PROVE sel \in Above(snap, sel)
  <2>1. PICK p \in Branches(snap, sel) : \E c \in Children(snap, Last(p)) : c \in ToSet(p)
    BY <1>2 DEF CycleFound
  <2>2. PICK c \in Children(snap, Last(p)) : c \in ToSet(p)
    BY <2>1
  <2>3. /\ Last(p) \in Groups(snap) /\ sel \in ToSet(p)
        /\ ToSet(p) \subseteq {Last(p)} \cup Above(snap, Last(p))
    BY BranchesGoDown DEF PathDown
  <2>4. Above(snap, c) = {Last(p)} \cup Above(snap, Last(p))
    BY <2>3, AboveOfChild
  <2>5. c \in Above(snap, c) /\ sel \in Above(snap, c)
    BY <2>2, <2>3, <2>4
  <2> QED
    BY <2>5, CycleAbove
<1> QED
  BY <1>1, <1>2 DEF Below

\* A branch ends in the selected group and in each group below it, and in no other.
LEMMA ReachedAreBelow ==
    ASSUME NEW snap, IsFiniteSet(Groups(snap)), NEW sel \in Groups(snap), ~ CycleFound(snap, sel)
    PROVE  Reached(snap, sel) = Below(snap, sel) \cup {sel}
<1>0. sel \in Reached(snap, sel)
  <2>1. <<sel>> \in Branches(snap, sel) /\ Last(<<sel>>) = sel
    BY FirstBranch, ShortestPath
  <2> QED
    BY <2>1 DEF Reached
<1>1. ASSUME NEW p \in Branches(snap, sel) PROVE Last(p) \in Below(snap, sel) \cup {sel}
  <2>1. /\ Last(p) \in Groups(snap) /\ sel \in ToSet(p)
        /\ ToSet(p) \subseteq {Last(p)} \cup Above(snap, Last(p))
    BY BranchesGoDown DEF PathDown
  <2> QED
    BY <2>1 DEF Below
<1>2. ASSUME NEW g \in Below(snap, sel) PROVE g \in Reached(snap, sel)
  <2> SUFFICES ASSUME g \notin Reached(snap, sel) PROVE FALSE
    OBVIOUS
  <2>1. g \in Groups(snap) /\ sel \in Above(snap, g)
    BY DEF Below
  <2>2. Closed(snap, g, Groups(snap) \ Reached(snap, sel))
    BY <2>1, OutsideIsClosed
  <2>3. sel \notin Reached(snap, sel)
    BY <2>1, <2>2, AboveIsLeast
  <2> QED
    BY <1>0, <2>3
<1> QED
  BY <1>0, <1>1, <1>2 DEF Reached

\* The path of a branch has the groups from the selected one down to the last, all of
\* them.
LEMMA PathIsBetween ==
    ASSUME NEW snap, IsFiniteSet(Groups(snap)), NEW sel \in Groups(snap), ~ CycleFound(snap, sel),
           NEW p \in Branches(snap, sel)
    PROVE  ToSet(p) = {Last(p)} \cup (Above(snap, Last(p)) \cap (Below(snap, sel) \cup {sel}))
<1> DEFINE g == Last(p)
           Out == Groups(snap) \ Reached(snap, sel)
           C == ToSet(p) \cup Out
<1>1. /\ g \in ToSet(p) /\ ToSet(p) \subseteq Groups(snap)
      /\ ToSet(p) \subseteq {g} \cup Above(snap, g) /\ ToSet(p) \subseteq Reached(snap, sel)
      /\ \A h \in ToSet(p) : h = sel \/ snap.groups[h] \in ToSet(p)
  BY BranchesGoDown DEF PathDown
<1>2. Reached(snap, sel) = Below(snap, sel) \cup {sel}
  BY ReachedAreBelow
<1>3. ASSUME NEW h \in C, snap.groups[h] \in Groups(snap) PROVE snap.groups[h] \in C
  <2>1. CASE h = sel \/ h \in Out
    <3>1. Closed(snap, h, Out)
      BY <2>1, OutsideIsClosed
    <3> QED
      BY <1>3, <3>1 DEF Closed
  <2>2. CASE h \in ToSet(p) /\ h # sel
    BY <1>1, <2>2
  <2> QED
    BY <2>1, <2>2
<1>4. Closed(snap, g, C)
  BY <1>1, <1>3 DEF Closed
<1>5. Above(snap, g) \subseteq C
  BY <1>4, AboveIsLeast
<1> QED
  BY <1>1, <1>2, <1>5

\* No two branches end in the same group.
LEMMA OneBranchEach ==
    ASSUME NEW snap, IsFiniteSet(Groups(snap)), NEW sel \in Groups(snap), ~ CycleFound(snap, sel)
    PROVE  \A p, q \in Branches(snap, sel) : Last(p) = Last(q) => p = q
<1> DEFINE G == Groups(snap)
           B == Branches(snap, sel)
           X == {p \in B : \A q \in B : Last(p) = Last(q) => p = q}
<1>0. \A p \in B : p \in Seq(G) /\ sel \in ToSet(p) /\ Last(p) \in ToSet(p)
  BY BranchesGoDown DEF PathDown
<1>1. ASSUME NEW p \in B, NEW c \in Children(snap, Last(p))
      PROVE  /\ Last(Append(p, c)) = c /\ c # sel /\ snap.groups[c] = Last(p)
  <2>1. p \in Seq(G) /\ sel \in ToSet(p) /\ c \in G /\ snap.groups[c] = Last(p)
    BY <1>0 DEF Children
  <2>2. Last(Append(p, c)) = c
    <3> HIDE DEF G
    <3> QED
      BY <2>1, LongerPath
  <2> QED
    BY <2>1, <2>2 DEF CycleFound
<1>2. Last(<<sel>>) = sel /\ <<sel>> \in B
  BY FirstBranch, ShortestPath
<1>3. <<sel>> \in X
  <2> SUFFICES ASSUME NEW q \in B, sel = Last(q) PROVE <<sel>> = q
    BY <1>2
  <2> SUFFICES ASSUME q # <<sel>> PROVE FALSE
    OBVIOUS
  <2>1. PICK r \in B : \E c \in Children(snap, Last(r)) : q = Append(r, c)
    BY BranchStep
  <2> QED
    BY <1>1, <2>1
<1>4. ASSUME NEW p \in B, p \in X, NEW c \in Children(snap, Last(p)), Append(p, c) \in B
      PROVE  Append(p, c) \in X
  <2> SUFFICES ASSUME NEW q \in B, Last(Append(p, c)) = Last(q) PROVE Append(p, c) = q
    BY <1>4
  <2>1. Last(q) = c /\ c # sel /\ snap.groups[c] = Last(p)
    BY <1>1
  <2>2. PICK r \in B : \E d \in Children(snap, Last(r)) : q = Append(r, d)
    BY <1>2, <2>1, BranchStep
  <2>3. PICK d \in Children(snap, Last(r)) : q = Append(r, d)
    BY <2>2
  <2>4. d = c /\ Last(r) = Last(p)
    BY <1>1, <2>1, <2>3
  <2>5. p = r
    BY <1>4, <2>4
  <2> QED
    BY <2>3, <2>4, <2>5
<1> HIDE DEF X
<1>5. B \subseteq X
  <2> HIDE DEF B
  <2>1. \A p \in B \cap X : \A c \in Children(snap, Last(p)) : Append(p, c) \in B => Append(p, c) \in X
    BY <1>4
  <2> QED
    BY <1>3, <2>1, EveryBranch DEF B
<1> QED
  BY <1>5 DEF X

\* There are as many branches as groups below the selected one, and its own.
LEMMA BranchesAreCounted ==
    ASSUME NEW snap, IsFiniteSet(Groups(snap)), NEW sel \in Groups(snap), ~ CycleFound(snap, sel)
    PROVE  Cardinality(Branches(snap, sel)) = Cardinality(Below(snap, sel)) + 1
<1> DEFINE B == Branches(snap, sel)
           R == Reached(snap, sel)
           last == [p \in B |-> Last(p)]
<1>1. R = Below(snap, sel) \cup {sel} /\ sel \notin Below(snap, sel)
  BY ReachedAreBelow, CycleIsBelow
<1>2. Below(snap, sel) \in SUBSET Groups(snap)
  BY DEF Below
<1>3. IsFiniteSet(Below(snap, sel))
  BY <1>2, FS_Subset
<1>4. IsFiniteSet(R) /\ Cardinality(R) = Cardinality(Below(snap, sel)) + 1
  BY <1>1, <1>3, FS_AddElement
<1>5. last \in Bijection(B, R)
  <2>1. last \in [B -> R]
    BY DEF Reached
  <2>2. last \in Injection(B, R)
    BY <2>1, OneBranchEach DEF Injection, IsInjective
  <2>3. last \in Surjection(B, R)
    BY <2>1 DEF Reached, Surjection
  <2> QED
    BY <2>2, <2>3 DEF Bijection
<1>6. IsFiniteSet(B) /\ Cardinality(B) <= Cardinality(R)
      /\ (Cardinality(B) = Cardinality(R) <=> last \in Surjection(B, R))
  BY <1>4, <1>5, FS_Injection DEF Bijection
<1> QED
  BY <1>4, <1>5, <1>6 DEF Bijection

\* Of two groups of a branch the earlier is above the later.
LEMMA BranchesAreOrdered ==
    ASSUME NEW snap, IsFiniteSet(Groups(snap)), NEW sel \in Groups(snap),
           NEW p \in Branches(snap, sel)
    PROVE  \A j, l \in 1 .. Len(p) : l < j => p[l] \in Above(snap, p[j])
<1> DEFINE G == Groups(snap)
           X == {q \in Branches(snap, sel) :
                   \A j, l \in 1 .. Len(q) : l < j => q[l] \in Above(snap, q[j])}
<1>1. <<sel>> \in X
  BY FirstBranch
<1>2. ASSUME NEW q \in Branches(snap, sel), q \in X, NEW c \in Children(snap, Last(q)),
             Append(q, c) \in Branches(snap, sel)
      PROVE  Append(q, c) \in X
  <2> DEFINE r == Append(q, c)
  <2>0. /\ q \in Seq(G) /\ Last(q) \in G
        /\ ToSet(q) \subseteq {Last(q)} \cup Above(snap, Last(q))
    BY BranchesGoDown DEF PathDown
  <2>1. c \in G
    BY DEF Children
  <2>2. /\ Len(r) = Len(q) + 1 /\ Len(q) \in Nat /\ r[Len(q) + 1] = c
        /\ \A i \in 1 .. Len(q) : r[i] = q[i]
    <3> HIDE DEF G
    <3> QED
      BY <2>0, <2>1, AppendProperties
  <2>3. Above(snap, c) = {Last(q)} \cup Above(snap, Last(q))
    BY <2>0, AboveOfChild
  <2> HIDE DEF r
  <2>4. ASSUME NEW j \in 1 .. Len(r), NEW l \in 1 .. Len(r), l < j
        PROVE  r[l] \in Above(snap, r[j])
    <3>1. l \in 1 .. Len(q) /\ r[l] = q[l]
      BY <2>2, <2>4
    <3>2. CASE j = Len(q) + 1
      <4>1. q[l] \in ToSet(q)
        BY <2>0, <3>1 DEF ToSet
      <4> QED
        BY <2>0, <2>2, <2>3, <3>1, <3>2, <4>1
    <3>3. CASE j # Len(q) + 1
      <4>1. j \in 1 .. Len(q) /\ r[j] = q[j]
        BY <2>2, <3>3
      <4> QED
        BY <1>2, <2>4, <3>1, <4>1
    <3> QED
      BY <3>2, <3>3
  <2>5. r \in Branches(snap, sel)
    BY <1>2 DEF r
  <2>6. r \in X
    BY <2>4, <2>5
  <2> QED
    BY <2>6 DEF r
<1> HIDE DEF X
<1>3. Branches(snap, sel) \subseteq X
  BY <1>1, <1>2, EveryBranch
<1> QED
  BY <1>3 DEF X

-----------------------------------------------------------------------------
(* The metrics of a branch *)

\* f holds what the first groups of the path declare, later ones over earlier ones.
Resolves(f, snap, p) ==
    /\ f[0] = <<>>
    /\ \A i \in 1 .. Len(p) : f[i] = Overwrite(f[i - 1], Declared(snap, p[i]), p[i])
    /\ MetricsOf(snap, p) = f[Len(p)]

LEMMA MetricsResolve ==
    ASSUME NEW snap, NEW p \in Seq(Groups(snap))
    PROVE  \E f : Resolves(f, snap, p)
<1> DEFINE L == Len(p)
           M == snap.metrics \cap snap.active
           S == UNION {[D -> Groups(snap)] : D \in SUBSET M}
           add(old, i) == Overwrite(old, Declared(snap, p[i]), p[i])
           step == [x \in S \X Nat |-> IF x[2] \in 1 .. L THEN add(x[1], x[2]) ELSE x[1]]
           Defines(f) == f = [i \in 0 .. L |-> IF i = 0 THEN <<>> ELSE add(f[i - 1], i)]
           up == CHOOSE f : Defines(f)
<1>1. L \in Nat /\ \A i \in 1 .. L : p[i] \in Groups(snap)
  OBVIOUS
<1>2. <<>> \in S
  <2>1. <<>> \in [{} -> Groups(snap)]
    OBVIOUS
  <2> QED
    BY <2>1
<1>3. ASSUME NEW old \in S, NEW i \in 1 .. L PROVE add(old, i) \in S
  <2>1. PICK D \in SUBSET M : old \in [D -> Groups(snap)]
    OBVIOUS
  <2> DEFINE E == D \cup Declared(snap, p[i])
  <2>2. E \in SUBSET M
    BY DEF Declared
  <2>3. add(old, i) \in [E -> Groups(snap)]
    BY <1>1, <2>1 DEF Overwrite
  <2> QED
    BY <2>2, <2>3
<1>4. step \in [S \X Nat -> S]
  <2>1. ASSUME NEW x \in S \X Nat
        PROVE  (IF x[2] \in 1 .. L THEN add(x[1], x[2]) ELSE x[1]) \in S
    <3>1. x[1] \in S
      OBVIOUS
    <3> HIDE DEF S, L, add
    <3> QED
      BY <1>3, <3>1
  <2> HIDE DEF S, L, add
  <2> QED
    BY <2>1
<1> HIDE DEF L, add
<1>5. PICK f : Follows(f, L, S, <<>>, step)
  <2> HIDE DEF step, S
  <2> QED
    BY <1>1, <1>2, <1>4, FollowsExists
<1>6. /\ f \in [0 .. L -> S] /\ f[0] = <<>>
      /\ \A i \in 1 .. L : f[i] = step[<<f[i - 1], i>>]
  BY <1>5 DEF Follows
<1>7. ASSUME NEW i \in 1 .. L PROVE f[i] = add(f[i - 1], i)
  <2>1. i - 1 \in 0 .. L /\ i \in Nat
    BY <1>1
  <2>2. f[i - 1] \in S
    BY <1>6, <2>1
  <2> HIDE DEF S
  <2>3. step[<<f[i - 1], i>>] = add(f[i - 1], i)
    BY <2>1, <2>2
  <2> QED
    BY <1>6, <2>3
<1> HIDE DEF step, S
<1>8. Defines(f)
  <2> DEFINE h == [i \in 0 .. L |-> IF i = 0 THEN <<>> ELSE add(f[i - 1], i)]
  <2>1. \A i \in 0 .. L : i # 0 => i \in 1 .. L
    BY <1>1
  <2>2. \A i \in 0 .. L : f[i] = h[i]
    BY <1>6, <1>7, <2>1
  <2>3. f = h
    BY <1>6, <2>2
  <2> QED
    BY <2>3
<1>9. Defines(up)
  <2> HIDE DEF Defines
  <2> QED
    BY <1>8
<1>10. MetricsOf(snap, p) = up[L]
  BY DEF MetricsOf, L, add
<1> HIDE DEF up
<1>11. \A i \in 0 .. L : up[i] = IF i = 0 THEN <<>> ELSE add(up[i - 1], i)
  BY <1>9
<1>12. up[0] = <<>>
  BY <1>1, <1>11
<1>13. ASSUME NEW i \in 1 .. L PROVE up[i] = add(up[i - 1], i)
  <2>1. i \in 0 .. L /\ i # 0
    BY <1>1
  <2> QED
    BY <1>11, <2>1
<1>14. Resolves(up, snap, p)
  BY <1>10, <1>12, <1>13 DEF Resolves, L, add
<1> QED
  BY <1>14

\* A metric that some group of the path declares is planned, as the last of them
\* declares it.
LastDeclares(snap, p, i, metrics) ==
    /\ \A m : m \in DOMAIN metrics <=> \E j \in 1 .. i : m \in Declared(snap, p[j])
    /\ \A m \in DOMAIN metrics : \E j \in 1 .. i :
         metrics[m] = p[j] /\ \A l \in j + 1 .. i : m \notin Declared(snap, p[l])

LEMMA LastOneCounts ==
    ASSUME NEW snap, NEW p \in Seq(Groups(snap))
    PROVE  LastDeclares(snap, p, Len(p), MetricsOf(snap, p))
<1> DEFINE L == Len(p)
<1>1. PICK f : Resolves(f, snap, p)
  BY MetricsResolve
<1>2. /\ L \in Nat /\ f[0] = <<>> /\ MetricsOf(snap, p) = f[L]
      /\ \A i \in 1 .. L : f[i] = Overwrite(f[i - 1], Declared(snap, p[i]), p[i])
  BY <1>1 DEF Resolves
<1> HIDE DEF L
<1> DEFINE I == {i \in Nat : i \in 0 .. L => LastDeclares(snap, p, i, f[i])}
<1>3. 0 \in I
  <2>1. DOMAIN f[0] = {}
    BY <1>2
  <2>2. LastDeclares(snap, p, 0, f[0])
    BY <2>1 DEF LastDeclares
  <2> QED
    BY <2>2
<1>4. ASSUME NEW i \in Nat, i \in I PROVE i + 1 \in I
  <2> SUFFICES ASSUME i + 1 \in 0 .. L PROVE LastDeclares(snap, p, i + 1, f[i + 1])
    OBVIOUS
  <2>1. i \in 0 .. L /\ i + 1 \in 1 .. L /\ (i + 1) - 1 = i
    BY <1>2
  <2> DEFINE D == Declared(snap, p[i + 1])
  <2>2. f[i + 1] = Overwrite(f[i], D, p[i + 1])
    BY <1>2, <2>1
  <2>3. LastDeclares(snap, p, i, f[i])
    BY <1>4, <2>1
  <2>4. /\ DOMAIN f[i + 1] = DOMAIN f[i] \cup D
        /\ \A m \in D : f[i + 1][m] = p[i + 1]
        /\ \A m \in DOMAIN f[i] \ D : f[i + 1][m] = f[i][m]
    BY <2>2 DEF Overwrite
  <2>5. ASSUME NEW m
        PROVE  m \in DOMAIN f[i + 1] <=> \E j \in 1 .. i + 1 : m \in Declared(snap, p[j])
    <3>1. m \in DOMAIN f[i] <=> \E j \in 1 .. i : m \in Declared(snap, p[j])
      BY <2>3 DEF LastDeclares
    <3>2. \A j : j \in 1 .. i + 1 <=> j \in 1 .. i \/ j = i + 1
      OBVIOUS
    <3> QED
      BY <2>4, <3>1, <3>2
  <2>6. ASSUME NEW m \in DOMAIN f[i + 1]
        PROVE  \E j \in 1 .. i + 1 :
                   /\ f[i + 1][m] = p[j]
                   /\ \A l \in j + 1 .. i + 1 : m \notin Declared(snap, p[l])
    <3>1. CASE m \in D
      <4>1. i + 1 \in 1 .. i + 1 /\ (i + 1) + 1 .. i + 1 = {}
        OBVIOUS
      <4>2. f[i + 1][m] = p[i + 1]
        BY <2>4, <3>1
      <4> QED
        BY <4>1, <4>2
    <3>2. CASE m \notin D
      <4>1. m \in DOMAIN f[i] /\ f[i + 1][m] = f[i][m]
        BY <2>4, <3>2
      <4>2. PICK j \in 1 .. i : /\ f[i][m] = p[j]
                                /\ \A l \in j + 1 .. i : m \notin Declared(snap, p[l])
        BY <2>3, <4>1 DEF LastDeclares
      <4>3. j \in 1 .. i + 1
        OBVIOUS
      <4>4. ASSUME NEW l \in j + 1 .. i + 1 PROVE m \notin Declared(snap, p[l])
        <5>1. l \in j + 1 .. i \/ l = i + 1
          OBVIOUS
        <5> QED
          BY <3>2, <4>2, <5>1
      <4> QED
        BY <4>1, <4>2, <4>3, <4>4
    <3> QED
      BY <3>1, <3>2
  <2> QED
    BY <2>5, <2>6 DEF LastDeclares
<1> HIDE DEF I
<1>5. L \in I
  BY <1>2, <1>3, <1>4, AllOfThem
<1>6. LastDeclares(snap, p, L, f[L])
  BY <1>2, <1>5 DEF I
<1> QED
  BY <1>2, <1>6 DEF L

\* What a branch's metrics are: those of its path, each as the closest to the leaf of
\* the groups that declare it says.
LEMMA BranchMetrics ==
    ASSUME NEW snap, IsFiniteSet(Groups(snap)), NEW sel \in Groups(snap),
           NEW p \in Branches(snap, sel), NEW metrics, metrics = MetricsOf(snap, p)
    PROVE  /\ DOMAIN metrics = UNION {Declared(snap, g) : g \in ToSet(p)}
           /\ \A m \in DOMAIN metrics, g \in ToSet(p) :
                m \in Declared(snap, g) => g = metrics[m] \/ g \in Above(snap, metrics[m])
<1> DEFINE L == Len(p)
<1>1. p \in Seq(Groups(snap))
  BY BranchesGoDown DEF PathDown
<1>2. L \in Nat /\ DOMAIN p = 1 .. L
  BY <1>1
<1>3. LastDeclares(snap, p, L, metrics)
  BY <1>1, LastOneCounts
<1>4. \A j, l \in 1 .. L : l < j => p[l] \in Above(snap, p[j])
  BY BranchesAreOrdered
<1> HIDE DEF L
<1>5. \A m : m \in DOMAIN metrics <=> \E g \in ToSet(p) : m \in Declared(snap, g)
  BY <1>2, <1>3 DEF LastDeclares, ToSet
<1>6. ASSUME NEW m \in DOMAIN metrics, NEW g \in ToSet(p), m \in Declared(snap, g)
      PROVE  g = metrics[m] \/ g \in Above(snap, metrics[m])
  <2>1. PICK l \in 1 .. L : g = p[l]
    BY <1>2 DEF ToSet
  <2>2. PICK j \in 1 .. L : metrics[m] = p[j] /\ \A k \in j + 1 .. L : m \notin Declared(snap, p[k])
    BY <1>3 DEF LastDeclares
  <2>3. l \notin j + 1 .. L
    BY <1>6, <2>1, <2>2
  <2>4. l = j \/ l < j
    BY <1>2, <2>3
  <2> QED
    BY <1>4, <2>1, <2>2, <2>4
<1>7. DOMAIN metrics = UNION {Declared(snap, g) : g \in ToSet(p)}
  BY <1>5
<1> QED
  BY <1>6, <1>7

-----------------------------------------------------------------------------
(* The theorem about plans *)

\* A plan that was made, or refused for a cycle, is that of one of Snapshots.
PlannedInv ==
    result.verdict \in {"cycle", "planned"} =>
        job \in Snapshots /\ result = PlanRun(job.snap, job.selected)

LEMMA PlannedHolds == Spec => []PlannedInv
<1>1. Init => PlannedInv
  BY DEF Init, PlannedInv, Pending
<1>2. ASSUME PlannedInv, [Next]_vars PROVE PlannedInv'
  <2>1. CASE Parse
    BY <2>1 DEF Parse, PlannedInv
  <2>2. CASE Plan
    BY <2>2 DEF Plan, PlannedInv
  <2>3. CASE UNCHANGED vars
    BY <1>2, <2>3 DEF vars, PlannedInv
  <2> QED
    BY <1>2, <2>1, <2>2, <2>3 DEF Next
<1> QED
  BY <1>1, <1>2, PTL DEF Spec

\* For every snapshot and selected group the plan follows the tree: one branch for
\* each group below, each metric as the closest declaration says, and a refusal only
\* for a cycle through the selected group.
THEOREM PlansFollowTheTree == Spec => []PlanFollowsTheTree
<1>1. ASSUME PlannedInv PROVE PlanFollowsTheTree
  <2> SUFFICES ASSUME result.verdict \in {"cycle", "planned"} PROVE PlanFollowsTheTree
    BY DEF PlanFollowsTheTree
  <2> DEFINE snap == job.snap
             sel == job.selected
             below == Below(snap, sel)
  <2>1. job \in Snapshots /\ result = PlanRun(snap, sel)
    BY <1>1 DEF PlannedInv
  <2>2. IsFiniteSet(Groups(snap))
    BY <2>1, SnapshotAssumption DEF SnapshotsAreFinite
  <2>3. /\ sel \in Groups(snap)
        /\ result.verdict = "cycle" <=> CycleFound(snap, sel)
        /\ result.verdict = "planned" =>
             result.metrics = [p \in Branches(snap, sel) |-> MetricsOf(snap, p)]
    BY <2>1 DEF PlanRun
  <2>4. result.verdict = "cycle" <=> sel \in below
    BY <2>2, <2>3, CycleIsBelow
  <2>5. ASSUME result.verdict = "planned"
        PROVE  /\ {Last(p) : p \in DOMAIN result.metrics} = below \cup {sel}
               /\ Cardinality(DOMAIN result.metrics) = Cardinality(below) + 1
               /\ \A p \in DOMAIN result.metrics :
                    ToSet(p) = {Last(p)} \cup (Above(snap, Last(p)) \cap (below \cup {sel}))
               /\ \A p \in DOMAIN result.metrics :
                    /\ DOMAIN result.metrics[p] = UNION {Declared(snap, g) : g \in ToSet(p)}
                    /\ \A m \in DOMAIN result.metrics[p], g \in ToSet(p) :
                         m \in Declared(snap, g) =>
                           g = result.metrics[p][m] \/ g \in Above(snap, result.metrics[p][m])
    <3>1. /\ ~ CycleFound(snap, sel) /\ DOMAIN result.metrics = Branches(snap, sel)
          /\ \A p \in Branches(snap, sel) : result.metrics[p] = MetricsOf(snap, p)
      BY <2>3, <2>5
    <3>2. {Last(p) : p \in DOMAIN result.metrics} = below \cup {sel}
      BY <2>2, <2>3, <3>1, ReachedAreBelow DEF Reached
    <3>3. Cardinality(DOMAIN result.metrics) = Cardinality(below) + 1
      BY <2>2, <2>3, <3>1, BranchesAreCounted
    <3>4. ASSUME NEW p \in Branches(snap, sel)
          PROVE  ToSet(p) = {Last(p)} \cup (Above(snap, Last(p)) \cap (below \cup {sel}))
      BY <2>2, <2>3, <3>1, PathIsBetween
    <3>5. ASSUME NEW p \in Branches(snap, sel)
          PROVE  /\ DOMAIN result.metrics[p] = UNION {Declared(snap, g) : g \in ToSet(p)}
                 /\ \A m \in DOMAIN result.metrics[p], g \in ToSet(p) :
                      m \in Declared(snap, g) =>
                        g = result.metrics[p][m] \/ g \in Above(snap, result.metrics[p][m])
      BY <2>2, <2>3, <3>1, BranchMetrics
    <3> HIDE DEF below, snap, sel
    <3> QED
      BY <3>1, <3>2, <3>3, <3>4, <3>5
  <2> QED
    BY <2>4, <2>5 DEF PlanFollowsTheTree, Below
<1> QED
  BY <1>1, PlannedHolds, PTL
===============================================================================
