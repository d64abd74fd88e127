----------------------------- MODULE TimelineRows -----------------------------
(***************************************************************************)
(* What the timeline parsers make of a payload (parsers/timeline.py, its   *)
(* models, and the drift check of parsers/schema_drift.py).                *)
(*                                                                         *)
(* A raw timeline is [result, head, frames]: endOfGameResult, whether the  *)
(* metadata and the plain fields of info satisfy the models, and the list  *)
(* of frames.  A frame is [time, stats, events], stats being the ids in    *)
(* its participantFrames (Null: it has none).  An event is [type, keys,    *)
(* wrong, time, killer, victim, damage]: the keys it has, whether a value  *)
(* has a wrong type, and how many damage instances each of its damage      *)
(* lists holds.  Other values are not told apart.                          *)
(***************************************************************************)
EXTENDS Integers, Sequences

CONSTANTS Other,  \* any JSON value whose shape is not the one the code expects
          Null    \* a key that is missing, or is null

FrameBucket == 60000

NearestFrameTimestamp(ms) ==
  IF ms <= 0 THEN 0 ELSE ((ms + FrameBucket \div 2) \div FrameBucket) * FrameBucket

(* The models.  Every event also has the keys of EventBase.                 *)

Required ==
  [UNKNOWN |-> {}, ITEM_PURCHASED |-> {"participantId", "itemId"},
   ITEM_UNDO |-> {"afterId", "beforeId", "goldGain", "participantId"},
   SKILL_LEVEL_UP |-> {"levelUpType", "participantId", "skillSlot"},
   WARD_PLACED |-> {"creatorId", "wardType"}, WARD_KILL |-> {"killerId", "wardType"},
   LEVEL_UP |-> {"level", "participantId"}, ITEM_DESTROYED |-> {"itemId", "participantId"},
   ITEM_SOLD |-> {"itemId", "participantId"}, PAUSE_END |-> {"realTimestamp"},
   GAME_END |-> {"winningTeam", "realTimestamp"},
   CHAMPION_KILL |-> {"bounty", "killStreakLength", "killerId", "position",
                      "shutdownBounty", "victimId"},
   CHAMPION_SPECIAL_KILL |-> {"killType", "killerId", "position"},
   DRAGON_SOUL_GIVEN |-> {"name", "teamId"},
   ELITE_MONSTER_KILL |-> {"bounty", "killerId", "killerTeamId", "monsterType", "position"},
   TURRET_PLATE_DESTROYED |-> {"killerId", "laneType", "position", "teamId"},
   BUILDING_KILL |-> {"bounty", "buildingType", "killerId", "laneType", "position", "teamId"},
   OBJECTIVE_BOUNTY_PRESTART |-> {"actualStartTime", "teamId"},
   OBJECTIVE_BOUNTY_FINISH |-> {"teamId"},
   FEAT_UPDATE |-> {"featType", "featValue", "teamId"},
   CHAMPION_TRANSFORM |-> {"participantId", "transformType"}]

EventTypes == DOMAIN Required

\* A type that is missing is not one of them.
ASSUME OtherAssumption == Other \notin EventTypes

DamageLists == {"victimDamageDealt", "victimDamageReceived",
                "victimTeamfightDamageDealt", "victimTeamfightDamageReceived"}

Optional(type) ==
  CASE type = "UNKNOWN" -> {"originalType"}
    [] type = "WARD_KILL" -> {"creatorId"}
    [] type = "GAME_END" -> {"gameId"}
    [] type = "CHAMPION_KILL" -> DamageLists \cup {"assistingParticipantIds"}
    [] type = "CHAMPION_SPECIAL_KILL" -> {"multiKillLength"}
    [] type = "ELITE_MONSTER_KILL" -> {"assistingParticipantIds", "monsterSubType"}
    [] type = "BUILDING_KILL" -> {"assistingParticipantIds", "towerType"}
    [] OTHER -> {}

BaseKeys == {"type", "timestamp"}
RequiredKeys(type) == BaseKeys \cup Required[type]
KnownKeys(type) == RequiredKeys(type) \cup Optional(type)

ValidEvent(e) ==
  /\ e # Other
  /\ e.type \in EventTypes
  /\ RequiredKeys(e.type) \subseteq e.keys
  /\ ~e.wrong

ValidFrame(f) ==
  /\ f # Other /\ f.stats \notin {Other, Null} /\ f.events # Other
  /\ \A j \in DOMAIN f.events : ValidEvent(f.events[j])

ValidTimeline(raw) ==
  /\ raw.head /\ raw.frames # Other
  /\ \A i \in DOMAIN raw.frames : ValidFrame(raw.frames[i])

\* A validated event has lost the keys that its model does not know.
Validated(e) == [e EXCEPT !.keys = e.keys \cap KnownKeys(e.type)]

(* The drift check runs before anything else and reports each issue once.   *)

EventDrift(e) ==
  IF e = Other THEN {<<"event_not_object">>}
  ELSE IF e.type = Other THEN {<<"missing_event_type">>}
  ELSE IF e.type \notin EventTypes THEN {<<"unknown_event_type", e.type>>}
  ELSE {<<e.type, "unexpected_key", k>> : k \in e.keys \ KnownKeys(e.type)}
         \cup {<<e.type, "missing_required_key", k>> : k \in RequiredKeys(e.type) \ e.keys}

FrameDrift(f) ==
  IF f = Other THEN {<<"frame_not_object">>}
  ELSE IF f.events = Other THEN {<<"events_not_list">>}
  ELSE UNION {EventDrift(f.events[j]) : j \in DOMAIN f.events}

\* A plausible slip: only the first frame is looked at.
TimelineDrift_FirstFrame(raw) ==
  IF raw.frames = Other THEN {<<"missing_or_invalid_frames">>}
  ELSE IF raw.frames = <<>> THEN {} ELSE FrameDrift(raw.frames[1])

TimelineDrift(raw) ==
  IF raw.frames = Other THEN {<<"missing_or_invalid_frames">>}
  ELSE UNION {FrameDrift(raw.frames[i]) : i \in DOMAIN raw.frames}

(* An aborted game without real frames is skipped; one whose stats have the *)
(* wrong shape goes on to the models, which reject it.                      *)

SkipsTimeline(raw) ==
  /\ raw.result = "Abort_Unexpected"
  /\ \/ raw.frames = Other \/ raw.frames = <<>>
     \/ raw.frames[1] # Other /\ raw.frames[1].stats = Null

(***************************************************************************)
(* The tables and their insert columns, which are the keys of the row      *)
(* types.  A row that lacks one makes its insert fail.                     *)
(***************************************************************************)
TypedTable ==
  [buildingKill |-> "BUILDING_KILL", championKill |-> "CHAMPION_KILL",
   championSpecialKill |-> "CHAMPION_SPECIAL_KILL", dragonSoulGiven |-> "DRAGON_SOUL_GIVEN",
   eliteMonsterKill |-> "ELITE_MONSTER_KILL",
   turretPlateDestroyed |-> "TURRET_PLATE_DESTROYED"]

PayloadTypes ==
  {"WARD_KILL", "WARD_PLACED", "GAME_END", "OBJECTIVE_BOUNTY_PRESTART",
   "OBJECTIVE_BOUNTY_FINISH", "FEAT_UPDATE", "CHAMPION_TRANSFORM", "ITEM_DESTROYED",
   "ITEM_PURCHASED", "ITEM_SOLD", "ITEM_UNDO", "LEVEL_UP", "PAUSE_END",
   "SKILL_LEVEL_UP", "UNKNOWN"}

DamageTable ==
  [championKillVictimDamageDealt |->
     [key |-> "victimDamageDealt", alias |-> "victimTeamfightDamageDealt"],
   championKillVictimDamageReceived |->
     [key |-> "victimDamageReceived", alias |-> "victimTeamfightDamageReceived"]]

EventTables == DOMAIN TypedTable \cup {"payloadEvents"}

DamageInstance == {"basic", "magicDamage", "name", "participantId", "physicalDamage",
                   "spellName", "spellSlot", "trueDamage", "type"}
Position == {"position_x", "position_y"}
RowBase == BaseKeys \cup {"matchId", "frame_timestamp"}

TimelineColumns(table) ==
  CASE table = "buildingKill" ->
         RowBase \cup Position \cup {"bounty", "buildingType", "assistingParticipantIds",
                                     "killerId", "laneType", "teamId", "towerType"}
    [] table = "championKill" ->
         RowBase \cup Position \cup {"champion_kill_event_id", "assistingParticipantIds",
                                     "killerId", "victimId", "bounty", "killStreakLength",
                                     "shutdownBounty"}
    [] table = "championSpecialKill" ->
         RowBase \cup Position \cup {"killType", "killerId", "multiKillLength"}
    [] table = "dragonSoulGiven" -> RowBase \cup {"name", "teamId"}
    [] table = "eliteMonsterKill" ->
         RowBase \cup Position \cup {"assistingParticipantIds", "bounty", "killerId",
                                     "killerTeamId", "monsterSubType", "monsterType"}
    [] table = "payloadEvents" -> RowBase \cup {"payload"}
    [] table = "turretPlateDestroyed" ->
         RowBase \cup Position \cup {"killerId", "laneType", "teamId"}
    [] OTHER ->
         DamageInstance \cup {"matchId", "frame_timestamp", "timestamp",
                              "champion_kill_event_id", "direction", "idx"}

(* The parsers.  A row notes the event it comes from, the keys of the row   *)
(* and of its payload, and for kills the event id that joins the tables.    *)

\* A plausible slip: the victim is left out of the id.
KillId_NoVictim(e) == <<e.time, e.killer>>

KillId(e) == <<e.time, e.killer, e.victim>>

\* Keys that a parser adds to an event of the type, with a default if need be.
\* A plausible slip: the tower type is left as the event has it.
Defaulted_NoTower(type) ==
  CASE type = "CHAMPION_KILL" -> {"champion_kill_event_id", "assistingParticipantIds"}
    [] type = "CHAMPION_SPECIAL_KILL" -> {"multiKillLength"}
    [] type = "ELITE_MONSTER_KILL" -> {"assistingParticipantIds", "monsterSubType"}
    [] type = "BUILDING_KILL" -> {"assistingParticipantIds"}
    [] OTHER -> {}

Defaulted(type) ==
  CASE type = "CHAMPION_KILL" -> {"champion_kill_event_id", "assistingParticipantIds"}
    [] type = "CHAMPION_SPECIAL_KILL" -> {"multiKillLength"}
    [] type = "ELITE_MONSTER_KILL" -> {"assistingParticipantIds", "monsterSubType"}
    [] type = "BUILDING_KILL" -> {"assistingParticipantIds", "towerType"}
    [] OTHER -> {}

SplitPosition(keys) ==
  IF "position" \in keys THEN (keys \ {"position"}) \cup Position ELSE keys

TypedKeys(e) ==
  SplitPosition((e.keys \ DamageLists) \cup {"frame_timestamp", "matchId"}
                  \cup Defaulted(e.type))

\* A plausible slip: keys that some column has are not copied to the payload.
PayloadKeys_NoIds(e) ==
  e.keys \ {"type", "timestamp", "matchId", "gameId", "participantId"}

PayloadKeys(e) == e.keys \ {"type", "timestamp", "matchId", "gameId"}

Row(table, at, bucket, e, keys, payload, list, idx) ==
  [table |-> table, event |-> at, bucket |-> bucket, id |-> KillId(e),
   keys |-> keys, payload |-> payload, list |-> list, idx |-> idx]

TypedRows(at, bucket, e) ==
  {Row(table, at, bucket, e, TypedKeys(e), {}, "none", 0) :
     table \in {t \in DOMAIN TypedTable : TypedTable[t] = e.type}}

PayloadRows(at, bucket, e) ==
  {Row("payloadEvents", at, bucket, e, RowBase \cup {"payload"}, PayloadKeys(e), "none", 0) :
     type \in PayloadTypes \cap {e.type}}

DamageList(e, d) == IF d.key \in e.keys THEN d.key ELSE d.alias

DamageRows(at, bucket, e) ==
  UNION {LET list == DamageList(e, DamageTable[table])
             keys == DamageInstance \cup {"matchId", "frame_timestamp", "timestamp",
                                          "direction", "champion_kill_event_id", "idx"}
         IN  {Row(table, at, bucket, e, keys, {}, list, idx) :
                idx \in 1..(IF list \in e.keys THEN e.damage[list] ELSE 0)} :
           table \in IF e.type = "CHAMPION_KILL" THEN DOMAIN DamageTable ELSE {}}

EventRows(frame, i, j) ==
  LET e == Validated(frame.events[j])
      bucket == NearestFrameTimestamp(frame.time)
  IN  TypedRows(<<i, j>>, bucket, e) \cup PayloadRows(<<i, j>>, bucket, e)
        \cup DamageRows(<<i, j>>, bucket, e)

FrameRows(frame, i) == UNION {EventRows(frame, i, j) : j \in DOMAIN frame.events}

\* One row of participantStats per participant and frame.
StatRows(frame, i) ==
  {[frame |-> i, bucket |-> NearestFrameTimestamp(frame.time), participantId |-> p] :
     p \in frame.stats}

TimelineRun(raw) ==
  IF SkipsTimeline(raw) THEN [verdict |-> "skipped", rows |-> {}, stats |-> {}]
  ELSE IF ~ValidTimeline(raw) THEN [verdict |-> "rejected", rows |-> {}, stats |-> {}]
  ELSE [verdict |-> "parsed",
        rows |-> UNION {FrameRows(raw.frames[i], i) : i \in DOMAIN raw.frames},
        stats |-> UNION {StatRows(raw.frames[i], i) : i \in DOMAIN raw.frames}]
===============================================================================
