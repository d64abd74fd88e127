---------------------------- MODULE NonTimelineRows ----------------------------
(***************************************************************************)
(* What the non-timeline parsers make of a payload                         *)
(* (parsers/non_timeline.py, its models, and its drift check).             *)
(*                                                                         *)
(* A raw payload is [result, version, teams, participants, missing, extra, *)
(* wrong]: endOfGameResult, the parts of gameVersion, the teams and        *)
(* participants, the sections that are missing or not of the shape they    *)
(* should have, the unknown keys as pairs of model and key, and whether    *)
(* another value does not satisfy its model.  A team is [id, bans, feats,  *)
(* objectives]; a participant [puuid, counters, challenges, styles]; a     *)
(* style [description, perks], its selections in order.  None stands for   *)
(* Python's None, and in a version for a part that is no number.           *)
(***************************************************************************)
EXTENDS Integers, Sequences, FiniteSets

CONSTANTS
  None,
  PerkBits  \* 14 in the code: the bits of a perk in the combination key

ASSUME PerkAssumption == PerkBits \in Nat \ {0}

(* Drift: the models that are compared with the raw keys, each with the     *)
(* sections on the path to it, and what every model does with unknown keys. *)

Watched ==
  [Metadata |-> {"metadata"}, Info |-> {"info"}, Ban |-> {"info", "teams", "bans"},
   Feats |-> {"info", "teams", "feats"}, Objectives |-> {"info", "teams", "objectives"},
   Participant |-> {"info", "participants"},
   Challenges |-> {"info", "participants", "challenges"},
   Perks |-> {"info", "participants", "perks"}]

Sections == UNION {Watched[m] : m \in DOMAIN Watched}
OptionalSections == {"feats"}

Forbidding == {"Metadata", "Ban", "Perks", "StatPerks", "PerkStyle", "PerkSelection",
               "FeatState", "ObjectiveStat"}
Ignoring == {"Info", "Team", "Feats", "Objectives", "Participant", "PlayerBehaviorData",
             "Missions"}
Models == Forbidding \cup Ignoring \cup {"Challenges"}

NonTimelineDrift(raw) ==
  LET broken == {m \in DOMAIN Watched : Watched[m] \cap raw.missing # {}}
  IN  {<<m, "missing_path_segment">> : m \in {b \in broken : b # "Feats"}}
        \cup {<<m, "unexpected_key">> :
                m \in (DOMAIN Watched \ broken) \cap {x[1] : x \in raw.extra}}

ValidNonTimeline(raw) ==
  /\ raw.missing \subseteq OptionalSections
  /\ \A x \in raw.extra : x[1] \notin Forbidding
  /\ ~raw.wrong

SkipsNonTimeline(raw) == raw.result = "Abort_Unexpected"

(* One match.                                                               *)

\* season and patch stay -1 from the first part on that is no number.
Version(parts) ==
  LET number(i) == IF Len(parts) >= 3 /\ \A k \in 1..i : parts[k] # None
                   THEN parts[i] ELSE -1
  IN  [season |-> number(1), patch |-> number(2)]

BanRows(teams) ==
  UNION {{<<teams[t].id, b>> : b \in teams[t].bans} : t \in DOMAIN teams}

FeatTypes == {"EPIC_MONSTER_KILL", "FIRST_BLOOD", "FIRST_TURRET"}

FeatRows(teams) ==
  UNION {{<<teams[t].id, f, teams[t].feats[f]>> : f \in FeatTypes} :
           t \in {x \in DOMAIN teams : teams[x].feats # None}}

\* The model knows atakhan too, but no row is made of it.
ObjectiveTypes == {"baron", "champion", "dragon", "horde", "inhibitor", "riftHerald", "tower"}

ObjectiveRows(teams) ==
  UNION {{<<teams[t].id, o>> : o \in ObjectiveTypes \cap teams[t].objectives} :
           t \in DOMAIN teams}

(* One participant.                                                         *)

Clamped(value) == IF value # None /\ value > 255 THEN 255 ELSE value

StatRow(p) == [c \in DOMAIN p.counters |-> Clamped(p.counters[c])]

\* A challenge is a pair of its key and whether it belongs to the SWARM mode.
ChallengePayload(p) ==
  {k \in DOMAIN p.challenges : p.challenges[k] # None /\ ~k[2]}

\* style_by_desc: the last style of a description counts.
HasStyle(p, description) ==
  \E s \in DOMAIN p.styles : p.styles[s].description = description

Style(p, description) ==
  LET of == {s \in DOMAIN p.styles : p.styles[s].description = description}
  IN  p.styles[CHOOSE s \in of : \A r \in of : r <= s]

Selected(p) == Style(p, "primaryStyle").perks \o Style(p, "subStyle").perks

\* 1 << n, so that perk << n is perk * Bit[n].
Bit[n \in Nat] == IF n = 0 THEN 1 ELSE 2 * Bit[n - 1]

\* A plausible slip: a field is a bit too narrow.
Place_Narrow(idx) == Bit[(PerkBits - 1) * (idx - 1)]

\* int(perk_id) << (perk_bit_width * idx), idx counted from one here.
Place(idx) == Bit[PerkBits * (idx - 1)]

ComboKey(perks) ==
  LET sum[n \in 0..Len(perks)] ==
        IF n = 0 THEN 0 ELSE sum[n - 1] + perks[n] * Place(n)
  IN  sum[Len(perks)]

\* primary_perk_1.., sub_perk_1..: the columns of the selections there are.
PerkColumns(p) ==
  {<<"primary", i>> : i \in DOMAIN Style(p, "primaryStyle").perks}
    \cup {<<"sub", i>> : i \in DOMAIN Style(p, "subStyle").perks}

\* What the row types TabulatedParticipantPerkIds and ..PerkValues ask for.
PerkRowColumns == {<<"primary", i>> : i \in 1..4} \cup {<<"sub", i>> : i \in 1..2}

PerkRow(p) == [puuid |-> p.puuid, columns |-> PerkColumns(p), perks |-> Selected(p),
               perk_combo_key |-> ComboKey(Selected(p))]

\* A page without one of its two styles raises KeyError.
ReadsStyles(raw) ==
  \A i \in DOMAIN raw.participants :
    /\ HasStyle(raw.participants[i], "primaryStyle")
    /\ HasStyle(raw.participants[i], "subStyle")

NoNonTimelineRows(verdict) ==
  [verdict |-> verdict, info |-> {}, bans |-> {}, feats |-> {}, objectives |-> {},
   stats |-> {}, challenges |-> {}, perks |-> {}]

NonTimelineRun(raw) ==
  IF SkipsNonTimeline(raw) THEN NoNonTimelineRows("skipped")
  ELSE IF ~ValidNonTimeline(raw) \/ ~ReadsStyles(raw) THEN NoNonTimelineRows("rejected")
  ELSE LET players == {raw.participants[i] : i \in DOMAIN raw.participants}
       IN  [verdict |-> "parsed", info |-> {Version(raw.version)},
            bans |-> BanRows(raw.teams), feats |-> FeatRows(raw.teams),
            objectives |-> ObjectiveRows(raw.teams),
            stats |-> {StatRow(p) : p \in players},
            challenges |-> {ChallengePayload(p) : p \in players},
            perks |-> {PerkRow(p) : p \in players}]
===============================================================================
