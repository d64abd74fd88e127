------------------------------ MODULE MCDataRules ------------------------------
(* Inputs for DataRules: payloads that differ from an ordinary one in one     *)
(* place, timelines of two frames and two events, perk pages, and metric      *)
(* snapshots of up to four groups.                                            *)
EXTENDS DataRules

\* Timelines.

NoDamage == [d \in DamageLists |-> 0]
Ev(type, keys) == [type |-> type, keys |-> keys, wrong |-> FALSE, time |-> 7, killer |-> 1,
                   victim |-> 2, damage |-> NoDamage]
Kill(time, killer, victim, lists) ==
  [type |-> "CHAMPION_KILL", keys |-> RequiredKeys("CHAMPION_KILL") \cup lists,
   wrong |-> FALSE, time |-> time, killer |-> killer, victim |-> victim,
   damage |-> [d \in DamageLists |-> IF d \in lists THEN 2 ELSE 0]]

OneEvent ==
  {Other, [Ev("NEW_EVENT", BaseKeys) EXCEPT !.type = Other], Ev("NEW_EVENT", BaseKeys)}
    \cup UNION {{Ev(t, RequiredKeys(t) \cup o) : o \in SUBSET (Optional(t) \ DamageLists)} :
                  t \in EventTypes}
    \cup UNION {{Ev(t, RequiredKeys(t) \ {k}) : k \in RequiredKeys(t) \ {"type"}} :
                  t \in EventTypes}
    \cup {Ev(t, RequiredKeys(t) \cup {"newKey"}) : t \in EventTypes}
    \cup {[Ev(t, RequiredKeys(t)) EXCEPT !.wrong = TRUE] : t \in {"WARD_KILL", "CHAMPION_KILL"}}
    \cup {Kill(7, 1, 2, o) : o \in SUBSET DamageLists}

SomeEvents == {Ev("WARD_PLACED", RequiredKeys("WARD_PLACED")), Ev("NEW_EVENT", BaseKeys),
               Kill(7, 1, 2, {"victimDamageDealt"}), Kill(7, 1, 3, {"victimDamageReceived"}),
               Kill(7, 4, 5, {"victimTeamfightDamageDealt"}), Kill(9, 1, 2, DamageLists)}

Fr(time, events) == [time |-> time, stats |-> {1, 2}, events |-> events]
Tl(end, head, frames) == [result |-> end, head |-> head, frames |-> frames]
Complete(frames) == Tl("GameComplete", TRUE, frames)

FrameLists ==
  {Other, <<>>, <<Other>>, <<Fr(0, Other)>>,
   <<[Fr(0, <<>>) EXCEPT !.stats = Other]>>, <<[Fr(0, <<>>) EXCEPT !.stats = Null]>>,
   <<Fr(0, <<>>), Other>>, <<Fr(0, <<>>), Fr(60000, Other)>>}
    \cup {<<Fr(0, <<>>), Fr(t, <<Ev("LEVEL_UP", RequiredKeys("LEVEL_UP"))>>)>> :
            t \in {0, 29999, 30000, 60017, 89999, 90000}}

Timelines ==
  {Complete(<<Fr(60017, <<e>>)>>) : e \in OneEvent}
    \cup {Complete(f) : f \in {g \in {<<Fr(0, <<a, b>>), Fr(60017, <<c>>)>> :
                                        a, b, c \in SomeEvents} : Plausible(g)}}
    \cup {Tl(r, h, f) : r \in {"GameComplete", "Abort_Unexpected"}, h \in BOOLEAN, f \in FrameLists}

\* Non-timeline payloads.

Page(first, second) == <<[description |-> "primaryStyle", perks |-> first],
                         [description |-> "subStyle", perks |-> second]>>
Top == 2 ^ PerkBits - 1
Player(n, styles) ==
  [puuid |-> n, counters |-> [visionScore |-> 200 + 55 * n, retreatPings |-> None],
   challenges |-> (<<"kda", FALSE>> :> 3) @@ (<<"SWARM_KillEnemy", TRUE>> :> 1)
                    @@ (<<"quickCleanse", FALSE>> :> None),
   styles |-> styles]
Team(feats) == [id |-> 100, bans |-> {<<1, 266>>, <<2, -1>>}, feats |-> feats,
                objectives |-> ObjectiveTypes \cup {"atakhan"}]
Nt(styles) ==
  [result |-> "GameComplete", version |-> <<15, 3, 1>>,
   teams |-> <<Team([f \in FeatTypes |-> 3]), Team(None)>>,
   participants |-> [n \in DOMAIN styles |-> Player(n, styles[n])],
   missing |-> {}, extra |-> {}, wrong |-> FALSE]

FullPages == {Page(<<a, b, 0, d>>, <<e, 1>>) : a, b, e \in 0..Top, d \in {0, Top}}
OddPages == {Page(<<1, 1, 1>>, <<1, 1>>), Page(<<1, 1, 1, 1>>, <<1>>),
             Page(<<1, 1, 1>>, <<1, 1, 1>>), Page(<<1, 1, 1, 1, 1>>, <<1, 1>>),
             <<[description |-> "primaryStyle", perks |-> <<1, 1, 1, 1>>]>>,
             Page(<<1, 1, 1, 1>>, <<1, 1>>) \o Page(<<0, 0, 0, 0>>, <<1, 1>>)}
Ordinary == Page(<<1, 0, Top, 1>>, <<Top, 0>>)

NonTimelines ==
  {Nt(<<p, q>>) : p \in {Ordinary, Page(<<Top, 0, 0, Top>>, <<0, 1>>),
                         Page(<<0, Top, 0, 0>>, <<Top, 1>>)}, q \in FullPages}
    \cup {Nt(<<Ordinary, q>>) : q \in OddPages}
    \cup {[Nt(<<Ordinary>>) EXCEPT !.missing = m] : m \in {{s} : s \in Sections} \cup {{}}}
    \cup {[Nt(<<Ordinary>>) EXCEPT !.extra = {<<x, "newKey">>}, !.missing = m] :
            x \in Models, m \in {{}, {"feats"}, {"bans"}}}
    \cup {[Nt(<<Ordinary>>) EXCEPT !.version = v] :
            v \in {<<15, 3>>, <<15, None, 1>>, <<None, 3, 1>>}}
    \cup {[Nt(<<Ordinary>>) EXCEPT !.result = "Abort_Unexpected", !.wrong = w] : w \in BOOLEAN}
    \cup {[Nt(<<Ordinary>>) EXCEPT !.wrong = TRUE]}

PlainTimeline == Complete(<<Fr(0, <<Ev("LEVEL_UP", RequiredKeys("LEVEL_UP"))>>)>>)

MCMatches ==
  {[timeline |-> t, non_timeline |-> [Nt(<<Ordinary>>) EXCEPT !.result = t.result]] :
            t \in Timelines}
    \cup {[timeline |-> [PlainTimeline EXCEPT !.result = n.result], non_timeline |-> n] :
            n \in NonTimelines}

\* Metric snapshots: every parent relation over four groups, some of them inactive.
\* Groups are 1 to 4, members 11 and 12, metrics from 21 on.

Grp == 1..4
Snap(parent, active, members, assigned) ==
  [groups |-> parent, active |-> active, members |-> members, assigned |-> assigned,
   rules |-> [m \in {11, 12} |->
                IF m = 11 THEN [role |-> "UTILITY", champion |-> Absent, build |-> Absent]
                ELSE [role |-> "UTILITY", champion |-> 89, build |-> Absent]],
   metrics |-> {21, 22, 23}, dependencies |-> {<<22, 24>>, <<25, 22>>}]

Assigned == <<{<<1, 21>>, <<2, 22>>, <<3, 21>>, <<4, 23>>}, {<<1, 22>>, <<2, 22>>, <<4, 22>>}>>

MCSnapshots ==
  {[snap |-> Snap(parent, choice[1] \cup {11, 12, 21, 22},
                  {<<1, 11>>, <<2, 12>>, <<2, 11>>, <<4, 12>>}, Assigned[choice[2]]),
    selected |-> 1] :
     parent \in [Grp -> Grp \cup {Absent}],
     choice \in {<<Grp, 1>>, <<Grp, 2>>, <<{1, 2, 4}, 2>>, <<{2, 3}, 1>>}}
===============================================================================
