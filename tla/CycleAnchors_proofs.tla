-------------------------- MODULE CycleAnchors_proofs --------------------------
(***************************************************************************)
(* Proofs about CycleAnchors, for every number of players, runs and        *)
(* incidents, and wherever a cycle ends.                                   *)
(***************************************************************************)
EXTENDS CycleAnchors, TLAPS

\* max(stored_at) is the newest anchor, and 0 stands for no anchor at all.
LEMMA LatestIs ==
    ASSUME TypeOK, AnchorsOrdered
    PROVE  /\ Latest \in 0 .. now
           /\ Latest # 0 => Latest \in anchors
           /\ \A a \in anchors : a <= Latest
<1> USE CycleAssumption DEF CycleAssumption, TypeOK, AnchorsOrdered, Run
<1>1. CASE anchors = {}
  BY <1>1 DEF Latest
<1>2. CASE anchors # {}
  <2>1. \E r \in anchors : \A a \in anchors : a <= r
    BY <1>2 DEF HasMax
  <2>2. Latest \in anchors /\ \A a \in anchors : a <= Latest
    BY <1>2, <2>1 DEF Latest
  <2> QED
    BY <2>2
<1> QED
  BY <1>1, <1>2

\* The stage that follows a delete of save's handler.
LEMMA UndoStages ==
    /\ UndoOrder[1] = "undo_anchor"
    /\ Undone("undo_anchor") <=> stage = "undo_anchor" /\ stage' = "undo_puuids"
    /\ Undone("undo_puuids") <=> stage = "undo_puuids" /\ stage' = "undo_rows"
    /\ Undone("undo_rows") <=> stage = "undo_rows" /\ stage' = "players"
BY DEF UndoOrder, Undone

\* The initial state satisfies every part of the invariant.
LEMMA InitHolds == Init => CycleInv
<1> SUFFICES ASSUME Init PROVE CycleInv
  OBVIOUS
<1> USE CycleAssumption DEF CycleAssumption, Init, Run, Match
<1>1. TypeOK
  BY DEF TypeOK
<1>2. AnchorsOrdered
  BY DEF AnchorsOrdered, HasMax
<1>3. KeysAreListed
  BY DEF KeysAreListed
<1>4. AnchorsAreSeeded
  BY DEF AnchorsAreSeeded, RowsOfRun
<1> QED
  BY <1>1, <1>2, <1>3, <1>4 DEF CycleInv

\* Every action keeps the types and the order of the anchors.
LEMMA TypeInductive ==
    ASSUME TypeOK, AnchorsOrdered, [Next]_vars
    PROVE  TypeOK'
<1> USE CycleAssumption, UndoStages
    DEF CycleAssumption, TypeOK, Run, Match, database, crawl, history
<1>1. CASE \E found \in SUBSET Key : FindPlayers(found)
  BY <1>1 DEF FindPlayers
<1>2. CASE Load
  <2>1. \A k \in Key : StartTime(k) \in 0 .. MaxRuns
    BY LatestIs DEF StartTime
  <2> QED
    BY <1>2, <2>1 DEF Load
<1>3. ASSUME NEW k \in Key, NEW from \in Nat, Complete(k, from), from <= now,
             incidents' \in 0 .. MaxIncidents
      PROVE  TypeOK'
  <2>1. now \in Run
    BY <1>3 DEF Complete, AnchorsOrdered
  <2>2. Listed(k, from) \subseteq Run \X Match
    BY <2>1, <1>3 DEF Listed
  <2>3. {<<now, <<k, j>>>> : j \in since[k] + 1 .. from} \subseteq Run \X Match
    BY <2>1, <1>3
  <2> QED
    BY <1>3, <2>2, <2>3 DEF Complete
<1>a. \A k \in Key : Oldest(k) \in Nat /\ (since[k] <= now => since[k] <= Oldest(k) /\ Oldest(k) <= now)
  BY DEF Oldest
<1>b. ASSUME NEW k \in Key, CrawlKey(k) \/ CrawlKeyNotFound(k) PROVE TypeOK'
  <2>1. PICK from \in Nat : Complete(k, from) /\ from <= now
    BY <1>a, <1>b DEF CrawlKey, CrawlKeyNotFound, Complete, AnchorsOrdered
  <2>2. incidents' \in 0 .. MaxIncidents
    BY <1>b DEF CrawlKey, CrawlKeyNotFound, Incident
  <2> QED
    BY <1>3, <2>1, <2>2
<1>4. ASSUME NEW k \in Key, CrawlKeyFails(k) PROVE TypeOK'
  <2>1. PICK from \in Nat : rows' = rows \cup Listed(k, from)
    BY <1>a, <1>4 DEF CrawlKeyFails
  <2>2. Listed(k, from) \subseteq Run \X Match
    BY <1>4, AnchorsOrdered DEF CrawlKeyFails, AnchorsOrdered, Listed
  <2> QED
    BY <1>4, <2>1, <2>2 DEF CrawlKeyFails, Incident
<1>5. CASE InsertPuuids
  BY <1>5, AnchorsOrdered DEF InsertPuuids, Successful, AnchorsOrdered
<1>6. CASE Anchor
  BY <1>6, AnchorsOrdered DEF Anchor, AnchorsOrdered
<1>7. CASE SaveError
  <2>1. now \in Run
    BY <1>7 DEF SaveError, AnchorsOrdered
  <2>2. puuids' \subseteq Run \X Key
    BY <1>7, <2>1 DEF SaveError, Successful
  <2>3. anchors' \subseteq Run
    BY <1>7, <2>1 DEF SaveError
  <2>4. stage' = "undo_anchor" /\ incidents' \in 0 .. MaxIncidents
    BY <1>7 DEF SaveError, Incident
  <2> QED
    BY <1>7, <2>2, <2>3, <2>4 DEF SaveError
<1>8. CASE UndoAnchor
  BY <1>8 DEF UndoAnchor
<1>9. CASE UndoPuuids
  BY <1>9 DEF UndoPuuids
<1>10. CASE UndoRows
  BY <1>10 DEF UndoRows
<1>11. CASE DeleteOld
  BY <1>11 DEF DeleteOld
<1>12. CASE Seed
  <2>1. LatestRows \subseteq Match
    BY DEF LatestRows
  <2> QED
    BY <1>12, <2>1 DEF Seed
<1>13. CASE MarkSeeded
  BY <1>13, LatestIs DEF MarkSeeded
<1>14. CASE MatchDataAlone
  BY <1>14 DEF MatchDataAlone
<1>15. CASE \E left \in {{}, pending} : Drain(left)
  BY <1>15 DEF Drain
<1>16. CASE CycleEnds
  BY <1>16, AnchorsOrdered DEF CycleEnds, InGap, Incident
<1>17. CASE UNCHANGED vars
  BY <1>17 DEF vars
<1> QED
  BY <1>1, <1>2, <1>b, <1>4, <1>5, <1>6, <1>7, <1>8, <1>9, <1>10, <1>11, <1>12,
     <1>13, <1>14, <1>15, <1>16, <1>17 DEF Next

\* Only the run at hand takes its anchor back, and the one before is still in order.
LEMMA OrderInductive ==
    ASSUME TypeOK, AnchorsOrdered, [Next]_vars
    PROVE  AnchorsOrdered'
<1> USE CycleAssumption, UndoStages
    DEF CycleAssumption, TypeOK, AnchorsOrdered, Run, database, crawl
<1>0. ASSUME UNCHANGED <<now, anchors>>,
             stage' \in {"crawl", "anchor", "undo_anchor", "undo_puuids", "undo_rows", "delete_old"}
                 => now > 0,
             stage' = "crawl" => stage = "crawl" /\ UNCHANGED since
      PROVE  AnchorsOrdered'
  BY <1>0 DEF HasMax
<1>1. CASE \E found \in SUBSET Key : FindPlayers(found)
  BY <1>0, <1>1 DEF FindPlayers
<1>2. CASE Load
  <2>1. anchors \ {now + 1} = anchors
    OBVIOUS
  <2>2. \A k \in Key : since'[k] <= now'
    BY <1>2, LatestIs DEF Load, StartTime
  <2> QED
    BY <1>2, <2>1, <2>2 DEF Load, HasMax
<1>3. CASE \E k \in Key : CrawlKey(k) \/ CrawlKeyNotFound(k) \/ CrawlKeyFails(k)
  BY <1>0, <1>3 DEF CrawlKey, CrawlKeyNotFound, Complete, CrawlKeyFails
<1>4. CASE InsertPuuids
  BY <1>0, <1>4 DEF InsertPuuids
<1>5. ASSUME anchors' = anchors \cup {now}, now' = now, now > 0, stage' # "crawl"
      PROVE  AnchorsOrdered'
  <2>1. anchors' \ {now'} = anchors \ {now}
    BY <1>5
  <2>2. \A b \in anchors \cup {now} : b <= now
    OBVIOUS
  <2> QED
    BY <1>5, <2>1, <2>2 DEF HasMax
<1>6. CASE Anchor
  BY <1>5, <1>6 DEF Anchor
<1>7. CASE SaveError
  <2>1. stage' = "undo_anchor"
    BY <1>7 DEF SaveError
  <2> QED
    BY <1>0, <1>5, <1>7, <2>1 DEF SaveError
<1>8. CASE UndoAnchor
  <2>1. anchors' \ {now'} = anchors \ {now}
    BY <1>8 DEF UndoAnchor
  <2> QED
    BY <1>8, <2>1 DEF UndoAnchor, HasMax
<1>9. CASE UndoPuuids \/ UndoRows
  BY <1>0, <1>9 DEF UndoPuuids, UndoRows
<1>10. CASE DeleteOld
  <2>1. anchors' \ {now'} = {}
    BY <1>10 DEF DeleteOld
  <2>2. anchors' = {} \/ anchors' = {now}
    BY <1>10 DEF DeleteOld
  <2> QED
    BY <1>10, <2>1, <2>2 DEF DeleteOld, HasMax
<1>11. CASE Seed \/ MarkSeeded \/ MatchDataAlone
  BY <1>0, <1>11 DEF Seed, MarkSeeded, MatchDataAlone
<1>12. CASE \E left \in {{}, pending} : Drain(left)
  BY <1>0, <1>12 DEF Drain
<1>13. CASE CycleEnds \/ UNCHANGED vars
  BY <1>0, <1>13 DEF CycleEnds, vars
<1> QED
  BY <1>1, <1>2, <1>3, <1>4, <1>6, <1>7, <1>8, <1>9, <1>10, <1>11, <1>12, <1>13 DEF Next

-----------------------------------------------------------------------------
(* What a run's keys promise about the rows *)

\* A key that is not shadowed is crawled from the anchor only if the anchored run
\* collected it, and not another queue's key of the same player.
LEMMA CollectedIsOwnKey ==
    ASSUME Load, NEW k \in loaded' \ shadowed', Collected(k)
    PROVE  <<Latest, k>> \in puuids
BY DEF Load

\* The pages reach back to the newest match before them, and not beyond the crawl's
\* start.
LEMMA OldestIs ==
    ASSUME TypeOK, AnchorsOrdered, stage = "crawl", NEW k \in Key
    PROVE  /\ since[k] \in Nat /\ now \in Nat /\ since[k] <= now
           /\ Oldest(k) \in Nat /\ since[k] <= Oldest(k) /\ Oldest(k) <= now
<1>1. since[k] \in Nat /\ now \in Nat /\ since[k] <= now
  BY CycleAssumption DEF CycleAssumption, TypeOK, AnchorsOrdered
<1> QED
  BY <1>1, CycleAssumption DEF CycleAssumption, Oldest

\* What a step of a key's crawl does: it lists the matches after `from`, and either
\* leaves out those before, or the key counts as failed.
CrawlStep(k, from) ==
    /\ stage = "crawl" /\ k \in todo /\ from \in Nat /\ since[k] <= from /\ from <= now
    /\ rows' = rows \cup Listed(k, from)
    /\ todo' = todo \ {k}
    /\ \/ /\ cut' = cut \cup {<<now, <<k, j>>>> : j \in since[k] + 1 .. from}
          /\ failed' = failed
       \/ cut' = cut /\ failed' = failed \cup {k}
    /\ UNCHANGED <<stage, now, puuids, anchors, seeded, seen, shadowed, gaps, loaded, since>>

LEMMA CrawlSteps ==
    ASSUME TypeOK, AnchorsOrdered, NEW k \in Key,
           CrawlKey(k) \/ CrawlKeyNotFound(k) \/ CrawlKeyFails(k)
    PROVE  \E from : CrawlStep(k, from)
<1>1. stage = "crawl"
  BY DEF CrawlKey, CrawlKeyNotFound, Complete, CrawlKeyFails
<1>2. /\ since[k] \in Nat /\ now \in Nat /\ since[k] <= now
      /\ Oldest(k) \in Nat /\ since[k] <= Oldest(k) /\ Oldest(k) <= now
  BY <1>1, OldestIs
<1>3. CASE CrawlKey(k) \/ CrawlKeyNotFound(k)
  <2>1. PICK from \in Oldest(k) .. now : Complete(k, from)
    BY <1>2, <1>3 DEF CrawlKey, CrawlKeyNotFound
  <2>2. from \in Nat /\ since[k] <= from /\ from <= now
    BY <1>2
  <2> QED
    BY <2>1, <2>2 DEF Complete, CrawlStep
<1>4. CASE CrawlKeyFails(k)
  <2>1. PICK from \in Oldest(k) .. now : rows' = rows \cup Listed(k, from)
    BY <1>4 DEF CrawlKeyFails
  <2>2. from \in Nat /\ since[k] <= from /\ from <= now
    BY <1>2
  <2> QED
    BY <1>4, <2>1, <2>2 DEF CrawlKeyFails, CrawlStep, history
<1> QED
  BY <1>3, <1>4

\* A crawl that completes leaves no match of its key undealt with.
LEMMA CrawlCompletes ==
    ASSUME TypeOK, AnchorsOrdered, NEW k \in Key, NEW from, CrawlStep(k, from),
           ListedUpTo(since[k], k), k \notin failed'
    PROVE  Crawled(k)'
<1> SUFFICES ASSUME NEW j \in 1 .. now
             PROVE  (\E i \in 1 .. now : Asked(i, k, j)') \/ <<now, <<k, j>>>> \in cut'
  BY DEF Crawled, CrawlStep
<1>1. /\ since[k] \in Nat /\ now \in Nat /\ since[k] <= now /\ now > 0
      /\ from \in Nat /\ since[k] <= from /\ from <= now
  BY OldestIs DEF CrawlStep, AnchorsOrdered
<1>2. cut' = cut \cup {<<now, <<k, i>>>> : i \in since[k] + 1 .. from}
      /\ rows \subseteq rows' /\ UNCHANGED puuids
  BY DEF CrawlStep
<1>3. CASE j \in 1 .. since[k]
  <2>1. PICK i \in 1 .. since[k] : Asked(i, k, j)
    BY <1>3 DEF ListedUpTo
  <2>2. Asked(i, k, j)' /\ i \in 1 .. now
    BY <1>1, <1>2, <2>1 DEF Asked
  <2> QED
    BY <2>2
<1>4. CASE j \in since[k] + 1 .. from
  BY <1>2, <1>4
<1>5. CASE j \in from + 1 .. now
  <2>1. <<now, <<k, j>>>> \in rows'
    BY <1>5 DEF CrawlStep, Listed
  <2> QED
    BY <1>1, <2>1 DEF Asked
<1> QED
  BY <1>1, <1>3, <1>4, <1>5

\* While nothing is taken away, what is listed stays listed.
LEMMA ListedStays ==
    ASSUME rows \subseteq rows', puuids \subseteq puuids', cut \subseteq cut',
           NEW r, NEW k, ListedUpTo(r, k)
    PROVE  \A j \in 1 .. r : \E i \in 1 .. r : Asked(i, k, j)'
BY DEF ListedUpTo, Asked

\* Every action keeps the promise of the keys, whatever is interrupted.
LEMMA KeysInductive ==
    ASSUME TypeOK, AnchorsOrdered, KeysAreListed, [Next]_vars
    PROVE  KeysAreListed'
<1> USE CycleAssumption, UndoStages DEF CycleAssumption, database, crawl, history
<1>0. ASSUME UNCHANGED <<now, rows, puuids, cut, shadowed>>, stage' \notin {"crawl", "undo_rows"}
      PROVE  KeysAreListed'
  BY <1>0 DEF KeysAreListed, ListedUpTo, Asked
<1>1. CASE \E found \in SUBSET Key : FindPlayers(found)
  BY <1>0, <1>1 DEF FindPlayers
<1>2. CASE Load
  <2>1. now \in Nat /\ now' = now + 1 /\ UNCHANGED <<rows, puuids, cut>>
        /\ stage' = "crawl" /\ todo' = loaded' /\ shadowed \subseteq shadowed'
        /\ loaded' \subseteq Key
    BY <1>2 DEF Load, TypeOK
  <2>2. ASSUME NEW k \in loaded' \ shadowed' PROVE ListedUpTo(since[k], k)'
    <3>1. since'[k] = StartTime(k)
      BY <1>2, <2>1 DEF Load
    <3>2. CASE Collected(k)
      <4>1. <<Latest, k>> \in puuids /\ Latest \in Run /\ k \in Key
        BY <1>2, <2>1, <3>2, CollectedIsOwnKey DEF TypeOK
      <4>2. ListedUpTo(Latest, k)
        BY <2>1, <4>1 DEF KeysAreListed
      <4>3. since'[k] = Latest
        BY <3>1, <3>2 DEF StartTime
      <4>4. \A j \in 1 .. Latest : \E i \in 1 .. Latest : Asked(i, k, j)'
        BY <2>1, <4>2, ListedStays
      <4> QED
        BY <4>3, <4>4 DEF ListedUpTo
    <3>3. CASE ~ Collected(k)
      BY <3>1, <3>3, <2>1 DEF StartTime, ListedUpTo
    <3> QED
      BY <3>2, <3>3
  <2>3. \A r \in Run, k \in Key : <<r, k>> \in puuids' => r <= now'
    BY <2>1 DEF KeysAreListed, Run
  <2>4. \A r \in Run, k \in Key \ shadowed' : <<r, k>> \in puuids' => ListedUpTo(r, k)'
    BY <2>1 DEF KeysAreListed, ListedUpTo, Asked
  <2> QED
    BY <2>1, <2>2, <2>3, <2>4 DEF KeysAreListed
<1>3. ASSUME NEW k \in Key, CrawlKey(k) \/ CrawlKeyNotFound(k) \/ CrawlKeyFails(k)
      PROVE  KeysAreListed'
  <2>1. PICK from : CrawlStep(k, from)
    BY <1>3, CrawlSteps
  <2>2. /\ stage = "crawl" /\ k \in todo /\ todo' = todo \ {k} /\ failed \subseteq failed'
        /\ rows \subseteq rows' /\ cut \subseteq cut'
        /\ UNCHANGED <<stage, now, puuids, shadowed, loaded, since>>
    BY <2>1 DEF CrawlStep
  <2>3. ASSUME NEW r, NEW c, ListedUpTo(r, c) PROVE ListedUpTo(r, c)'
    BY <2>2, <2>3, ListedStays DEF ListedUpTo
  <2>4. \A r \in Run, c \in Key \ shadowed' : <<r, c>> \in puuids' => ListedUpTo(r, c)'
    BY <2>2, <2>3 DEF KeysAreListed
  <2>5. \A c \in loaded' \ shadowed' : ListedUpTo(since[c], c)'
    <3> SUFFICES ASSUME NEW c \in loaded \ shadowed PROVE ListedUpTo(since[c], c)'
      BY <2>2
    <3>1. ListedUpTo(since[c], c)
      BY <2>2 DEF KeysAreListed
    <3> QED
      BY <2>2, <3>1, ListedStays DEF ListedUpTo
  <2>6. ASSUME NEW c \in loaded' \ (todo' \cup failed' \cup shadowed') PROVE Crawled(c)'
    <3>1. CASE c = k
      <4>1. ListedUpTo(since[k], k) /\ k \notin failed'
        BY <2>2, <2>6, <3>1 DEF KeysAreListed
      <4>2. Crawled(k)'
        BY <2>1, <4>1, CrawlCompletes
      <4> QED
        BY <3>1, <4>2
    <3>2. CASE c # k
      <4>1. Crawled(c)
        BY <2>2, <2>6, <3>2 DEF KeysAreListed
      <4> QED
        BY <2>2, <4>1 DEF Crawled, Asked
    <3> QED
      BY <3>1, <3>2
  <2> QED
    BY <2>2, <2>4, <2>5, <2>6 DEF KeysAreListed
<1>6. ASSUME stage = "crawl", todo = {}, puuids' = puuids \cup ({now} \X Successful),
             UNCHANGED <<now, rows, cut, shadowed>>, stage' \notin {"crawl", "undo_rows"}
      PROVE  KeysAreListed'
  <2>1. \A k \in Successful \ shadowed : Crawled(k)
    BY <1>6 DEF Successful, KeysAreListed
  <2>2. ASSUME NEW r \in Run, NEW k \in Key, <<r, k>> \in puuids' PROVE r <= now
    BY <1>6, <2>2 DEF KeysAreListed, TypeOK
  <2>3. ASSUME NEW r \in Run, NEW k \in Key \ shadowed, <<r, k>> \in puuids'
        PROVE  ListedUpTo(r, k)'
    <3>1. CASE <<r, k>> \in puuids
      <4>1. ListedUpTo(r, k)
        BY <3>1 DEF KeysAreListed
      <4> QED
        BY <1>6, <4>1, ListedStays DEF ListedUpTo
    <3>2. CASE r = now /\ k \in Successful
      <4> SUFFICES ASSUME NEW j \in 1 .. now PROVE \E i \in 1 .. now : Asked(i, k, j)'
        BY <3>2 DEF ListedUpTo
      <4>1. CASE \E i \in 1 .. now : Asked(i, k, j)
        BY <1>6, <4>1 DEF Asked
      <4>2. CASE <<now, <<k, j>>>> \in cut
        <5>1. now \in 1 .. now /\ <<now, k>> \in puuids'
          BY <1>6, <3>2 DEF TypeOK, Run
        <5>2. now' = now /\ <<now, <<k, j>>>> \in cut'
          BY <1>6, <4>2
        <5> QED
          BY <5>1, <5>2 DEF Asked
      <4> QED
        BY <2>1, <3>2, <4>1, <4>2 DEF Crawled
    <3> QED
      BY <1>6, <2>3, <3>1, <3>2
  <2> QED
    BY <1>6, <2>2, <2>3 DEF KeysAreListed
<1>7. CASE InsertPuuids
  BY <1>6, <1>7 DEF InsertPuuids
<1>8. CASE Anchor \/ UndoAnchor \/ DeleteOld
  BY <1>0, <1>8 DEF Anchor, UndoAnchor, DeleteOld
<1>9. CASE SaveError
  BY <1>0, <1>6, <1>9 DEF SaveError
<1>10. CASE UndoPuuids
  <2>1. /\ puuids' = {p \in puuids : p[1] # now} /\ UNCHANGED <<now, rows, cut, shadowed>>
        /\ stage' = "undo_rows"
    BY <1>10 DEF UndoPuuids
  <2>2. ASSUME NEW r \in Run, NEW k \in Key \ shadowed, <<r, k>> \in puuids', NEW j \in 1 .. r
        PROVE  \E i \in 1 .. r : Asked(i, k, j)'
    <3>1. r <= now /\ r # now /\ now \in Nat /\ r \in Nat
      BY <2>1, <2>2 DEF KeysAreListed, TypeOK, Run
    <3>2. PICK i \in 1 .. r : Asked(i, k, j)
      BY <2>1, <2>2 DEF KeysAreListed, ListedUpTo
    <3>3. i # now
      BY <3>1
    <3> QED
      BY <2>1, <3>2, <3>3 DEF Asked
  <2>3. \A r \in Run, k \in Key \ shadowed : <<r, k>> \in puuids' => ListedUpTo(r, k)'
    BY <2>2 DEF ListedUpTo
  <2> QED
    BY <2>1, <2>3 DEF KeysAreListed
<1>11. CASE UndoRows
  <2>1. stage' = "players" /\ UNCHANGED <<now, puuids, cut, shadowed>>
        /\ rows' = {r \in rows : r[1] # now} /\ stage = "undo_rows"
    BY <1>11 DEF UndoRows
  <2>2. ASSUME NEW r \in Run, NEW k \in Key \ shadowed, <<r, k>> \in puuids, NEW j \in 1 .. r
        PROVE  \E i \in 1 .. r : Asked(i, k, j)'
    <3>1. r <= now /\ r # now /\ now \in Nat /\ r \in Nat
      BY <2>1, <2>2 DEF KeysAreListed, TypeOK, Run
    <3>2. PICK i \in 1 .. r : Asked(i, k, j)
      BY <2>2 DEF KeysAreListed, ListedUpTo
    <3>3. i # now
      BY <3>1
    <3> QED
      BY <2>1, <3>2, <3>3 DEF Asked
  <2>3. \A r \in Run, k \in Key \ shadowed : <<r, k>> \in puuids => ListedUpTo(r, k)'
    BY <2>2 DEF ListedUpTo
  <2> QED
    BY <2>1, <2>3 DEF KeysAreListed
<1>12. CASE Seed \/ MarkSeeded \/ MatchDataAlone
  BY <1>0, <1>12 DEF Seed, MarkSeeded, MatchDataAlone
<1>13. CASE \E left \in {{}, pending} : Drain(left)
  BY <1>0, <1>13 DEF Drain
<1>14. CASE CycleEnds
  BY <1>0, <1>14 DEF CycleEnds
<1>15. CASE UNCHANGED vars
  BY <1>15 DEF vars, KeysAreListed, ListedUpTo, Crawled, Asked
<1> QED
  BY <1>1, <1>2, <1>3, <1>7, <1>8, <1>9, <1>10, <1>11, <1>12, <1>13, <1>14,
     <1>15 DEF Next

-----------------------------------------------------------------------------
(* What an anchored run owes to the queue *)

\* What has been accounted for stays so while nothing is taken away.
LEMMA AccountedStays ==
    ASSUME rows \subseteq rows', puuids \subseteq puuids', cut \subseteq cut',
           seen \subseteq seen', gaps \subseteq gaps'
    PROVE  /\ \A r, k, j : Accounted(r, k, j) => Accounted(r, k, j)'
           /\ \A r, k : AccountedUpTo(r, k) =>
                  \A j \in 1 .. r : Accounted(r, k, j)'
           /\ \A r, k : AccountedOrListed(r, k) =>
                  \A j \in 1 .. r : Accounted(r, k, j)' \/ <<r, <<k, j>>>> \in rows'
<1>1. \A r, k, j : Accounted(r, k, j) => Accounted(r, k, j)'
  BY DEF Accounted, LeftOut, Missed
<1> QED
  BY <1>1 DEF AccountedUpTo, AccountedOrListed

\* Once all rows of an anchored run were seeded, or its cycle is known to have ended
\* before that, every match of its keys is accounted for.
LEMMA SeededIsSeen ==
    ASSUME NEW r \in Run, NEW k \in Key, AccountedOrListed(r, k),
           RowsOfRun(r) \subseteq seen \/ r \in gaps
    PROVE  AccountedUpTo(r, k)
<1> SUFFICES ASSUME NEW j \in 1 .. r PROVE Accounted(r, k, j)
  BY DEF AccountedUpTo
<1>1. <<k, j>> \in Match
  BY CycleAssumption DEF CycleAssumption, Match, Run
<1>2. Accounted(r, k, j) \/ <<r, <<k, j>>>> \in rows
  BY DEF AccountedOrListed
<1>3. CASE <<r, <<k, j>>>> \in rows /\ RowsOfRun(r) \subseteq seen
  BY <1>1, <1>3 DEF RowsOfRun, Accounted
<1>4. CASE <<r, <<k, j>>>> \in rows /\ r \in gaps
  BY <1>4 DEF Missed, Accounted
<1> QED
  BY <1>2, <1>3, <1>4

\* What Seed adds to the queue is all that the latest run listed.
LEMMA SeedAddsLatestRows ==
    ASSUME TypeOK
    PROVE  LatestRows = RowsOfRun(Latest)
BY DEF TypeOK, LatestRows, RowsOfRun

\* A crawl that completes has listed its key's matches, or left them out.
LEMMA CrawlAccounts ==
    ASSUME TypeOK, AnchorsOrdered, NEW k \in Key, NEW from, CrawlStep(k, from),
           AccountedUpTo(since[k], k), k \notin failed'
    PROVE  CrawlAccounted(k)'
<1> SUFFICES ASSUME NEW j \in 1 .. now
             PROVE  Accounted(now, k, j)' \/ <<now, <<k, j>>>> \in rows' \cup cut'
  BY DEF CrawlAccounted, CrawlStep
<1>1. /\ since[k] \in Nat /\ now \in Nat /\ since[k] <= now
      /\ from \in Nat /\ since[k] <= from /\ from <= now
  BY OldestIs DEF CrawlStep
<1>2. /\ cut' = cut \cup {<<now, <<k, i>>>> : i \in since[k] + 1 .. from}
      /\ rows \subseteq rows' /\ UNCHANGED <<now, puuids, seen, gaps>>
  BY DEF CrawlStep
<1>3. CASE j \in 1 .. since[k]
  <2>1. Accounted(since[k], k, j)
    BY <1>3 DEF AccountedUpTo
  <2>2. Accounted(now, k, j)
    BY <1>1, <2>1 DEF Accounted, LeftOut
  <2> QED
    BY <1>2, <2>2, AccountedStays
<1>4. CASE j \in since[k] + 1 .. from
  BY <1>2, <1>4
<1>5. CASE j \in from + 1 .. now
  BY <1>5 DEF CrawlStep, Listed
<1> QED
  BY <1>1, <1>3, <1>4, <1>5

\* Every action keeps the debt to the queue, wherever a cycle ends.
LEMMA SeedsInductive ==
    ASSUME TypeOK, AnchorsOrdered, KeysAreListed, AnchorsAreSeeded, [Next]_vars
    PROVE  AnchorsAreSeeded'
<1> USE CycleAssumption, UndoStages DEF CycleAssumption, database, crawl, history
<1>a. now \in Nat /\ seeded \in Nat /\ anchors \subseteq 1 .. now /\ gaps \subseteq 1 .. now
  BY DEF TypeOK, AnchorsOrdered, AnchorsAreSeeded
\* An action that leaves the database as it is, and the gaps as they are.
<1>0. ASSUME UNCHANGED <<now, rows, puuids, anchors, seeded, seen, cut, shadowed, gaps>>,
             stage \notin {"undo_anchor", "delete_old", "seed"},
             stage' \in {"players", "load", "seed", "drain"}
      PROVE  AnchorsAreSeeded'
  <2>1. \A r, k : AccountedOrListed(r, k) => AccountedOrListed(r, k)'
    BY <1>0 DEF AccountedOrListed, Accounted, LeftOut, Missed
  <2> QED
    BY <1>0, <2>1 DEF AnchorsAreSeeded, RowsOfRun
<1>1. CASE \E found \in SUBSET Key : FindPlayers(found)
  BY <1>0, <1>1 DEF FindPlayers
<1>2. CASE Load
  <2>1. /\ stage' = "crawl" /\ now' = now + 1 /\ loaded' = todo'
        /\ shadowed \subseteq shadowed' /\ loaded' \subseteq Key
        /\ UNCHANGED <<rows, puuids, anchors, seeded, seen, cut, gaps>>
        /\ \A a \in anchors : RowsOfRun(a) \subseteq seen \/ a \in gaps
    BY <1>2 DEF Load, AnchorsAreSeeded, TypeOK
  <2>2. ASSUME NEW k \in loaded' \ shadowed' PROVE AccountedUpTo(since[k], k)'
    <3>1. since'[k] = StartTime(k) /\ k \in Key \ shadowed
      BY <1>2, <2>1 DEF Load
    <3>2. CASE Collected(k)
      <4>1. <<Latest, k>> \in puuids /\ Latest \in Run
        BY <1>2, <3>2, CollectedIsOwnKey DEF TypeOK
      <4>2. Latest \in anchors
        BY <4>1, LatestIs DEF Run
      <4>3. AccountedUpTo(Latest, k)
        BY <2>1, <3>1, <4>1, <4>2, SeededIsSeen DEF AnchorsAreSeeded
      <4>4. since'[k] = Latest
        BY <3>1, <3>2 DEF StartTime
      <4> DEFINE r == Latest
      <4>5. \A j \in 1 .. r : Accounted(r, k, j)
        BY <4>3 DEF AccountedUpTo
      <4>6. \A j \in 1 .. since'[k] :
              \/ <<k, j>> \in seen
              \/ \E i \in 1 .. since'[k] : <<i, k>> \in puuids /\ <<i, <<k, j>>>> \in cut
              \/ \E i \in gaps : <<i, <<k, j>>>> \in rows
        BY <4>4, <4>5 DEF Accounted, LeftOut, Missed
      <4> HIDE DEF r
      <4> QED
        BY <2>1, <4>6 DEF AccountedUpTo, Accounted, LeftOut, Missed
    <3>3. CASE ~ Collected(k)
      BY <3>1, <3>3 DEF StartTime, AccountedUpTo
    <3> QED
      BY <3>2, <3>3
  <2>3. seeded' < now' /\ now' \notin anchors' /\ now' \notin gaps' /\ gaps' \subseteq 1 .. now'
    BY <1>a, <2>1 DEF AnchorsAreSeeded
  <2>4. \A r \in Run, k \in Key \ shadowed' : <<r, k>> \in puuids' => AccountedOrListed(r, k)'
    BY <2>1 DEF AnchorsAreSeeded, AccountedOrListed, Accounted, LeftOut, Missed
  <2>5. /\ \A a \in anchors' : RowsOfRun(a)' \subseteq seen' \/ a \in gaps'
        /\ RowsOfRun(seeded)' \subseteq seen'
    BY <2>1 DEF AnchorsAreSeeded, RowsOfRun
  <2>6. seeded' \in Nat /\ now' \in Nat
    BY <1>a, <2>1
  <2> QED
    BY <2>1, <2>2, <2>3, <2>4, <2>5, <2>6 DEF AnchorsAreSeeded
<1>3. ASSUME NEW k \in Key, CrawlKey(k) \/ CrawlKeyNotFound(k) \/ CrawlKeyFails(k)
      PROVE  AnchorsAreSeeded'
  <2>1. PICK from : CrawlStep(k, from)
    BY <1>3, CrawlSteps
  <2>2. /\ stage = "crawl" /\ k \in todo /\ todo' = todo \ {k} /\ failed \subseteq failed'
        /\ rows \subseteq rows' /\ cut \subseteq cut'
        /\ rows' = rows \cup Listed(k, from)
        /\ UNCHANGED <<stage, now, puuids, anchors, seeded, seen, shadowed, gaps, loaded, since>>
    BY <2>1 DEF CrawlStep
  <2>3. \A r : r # now => RowsOfRun(r)' = RowsOfRun(r)
    BY <2>2 DEF RowsOfRun, Listed
  <2>4. ASSUME NEW c \in loaded' \ (todo' \cup failed' \cup shadowed') PROVE CrawlAccounted(c)'
    <3>1. CASE c = k
      <4>1. AccountedUpTo(since[k], k) /\ k \notin failed'
        BY <2>2, <2>4, <3>1 DEF AnchorsAreSeeded, KeysAreListed
      <4>2. CrawlAccounted(k)'
        BY <2>1, <4>1, CrawlAccounts
      <4> QED
        BY <3>1, <4>2
    <3>2. CASE c # k
      <4>1. CrawlAccounted(c)
        BY <2>2, <2>4, <3>2 DEF AnchorsAreSeeded
      <4> QED
        BY <2>2, <4>1, AccountedStays DEF CrawlAccounted
    <3> QED
      BY <3>1, <3>2
  <2>5. seeded < now /\ now \notin anchors /\ now \notin gaps /\ gaps \subseteq 1 .. now
    BY <2>2, <1>a DEF AnchorsAreSeeded
  <2>6. /\ \A a \in anchors' : RowsOfRun(a)' \subseteq seen' \/ a \in gaps'
        /\ RowsOfRun(seeded)' \subseteq seen'
    <3>1. \A a \in anchors : a # now /\ (RowsOfRun(a) \subseteq seen \/ a \in gaps)
      BY <2>2, <2>5 DEF AnchorsAreSeeded
    <3>2. seeded # now /\ RowsOfRun(seeded) \subseteq seen
      BY <2>5, <1>a DEF AnchorsAreSeeded
    <3>3. RowsOfRun(seeded)' = RowsOfRun(seeded)
      BY <2>2, <2>3, <3>2 DEF RowsOfRun, Listed
    <3> QED
      BY <2>2, <2>3, <3>1, <3>2, <3>3
  <2>7. \A c \in loaded' \ shadowed' : AccountedUpTo(since[c], c)'
    <3> SUFFICES ASSUME NEW c \in loaded \ shadowed PROVE AccountedUpTo(since[c], c)'
      BY <2>2
    <3>1. AccountedUpTo(since[c], c)
      BY <2>2 DEF AnchorsAreSeeded
    <3>2. \A j \in 1 .. since[c] : Accounted(since[c], c, j)'
      BY <2>2, <3>1, AccountedStays
    <3> QED
      BY <2>2, <3>2 DEF AccountedUpTo, Accounted, LeftOut, Missed
  <2>8. \A r \in Run, c \in Key \ shadowed' : <<r, c>> \in puuids' => AccountedOrListed(r, c)'
    <3> SUFFICES ASSUME NEW r \in Run, NEW c \in Key \ shadowed, <<r, c>> \in puuids
                 PROVE  AccountedOrListed(r, c)'
      BY <2>2
    <3>1. AccountedOrListed(r, c)
      BY DEF AnchorsAreSeeded
    <3>2. \A j \in 1 .. r : Accounted(r, c, j)' \/ <<r, <<c, j>>>> \in rows'
      BY <2>2, <3>1, AccountedStays
    <3> QED
      BY <3>2 DEF AccountedOrListed
  <2> QED
    BY <2>2, <2>4, <2>5, <2>6, <2>7, <2>8 DEF AnchorsAreSeeded
<1>6. ASSUME stage = "crawl", todo = {}, puuids' = puuids \cup ({now} \X Successful),
             UNCHANGED <<now, rows, anchors, seeded, seen, cut, shadowed, gaps>>,
             stage' \in {"anchor", "undo_anchor"}
      PROVE  AnchorsAreSeeded'
  <2>1. \A k \in Successful \ shadowed : CrawlAccounted(k)
    BY <1>6 DEF Successful, AnchorsAreSeeded
  <2>2. seeded < now /\ now \notin anchors /\ now \notin gaps /\ gaps \subseteq 1 .. now /\ now > 0
    BY <1>6 DEF AnchorsAreSeeded, AnchorsOrdered
  <2>3. \A r \in Run, k \in Key \ shadowed' : <<r, k>> \in puuids' => AccountedOrListed(r, k)'
    <3> SUFFICES ASSUME NEW r \in Run, NEW k \in Key \ shadowed, <<r, k>> \in puuids',
                        NEW j \in 1 .. r
                 PROVE  Accounted(r, k, j)' \/ <<r, <<k, j>>>> \in rows'
      BY <1>6 DEF AccountedOrListed
    <3>1. CASE <<r, k>> \in puuids
      <4>1. AccountedOrListed(r, k)
        BY <3>1 DEF AnchorsAreSeeded
      <4> QED
        BY <1>6, <4>1, AccountedStays
    <3>2. CASE r = now /\ k \in Successful
      <4>1. Accounted(now, k, j) \/ <<now, <<k, j>>>> \in rows \cup cut
        BY <2>1, <3>2 DEF CrawlAccounted
      <4>2. CASE Accounted(now, k, j) \/ <<now, <<k, j>>>> \in rows
        BY <1>6, <3>2, <4>2, AccountedStays
      <4>3. CASE <<now, <<k, j>>>> \in cut
        <5>1. now \in 1 .. now
          BY <1>a, <2>2
        <5>2. <<now, k>> \in puuids' /\ <<now, <<k, j>>>> \in cut'
          BY <1>6, <3>2, <4>3
        <5> QED
          BY <3>2, <5>1, <5>2 DEF Accounted, LeftOut
      <4> QED
        BY <4>1, <4>2, <4>3
    <3> QED
      BY <1>6, <3>1, <3>2
  <2> QED
    BY <1>6, <2>2, <2>3 DEF AnchorsAreSeeded, RowsOfRun
<1>7. CASE InsertPuuids
  BY <1>6, <1>7 DEF InsertPuuids
<1>b. ASSUME UNCHANGED <<rows, puuids, seen, cut, shadowed, gaps>>
      PROVE  \A r \in Run, k \in Key \ shadowed' : <<r, k>> \in puuids' => AccountedOrListed(r, k)'
  BY <1>b DEF AnchorsAreSeeded, AccountedOrListed, Accounted, LeftOut, Missed
<1>8. ASSUME stage \in {"crawl", "anchor"}, anchors' \in {anchors, anchors \cup {now}},
             UNCHANGED <<now, rows, puuids, seeded, seen, cut, shadowed, gaps>>,
             stage' \in {"undo_anchor", "delete_old"}
      PROVE  AnchorsAreSeeded'
  BY <1>8, <1>b DEF AnchorsAreSeeded, RowsOfRun
<1>9. CASE Anchor
  BY <1>8, <1>9 DEF Anchor
<1>10. CASE SaveError
  BY <1>6, <1>8, <1>10 DEF SaveError
<1>11. CASE UndoAnchor \/ DeleteOld
  <2>1. /\ anchors' \subseteq anchors
        /\ UNCHANGED <<now, rows, puuids, seeded, seen, cut, shadowed, gaps>>
        /\ stage' \in {"undo_puuids", "seed"} /\ stage \in {"undo_anchor", "delete_old"}
        /\ stage' = "undo_puuids" => now \notin anchors' /\ stage = "undo_anchor"
    BY <1>11 DEF UndoAnchor, DeleteOld
  <2> QED
    BY <2>1, <1>b DEF AnchorsAreSeeded, RowsOfRun
<1>12. CASE UndoPuuids
  <2>1. /\ puuids' = {p \in puuids : p[1] # now} /\ stage' = "undo_rows"
        /\ UNCHANGED <<now, rows, anchors, seeded, seen, cut, shadowed, gaps>>
        /\ stage = "undo_puuids"
    BY <1>12 DEF UndoPuuids
  <2>2. ASSUME NEW r \in Run, NEW k \in Key \ shadowed, <<r, k>> \in puuids', NEW j \in 1 .. r
        PROVE  Accounted(r, k, j)' \/ <<r, <<k, j>>>> \in rows'
    <3>1. r <= now /\ r # now /\ now \in Nat /\ r \in Nat /\ <<r, k>> \in puuids
      BY <2>1, <2>2 DEF KeysAreListed, TypeOK, Run
    <3>2. Accounted(r, k, j) \/ <<r, <<k, j>>>> \in rows
      BY <3>1 DEF AnchorsAreSeeded, AccountedOrListed
    <3>3. LeftOut(r, k, j) => LeftOut(r, k, j)'
      BY <2>1, <3>1 DEF LeftOut
    <3> QED
      BY <2>1, <3>2, <3>3 DEF Accounted, Missed
  <2>3. \A r \in Run, k \in Key \ shadowed' : <<r, k>> \in puuids' => AccountedOrListed(r, k)'
    BY <2>1, <2>2 DEF AccountedOrListed
  <2> QED
    BY <2>1, <2>3 DEF AnchorsAreSeeded, RowsOfRun
<1>13. CASE UndoRows
  <2>1. /\ UNCHANGED <<now, puuids, anchors, seeded, seen, cut, shadowed, gaps>>
        /\ rows' = {r \in rows : r[1] # now} /\ stage = "undo_rows" /\ stage' = "players"
        /\ \A k \in Key : <<now, k>> \notin puuids
        /\ now \notin gaps
    BY <1>13 DEF UndoRows, KeysAreListed, AnchorsAreSeeded
  <2>2. \A r : RowsOfRun(r)' \subseteq RowsOfRun(r)
    BY <2>1 DEF RowsOfRun
  <2>3. ASSUME NEW r \in Run, NEW k \in Key \ shadowed, <<r, k>> \in puuids, NEW j \in 1 .. r
        PROVE  Accounted(r, k, j)' \/ <<r, <<k, j>>>> \in rows'
    <3>1. Accounted(r, k, j) \/ <<r, <<k, j>>>> \in rows
      BY <2>3 DEF AnchorsAreSeeded, AccountedOrListed
    <3>2. Missed(k, j) => Missed(k, j)'
      BY <2>1 DEF Missed
    <3>3. r # now
      BY <2>1, <2>3
    <3> QED
      BY <2>1, <3>1, <3>2, <3>3 DEF Accounted, LeftOut
  <2>4. \A r \in Run, k \in Key \ shadowed' : <<r, k>> \in puuids' => AccountedOrListed(r, k)'
    BY <2>1, <2>3 DEF AccountedOrListed
  <2>5. /\ \A a \in anchors' : RowsOfRun(a)' \subseteq seen' \/ a \in gaps'
        /\ RowsOfRun(seeded)' \subseteq seen'
    <3>1. RowsOfRun(seeded)' = {m \in Match : <<seeded, m>> \in rows'}
      BY <2>1 DEF RowsOfRun
    <3>2. RowsOfRun(seeded) \subseteq seen
      BY DEF AnchorsAreSeeded
    <3>3. RowsOfRun(seeded)' \subseteq seen'
      BY <2>1, <3>1, <3>2 DEF RowsOfRun
    <3> QED
      BY <2>1, <2>2, <3>3 DEF AnchorsAreSeeded
  <2> QED
    BY <2>1, <2>4, <2>5 DEF AnchorsAreSeeded
<1>c. now \in anchors => Latest = now
  BY <1>a, LatestIs
<1>14. CASE Seed
  <2>1. UNCHANGED <<now, rows, puuids, anchors, seeded, cut, shadowed, gaps>>
        /\ seen \subseteq seen' /\ stage = "seed" /\ stage' \in {"mark", "drain"}
    BY <1>14 DEF Seed
  <2>2. RowsOfRun(Latest) \subseteq seen'
    <3>1. CASE seeded = Latest
      BY <1>14, <3>1 DEF Seed, AnchorsAreSeeded
    <3>2. CASE seeded # Latest
      BY <1>14, <3>2, SeedAddsLatestRows DEF Seed
    <3> QED
      BY <3>1, <3>2
  <2>3. \A a \in anchors : RowsOfRun(a) \subseteq seen' \/ a \in gaps
    BY <1>c, <2>1, <2>2 DEF AnchorsAreSeeded
  <2>4. \A r : RowsOfRun(r)' = RowsOfRun(r)
    BY <2>1 DEF RowsOfRun
  <2>5. Latest' = Latest
    BY <2>1 DEF Latest
  <2>6. \A r \in Run, k \in Key \ shadowed' : <<r, k>> \in puuids' => AccountedOrListed(r, k)'
    <3> SUFFICES ASSUME NEW r \in Run, NEW k \in Key \ shadowed, <<r, k>> \in puuids
                 PROVE  \A j \in 1 .. r : Accounted(r, k, j)' \/ <<r, <<k, j>>>> \in rows'
      BY <2>1 DEF AccountedOrListed
    <3>1. AccountedOrListed(r, k)
      BY DEF AnchorsAreSeeded
    <3> QED
      BY <2>1, <3>1, AccountedStays
  <2>7. RowsOfRun(seeded)' \subseteq seen'
    BY <2>1 DEF AnchorsAreSeeded, RowsOfRun
  <2>8. RowsOfRun(Latest)' \subseteq seen'
    BY <2>1, <2>2, <2>5 DEF RowsOfRun
  <2> QED
    BY <2>1, <2>3, <2>4, <2>6, <2>7, <2>8 DEF AnchorsAreSeeded
<1>15. CASE MarkSeeded
  <2>1. UNCHANGED <<now, rows, puuids, anchors, seen, cut, shadowed, gaps>> /\ seeded' = Latest
        /\ stage' = "drain" /\ Latest <= now
        /\ RowsOfRun(Latest) \subseteq seen
        /\ \A a \in anchors : RowsOfRun(a) \subseteq seen \/ a \in gaps
    BY <1>a, <1>15, LatestIs DEF MarkSeeded, AnchorsAreSeeded, history
  <2>2. RowsOfRun(seeded)' \subseteq seen'
    BY <2>1 DEF RowsOfRun
  <2> QED
    BY <2>1, <2>2, <1>b DEF AnchorsAreSeeded, RowsOfRun
<1>16. CASE MatchDataAlone
  BY <1>0, <1>16 DEF MatchDataAlone
<1>17. CASE \E left \in {{}, pending} : Drain(left)
  BY <1>0, <1>17 DEF Drain
<1>18. CASE CycleEnds
  <2>1. /\ UNCHANGED <<now, rows, puuids, anchors, seeded, seen, cut, shadowed>>
        /\ stage' = "players" /\ gaps \subseteq gaps' /\ gaps' \subseteq gaps \cup {now}
        /\ InGap => now \in gaps'
        /\ now \in gaps' => now \in gaps \/ now \in anchors
    BY <1>18 DEF CycleEnds, InGap
  <2>2. \A a \in anchors : RowsOfRun(a) \subseteq seen \/ a \in gaps'
    BY <2>1 DEF InGap, AnchorsAreSeeded
  <2>3. \A r \in Run, k \in Key \ shadowed' : <<r, k>> \in puuids' => AccountedOrListed(r, k)'
    <3> SUFFICES ASSUME NEW r \in Run, NEW k \in Key \ shadowed, <<r, k>> \in puuids
                 PROVE  \A j \in 1 .. r : Accounted(r, k, j)' \/ <<r, <<k, j>>>> \in rows'
      BY <2>1 DEF AccountedOrListed
    <3>1. AccountedOrListed(r, k)
      BY DEF AnchorsAreSeeded
    <3> QED
      BY <2>1, <3>1, AccountedStays
  <2>4. gaps' \subseteq 1 .. now
    BY <1>a, <2>1
  <2>5. /\ \A a \in anchors' : RowsOfRun(a)' \subseteq seen' \/ a \in gaps'
        /\ RowsOfRun(seeded)' \subseteq seen'
    BY <2>1, <2>2 DEF AnchorsAreSeeded, RowsOfRun
  <2> QED
    BY <2>1, <2>3, <2>4, <2>5 DEF AnchorsAreSeeded
<1>19. CASE UNCHANGED vars
  <2>1. Latest' = Latest
    BY <1>19 DEF vars, Latest
  <2>2. RowsOfRun(Latest)' = RowsOfRun(Latest)
    BY <1>19, <2>1 DEF vars, RowsOfRun
  <2>3. \A r : RowsOfRun(r)' = RowsOfRun(r)
    BY <1>19 DEF vars, RowsOfRun
  <2>4. RowsOfRun(seeded)' = RowsOfRun(seeded)
    BY <1>19 DEF vars, RowsOfRun
  <2>5. \A k : /\ AccountedUpTo(since[k], k) => AccountedUpTo(since[k], k)'
               /\ CrawlAccounted(k) => CrawlAccounted(k)'
    BY <1>19 DEF vars, AccountedUpTo, CrawlAccounted, Accounted, LeftOut, Missed
  <2> QED
    BY <1>19, <1>b, <2>1, <2>2, <2>3, <2>4, <2>5 DEF vars, AnchorsAreSeeded
<1> QED
  BY <1>1, <1>2, <1>3, <1>7, <1>9, <1>10, <1>11, <1>12, <1>13, <1>14, <1>15,
     <1>16, <1>17, <1>18, <1>19 DEF Next

-----------------------------------------------------------------------------
(* The theorems *)

\* The types hold and max(stored_at) is defined, for any keys and wherever a
\* cycle ends.
THEOREM TypeCorrect == Spec => [](TypeOK /\ AnchorsOrdered)
<1>1. Init => TypeOK /\ AnchorsOrdered
  BY InitHolds DEF CycleInv
<1>2. TypeOK /\ AnchorsOrdered /\ [Next]_vars => (TypeOK /\ AnchorsOrdered)'
  BY TypeInductive, OrderInductive
<1> QED
  BY <1>1, <1>2, PTL DEF Spec

\* Whatever keys there are and wherever a cycle ends, the anchor hides no match from
\* the next crawl but those that a complete crawl left out (the page cap, a 404) and
\* those of a key that another key of its player stood in for.
THEOREM AnchorsKeepTheirPromise == Spec => []AnchorCovers
<1> DEFINE Inv == TypeOK /\ AnchorsOrdered /\ KeysAreListed
<1>1. Init => Inv
  BY InitHolds DEF CycleInv
<1>2. Inv /\ [Next]_vars => Inv'
  BY TypeInductive, OrderInductive, KeysInductive
<1>3. Inv => AnchorCovers
  <2> SUFFICES ASSUME Inv, NEW k \in Key \ shadowed, <<Latest, k>> \in puuids,
                      NEW j \in 1 .. Latest
               PROVE  \/ \E r \in 1 .. Latest : <<r, <<k, j>>>> \in rows
                      \/ LeftOut(Latest, k, j)
    BY DEF AnchorCovers
  <2>1. PICK i \in 1 .. Latest : Asked(i, k, j)
    BY DEF TypeOK, KeysAreListed, ListedUpTo
  <2> QED
    BY <2>1 DEF Asked, LeftOut
<1> QED
  BY <1>1, <1>2, <1>3, PTL DEF Spec

\* The whole invariant that the keys, rows, anchors and seeds of interrupted cycles
\* keep, for any number of players, queues and runs.
THEOREM Invariant == Spec => []CycleInv
<1>1. CycleInv /\ [Next]_vars => CycleInv'
  BY TypeInductive, OrderInductive, KeysInductive, SeedsInductive DEF CycleInv
<1> QED
  BY <1>1, InitHolds, PTL DEF Spec

\* By the time the batches start, each match of a collected key has been queued, or
\* one of the two known reasons why it was not applies to it: a complete crawl left it
\* out, or the run that listed it was cut off between its anchor and its seed.
THEOREM NothingIsLost == Spec => []Covered
<1>1. CycleInv => Covered
  <2> SUFFICES ASSUME CycleInv, stage = "drain", NEW k \in Key \ shadowed,
                      <<Latest, k>> \in puuids
               PROVE  \A j \in 1 .. Latest : Accounted(Latest, k, j)
    BY DEF Covered, Accounted
  <2>1. Latest \in Run /\ AccountedOrListed(Latest, k)
    BY DEF CycleInv, TypeOK, AnchorsAreSeeded
  <2>2. Latest \in anchors
    BY <2>1, LatestIs DEF CycleInv, Run
  <2>3. RowsOfRun(Latest) \subseteq seen \/ Latest \in gaps
    BY <2>2 DEF CycleInv, AnchorsAreSeeded
  <2> QED
    BY <2>1, <2>3, SeededIsSeen DEF AccountedUpTo
<1> QED
  BY <1>1, Invariant, PTL
===============================================================================
