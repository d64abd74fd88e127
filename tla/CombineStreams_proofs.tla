------------------------ MODULE CombineStreams_proofs ------------------------
(***************************************************************************)
(* What combine_streams promises for any number of pumps and payloads and  *)
(* any size of its queue: types, order, and that only complete streams are *)
(* settled.                                                                *)
(***************************************************************************)
EXTENDS CombineStreams, WellFoundedInduction, SequenceTheorems, TLAPS

Msg == Stream \X (0 .. N)

-----------------------------------------------------------------------------
(* The inductive invariant *)

\* The queue holds a stream's payloads between the taken ones and the next one,
\* in order, then perhaps its _Done, whose pump is over.
QueueInv ==
    /\ \A i \in 1 .. Len(q) : q[i][2] # Done =>
           got[q[i][1]] < q[i][2] /\ q[i][2] < next[q[i][1]]
    /\ \A s \in Stream, n \in 1 .. N : got[s] < n /\ n < next[s] =>
           \E i \in 1 .. Len(q) : q[i][1] = s /\ q[i][2] = n
    /\ \A i, j \in 1 .. Len(q) : i < j /\ q[i][1] = q[j][1] =>
           q[i][2] # Done /\ (q[j][2] = Done \/ q[i][2] < q[j][2])
    /\ \A i \in 1 .. Len(q) : q[i][2] = Done => pump[q[i][1]] = "ended"

\* A pump that waits with a payload has one; got is behind next.
PutsPayloads ==
    \A s \in Stream : got[s] < next[s] /\ (pump[s] = "put" => next[s] <= N)

\* Nothing is left of a stream whose _Done was taken.
DoneIsLast ==
    \A s \in done : pump[s] = "ended" /\ \A i \in 1 .. Len(q) : q[i][1] # s

\* A pump that has come to its end without an error, in a group that goes on,
\* has put every payload.
EndMeansAll ==
    \A s \in Stream \ error :
        /\ pump[s] \in {"finally", "ended"} /\ ~ aborting /\ ~ shutdown => next[s] = N + 1
        /\ pump[s] = "cancelled" => aborting \/ shutdown

\* What the parts of the saver's task stand for.
SaverKnows ==
    /\ aborting => error # {}
    /\ saver = "exit" /\ ~ aborting => done = Stream
    /\ shutdown => saver \in {"raised", "cancelled"}
    /\ saver \in {"settle", "ok"} => \A s \in Stream : pump[s] = "ended"

CombineInv ==
    /\ TypeOK /\ QueueInv /\ SettledMeansComplete
    /\ PutsPayloads /\ DoneIsLast /\ EndMeansAll /\ SaverKnows

\* QueueInv says in terms of single messages what InOrderOnce says of a stream.
LEMMA QueueInOrder == TypeOK /\ QueueInv => InOrderOnce
<1> SUFFICES ASSUME TypeOK, QueueInv, NEW s \in Stream
             PROVE  LET ofStream == {i \in 1 .. Len(q) : q[i][1] = s}
                        payloads == {i \in ofStream : q[i][2] # Done}
                    IN /\ {q[i][2] : i \in payloads} = (got[s] + 1) .. (next[s] - 1)
                       /\ \A i, j \in ofStream : i < j =>
                              q[i][2] # Done /\ (q[j][2] = Done \/ q[i][2] < q[j][2])
                       /\ \A i \in ofStream \ payloads : pump[s] = "ended"
  BY DEF InOrderOnce
<1> DEFINE ofStream == {i \in 1 .. Len(q) : q[i][1] = s}
           payloads == {i \in ofStream : q[i][2] # Done}
<1>1. /\ N \in Nat /\ got[s] \in 0 .. N /\ next[s] \in 1 .. N + 1
      /\ \A i \in 1 .. Len(q) : q[i][2] \in 0 .. N
  <2>1. /\ q \in Seq(Stream \X (0 .. N)) /\ got \in [Stream -> 0 .. N]
        /\ next \in [Stream -> 1 .. N + 1]
    BY DEF TypeOK
  <2>2. \A i \in 1 .. Len(q) : q[i] \in Stream \X (0 .. N)
    BY <2>1
  <2> QED
    BY <2>1, <2>2, SizeAssumption DEF SizeAssumption
<1>2. {q[i][2] : i \in payloads} = (got[s] + 1) .. (next[s] - 1)
  <2>1. ASSUME NEW i \in payloads PROVE q[i][2] \in (got[s] + 1) .. (next[s] - 1)
    BY <1>1 DEF QueueInv
  <2>2. ASSUME NEW n \in (got[s] + 1) .. (next[s] - 1) PROVE \E i \in payloads : q[i][2] = n
    <3>1. n \in 1 .. N /\ got[s] < n /\ n < next[s] /\ n # Done
      BY <1>1 DEF Done
    <3>2. PICK i \in 1 .. Len(q) : q[i][1] = s /\ q[i][2] = n
      BY <3>1 DEF QueueInv
    <3> QED
      BY <3>1, <3>2
  <2> QED
    BY <2>1, <2>2
<1>3. \A i, j \in ofStream : i < j =>
          q[i][2] # Done /\ (q[j][2] = Done \/ q[i][2] < q[j][2])
  BY DEF QueueInv
<1>4. \A i \in ofStream \ payloads : pump[s] = "ended"
  BY DEF QueueInv
<1> QED
  BY <1>2, <1>3, <1>4

\* The invariant holds at the start.
LEMMA CombineInit == Init => CombineInv
<1> SUFFICES ASSUME Init PROVE CombineInv
  OBVIOUS
<1>1. N \in Nat /\ Len(q) = 0
  BY SizeAssumption DEF Init, SizeAssumption
<1>2. TypeOK
  <2>1. q \in Seq(Stream \X (0 .. N)) /\ error \subseteq Stream /\ done \subseteq Stream
    BY DEF Init
  <2>2. next \in [Stream -> 1 .. N + 1] /\ got \in [Stream -> 0 .. N]
    BY <1>1 DEF Init
  <2>3. pump \in [Stream -> PumpState] /\ saver \in SaverState
    BY DEF Init, PumpState, SaverState
  <2> QED
    BY <2>1, <2>2, <2>3 DEF Init, TypeOK
<1> QED
  BY <1>1, <1>2 DEF Init, CombineInv, QueueInv, SettledMeansComplete, PutsPayloads,
                    DoneIsLast, EndMeansAll, SaverKnows

-----------------------------------------------------------------------------
(* The pumps *)

\* A pump has its next payload.
LEMMA YieldKeeps == ASSUME CombineInv, NEW s \in Stream, Yield(s) PROVE CombineInv'
<1> USE DEF CombineInv
<1>1. /\ next[s] <= N /\ pump[s] = "fetch" /\ pump' = [pump EXCEPT ![s] = "put"]
      /\ UNCHANGED <<q, error, next, got, done, saver, aborting, ownError, rolledBack, shutdown>>
  BY DEF Yield, Move
<1>2. TypeOK'
  BY <1>1 DEF TypeOK, PumpState
<1>3. /\ pump \in [Stream -> PumpState] /\ pump'[s] = "put"
      /\ \A u \in Stream : u # s => pump'[u] = pump[u]
      /\ \A i \in 1 .. Len(q) : q[i][1] \in Stream
  BY <1>1 DEF TypeOK
<1>4. QueueInv' /\ PutsPayloads'
  BY <1>1, <1>3 DEF QueueInv, PutsPayloads
<1>5. SettledMeansComplete' /\ DoneIsLast' /\ EndMeansAll' /\ SaverKnows'
  BY <1>1, <1>3 DEF SettledMeansComplete, DoneIsLast, EndMeansAll, SaverKnows, TypeOK
<1> QED
  BY <1>2, <1>4, <1>5

\* A pump reaches the end of its source.
LEMMA ExhaustedKeeps == ASSUME CombineInv, NEW s \in Stream, Exhausted(s) PROVE CombineInv'
<1> USE DEF CombineInv
<1>1. /\ next[s] > N /\ pump[s] = "fetch" /\ pump' = [pump EXCEPT ![s] = "finally"]
      /\ UNCHANGED <<q, error, next, got, done, saver, aborting, ownError, rolledBack, shutdown>>
  BY DEF Exhausted, Move
<1>2. TypeOK'
  BY <1>1 DEF TypeOK, PumpState
<1>3. /\ pump \in [Stream -> PumpState] /\ pump'[s] = "finally"
      /\ \A u \in Stream : u # s => pump'[u] = pump[u]
      /\ \A i \in 1 .. Len(q) : q[i][1] \in Stream
  BY <1>1 DEF TypeOK
<1>4. next[s] = N + 1
  BY <1>1, SizeAssumption DEF TypeOK, SizeAssumption
<1>5. QueueInv' /\ PutsPayloads'
  BY <1>1, <1>3 DEF QueueInv, PutsPayloads
<1>6. SettledMeansComplete' /\ DoneIsLast' /\ EndMeansAll' /\ SaverKnows'
  BY <1>1, <1>3, <1>4 DEF SettledMeansComplete, DoneIsLast, EndMeansAll, SaverKnows, TypeOK
<1> QED
  BY <1>2, <1>5, <1>6

\* A pump raises.
LEMMA RaiseKeeps == ASSUME CombineInv, NEW s \in Stream, Raise(s) PROVE CombineInv'
<1> USE DEF CombineInv
<1>1. /\ pump[s] = "fetch" /\ pump' = [pump EXCEPT ![s] = "finally"]
      /\ error' = error \cup {s}
      /\ UNCHANGED <<q, next, got, done, saver, aborting, ownError, rolledBack, shutdown>>
  BY DEF Raise, Move
<1>2. TypeOK'
  BY <1>1 DEF TypeOK, PumpState
<1>3. /\ pump \in [Stream -> PumpState] /\ pump'[s] = "finally"
      /\ \A u \in Stream : u # s => pump'[u] = pump[u]
      /\ \A i \in 1 .. Len(q) : q[i][1] \in Stream
  BY <1>1 DEF TypeOK
<1>4. saver \notin {"settle", "ok"}
  BY <1>1 DEF SaverKnows
<1>5. QueueInv' /\ PutsPayloads'
  BY <1>1, <1>3 DEF QueueInv, PutsPayloads
<1>6. SettledMeansComplete' /\ DoneIsLast' /\ EndMeansAll' /\ SaverKnows'
  BY <1>1, <1>3, <1>4 DEF SettledMeansComplete, DoneIsLast, EndMeansAll, SaverKnows, TypeOK
<1> QED
  BY <1>2, <1>5, <1>6

\* A cancelled pump enters its finally clause.
LEMMA UnwindKeeps == ASSUME CombineInv, NEW s \in Stream, Unwind(s) PROVE CombineInv'
<1> USE DEF CombineInv
<1>1. /\ pump[s] = "cancelled" /\ pump' = [pump EXCEPT ![s] = "finally"]
      /\ UNCHANGED <<q, error, next, got, done, saver, aborting, ownError, rolledBack, shutdown>>
  BY DEF Unwind, Move
<1>2. TypeOK'
  BY <1>1 DEF TypeOK, PumpState
<1>3. /\ pump \in [Stream -> PumpState] /\ pump'[s] = "finally"
      /\ \A u \in Stream : u # s => pump'[u] = pump[u]
      /\ \A i \in 1 .. Len(q) : q[i][1] \in Stream
  BY <1>1 DEF TypeOK
<1>4. s \in error \/ aborting \/ shutdown
  BY <1>1 DEF EndMeansAll
<1>5. QueueInv' /\ PutsPayloads'
  BY <1>1, <1>3 DEF QueueInv, PutsPayloads
<1>6. SettledMeansComplete' /\ DoneIsLast' /\ EndMeansAll' /\ SaverKnows'
  BY <1>1, <1>3, <1>4 DEF SettledMeansComplete, DoneIsLast, EndMeansAll, SaverKnows, TypeOK
<1> QED
  BY <1>2, <1>5, <1>6

\* What a put adds to the queue.
LEMMA Appended ==
    ASSUME TypeOK, NEW msg \in Msg, q' = Append(q, msg)
    PROVE  /\ q' \in Seq(Msg) /\ Len(q) \in Nat /\ Len(q') = Len(q) + 1
           /\ \A i \in 1 .. Len(q) : q'[i] = q[i] /\ i \in 1 .. Len(q')
           /\ q'[Len(q) + 1] = msg
           /\ \A i \in 1 .. Len(q') : i \in 1 .. Len(q) \/ i = Len(q) + 1
           /\ \A i \in 1 .. Len(q) : q[i][1] \in Stream /\ q[i][2] \in 0 .. N
<1>1. q \in Seq(Msg)
  BY DEF TypeOK, Msg
<1>2. \A i \in 1 .. Len(q) : q[i] \in Msg
  BY <1>1
<1> QED
  BY <1>1, <1>2 DEF Msg

\* A payload joins the queue: it is the next of its stream and the last in the queue.
LEMMA PutKeeps == ASSUME CombineInv, NEW s \in Stream, Put(s) PROVE CombineInv'
<1> USE DEF CombineInv
<1>1. /\ pump[s] = "put" /\ pump' = [pump EXCEPT ![s] = "fetch"]
      /\ q' = Append(q, <<s, next[s]>>) /\ next' = [next EXCEPT ![s] = @ + 1]
      /\ UNCHANGED <<error, got, done, saver, aborting, ownError, rolledBack, shutdown>>
  BY DEF Put, Move
<1>2. N \in Nat /\ next[s] \in 1 .. N /\ got[s] < next[s] /\ <<s, next[s]>> \in Msg
  BY <1>1, SizeAssumption DEF TypeOK, SizeAssumption, PutsPayloads, Msg
<1>3. /\ q' \in Seq(Msg) /\ Len(q) \in Nat /\ Len(q') = Len(q) + 1
      /\ \A i \in 1 .. Len(q) : q'[i] = q[i] /\ i \in 1 .. Len(q')
      /\ q'[Len(q) + 1] = <<s, next[s]>>
      /\ \A i \in 1 .. Len(q') : i \in 1 .. Len(q) \/ i = Len(q) + 1
      /\ \A i \in 1 .. Len(q) : q[i][1] \in Stream /\ q[i][2] \in 0 .. N
  BY <1>1, <1>2, Appended
<1>4. /\ pump \in [Stream -> PumpState] /\ pump'[s] = "fetch"
      /\ \A u \in Stream : u # s => pump'[u] = pump[u]
      /\ next'[s] = next[s] + 1 /\ \A u \in Stream : u # s => next'[u] = next[u]
      /\ got' = got /\ \A u \in Stream : got[u] \in 0 .. N /\ next[u] \in 1 .. N + 1
  BY <1>1 DEF TypeOK
<1>5. TypeOK'
  BY <1>1, <1>2, <1>3 DEF TypeOK, PumpState, Msg
<1>6. \A i \in 1 .. Len(q) : q[i][1] = s => q[i][2] # Done
  BY <1>1 DEF QueueInv
<1>7. QueueInv'
  <2>1. \A i \in 1 .. Len(q') : q'[i][2] # Done =>
            got'[q'[i][1]] < q'[i][2] /\ q'[i][2] < next'[q'[i][1]]
    <3> SUFFICES ASSUME NEW i \in 1 .. Len(q'), q'[i][2] # Done
                 PROVE  got'[q'[i][1]] < q'[i][2] /\ q'[i][2] < next'[q'[i][1]]
      OBVIOUS
    <3>1. CASE i = Len(q) + 1
      BY <1>2, <1>3, <1>4, <3>1
    <3>2. CASE i \in 1 .. Len(q)
      <4>1. q'[i] = q[i] /\ got[q[i][1]] < q[i][2] /\ q[i][2] < next[q[i][1]]
        BY <1>3, <3>2 DEF QueueInv
      <4>2. q[i][1] \in Stream /\ q[i][2] \in 0 .. N
        BY <1>3, <3>2
      <4>3. CASE q[i][1] = s
        BY <1>2, <1>4, <4>1, <4>2, <4>3
      <4>4. CASE q[i][1] # s
        BY <1>4, <4>1, <4>2, <4>4
      <4> QED
        BY <4>3, <4>4
    <3> QED
      BY <1>3, <3>1, <3>2
  <2>2. ASSUME NEW u \in Stream, NEW n \in 1 .. N, got'[u] < n, n < next'[u]
        PROVE  \E i \in 1 .. Len(q') : q'[i][1] = u /\ q'[i][2] = n
    <3>1. CASE u = s /\ n = next[s]
      <4>1. Len(q) + 1 \in 1 .. Len(q')
        BY <1>3
      <4> QED
        BY <1>3, <3>1, <4>1
    <3>2. CASE ~ (u = s /\ n = next[s])
      <4>1. got[u] < n /\ n < next[u]
        BY <1>2, <1>4, <2>2, <3>2
      <4>2. PICK i \in 1 .. Len(q) : q[i][1] = u /\ q[i][2] = n
        BY <4>1 DEF QueueInv
      <4> QED
        BY <1>3, <4>2
    <3> QED
      BY <3>1, <3>2
  <2>3. ASSUME NEW i \in 1 .. Len(q'), NEW j \in 1 .. Len(q'), i < j, q'[i][1] = q'[j][1]
        PROVE  q'[i][2] # Done /\ (q'[j][2] = Done \/ q'[i][2] < q'[j][2])
    <3>1. i \in 1 .. Len(q) /\ q'[i] = q[i]
      BY <1>3, <2>3
    <3>2. CASE j \in 1 .. Len(q)
      BY <1>3, <2>3, <3>1, <3>2 DEF QueueInv
    <3>3. CASE j = Len(q) + 1
      <4>1. q[i][1] = s /\ q'[j][2] = next[s]
        BY <1>3, <2>3, <3>1, <3>3
      <4>2. q[i][2] # Done /\ q[i][2] < next[s]
        BY <1>6, <3>1, <4>1 DEF QueueInv
      <4> QED
        BY <3>1, <4>1, <4>2
    <3> QED
      BY <1>3, <3>2, <3>3
  <2>4. ASSUME NEW i \in 1 .. Len(q'), q'[i][2] = Done PROVE pump'[q'[i][1]] = "ended"
    <3>1. i \in 1 .. Len(q) /\ q'[i] = q[i]
      BY <1>2, <1>3, <2>4 DEF Done
    <3>2. pump[q[i][1]] = "ended" /\ q[i][1] # s
      BY <1>6, <2>4, <3>1 DEF QueueInv
    <3> QED
      BY <1>3, <1>4, <3>1, <3>2
  <2> QED
    BY <2>1, <2>2, <2>3, <2>4 DEF QueueInv
<1>8. PutsPayloads'
  BY <1>2, <1>4 DEF PutsPayloads
<1>9. s \notin done
  BY <1>1 DEF DoneIsLast
<1>10. DoneIsLast'
  <2> SUFFICES ASSUME NEW u \in done PROVE pump'[u] = "ended" /\ \A i \in 1 .. Len(q') : q'[i][1] # u
    BY <1>1 DEF DoneIsLast
  <2>1. u # s /\ u \in Stream /\ pump[u] = "ended" /\ \A i \in 1 .. Len(q) : q[i][1] # u
    BY <1>9 DEF DoneIsLast, TypeOK
  <2> QED
    BY <1>3, <1>4, <2>1
<1>11. SettledMeansComplete' /\ EndMeansAll' /\ SaverKnows'
  BY <1>1, <1>4 DEF SettledMeansComplete, EndMeansAll, SaverKnows, TypeOK
<1> QED
  BY <1>5, <1>7, <1>8, <1>10, <1>11

\* A cancelled pump is thrown out of its await, or has ended.
LEMMA CancelledIs ==
    ASSUME NEW state \in PumpState
    PROVE  /\ Cancelled(state) \in PumpState \ {"put", "fetch", "finally"}
           /\ Cancelled(state) = "ended" => state \in {"finally", "ended"}
           /\ Cancelled("ended") = "ended"
BY DEF Cancelled, PumpState

\* A pump's _Done joins the queue and the pump ends.
LEMMA PutDoneKeeps == ASSUME CombineInv, NEW s \in Stream, PutDone(s) PROVE CombineInv'
<1> USE DEF CombineInv
<1>1. /\ pump[s] = "finally" /\ q' = Append(q, <<s, Done>>) /\ Abort(s)
      /\ UNCHANGED <<error, next, got, done, ownError, rolledBack, shutdown>>
  BY DEF PutDone
<1>2. N \in Nat /\ <<s, Done>> \in Msg
  BY SizeAssumption DEF SizeAssumption, Done, Msg
<1>3. /\ q' \in Seq(Msg) /\ Len(q) \in Nat /\ Len(q') = Len(q) + 1
      /\ \A i \in 1 .. Len(q) : q'[i] = q[i] /\ i \in 1 .. Len(q')
      /\ q'[Len(q) + 1] = <<s, Done>>
      /\ \A i \in 1 .. Len(q') : i \in 1 .. Len(q) \/ i = Len(q) + 1
      /\ \A i \in 1 .. Len(q) : q[i][1] \in Stream /\ q[i][2] \in 0 .. N
  BY <1>1, <1>2, Appended
<1>4. /\ pump' \in [Stream -> PumpState] /\ pump'[s] = "ended"
      /\ \A u \in Stream : u # s => pump'[u] \in {pump[u], Cancelled(pump[u])}
      /\ ~ aborting' => \A u \in Stream : u # s => pump'[u] = pump[u]
      /\ aborting' \in BOOLEAN /\ (aborting => aborting')
      /\ aborting' => error # {}
      /\ saver' \in {saver, CancelledSaver} /\ (saver' # saver => aborting' /\ s \in error)
  <2>1. CASE s \in error /\ ~ aborting /\ ~ shutdown
    <3>1. /\ pump' = [p \in Stream |-> IF p = s THEN "ended" ELSE Cancelled(pump[p])]
          /\ aborting' = TRUE /\ saver' = CancelledSaver
      BY <1>1, <2>1 DEF Abort
    <3>2. \A u \in Stream : Cancelled(pump[u]) \in PumpState /\ "ended" \in PumpState
      BY CancelledIs DEF TypeOK, PumpState
    <3> QED
      BY <2>1, <3>1, <3>2
  <2>2. CASE ~ (s \in error /\ ~ aborting /\ ~ shutdown)
    <3>1. /\ pump' = [pump EXCEPT ![s] = "ended"] /\ aborting' = aborting /\ saver' = saver
      BY <1>1, <2>2 DEF Abort
    <3>2. aborting' => error # {}
      BY <3>1 DEF SaverKnows
    <3> QED
      BY <3>1, <3>2 DEF TypeOK, PumpState
  <2> QED
    BY <2>1, <2>2
<1>5. /\ \A u \in Stream : pump[u] = "ended" => pump'[u] = "ended"
      /\ \A u \in Stream : u # s /\ pump'[u] = "put" => pump[u] = "put"
      /\ \A u \in Stream : u # s /\ pump'[u] \in {"finally", "ended"} =>
             pump[u] \in {"finally", "ended"}
      /\ \A u \in Stream : pump[u] \in PumpState
  BY <1>4, CancelledIs DEF TypeOK
<1>6. saver \notin {"settle", "ok"} /\ saver' \in SaverState \ {"settle", "ok"}
      /\ (shutdown => saver' \in {"raised", "cancelled"})
      /\ (saver' = "exit" => saver = "exit" \/ aborting')
  <2>1. saver \notin {"settle", "ok"} /\ saver \in SaverState
        /\ (shutdown => saver \in {"raised", "cancelled"})
    BY <1>1 DEF SaverKnows, TypeOK
  <2>2. CancelledSaver \in SaverState \ {"settle", "ok"}
        /\ (shutdown => CancelledSaver \in {"raised", "cancelled"})
    BY <2>1 DEF CancelledSaver, SaverState, Ended
  <2> QED
    BY <1>4, <2>1, <2>2
<1>7. TypeOK'
  BY <1>1, <1>3, <1>4, <1>6 DEF TypeOK, Msg
<1>8. \A i \in 1 .. Len(q) : q[i][1] = s => q[i][2] # Done
  BY <1>1 DEF QueueInv
<1>9. QueueInv'
  <2>1. \A i \in 1 .. Len(q') : q'[i][2] # Done =>
            i \in 1 .. Len(q) /\ q'[i] = q[i]
    BY <1>3
  <2>2. \A i \in 1 .. Len(q') : q'[i][2] # Done =>
            got'[q'[i][1]] < q'[i][2] /\ q'[i][2] < next'[q'[i][1]]
    BY <1>1, <2>1 DEF QueueInv
  <2>3. \A u \in Stream, n \in 1 .. N : got'[u] < n /\ n < next'[u] =>
            \E i \in 1 .. Len(q') : q'[i][1] = u /\ q'[i][2] = n
    <3> SUFFICES ASSUME NEW u \in Stream, NEW n \in 1 .. N, got[u] < n, n < next[u]
                 PROVE  \E i \in 1 .. Len(q') : q'[i][1] = u /\ q'[i][2] = n
      BY <1>1
    <3>1. PICK i \in 1 .. Len(q) : q[i][1] = u /\ q[i][2] = n
      BY DEF QueueInv
    <3> QED
      BY <1>3, <3>1
  <2>4. ASSUME NEW i \in 1 .. Len(q'), NEW j \in 1 .. Len(q'), i < j, q'[i][1] = q'[j][1]
        PROVE  q'[i][2] # Done /\ (q'[j][2] = Done \/ q'[i][2] < q'[j][2])
    <3>1. i \in 1 .. Len(q) /\ q'[i] = q[i]
      BY <1>3, <2>4
    <3>2. CASE j \in 1 .. Len(q)
      BY <1>3, <2>4, <3>1, <3>2 DEF QueueInv
    <3>3. CASE j = Len(q) + 1
      BY <1>3, <1>8, <2>4, <3>1, <3>3
    <3> QED
      BY <1>3, <3>2, <3>3
  <2>5. ASSUME NEW i \in 1 .. Len(q'), q'[i][2] = Done PROVE pump'[q'[i][1]] = "ended"
    <3>1. CASE i = Len(q) + 1
      BY <1>3, <1>4, <3>1
    <3>2. CASE i \in 1 .. Len(q)
      <4>1. pump[q[i][1]] = "ended" /\ q[i][1] \in Stream /\ q'[i] = q[i]
        BY <1>3, <2>5, <3>2 DEF QueueInv
      <4> QED
        BY <1>5, <4>1
    <3> QED
      BY <1>3, <3>1, <3>2
  <2> QED
    BY <2>2, <2>3, <2>4, <2>5 DEF QueueInv
<1>10. PutsPayloads'
  BY <1>1, <1>4, <1>5 DEF PutsPayloads
<1>11. DoneIsLast'
  <2> SUFFICES ASSUME NEW u \in done PROVE pump'[u] = "ended" /\ \A i \in 1 .. Len(q') : q'[i][1] # u
    BY <1>1 DEF DoneIsLast
  <2>1. u # s /\ u \in Stream /\ pump[u] = "ended" /\ \A i \in 1 .. Len(q) : q[i][1] # u
    BY <1>1 DEF DoneIsLast, TypeOK
  <2> QED
    BY <1>3, <1>5, <2>1
<1>12. EndMeansAll'
  <2> SUFFICES ASSUME NEW u \in Stream \ error
               PROVE  /\ pump'[u] \in {"finally", "ended"} /\ ~ aborting' /\ ~ shutdown =>
                             next[u] = N + 1
                      /\ pump'[u] = "cancelled" => aborting' \/ shutdown
    BY <1>1 DEF EndMeansAll
  <2>1. CASE u = s
    BY <1>1, <1>4, <2>1 DEF EndMeansAll
  <2>2. CASE u # s
    BY <1>4, <1>5, <2>2 DEF EndMeansAll
  <2> QED
    BY <2>1, <2>2
<1>13. SettledMeansComplete' /\ SaverKnows'
  BY <1>1, <1>4, <1>6 DEF SettledMeansComplete, SaverKnows
<1> QED
  BY <1>7, <1>9, <1>10, <1>11, <1>12, <1>13

-----------------------------------------------------------------------------
(* The generator's loop *)

\* The first payload is one, and only _Done messages are before it.
LEMMA FirstPayloadIs ==
    ASSUME TypeOK
    PROVE  \/ FirstPayload = 0 /\ \A j \in 1 .. Len(q) : q[j][2] = Done
           \/ /\ FirstPayload \in 1 .. Len(q) /\ q[FirstPayload][2] # Done
              /\ \A j \in 1 .. Len(q) : j < FirstPayload => q[j][2] = Done
<1> DEFINE I == {i \in 1 .. Len(q) : q[i][2] # Done}
<1>1. FirstPayload = IF I # {} THEN Min(I) ELSE 0
  BY DEF FirstPayload, SelectInSeq
<1>2. Len(q) \in Nat
  BY DEF TypeOK
<1>3. CASE I = {}
  BY <1>1, <1>3
<1>4. CASE I # {}
  <2>1. I \subseteq Nat
    BY <1>2
  <2>2. PICK x \in I : \A y \in I : ~ (<<y, x>> \in OpToRel(<, Nat))
    BY <1>4, <2>1, WFMin, NatLessThanWellFounded
  <2>3. ASSUME NEW y \in I PROVE x <= y
    <3> HIDE DEF I
    <3>1. x \in Nat /\ y \in Nat
      BY <2>1
    <3>2. ~ (y < x)
      BY <2>2, <3>1, Zenon DEF OpToRel
    <3> QED
      BY <3>1, <3>2
  <2>4. Min(I) \in I /\ \A y \in I : Min(I) <= y
    BY <2>3 DEF Min
  <2> HIDE DEF FirstPayload
  <2>5. FirstPayload \in I /\ \A y \in I : FirstPayload <= y
    BY <1>1, <1>4, <2>4
  <2> QED
    BY <1>2, <2>5
<1> QED
  BY <1>3, <1>4

\* What the loop takes is the next payload of its stream.
LEMMA FirstIsNext ==
    ASSUME TypeOK, QueueInv, FirstPayload # 0
    PROVE  LET msg == q[FirstPayload]
           IN  msg[1] \in Stream /\ msg[2] = got[msg[1]] + 1 /\ msg[2] < next[msg[1]]
<1> DEFINE u == q[FirstPayload][1]
           n == q[FirstPayload][2]
<1>1. /\ FirstPayload \in 1 .. Len(q) /\ n # Done
      /\ \A j \in 1 .. Len(q) : j < FirstPayload => q[j][2] = Done
  BY FirstPayloadIs
<1>2. /\ N \in Nat /\ Len(q) \in Nat
      /\ \A i \in 1 .. Len(q) : q[i][1] \in Stream /\ q[i][2] \in 0 .. N
      /\ \A s \in Stream : got[s] \in 0 .. N
  BY SizeAssumption DEF TypeOK, SizeAssumption
<1>3. u \in Stream /\ n \in 0 .. N /\ got[u] \in 0 .. N
  BY <1>1, <1>2
<1>4. got[u] < n /\ n < next[u]
  BY <1>1 DEF QueueInv
<1>5. ASSUME got[u] + 1 < n PROVE FALSE
  <2>1. got[u] + 1 \in 1 .. N /\ got[u] < got[u] + 1 /\ got[u] + 1 < next[u]
    <3>1. next[u] \in Nat
      BY <1>2, <1>3 DEF TypeOK
    <3> QED
      BY <1>2, <1>3, <1>4, <1>5, <3>1
  <2>2. PICK i \in 1 .. Len(q) : q[i][1] = u /\ q[i][2] = got[u] + 1
    BY <1>3, <2>1 DEF QueueInv
  <2>3. q[i][2] # Done
    BY <1>3, <2>2 DEF Done
  <2>4. FirstPayload < i
    <3>1. ~ (i < FirstPayload)
      BY <1>1, <2>3
    <3>2. i # FirstPayload
      BY <1>3, <1>5, <2>2
    <3>3. i \in Int /\ FirstPayload \in Int
      BY <1>1, <1>2
    <3> QED
      BY <3>1, <3>2, <3>3
  <2>5. n < q[i][2]
    BY <1>1, <2>2, <2>3, <2>4 DEF QueueInv
  <2> QED
    BY <1>3, <1>5, <2>2, <2>5
<1> HIDE DEF u, n
<1>6. n = got[u] + 1
  BY <1>2, <1>3, <1>4, <1>5
<1> QED
  BY <1>3, <1>4, <1>6 DEF u, n

\* The loop takes what is before the first payload, and that payload.
LEMMA AdvanceKeeps ==
    ASSUME CombineInv, saver \in {"get", "busy"}, Advance,
           UNCHANGED <<pump, error, next, aborting, ownError, rolledBack, shutdown>>
    PROVE  CombineInv'
<1> USE DEF CombineInv
<1> DEFINE f == FirstPayload
           t == IF f = 0 THEN Len(q) ELSE f
<1>1. /\ q' = SubSeq(q, t + 1, Len(q))
      /\ done' = done \cup {q[j][1] : j \in {j \in 1 .. t : q[j][2] = Done}}
      /\ got' = IF f = 0 THEN got ELSE [got EXCEPT ![q[f][1]] = @ + 1]
      /\ saver' = IF f # 0 THEN "busy" ELSE IF done' = Stream THEN "exit" ELSE "get"
  BY DEF Advance
<1>2. /\ N \in Nat /\ Len(q) \in Nat /\ q \in Seq(Msg)
      /\ \A i \in 1 .. Len(q) : q[i] \in Msg /\ q[i][1] \in Stream /\ q[i][2] \in 0 .. N
      /\ \A s \in Stream : got[s] \in 0 .. N /\ next[s] \in 1 .. N + 1
  BY SizeAssumption DEF TypeOK, SizeAssumption, Msg
<1>3. /\ t \in 0 .. Len(q) /\ f \in 0 .. Len(q) /\ (f # 0 => f = t)
      /\ \A k \in 1 .. Len(q) : k <= t /\ k # f => q[k][2] = Done
      /\ f # 0 => q[f][2] # Done
  BY <1>2, FirstPayloadIs
<1>4. f # 0 => /\ q[f][1] \in Stream /\ q[f][2] = got[q[f][1]] + 1
               /\ q[f][2] < next[q[f][1]]
  BY FirstIsNext
<1> HIDE DEF f, t
<1>5. /\ q' \in Seq(Msg) /\ Len(q') = Len(q) - t
      /\ \A j \in 1 .. Len(q') : j + t \in 1 .. Len(q) /\ j + t > t /\ q'[j] = q[j + t]
      /\ \A k \in 1 .. Len(q) : k > t => \E j \in 1 .. Len(q') : q'[j] = q[k]
  <2>1. \A i \in t + 1 .. Len(q) : q[i] \in Msg
    BY <1>2, <1>3
  <2>2. /\ q' \in Seq(Msg)
        /\ Len(q') = IF t + 1 <= Len(q) THEN Len(q) - (t + 1) + 1 ELSE 0
        /\ \A i \in 1 .. Len(q) - (t + 1) + 1 : q'[i] = q[t + 1 + i - 1]
    BY <1>1, <1>2, <1>3, <2>1, SubSeqProperties
  <2>3. Len(q') = Len(q) - t
    BY <1>2, <1>3, <2>2
  <2>4. \A j \in 1 .. Len(q') : j + t \in 1 .. Len(q) /\ j + t > t /\ q'[j] = q[j + t]
    <3> SUFFICES ASSUME NEW j \in 1 .. Len(q')
                 PROVE  j + t \in 1 .. Len(q) /\ j + t > t /\ q'[j] = q[j + t]
      OBVIOUS
    <3>1. j \in 1 .. Len(q) - (t + 1) + 1 /\ t + 1 + j - 1 = j + t
      BY <1>2, <1>3, <2>3
    <3>2. q'[j] = q[j + t]
      BY <2>2, <3>1
    <3> QED
      BY <1>2, <1>3, <2>3, <3>2
  <2>5. \A k \in 1 .. Len(q) : k > t => \E j \in 1 .. Len(q') : q'[j] = q[k]
    <3> SUFFICES ASSUME NEW k \in 1 .. Len(q), k > t
                 PROVE  \E j \in 1 .. Len(q') : q'[j] = q[k]
      OBVIOUS
    <3>1. k - t \in 1 .. Len(q') /\ (k - t) + t = k
      BY <1>2, <1>3, <2>3
    <3>2. q'[k - t] = q[k]
      BY <2>4, <3>1
    <3> QED
      BY <3>1, <3>2
  <2> QED
    BY <2>2, <2>3, <2>4, <2>5
<1>6. /\ got' \in [Stream -> 0 .. N]
      /\ \A s \in Stream : got[s] <= got'[s] /\ got'[s] < next[s]
      /\ \A s \in Stream : f # 0 /\ s = q[f][1] => got'[s] = q[f][2]
      /\ \A s \in Stream : ~ (f # 0 /\ s = q[f][1]) => got'[s] = got[s]
  <2>1. CASE f = 0
    BY <1>1, <1>2, <2>1 DEF TypeOK, PutsPayloads
  <2>2. CASE f # 0
    <3>1. got' = [got EXCEPT ![q[f][1]] = got[q[f][1]] + 1]
      BY <1>1, <2>2
    <3>2. q[f][2] \in 0 .. N
      BY <1>2, <1>3, <2>2
    <3> DEFINE s == q[f][1]
               n == q[f][2]
    <3>3. s \in Stream /\ got[s] + 1 = n /\ n < next[s] /\ n \in 0 .. N /\ got[s] \in 0 .. N
      BY <1>2, <1>4, <2>2, <3>2
    <3> HIDE DEF s, n
    <3>4. got \in [Stream -> 0 .. N] /\ \A r \in Stream : got[r] < next[r]
      BY DEF TypeOK, PutsPayloads
    <3>5. got' = [got EXCEPT ![s] = n]
      BY <3>1, <3>3 DEF s
    <3>6. got' \in [Stream -> 0 .. N]
      BY <3>3, <3>4, <3>5
    <3>7. \A r \in Stream : got'[r] = IF r = s THEN n ELSE got[r]
      BY <3>4, <3>5
    <3>8. \A r \in Stream : got[r] <= got'[r] /\ got'[r] < next[r]
      BY <1>2, <3>3, <3>4, <3>7
    <3>9. /\ \A r \in Stream : r = s => got'[r] = n
          /\ \A r \in Stream : r # s => got'[r] = got[r]
      BY <3>7
    <3>10. f # 0 /\ s = q[f][1] /\ n = q[f][2]
      BY <2>2 DEF s, n
    <3> QED
      BY <3>6, <3>8, <3>9, <3>10, Zenon
  <2> QED
    BY <2>1, <2>2
<1>7. ~ shutdown
  BY DEF SaverKnows
<1>8. done' \subseteq Stream
  <2>1. 1 .. t \subseteq 1 .. Len(q) /\ done \subseteq Stream
    BY <1>2, <1>3 DEF TypeOK
  <2>2. \A d \in done' : d \in done \/ \E j \in 1 .. t : d = q[j][1]
    BY <1>1
  <2> QED
    BY <1>2, <2>1, <2>2
<1>9. TypeOK'
  <2>1. saver' \in SaverState
    BY <1>1 DEF SaverState
  <2> QED
    BY <1>5, <1>6, <1>8, <2>1 DEF TypeOK, Msg
<1>10. QueueInv'
  <2>1. ASSUME NEW j \in 1 .. Len(q'), q'[j][2] # Done
        PROVE  got'[q'[j][1]] < q'[j][2] /\ q'[j][2] < next'[q'[j][1]]
    <3> DEFINE k == j + t
               s == q[k][1]
    <3>1. k \in 1 .. Len(q) /\ k > t /\ q'[j] = q[k] /\ q[k][2] # Done
      BY <1>5, <2>1
    <3>2. got[s] < q[k][2] /\ q[k][2] < next[s] /\ s \in Stream
      BY <1>2, <3>1 DEF QueueInv
    <3>3. CASE f # 0 /\ s = q[f][1]
      <4>1. f < k /\ f \in 1 .. Len(q)
        BY <1>2, <1>3, <3>1, <3>3
      <4>2. q[f][2] < q[k][2]
        BY <3>1, <3>3, <4>1 DEF QueueInv
      <4> QED
        BY <1>6, <3>1, <3>2, <3>3, <4>2
    <3>4. CASE ~ (f # 0 /\ s = q[f][1])
      BY <1>6, <3>1, <3>2, <3>4
    <3> QED
      BY <3>3, <3>4
  <2>2. ASSUME NEW s \in Stream, NEW n \in 1 .. N, got'[s] < n, n < next'[s]
        PROVE  \E j \in 1 .. Len(q') : q'[j][1] = s /\ q'[j][2] = n
    <3>1. got[s] < n /\ n < next[s]
      BY <1>2, <1>6, <2>2
    <3>2. PICK k \in 1 .. Len(q) : q[k][1] = s /\ q[k][2] = n
      BY <3>1 DEF QueueInv
    <3>3. k # f
      <4>1. k # 0
        BY <1>2, <3>2
      <4>2. ASSUME k = f PROVE FALSE
        <5>1. got'[s] = n
          BY <1>6, <3>2, <4>1, <4>2
        <5> QED
          BY <2>2, <5>1
      <4> QED
        BY <4>2
    <3>4. ~ (k <= t)
      BY <1>3, <3>2, <3>3 DEF Done
    <3>5. k > t
      BY <1>2, <1>3, <3>4
    <3>6. PICK j \in 1 .. Len(q') : q'[j] = q[k]
      BY <1>2, <1>3, <1>5, <3>5
    <3> QED
      BY <3>2, <3>6
  <2>3. ASSUME NEW i \in 1 .. Len(q'), NEW j \in 1 .. Len(q'), i < j, q'[i][1] = q'[j][1]
        PROVE  q'[i][2] # Done /\ (q'[j][2] = Done \/ q'[i][2] < q'[j][2])
    <3>1. /\ i + t \in 1 .. Len(q) /\ q'[i] = q[i + t]
          /\ j + t \in 1 .. Len(q) /\ q'[j] = q[j + t]
      BY <1>5
    <3>2. i + t < j + t
      BY <1>2, <1>3, <1>5, <2>3
    <3> QED
      BY <2>3, <3>1, <3>2 DEF QueueInv
  <2>4. ASSUME NEW i \in 1 .. Len(q'), q'[i][2] = Done PROVE pump'[q'[i][1]] = "ended"
    <3>1. i + t \in 1 .. Len(q) /\ q'[i] = q[i + t]
      BY <1>5
    <3>2. pump[q[i + t][1]] = "ended" /\ pump' = pump
      BY <2>4, <3>1 DEF QueueInv
    <3> QED
      BY <3>1, <3>2
  <2> QED
    BY <2>1, <2>2, <2>3, <2>4 DEF QueueInv
<1>11. PutsPayloads'
  BY <1>6 DEF PutsPayloads
<1>12. DoneIsLast'
  <2> SUFFICES ASSUME NEW s \in done'
               PROVE  pump[s] = "ended" /\ \A j \in 1 .. Len(q') : q'[j][1] # s
    BY DEF DoneIsLast
  <2>1. CASE s \in done
    <3>1. pump[s] = "ended" /\ \A k \in 1 .. Len(q) : q[k][1] # s
      BY <2>1 DEF DoneIsLast
    <3> QED
      BY <1>5, <3>1
  <2>2. CASE s \notin done
    <3>1. PICK d \in 1 .. t : q[d][2] = Done /\ q[d][1] = s
      BY <1>1, <2>2
    <3>2. d \in 1 .. Len(q) /\ d <= t
      BY <1>2, <1>3
    <3>3. pump[s] = "ended"
      BY <3>1, <3>2 DEF QueueInv
    <3>4. ASSUME NEW j \in 1 .. Len(q'), q'[j][1] = s PROVE FALSE
      <4>1. j + t \in 1 .. Len(q) /\ q[j + t][1] = s /\ j + t > t
        BY <1>5, <3>4
      <4>2. d < j + t
        BY <1>2, <1>3, <3>2, <4>1
      <4> QED
        BY <3>1, <3>2, <4>1, <4>2 DEF QueueInv
    <3> QED
      BY <3>3, <3>4
  <2> QED
    BY <2>1, <2>2
<1>13. EndMeansAll'
  BY DEF EndMeansAll
<1>14. SettledMeansComplete' /\ SaverKnows'
  BY <1>1, <1>7 DEF SettledMeansComplete, SaverKnows
<1> QED
  BY <1>9, <1>10, <1>11, <1>12, <1>13, <1>14

-----------------------------------------------------------------------------
(* The saver's task *)

\* Leaving the group without an error: every stream was taken to its end.
LEMMA LeaveGroupKeeps == ASSUME CombineInv, LeaveGroup PROVE CombineInv'
<1> USE DEF CombineInv
<1>1. /\ saver = "exit" /\ \A s \in Stream : pump[s] = "ended"
      /\ saver' = IF error = {} THEN "settle" ELSE "rollback"
      /\ UNCHANGED <<q, pump, error, next, got, done, aborting, ownError, rolledBack, shutdown>>
  BY DEF LeaveGroup
<1>2. ASSUME error = {}, NEW s \in Stream PROVE got[s] = N
  <2>1. ~ aborting /\ ~ shutdown /\ s \in done
    BY <1>1, <1>2 DEF SaverKnows
  <2>2. next[s] = N + 1
    BY <1>1, <1>2, <2>1 DEF EndMeansAll
  <2>3. \A i \in 1 .. Len(q) : q[i][1] # s
    BY <2>1 DEF DoneIsLast
  <2>4. N \in Nat /\ got[s] \in 0 .. N
    BY SizeAssumption DEF TypeOK, SizeAssumption
  <2>5. ASSUME got[s] < N PROVE FALSE
    <3>1. N \in 1 .. N /\ got[s] < N /\ N < next[s]
      BY <2>2, <2>4, <2>5
    <3> QED
      BY <2>3, <3>1 DEF QueueInv
  <2> QED
    BY <2>4, <2>5
<1>3. SettledMeansComplete' /\ SaverKnows'
  BY <1>1, <1>2 DEF SettledMeansComplete, SaverKnows
<1>4. TypeOK'
  BY <1>1 DEF TypeOK, SaverState
<1>5. QueueInv' /\ PutsPayloads' /\ DoneIsLast' /\ EndMeansAll'
  BY <1>1 DEF QueueInv, PutsPayloads, DoneIsLast, EndMeansAll
<1> QED
  BY <1>3, <1>4, <1>5

\* The steps of save that touch neither queue nor pumps.
LEMMA SaverKeeps == ASSUME CombineInv, Settled \/ RollBack \/ SaverError PROVE CombineInv'
<1> USE DEF CombineInv
<1>1. /\ \/ saver = "settle" /\ saver' = "ok"
         \/ saver = "rollback" /\ saver' = "raised"
         \/ saver = "busy" /\ saver' = "rollback"
      /\ UNCHANGED <<q, pump, error, next, got, done, aborting, shutdown>>
  BY DEF Settled, RollBack, SaverError
<1>2. TypeOK'
  <2>1. ownError' \in BOOLEAN
    BY DEF Settled, RollBack, SaverError, TypeOK
  <2>2. rolledBack' \in BOOLEAN
    BY DEF Settled, RollBack, SaverError, TypeOK
  <2> QED
    BY <1>1, <2>1, <2>2 DEF TypeOK, SaverState
<1>3. SettledMeansComplete' /\ SaverKnows'
  BY <1>1 DEF SettledMeansComplete, SaverKnows
<1>4. QueueInv' /\ PutsPayloads' /\ DoneIsLast' /\ EndMeansAll'
  BY <1>1 DEF QueueInv, PutsPayloads, DoneIsLast, EndMeansAll
<1> QED
  BY <1>2, <1>3, <1>4

\* asyncio.run cancels what is left.
LEMMA ShutdownKeeps == ASSUME CombineInv, Shutdown PROVE CombineInv'
<1> USE DEF CombineInv
<1>1. /\ saver \in {"raised", "cancelled"} /\ shutdown' = TRUE
      /\ pump' = [s \in Stream |-> Cancelled(pump[s])]
      /\ UNCHANGED <<q, error, next, got, done, saver, aborting, ownError, rolledBack>>
  BY DEF Shutdown
<1>2. \A s \in Stream : /\ pump'[s] \in PumpState \ {"put", "fetch", "finally"}
                        /\ pump[s] = "ended" => pump'[s] = "ended"
  BY <1>1, CancelledIs DEF TypeOK
<1>3. TypeOK'
  <2>1. pump' \in [Stream -> PumpState]
    BY <1>1, <1>2
  <2> QED
    BY <1>1, <2>1 DEF TypeOK
<1>4. QueueInv' /\ DoneIsLast'
  <2>1. \A i \in 1 .. Len(q) : q[i][1] \in Stream
    BY DEF TypeOK
  <2> QED
    BY <1>1, <1>2, <2>1 DEF QueueInv, DoneIsLast, TypeOK
<1>5. PutsPayloads' /\ EndMeansAll' /\ SettledMeansComplete' /\ SaverKnows'
  BY <1>1, <1>2 DEF PutsPayloads, EndMeansAll, SettledMeansComplete, SaverKnows
<1> QED
  BY <1>3, <1>4, <1>5

\* Every step keeps the invariant.
LEMMA CombineStep == CombineInv /\ [Next]_vars => CombineInv'
<1> SUFFICES ASSUME CombineInv, [Next]_vars PROVE CombineInv'
  OBVIOUS
<1>1. CASE UNCHANGED vars
  BY <1>1 DEF CombineInv, TypeOK, QueueInv, SettledMeansComplete, PutsPayloads, DoneIsLast,
              EndMeansAll, SaverKnows, vars
<1>2. ASSUME NEW s \in Stream, PumpStep(s) \/ Raise(s) PROVE CombineInv'
  BY <1>2, YieldKeeps, ExhaustedKeeps, PutKeeps, UnwindKeeps, PutDoneKeeps, RaiseKeeps
     DEF PumpStep
<1>3. CASE Get
  BY <1>3, AdvanceKeeps DEF Get
<1>4. CASE Handled
  BY <1>4, AdvanceKeeps DEF Handled
<1>5. CASE LeaveGroup
  BY <1>5, LeaveGroupKeeps
<1>6. CASE Settled \/ RollBack \/ SaverError
  BY <1>6, SaverKeeps
<1>7. CASE Shutdown
  BY <1>7, ShutdownKeeps
<1> QED
  BY <1>1, <1>2, <1>3, <1>4, <1>5, <1>6, <1>7 DEF Next, SaverStep

-----------------------------------------------------------------------------
(* The results *)

\* The inductive invariant of pumps, queue, group and saver.
THEOREM Invariant == Spec => []CombineInv
<1> QED
  BY CombineInit, CombineStep, PTL DEF Spec

\* Types of combine_streams: no pump yields more than there is.
THEOREM TypeCorrect == Spec => []TypeOK
<1>1. CombineInv => TypeOK
  BY DEF CombineInv
<1> QED
  BY <1>1, Invariant, PTL

\* Whatever the interleaving of pumps and saver, and wherever a failure cancels
\* them, the saver takes each stream's payloads once each and in order.
THEOREM PayloadsInOrder == Spec => []InOrderOnce
<1>1. CombineInv => InOrderOnce
  BY QueueInOrder DEF CombineInv
<1> QED
  BY <1>1, Invariant, PTL

\* save deletes and marks only after both streams were taken to their end, and no
\* pump has failed.
THEOREM OnlyCompleteIsSettled == Spec => []SettledMeansComplete
<1>1. CombineInv => SettledMeansComplete
  BY DEF CombineInv
<1> QED
  BY <1>1, Invariant, PTL
==============================================================================
