--------------------------- MODULE RiotClient_proofs ---------------------------
(***************************************************************************)
(* What RiotClient promises for any number of tasks, any rate, any number  *)
(* of attempts and any stall: the types, the spacing of the slots, the     *)
(* refinement of PermitStream, one permit per slot, after its time, the    *)
(* budget of a period, the back-offs before a fetch is given up, and the   *)
(* agreement of the metrics with the permits.                              *)
(***************************************************************************)
EXTENDS RiotClient, NatRecursion, FiniteSetTheorems, TLAPS

USE ClientAssumption DEF ClientAssumption

-----------------------------------------------------------------------------
(* The helpers *)

\* A back-off is a natural number of ticks: it is between MinWait and MaxWait
\* unless these are the wrong way round.
LEMMA BackoffType ==
    ASSUME NEW n \in Nat \ {0}
    PROVE  Backoff(n) \in Nat
<1>1. n - 1 \in Nat
  OBVIOUS
<1>2. 2^(n - 1) \in Int
  BY <1>1, SMT
<1> QED
  BY <1>2 DEF Backoff

\* The slot given out is neither before now nor before the next free one.
LEMMA SlotType ==
    ASSUME now \in Nat, nextAt \in Nat
    PROVE  Slot \in Nat /\ Slot >= nextAt /\ Slot >= now
BY DEF Slot

LEMMA PeriodType == Period \in Nat \ {0}
BY SMT DEF Period

-----------------------------------------------------------------------------
(* Types *)

\* A task that may ask for a permit has an attempt left, and one whose request
\* is out or that backs off has used one.
AttemptsLeft ==
    \A t \in Task :
        /\ phase[t] = "idle" => tries[t] = 0
        /\ phase[t] \in {"slot", "backoff"} => tries[t] < Attempts
        /\ phase[t] = "request" => tries[t] # 0

\* The period of the debug record has begun.
DebugStarted == debug.start <= now

TypeInv == TypeOK /\ AttemptsLeft /\ DebugStarted

LEMMA TypeInit == Init => TypeInv
BY DEF Init, TypeInv, TypeOK, AttemptsLeft, DebugStarted, Waiting, Outcome

\* Moving one task to another phase with a time for its timer keeps the types,
\* except for what the new phase asks for.
LEMMA MoveKeepsTypes ==
    ASSUME TypeInv, NEW t \in Task, NEW to \in ({"idle"} \cup Waiting \cup Outcome) \ {"slot"},
           NEW at \in Nat, Move(t, to, at), UNCHANGED <<slots, ticket>>
    PROVE  /\ phase' \in [Task -> {"idle"} \cup Waiting \cup Outcome]
           /\ wake' \in [Task -> Nat]
           /\ \A u \in Task : phase'[u] = "slot" =>
                  ticket'[u] # 0 /\ wake'[u] = slots'[ticket'[u]]
           /\ phase'[t] = to
           /\ \A u \in Task \ {t} : phase'[u] = phase[u]
BY DEF TypeInv, TypeOK, Move, Waiting

\* One attempt, at its beginning or as a retry, keeps them.
LEMMA AttemptKeepsTypes ==
    ASSUME TypeInv, NEW t \in Task, phase[t] \in {"idle", "backoff"}, Attempt(t)
    PROVE  TypeInv'
<1> USE DEF TypeInv, DebugStarted, clock, metrics
<1>0. Slot \in Nat
  BY SlotType DEF TypeOK
<1>1. CASE open
  <2>1. Reserve(t) /\ UNCHANGED <<open, tries, began, granted, window, debug, now, stalled, incidents>>
    BY <1>1 DEF Attempt
  <2>2. slots' \in Seq(Nat) /\ Len(slots') = Len(slots) + 1 /\ slots'[Len(slots) + 1] = Slot
        /\ \A i \in 1 .. Len(slots) : slots'[i] = slots[i]
    BY <1>0, <2>1 DEF Reserve, TypeOK
  <2>3. nextAt' \in Nat
    BY <1>0, <2>1 DEF Reserve
  <2>4. ticket' = [ticket EXCEPT ![t] = Len(slots) + 1] /\ Len(slots) \in Nat
    BY <2>1 DEF Reserve, TypeOK
  <2>5. ticket' \in [Task -> 0 .. Len(slots')]
    BY <2>2, <2>4 DEF TypeOK
  <2>6. /\ phase' = [phase EXCEPT ![t] = "slot"] /\ wake' = [wake EXCEPT ![t] = Slot]
    BY <2>1 DEF Reserve, Move
  <2>7. phase' \in [Task -> {"idle"} \cup Waiting \cup Outcome] /\ wake' \in [Task -> Nat]
    BY <1>0, <2>6 DEF TypeOK, Waiting
  <2>8. granted' \subseteq [n : 1 .. Len(slots'), at : Nat]
    BY <2>1, <2>2, <2>4 DEF TypeOK
  <2>9. \A u \in Task : phase'[u] = "slot" =>
            ticket'[u] # 0 /\ wake'[u] = slots'[ticket'[u]]
    <3> SUFFICES ASSUME NEW u \in Task, phase'[u] = "slot"
                 PROVE  ticket'[u] # 0 /\ wake'[u] = slots'[ticket'[u]]
      OBVIOUS
    <3>1. CASE u = t
      BY <2>2, <2>4, <2>6, <3>1 DEF TypeOK
    <3>2. CASE u # t
      <4>1. phase[u] = "slot" /\ ticket'[u] = ticket[u] /\ wake'[u] = wake[u]
        BY <2>4, <2>6, <3>2 DEF TypeOK
      <4>2. ticket[u] \in 1 .. Len(slots) /\ wake[u] = slots[ticket[u]]
        BY <2>4, <4>1 DEF TypeOK
      <4> QED
        BY <2>2, <2>4, <4>1, <4>2
    <3> QED
      BY <3>1, <3>2
  <2>10. AttemptsLeft'
    BY <2>1, <2>6 DEF AttemptsLeft, TypeOK
  <2> QED
    BY <2>1, <2>2, <2>3, <2>5, <2>7, <2>8, <2>9, <2>10 DEF TypeOK
<1>2. CASE ~ open
  <2>1. /\ Move(t, "runtime_error", 0)
        /\ UNCHANGED <<slots, nextAt, ticket, open, tries, began, granted, window, debug,
                       now, stalled, incidents>>
    BY <1>2 DEF Attempt, Refuse, End
  <2>2. /\ phase' \in [Task -> {"idle"} \cup Waiting \cup Outcome]
        /\ wake' \in [Task -> Nat]
        /\ \A u \in Task : phase'[u] = "slot" =>
               ticket'[u] # 0 /\ wake'[u] = slots'[ticket'[u]]
        /\ phase'[t] = "runtime_error" /\ \A u \in Task \ {t} : phase'[u] = phase[u]
    BY <2>1, MoveKeepsTypes DEF Outcome, Waiting
  <2>3. AttemptsLeft'
    BY <2>1, <2>2 DEF AttemptsLeft
  <2> QED
    BY <2>1, <2>2, <2>3 DEF TypeOK
<1> QED
  BY <1>1, <1>2, Zenon

\* The window keeps natural numbers, whatever it drops.
LEMMA SinceType ==
    ASSUME NEW times \in Seq(Nat), NEW cutoff \in Int
    PROVE  Since(times, cutoff) \in Seq(Nat)
<1> DEFINE old == {i \in DOMAIN times : times[i] <= cutoff}
<1>1. DOMAIN times = 1 .. Len(times) /\ Len(times) \in Nat
  OBVIOUS
<1>2. IsFiniteSet(1 .. Len(times)) /\ Cardinality(1 .. Len(times)) = Len(times)
  <2>1. /\ IsFiniteSet(1 .. Len(times))
        /\ Cardinality(1 .. Len(times)) = IF 1 > Len(times) THEN 0 ELSE Len(times) - 1 + 1
    <3>1. 1 \in Int /\ Len(times) \in Int
      BY <1>1
    <3> QED
      BY <3>1, FS_Interval, Zenon
  <2> QED
    BY <1>1, <2>1
<1>3. old \in SUBSET (1 .. Len(times))
  BY <1>1
<1>4. Cardinality(old) \in Nat /\ Cardinality(old) <= Len(times)
  BY <1>2, <1>3, FS_Subset, FS_CardinalityType
<1> HIDE DEF old
<1>5. SubSeq(times, Cardinality(old) + 1, Len(times)) \in Seq(Nat)
  BY <1>1, <1>4
<1> QED
  BY <1>5 DEF Since, old

\* A number of whole periods back from now is at most what lies between.
LEMMA WholePeriods ==
    ASSUME NEW length \in Nat, NEW period \in Nat \ {0}
    PROVE  /\ length \div period \in Nat /\ (length \div period) * period \in Nat
           /\ (length \div period) * period <= length
           /\ length - (length \div period) * period < period
BY SMT

\* The debug record counts, and its period begins no later than now.
LEMMA CountedType ==
    ASSUME now \in Nat, debug \in [start : Nat, permits : Nat], debug.start <= now
    PROVE  Counted \in [start : Nat, permits : Nat] /\ Counted.start <= now
<1> DEFINE start == IF granted = {} THEN now ELSE debug.start
           periods == (now - start) \div Period
<1>1. start \in Nat /\ start <= now
  OBVIOUS
<1>2. Period \in Nat \ {0} /\ now - start \in Nat
  BY <1>1, PeriodType
<1>3. periods \in Nat /\ periods * Period \in Nat /\ periods * Period <= now - start
  BY <1>2, WholePeriods
<1> HIDE DEF start, periods
<1>4. start + periods * Period \in Nat /\ start + periods * Period <= now
  BY <1>1, <1>3
<1>5. Counted = IF periods = 0
                THEN [start |-> start, permits |-> debug.permits + 1]
                ELSE [start |-> start + periods * Period, permits |-> 1]
  BY DEF Counted, start, periods
<1> QED
  BY <1>1, <1>4, <1>5

\* The permit keeps them: what is recorded and counted has its type.
LEMMA PermitKeepsTypes ==
    ASSUME TypeInv, NEW t \in Task, Permit(t)
    PROVE  TypeInv'
<1> USE DEF TypeInv, clock
<1>1. now \in Nat /\ Timeout \in Nat /\ now + Timeout \in Nat
  BY DEF TypeOK
<1>2. window' \in Seq(Nat)
  <2>1. Append(window, now) \in Seq(Nat) /\ now - Period \in Int
    BY <1>1, PeriodType DEF TypeOK
  <2> QED
    BY <2>1, SinceType DEF Permit, Recorded
<1>3. debug' \in [start : Nat, permits : Nat] /\ debug'.start <= now'
  BY <1>1, CountedType DEF Permit, TypeOK, DebugStarted
<1>4. granted' \subseteq [n : 1 .. Len(slots'), at : Nat]
  <2>1. ticket[t] \in 1 .. Len(slots)
    BY DEF Permit, TypeOK
  <2> QED
    BY <1>1, <2>1 DEF Permit, TypeOK
<1>5. PICK to \in {"request", "runtime_error"}, at \in Nat : Move(t, to, at)
  BY <1>1 DEF Permit, End
<1>6. UNCHANGED <<slots, ticket, open, nextAt, now, stalled, incidents>>
  BY DEF Permit
<1>7. /\ phase' \in [Task -> {"idle"} \cup Waiting \cup Outcome]
      /\ wake' \in [Task -> Nat]
      /\ \A u \in Task : phase'[u] = "slot" =>
             ticket'[u] # 0 /\ wake'[u] = slots'[ticket'[u]]
      /\ phase'[t] = to
      /\ \A u \in Task \ {t} : phase'[u] = phase[u]
  BY <1>5, <1>6, MoveKeepsTypes DEF Waiting, Outcome
<1>8. tries[t] < Attempts /\ tries' = [tries EXCEPT ![t] = @ + 1]
  BY DEF Permit, AttemptsLeft
<1>9. tries' \in [Task -> 0 .. Attempts] /\ tries'[t] # 0
  BY <1>8 DEF TypeOK
<1>10. AttemptsLeft'
  BY <1>5, <1>7, <1>8, <1>9 DEF AttemptsLeft, TypeOK
<1>11. began' \in [Task -> Nat]
  BY <1>1 DEF Permit, TypeOK
<1> QED
  BY <1>2, <1>3, <1>4, <1>6, <1>7, <1>9, <1>10, <1>11 DEF TypeOK, DebugStarted

\* Every step keeps the types.
LEMMA TypeInductive == TypeInv /\ [Next]_vars => TypeInv'
<1> SUFFICES ASSUME TypeInv, [Next]_vars PROVE TypeInv'
  OBVIOUS
<1> USE DEF TypeInv, clock, metrics, DebugStarted
<1>1. ASSUME NEW t \in Task, Begin(t) \/ Retry(t) PROVE TypeInv'
  BY <1>1, AttemptKeepsTypes DEF Begin, Retry
<1>2. ASSUME NEW t \in Task, Permit(t) PROVE TypeInv'
  BY <1>2, PermitKeepsTypes
<1>3. ASSUME NEW t \in Task, NEW to \in {"answered", "retry_exhausted", "backoff", "cancelled"},
             NEW at \in Nat, Move(t, to, at), to = "backoff" => tries[t] < Attempts,
             incidents' \in 0 .. Incidents,
             UNCHANGED <<open, nextAt, tries, ticket, began, slots, granted, window, debug,
                         now, stalled>>
      PROVE  TypeInv'
  <2>1. /\ phase' \in [Task -> {"idle"} \cup Waiting \cup Outcome]
        /\ wake' \in [Task -> Nat]
        /\ \A u \in Task : phase'[u] = "slot" =>
               ticket'[u] # 0 /\ wake'[u] = slots'[ticket'[u]]
        /\ phase'[t] = to
        /\ \A u \in Task \ {t} : phase'[u] = phase[u]
    BY <1>3, MoveKeepsTypes DEF Waiting, Outcome
  <2>2. AttemptsLeft'
    BY <1>3, <2>1 DEF AttemptsLeft
  <2> QED
    BY <1>3, <2>1, <2>2 DEF TypeOK
<1>4. ASSUME NEW t \in Task, Answer(t) PROVE TypeInv'
  BY <1>3, <1>4 DEF Answer, End, TypeOK
<1>5. ASSUME NEW t \in Task, Transient(t) PROVE TypeInv'
  <2>1. tries[t] \in 1 .. Attempts /\ now \in Nat
    BY <1>5 DEF Transient, AttemptsLeft, TypeOK
  <2>2. now + Backoff(tries[t]) \in Nat
    BY <2>1, BackoffType
  <2>3. CASE GivesUp(t)
    BY <1>3, <1>5, <2>1, <2>3 DEF Transient, TypeOK
  <2>4. CASE ~ GivesUp(t)
    <3>1. tries[t] < Attempts
      BY <2>1, <2>4 DEF GivesUp
    <3> QED
      BY <1>3, <1>5, <2>2, <2>4, <3>1 DEF Transient, TypeOK
  <2> QED
    BY <2>3, <2>4
<1>6. ASSUME NEW t \in Task, Cancel(t) PROVE TypeInv'
  <2>1. incidents' \in 0 .. Incidents
    BY <1>6 DEF Cancel, TypeOK
  <2> QED
    BY <1>3, <1>6, <2>1 DEF Cancel, End, TypeOK
<1>7. CASE Tick
  <2>1. stalled' \in 0 .. MaxStall
    BY <1>7 DEF Tick, TypeOK
  <2>2. /\ now' = now + 1
        /\ UNCHANGED <<nextAt, open, phase, wake, tries, ticket, began, slots, granted, window,
                       debug, incidents>>
    BY <1>7 DEF Tick
  <2>3. TypeOK'
    BY <2>1, <2>2 DEF TypeOK
  <2> QED
    BY <2>2, <2>3 DEF TypeOK, AttemptsLeft
<1>8. CASE Close
  <2>0. open' = FALSE /\ incidents < Incidents /\ incidents' = incidents + 1
    BY <1>8 DEF Close
  <2>1. open' \in BOOLEAN
    BY <2>0
  <2>4. incidents' \in 0 .. Incidents
    BY <2>0 DEF TypeOK
  <2>2. UNCHANGED <<now, nextAt, phase, wake, tries, ticket, began, slots, granted, window,
                    debug, stalled>>
    BY <1>8 DEF Close
  <2>3. TypeOK'
    BY <2>1, <2>2, <2>4 DEF TypeOK
  <2> QED
    BY <2>2, <2>3 DEF AttemptsLeft
<1>9. CASE UNCHANGED vars
  BY <1>9 DEF vars, TypeOK, AttemptsLeft
<1> QED
  BY <1>1, <1>2, <1>4, <1>5, <1>6, <1>7, <1>8, <1>9 DEF Next, Step, Idle

-----------------------------------------------------------------------------
(* The slots and the permits *)

\* A step that hands out a slot.
Reserves(t) ==
    /\ open /\ phase[t] \in {"idle", "backoff"} /\ Reserve(t)
    /\ UNCHANGED <<granted, now, stalled>>

\* A step that touches neither slots nor permits: nobody joins the line, and when
\* the clock goes on while a task is due, the tick counts as a stall.
Rests ==
    /\ UNCHANGED <<slots, nextAt, granted, ticket>>
    /\ \A u \in Task : phase'[u] = "slot" => phase[u] = "slot" /\ wake'[u] = wake[u]
    /\ \/ UNCHANGED <<now, stalled>>
       \/ now' = now + 1 /\ stalled' = stalled + 1
       \/ now' = now + 1 /\ stalled' = stalled /\ UNCHANGED <<phase, wake>>
          /\ \A u \in Task : ~ Due(u)

\* Every step is one of the three: a slot, a permit, or neither.
LEMMA ThreeKindsOfSteps ==
    ASSUME TypeInv, [Next]_vars
    PROVE  (\E t \in Task : Reserves(t) \/ Permit(t)) \/ Rests
<1> USE DEF clock
<1>1. ASSUME NEW t \in Task, NEW to, to # "slot", NEW at, Move(t, to, at),
             UNCHANGED <<slots, nextAt, granted, ticket, now, stalled>>
      PROVE  Rests
  <2>1. \A u \in Task : phase'[u] = "slot" => phase[u] = "slot" /\ wake'[u] = wake[u]
    BY <1>1 DEF Move, TypeInv, TypeOK
  <2> QED
    BY <1>1, <2>1 DEF Rests
<1>2. ASSUME NEW t \in Task, phase[t] \in {"idle", "backoff"}, Attempt(t)
      PROVE  Reserves(t) \/ Rests
  <2>1. CASE open
    BY <1>2, <2>1 DEF Attempt, Reserves
  <2>2. CASE ~ open
    <3>1. /\ Move(t, "runtime_error", 0)
          /\ UNCHANGED <<slots, nextAt, ticket, granted, now, stalled>>
      BY <1>2, <2>2 DEF Attempt, Refuse, End
    <3> QED
      BY <1>1, <3>1
  <2> QED
    BY <2>1, <2>2
<1>3. ASSUME NEW t \in Task, Begin(t) \/ Retry(t)
      PROVE  (\E u \in Task : Reserves(u)) \/ Rests
  BY <1>2, <1>3 DEF Begin, Retry
<1>4. ASSUME NEW t \in Task, Answer(t) \/ Transient(t) \/ Cancel(t)
      PROVE  Rests
  <2>1. \E to \in {"answered", "retry_exhausted", "backoff", "cancelled"}, at \in Int :
            Move(t, to, at)
    <3>1. now \in Nat /\ (phase[t] = "request" => tries[t] \in Nat \ {0})
      BY DEF TypeInv, TypeOK, AttemptsLeft
    <3>2. phase[t] = "request" => now + Backoff(tries[t]) \in Nat
      BY <3>1, BackoffType
    <3> QED
      BY <1>4, <3>1, <3>2 DEF Answer, Transient, Cancel, End
  <2>2. UNCHANGED <<slots, nextAt, granted, ticket, now, stalled>>
    BY <1>4 DEF Answer, Transient, Cancel
  <2> QED
    BY <1>1, <2>1, <2>2
<1>5. CASE Tick
  <2>1. /\ now' = now + 1
        /\ UNCHANGED <<slots, nextAt, granted, ticket, phase, wake>>
        /\ stalled' = stalled + 1 \/ (stalled' = stalled /\ \A u \in Task : ~ Due(u))
    BY <1>5 DEF Tick
  <2> QED
    BY <2>1 DEF Rests
<1>6. CASE Close \/ UNCHANGED vars
  BY <1>6 DEF Close, vars, Rests
<1> QED
  BY <1>3, <1>4, <1>5, <1>6 DEF Next, Step, Idle

\* The slots are apart, and the next one is free an interval after the last.
SpacingInv ==
    /\ SlotsApart
    /\ \A i \in 1 .. Len(slots) : nextAt >= slots[i] + Interval * (Len(slots) + 1 - i)

\* One more step of an interval.
LEMMA OneMoreInterval ==
    ASSUME NEW i \in Int, NEW n \in Int
    PROVE  Interval * (n + 1 - i) = Interval * (n - i) + Interval
BY SMT

LEMMA SpacingInductive ==
    ASSUME TypeInv, SpacingInv, [Next]_vars
    PROVE  SpacingInv'
<1>1. ASSUME NEW t \in Task, Reserves(t) PROVE SpacingInv'
  <2> DEFINE n == Len(slots)
  <2>0. Slot \in Nat /\ Slot >= nextAt /\ n \in Nat
    BY SlotType DEF TypeInv, TypeOK
  <2>1. /\ slots' \in Seq(Nat) /\ Len(slots') = n + 1 /\ slots'[n + 1] = Slot
        /\ \A i \in 1 .. n : slots'[i] = slots[i] /\ slots[i] \in Nat
        /\ nextAt' = Slot + Interval
    BY <1>1, <2>0 DEF Reserves, Reserve, TypeInv, TypeOK
  <2>2. ASSUME NEW i \in 1 .. n PROVE Slot >= slots[i] + Interval * (n + 1 - i)
    <3>1. nextAt >= slots[i] + Interval * (n + 1 - i)
      BY DEF SpacingInv
    <3>2. nextAt \in Nat /\ slots[i] \in Nat /\ Interval * (n + 1 - i) \in Int
      BY <2>0, <2>1 DEF TypeInv, TypeOK
    <3> QED
      BY <2>0, <3>1, <3>2
  <2> HIDE DEF n
  <2>3. SlotsApart'
    <3> SUFFICES ASSUME NEW i \in 1 .. n + 1, NEW j \in 1 .. n + 1, i < j
                 PROVE  slots'[j] >= slots'[i] + Interval * (j - i)
      BY <2>1 DEF SlotsApart
    <3>1. CASE j = n + 1
      BY <2>0, <2>1, <2>2, <3>1
    <3>2. CASE j \in 1 .. n
      <4>1. i \in 1 .. n /\ slots[j] >= slots[i] + Interval * (j - i)
        BY <2>0, <3>2 DEF SpacingInv, SlotsApart, n
      <4> QED
        BY <2>1, <3>2, <4>1
    <3> QED
      BY <2>0, <3>1, <3>2
  <2>4. ASSUME NEW i \in 1 .. n + 1
        PROVE  nextAt' >= slots'[i] + Interval * ((n + 1) + 1 - i)
    <3>1. CASE i = n + 1
      BY <2>0, <2>1, <3>1
    <3>2. CASE i \in 1 .. n
      <4>1. Interval * ((n + 1) + 1 - i) = Interval * (n + 1 - i) + Interval
        BY <2>0, <3>2, OneMoreInterval
      <4>2. Slot >= slots[i] + Interval * (n + 1 - i) /\ slots'[i] = slots[i]
            /\ slots[i] \in Nat /\ Interval * (n + 1 - i) \in Int
        BY <2>0, <2>1, <2>2, <3>2
      <4> QED
        BY <2>0, <2>1, <4>1, <4>2
    <3> QED
      BY <2>0, <3>1, <3>2
  <2> QED
    BY <2>1, <2>3, <2>4 DEF SpacingInv
<1>2. ASSUME UNCHANGED <<slots, nextAt>> PROVE SpacingInv'
  BY <1>2 DEF SpacingInv, SlotsApart
<1> QED
  BY <1>1, <1>2, ThreeKindsOfSteps DEF Rests, Permit

-----------------------------------------------------------------------------
(* One permit per slot, at its time *)

\* A task in the line holds a slot that nobody else holds, and is late by no more
\* than the stalls.
LineInv ==
    /\ \A t \in Task : phase[t] = "slot" => now <= wake[t] + stalled
    /\ \A t, u \in Task :
           phase[t] = "slot" /\ phase[u] = "slot" /\ ticket[t] = ticket[u] => t = u

OwnSlotInv == OwnSlot /\ LineInv

LEMMA OwnSlotInductive ==
    ASSUME TypeInv, OwnSlotInv, [Next]_vars
    PROVE  OwnSlotInv'
<1> USE DEF OwnSlotInv
<1>0. now \in Nat /\ stalled \in Nat /\ Len(slots) \in Nat
  BY DEF TypeInv, TypeOK
<1>1. ASSUME NEW t \in Task, Reserves(t) PROVE OwnSlotInv'
  <2>0. Slot \in Nat /\ Slot >= now
    BY SlotType DEF TypeInv, TypeOK
  <2>1. /\ Len(slots') = Len(slots) + 1 /\ slots'[Len(slots) + 1] = Slot
        /\ \A i \in 1 .. Len(slots) : slots'[i] = slots[i]
    BY <1>1, <2>0 DEF Reserves, Reserve, TypeInv, TypeOK
  <2>2. /\ phase'[t] = "slot" /\ ticket'[t] = Len(slots) + 1 /\ wake'[t] = Slot
        /\ \A u \in Task \ {t} :
               phase'[u] = phase[u] /\ ticket'[u] = ticket[u] /\ wake'[u] = wake[u]
        /\ UNCHANGED <<granted, now, stalled>>
    BY <1>1 DEF Reserves, Reserve, Move, TypeInv, TypeOK
  <2>3. /\ \A p \in granted : p.n \in 1 .. Len(slots)
        /\ \A u \in Task : ticket[u] \in 0 .. Len(slots)
    BY DEF TypeInv, TypeOK
  <2>4. OwnSlot'
    BY <1>0, <2>1, <2>2, <2>3 DEF OwnSlot
  <2>5. LineInv'
    BY <1>0, <2>0, <2>2, <2>3 DEF LineInv
  <2> QED
    BY <2>4, <2>5
<1>2. ASSUME NEW t \in Task, Permit(t) PROVE OwnSlotInv'
  <2>1. /\ phase[t] = "slot" /\ wake[t] <= now /\ wake[t] = slots[ticket[t]]
        /\ now <= wake[t] + stalled
    BY <1>2 DEF Permit, TypeInv, TypeOK, LineInv
  <2>2. /\ granted' = granted \cup {[n |-> ticket[t], at |-> now]}
        /\ UNCHANGED <<slots, ticket, now, stalled>>
    BY <1>2 DEF Permit, clock
  <2>3. /\ phase'[t] # "slot"
        /\ \A u \in Task \ {t} : phase'[u] = phase[u] /\ wake'[u] = wake[u]
    BY <1>2 DEF Permit, Move, End, TypeInv, TypeOK
  <2>4. OwnSlot'
    BY <2>1, <2>2, <2>3 DEF OwnSlot, LineInv
  <2>5. LineInv'
    BY <2>2, <2>3 DEF LineInv
  <2> QED
    BY <2>4, <2>5
<1>3. CASE Rests
  <2>1. stalled' >= stalled /\ stalled' \in Nat
    BY <1>0, <1>3 DEF Rests
  <2>2. OwnSlot'
    <3>1. \A p \in granted : slots[p.n] \in Nat /\ p.at \in Nat
      BY DEF TypeInv, TypeOK
    <3> QED
      BY <1>0, <1>3, <2>1, <3>1 DEF OwnSlot, Rests
  <2>3. \A t \in Task : phase'[t] = "slot" => now' <= wake'[t] + stalled'
    <3> SUFFICES ASSUME NEW t \in Task, phase'[t] = "slot"
                 PROVE  now' <= wake'[t] + stalled'
      OBVIOUS
    <3>1. phase[t] = "slot" /\ wake'[t] = wake[t] /\ now <= wake[t] + stalled /\ wake[t] \in Nat
      BY <1>3 DEF Rests, LineInv, TypeInv, TypeOK
    <3>2. Due(t) <=> wake[t] <= now
      BY <3>1 DEF Due, Waiting
    <3> QED
      BY <1>0, <1>3, <3>1, <3>2 DEF Rests
  <2> QED
    BY <1>3, <2>2, <2>3 DEF LineInv, Rests
<1> QED
  BY <1>1, <1>2, <1>3, ThreeKindsOfSteps

-----------------------------------------------------------------------------
(* How many permits a period holds *)

\* A period and what a stall holds back, counted in slots.
LEMMA SlotsInAPeriod ==
    ASSUME NEW late \in Nat
    PROVE  /\ CeilDiv(late, Interval) \in Nat
           /\ ((Period - 1) + late) \div Interval + 1 = Calls + CeilDiv(late, Interval)
           /\ ((Period - 1) + late) \div Interval \in Nat
<1>1. Period = Calls * Interval /\ Period \in Nat \ {0}
  BY PeriodType DEF Period
<1> DEFINE q == (late + Interval - 1) \div Interval
<1>2. q \in Nat /\ q * Interval <= late + Interval - 1 /\ late + Interval - 1 - q * Interval < Interval
  <2>1. late + Interval - 1 \in Nat
    OBVIOUS
  <2> QED
    BY <2>1, WholePeriods
<1> HIDE DEF q
<1> DEFINE m == (Period - 1) + late
           r == m \div Interval
<1>m. m \in Nat /\ m = Period - 1 + late
  BY <1>1
<1> HIDE DEF m
<1>3. r \in Nat /\ r * Interval <= m /\ m - r * Interval < Interval
  BY <1>m, WholePeriods
<1> HIDE DEF r
<1>4. r + 1 = Calls + q
  <2>1. (r + 1) * Interval = r * Interval + Interval
    BY <1>3, SMT
  <2>2. (Calls + q) * Interval = Calls * Interval + q * Interval
    BY <1>2, SMT
  <2> DEFINE d == (r + 1) - (Calls + q)
  <2>3. d * Interval = (r + 1) * Interval - (Calls + q) * Interval /\ d \in Int
    BY <1>2, <1>3, SMT
  <2>4. d * Interval < Interval /\ - Interval < d * Interval
    BY <1>1, <1>m, <1>2, <1>3, <2>1, <2>2, <2>3
  <2> HIDE DEF d
  <2>5. d = 0
    BY <2>3, <2>4, SMT
  <2> QED
    BY <1>2, <1>3, <2>5 DEF d
<1> QED
  BY <1>2, <1>3, <1>4 DEF CeilDiv, q, r, m

\* Two slots that are an interval apart fall into different intervals of a period.
LEMMA DifferentIntervals ==
    ASSUME NEW x \in Nat, NEW y \in Nat, x + Interval <= y
    PROVE  x \div Interval # y \div Interval
<1>1. x \div Interval \in Nat /\ x - (x \div Interval) * Interval < Interval
      /\ (x \div Interval) * Interval \in Nat
      /\ (x \div Interval) * Interval <= x
  BY WholePeriods
<1>2. y \div Interval \in Nat /\ y - (y \div Interval) * Interval < Interval
      /\ (y \div Interval) * Interval \in Nat
  BY WholePeriods
<1> QED
  BY <1>1, <1>2

\* Permits that lie within a span of time: no more than the slots that fit in it, and
\* into what a stall has held back.
LEMMA FewInASpan ==
    ASSUME TypeInv, SpacingInv, OwnSlotInv, NEW In \in SUBSET granted,
           NEW from \in Nat, NEW span \in Nat,
           \A b \in In : from <= b.at /\ b.at <= from + span
    PROVE  /\ (span + stalled) \div Interval \in Nat
           /\ Cardinality(In) \in Nat
           /\ Cardinality(In) <= (span + stalled) \div Interval + 1
<1>1. stalled \in Nat
  BY DEF TypeInv, TypeOK
<1> DEFINE Last == (span + stalled) \div Interval
           Offset(b) == slots[b.n] + stalled - from
           Which == [b \in In |-> Offset(b) \div Interval]
<1>2. Last \in Nat /\ (span + stalled) - Last * Interval < Interval /\ span + stalled \in Nat
  <2> DEFINE all == span + stalled
  <2>1. all \in Nat
    BY <1>1
  <2> HIDE DEF all
  <2>2. /\ all \div Interval \in Nat
        /\ all - (all \div Interval) * Interval < Interval
    BY <2>1, WholePeriods
  <2> QED
    BY <2>1, <2>2 DEF all
<1>3. ASSUME NEW b \in In
      PROVE  /\ Offset(b) \in 0 .. span + stalled
             /\ b.n \in 1 .. Len(slots) /\ b.n \in Int /\ slots[b.n] \in Nat
             /\ b \in granted
  <2>1. b \in granted /\ from <= b.at /\ b.at <= from + span
    OBVIOUS
  <2>2. slots[b.n] <= b.at /\ b.at <= slots[b.n] + stalled
    BY <2>1 DEF OwnSlotInv, OwnSlot
  <2>3. b.at \in Nat /\ b.n \in 1 .. Len(slots) /\ slots[b.n] \in Nat
    BY <2>1 DEF TypeInv, TypeOK
  <2> DEFINE slot == slots[b.n]
  <2>4. slot \in Nat /\ slot <= b.at /\ b.at <= slot + stalled
    BY <2>2, <2>3
  <2> HIDE DEF slot
  <2>5. slot + stalled - from \in 0 .. span + stalled
    BY <1>1, <2>1, <2>3, <2>4
  <2> QED
    BY <2>1, <2>3, <2>5 DEF slot
<1>4. ASSUME NEW b \in In PROVE Which[b] \in 0 .. Last
  <2>1. Offset(b) \in Nat /\ Offset(b) <= span + stalled
    BY <1>1, <1>3
  <2> HIDE DEF Offset
  <2>2. Offset(b) \div Interval \in Nat /\ (Offset(b) \div Interval) * Interval <= Offset(b)
    BY <2>1, WholePeriods
  <2> HIDE DEF Last
  <2> DEFINE k == Offset(b) \div Interval
  <2>4. k \in Nat /\ k * Interval < Last * Interval + Interval
    BY <1>1, <1>2, <2>1, <2>2
  <2> HIDE DEF k
  <2>5. k <= Last
    BY <1>2, <2>4, SMT
  <2> QED
    BY <1>2, <2>4, <2>5 DEF k
<1>5. ASSUME NEW b \in In, NEW c \in In, b # c PROVE Which[b] # Which[c]
  <2>0. b \in granted /\ c \in granted /\ b.n # c.n
    BY <1>3, <1>5 DEF OwnSlotInv, OwnSlot
  <2>1. ASSUME NEW x \in In, NEW y \in In, x.n < y.n PROVE Which[x] # Which[y]
    <3>1. slots[y.n] >= slots[x.n] + Interval * (y.n - x.n)
      BY <1>3, <2>1 DEF SpacingInv, SlotsApart
    <3>2. Interval * (y.n - x.n) >= Interval /\ Interval * (y.n - x.n) \in Int
      <4>1. y.n - x.n \in Nat \ {0}
        BY <1>3, <2>1
      <4> QED
        BY <4>1, SMT
    <3>3. Offset(x) \in Nat /\ Offset(y) \in Nat
      BY <1>1, <1>3
    <3>4. Offset(x) + Interval <= Offset(y)
      <4> DEFINE gap == Interval * (y.n - x.n)
      <4>1. gap \in Int /\ gap >= Interval /\ slots[y.n] >= slots[x.n] + gap
        BY <3>1, <3>2
      <4>2. slots[x.n] \in Nat /\ slots[y.n] \in Nat
        BY <1>3
      <4> HIDE DEF gap
      <4> QED
        BY <1>1, <4>1, <4>2
    <3> HIDE DEF Offset
    <3> QED
      BY <3>3, <3>4, DifferentIntervals
  <2> QED
    BY <1>3, <2>0, <2>1
<1> HIDE DEF Last, Offset
<1>6. Which \in Injection(In, 0 .. Last)
  BY <1>4, <1>5 DEF Injection, IsInjective
<1>7. IsFiniteSet(0 .. Last) /\ Cardinality(0 .. Last) = Last + 1
  <2>1. Last \in Nat /\ 0 <= Last /\ Last - 0 + 1 = Last + 1
    BY <1>2
  <2> QED
    BY <2>1, FS_Interval
<1>8. IsFiniteSet(In) /\ Cardinality(In) <= Last + 1
  BY <1>6, <1>7, FS_Injection
<1>9. Cardinality(In) \in Nat
  BY <1>8, FS_CardinalityType
<1> QED
  BY <1>2, <1>8, <1>9 DEF Last

LEMMA BudgetHolds ==
    ASSUME TypeInv, SpacingInv, OwnSlotInv
    PROVE  WithinBudget
<1> SUFFICES ASSUME NEW a \in granted
             PROVE  Cardinality(InPeriodOf(a)) <= Calls + CeilDiv(stalled, Interval)
  BY DEF WithinBudget
<1>1. Period \in Nat \ {0} /\ stalled \in Nat /\ a.at \in Nat
      /\ \A b \in granted : b.at \in Nat
  BY PeriodType DEF TypeInv, TypeOK
<1>2. Period - 1 \in Nat /\ InPeriodOf(a) \in SUBSET granted
      /\ \A b \in InPeriodOf(a) : a.at <= b.at /\ b.at <= a.at + (Period - 1)
  BY <1>1 DEF InPeriodOf
<1>3. Cardinality(InPeriodOf(a)) <= ((Period - 1) + stalled) \div Interval + 1
  BY <1>1, <1>2, FewInASpan
<1> QED
  BY <1>1, <1>3, SlotsInAPeriod

\* Between two permits there is room for those in between, up to what a stall has
\* held back.
Between(q, p) == {r \in granted : q.at <= r.at /\ r.at <= p.at}
PermitsPaced ==
    \A q, p \in granted : q.at <= p.at =>
        Interval * (Cardinality(Between(q, p)) - 1) <= p.at - q.at + stalled

LEMMA PaceHolds ==
    ASSUME TypeInv, SpacingInv, OwnSlotInv
    PROVE  PermitsPaced
<1> SUFFICES ASSUME NEW q \in granted, NEW p \in granted, q.at <= p.at
             PROVE  Interval * (Cardinality(Between(q, p)) - 1) <= p.at - q.at + stalled
  BY DEF PermitsPaced
<1>1. stalled \in Nat /\ q.at \in Nat /\ p.at \in Nat /\ \A b \in granted : b.at \in Nat
  BY DEF TypeInv, TypeOK
<1> DEFINE span == p.at - q.at
           n == Cardinality(Between(q, p))
           k == (span + stalled) \div Interval
<1>2. span \in Nat /\ p.at = q.at + span
  BY <1>1
<1>3. k \in Nat /\ n \in Nat /\ n <= k + 1
  <2>1. Between(q, p) \in SUBSET granted
        /\ \A b \in Between(q, p) : q.at <= b.at /\ b.at <= q.at + span
    BY <1>2 DEF Between
  <2> HIDE DEF span
  <2> QED
    BY <1>1, <1>2, <2>1, FewInASpan
<1>4. k * Interval <= span + stalled /\ span + stalled \in Nat
  <2> HIDE DEF span
  <2> QED
    BY <1>1, <1>2, WholePeriods
<1> HIDE DEF span, n, k
<1>5. Interval * (n - 1) <= k * Interval
  BY <1>3, SMT
<1>6. Interval * (n - 1) \in Int /\ k * Interval \in Nat
  BY <1>3, SMT
<1>7. Interval * (n - 1) <= span + stalled
  BY <1>4, <1>5, <1>6
<1> QED
  BY <1>7 DEF span, n

-----------------------------------------------------------------------------
(* How long a fetch backs off before it is given up *)

\* The sum of the back-offs is what its recursive definition says.
LEMMA TotalBackoffIs ==
    /\ TotalBackoff \in [Nat -> Nat] /\ TotalBackoff[0] = 0
    /\ \A n \in Nat \ {0} : TotalBackoff[n] = TotalBackoff[n - 1] + Backoff(n)
<1> DEFINE step == [p \in Nat \X Nat |-> IF p[2] = 0 THEN 0 ELSE p[1] + Backoff(p[2])]
           Sum(f) == f = [n \in Nat |-> IF n = 0 THEN 0 ELSE f[n - 1] + Backoff(n)]
<1>1. ASSUME NEW n \in Nat \ {0} PROVE Backoff(n) \in Nat
  BY BackoffType
<1>2. ASSUME NEW p \in Nat \X Nat
      PROVE  (IF p[2] = 0 THEN 0 ELSE p[1] + Backoff(p[2])) \in Nat
  BY <1>1
<1>3. step \in [Nat \X Nat -> Nat]
  BY <1>2
<1>4. \A m, n \in Nat : n # 0 => step[<<m, n>>] = m + Backoff(n)
  OBVIOUS
<1> HIDE DEF step
<1>5. PICK f : DefinedBy(f, Nat, 0, step)
  <2>1. 0 \in Nat
    OBVIOUS
  <2> QED
    BY <1>3, <2>1, Recursion
<1>6. ASSUME NEW n \in Nat \ {0} PROVE f[n] = f[n - 1] + Backoff(n)
  <2>1. n \in Nat /\ n # 0 /\ n - 1 \in Nat /\ f[n - 1] \in Nat
    BY <1>5 DEF DefinedBy
  <2> QED
    BY <1>4, <1>5, <2>1 DEF DefinedBy
<1>7. Sum(f)
  BY <1>5, <1>6 DEF DefinedBy
<1>8. TotalBackoff = CHOOSE g : Sum(g)
  BY DEF TotalBackoff
<1> HIDE DEF Sum
<1>9. Sum(TotalBackoff)
  BY <1>7, <1>8
<1> USE DEF Sum
<1>10. TotalBackoff = [n \in Nat |-> IF n = 0 THEN 0 ELSE TotalBackoff[n - 1] + Backoff(n)]
  BY <1>9, Zenon
<1> HIDE DEF TotalBackoff, Sum
<1>11. /\ TotalBackoff[0] = 0
       /\ \A n \in Nat \ {0} : TotalBackoff[n] = TotalBackoff[n - 1] + Backoff(n)
  BY <1>10
<1> DEFINE Natural == {n \in Nat : TotalBackoff[n] \in Nat}
<1>12. 0 \in Natural
  BY <1>11
<1>13. ASSUME NEW n \in Nat, n \in Natural PROVE n + 1 \in Natural
  <2>1. n + 1 \in Nat \ {0} /\ (n + 1) - 1 = n /\ TotalBackoff[n] \in Nat
    BY <1>13
  <2>2. TotalBackoff[n + 1] = TotalBackoff[n] + Backoff(n + 1)
    BY <1>11, <2>1
  <2> QED
    BY <1>1, <2>1, <2>2
<1> HIDE DEF Natural
<1>14. \A n \in Nat : n \in Natural
  BY <1>12, <1>13, AllOfThem
<1>15. \A n \in Nat : TotalBackoff[n] \in Nat
  BY <1>14 DEF Natural
<1>16. TotalBackoff \in [Nat -> Nat]
  BY <1>10, <1>15
<1> QED
  BY <1>11, <1>16

\* A task has backed off, since its first permit, as long as its attempts ask for:
\* when its request is out, when its next slot or the end of its back-off comes,
\* and when it was given up.
BackedOff(t) ==
    /\ phase[t] = "request" => now >= began[t] + TotalBackoff[tries[t] - 1]
    /\ phase[t] = "backoff" => tries[t] # 0
    /\ phase[t] \in {"slot", "backoff"} /\ tries[t] # 0 =>
           wake[t] >= began[t] + TotalBackoff[tries[t]]
    /\ phase[t] = "retry_exhausted" => wake[t] >= began[t] + TotalBackoff[Attempts - 1]
BackoffInv == \A t \in Task : BackedOff(t)

\* A task that a step leaves alone goes on waiting; time does not go back.
LEMMA LeftAlone ==
    ASSUME TypeInv, NEW t \in Task, BackedOff(t), now' \in Nat, now' >= now,
           phase'[t] = phase[t], wake'[t] = wake[t], tries'[t] = tries[t], began'[t] = began[t]
    PROVE  BackedOff(t)'
<1>1. /\ now \in Nat /\ began[t] \in Nat /\ tries[t] \in Nat
      /\ phase[t] = "request" => tries[t] - 1 \in Nat
  BY DEF TypeInv, TypeOK, AttemptsLeft
<1>2. phase[t] = "request" => TotalBackoff[tries[t] - 1] \in Nat
  BY <1>1, TotalBackoffIs
<1> QED
  BY <1>1, <1>2 DEF BackedOff

LEMMA BackoffInductive ==
    ASSUME TypeInv, BackoffInv, [Next]_vars
    PROVE  BackoffInv'
<1> USE DEF clock, metrics
<1>0. /\ now \in Nat /\ nextAt \in Nat
      /\ \A t \in Task :
             /\ wake[t] \in Nat /\ began[t] \in Nat /\ tries[t] \in 0 .. Attempts
             /\ phase[t] = "idle" => tries[t] = 0
             /\ phase[t] = "request" => tries[t] # 0
  BY DEF TypeInv, TypeOK, AttemptsLeft
<1>a. ASSUME NEW t \in Task, BackedOff(t)', now' \in Nat, now' >= now,
             \A u \in Task \ {t} : /\ phase'[u] = phase[u] /\ wake'[u] = wake[u]
                                   /\ tries'[u] = tries[u] /\ began'[u] = began[u]
      PROVE  BackoffInv'
  BY <1>a, LeftAlone DEF BackoffInv
<1>b. ASSUME NEW t \in Task, NEW to, NEW at, Move(t, to, at),
             UNCHANGED <<tries, began, now>>
      PROVE  /\ phase'[t] = to /\ wake'[t] = at /\ now' \in Nat /\ now' >= now
             /\ \A u \in Task \ {t} : /\ phase'[u] = phase[u] /\ wake'[u] = wake[u]
                                      /\ tries'[u] = tries[u] /\ began'[u] = began[u]
  BY <1>0, <1>b DEF Move, TypeInv, TypeOK
<1>1. ASSUME NEW t \in Task, phase[t] \in {"idle", "backoff"},
             phase[t] = "backoff" => wake[t] <= now, Attempt(t)
      PROVE  BackoffInv'
  <2>1. CASE open
    <3>1. Move(t, "slot", Slot) /\ UNCHANGED <<tries, began, now>>
      BY <1>1, <2>1 DEF Attempt, Reserve
    <3>2. Slot \in Nat /\ Slot >= now
      BY <1>0, SlotType
    <3>3. tries[t] # 0 => Slot >= began[t] + TotalBackoff[tries[t]]
      <4>1. tries[t] # 0 => TotalBackoff[tries[t]] \in Nat
        BY <1>0, TotalBackoffIs
      <4>2. tries[t] # 0 => wake[t] <= now /\ wake[t] >= began[t] + TotalBackoff[tries[t]]
        BY <1>0, <1>1 DEF BackoffInv, BackedOff
      <4> QED
        BY <1>0, <3>2, <4>1, <4>2
    <3>4. BackedOff(t)'
      BY <1>b, <3>1, <3>3 DEF BackedOff
    <3> QED
      BY <1>a, <1>b, <3>1, <3>4
  <2>2. CASE ~ open
    <3>1. Move(t, "runtime_error", 0) /\ UNCHANGED <<tries, began, now>>
      BY <1>1, <2>2 DEF Attempt, Refuse, End
    <3>2. BackedOff(t)'
      BY <1>b, <3>1 DEF BackedOff
    <3> QED
      BY <1>a, <1>b, <3>1, <3>2
  <2> QED
    BY <2>1, <2>2
<1>2. ASSUME NEW t \in Task, Permit(t) PROVE BackoffInv'
  <2>1. /\ phase[t] = "slot" /\ wake[t] <= now /\ now' = now
        /\ tries' = [tries EXCEPT ![t] = @ + 1]
        /\ began' = IF tries[t] = 0 THEN [began EXCEPT ![t] = now] ELSE began
        /\ \E to \in {"request", "runtime_error"}, at \in Int : Move(t, to, at)
    BY <1>0, <1>2 DEF Permit, End
  <2>2. /\ tries'[t] = tries[t] + 1 /\ phase'[t] \in {"request", "runtime_error"}
        /\ began'[t] = IF tries[t] = 0 THEN now ELSE began[t]
        /\ \A u \in Task \ {t} : /\ phase'[u] = phase[u] /\ wake'[u] = wake[u]
                                 /\ tries'[u] = tries[u] /\ began'[u] = began[u]
    BY <2>1 DEF Move, TypeInv, TypeOK
  <2>3. now >= began'[t] + TotalBackoff[tries[t]]
    <3>1. CASE tries[t] = 0
      BY <1>0, <2>2, <3>1, TotalBackoffIs
    <3>2. CASE tries[t] # 0
      <4>1. wake[t] >= began[t] + TotalBackoff[tries[t]]
        BY <2>1, <3>2 DEF BackoffInv, BackedOff
      <4>2. TotalBackoff[tries[t]] \in Nat
        BY <1>0, TotalBackoffIs
      <4> QED
        BY <1>0, <2>1, <2>2, <3>2, <4>1, <4>2
    <3> QED
      BY <3>1, <3>2
  <2>4. BackedOff(t)'
    <3>1. tries'[t] - 1 = tries[t]
      BY <1>0, <2>2
    <3> QED
      BY <2>1, <2>2, <2>3, <3>1 DEF BackedOff
  <2> QED
    BY <1>0, <1>a, <2>1, <2>2, <2>4
<1>3. ASSUME NEW t \in Task, Answer(t) \/ Cancel(t) PROVE BackoffInv'
  <2>1. \E to \in {"answered", "cancelled"} : Move(t, to, 0)
    BY <1>3 DEF Answer, Cancel, End
  <2>2. UNCHANGED <<tries, began, now>>
    BY <1>3 DEF Answer, Cancel
  <2>3. BackedOff(t)'
    BY <1>b, <2>1, <2>2 DEF BackedOff
  <2> QED
    BY <1>a, <1>b, <2>1, <2>2, <2>3
<1>4. ASSUME NEW t \in Task, Transient(t) PROVE BackoffInv'
  <2> DEFINE n == tries[t]
  <2>1. phase[t] = "request" /\ UNCHANGED <<tries, began, now>>
    BY <1>4 DEF Transient
  <2>2. n \in Nat \ {0} /\ n - 1 \in Nat /\ began[t] \in Nat
    BY <1>0, <2>1
  <2>3. now >= began[t] + TotalBackoff[n - 1] /\ TotalBackoff[n - 1] \in Nat
    BY <2>1, <2>2, TotalBackoffIs DEF BackoffInv, BackedOff
  <2>4. CASE GivesUp(t)
    <3>1. Move(t, "retry_exhausted", now) /\ n = Attempts
      BY <1>4, <2>4 DEF Transient, GivesUp
    <3>2. BackedOff(t)'
      BY <1>b, <2>1, <2>3, <3>1 DEF BackedOff
    <3> QED
      BY <1>a, <1>b, <2>1, <3>1, <3>2
  <2>5. CASE ~ GivesUp(t)
    <3>1. Move(t, "backoff", now + Backoff(n))
      BY <1>4, <2>5 DEF Transient
    <3>2. TotalBackoff[n] = TotalBackoff[n - 1] + Backoff(n) /\ Backoff(n) \in Nat
      BY <2>2, TotalBackoffIs, BackoffType
    <3>3. now + Backoff(n) >= began[t] + TotalBackoff[n]
      BY <1>0, <2>2, <2>3, <3>2
    <3>4. phase'[t] = "backoff" /\ wake'[t] = now + Backoff(n)
      BY <1>b, <2>1, <3>1
    <3>5. BackedOff(t)'
      BY <2>1, <2>2, <3>3, <3>4 DEF BackedOff
    <3> QED
      BY <1>a, <1>b, <2>1, <3>1, <3>5
  <2> QED
    BY <2>4, <2>5
<1>5. CASE Tick
  <2>1. UNCHANGED <<phase, wake, tries, began>> /\ now' = now + 1
    BY <1>5 DEF Tick
  <2> QED
    BY <1>0, <2>1, LeftAlone DEF BackoffInv
<1>6. CASE Close \/ UNCHANGED vars
  <2>1. UNCHANGED <<phase, wake, tries, began, now>>
    BY <1>6 DEF Close, vars
  <2> QED
    BY <1>0, <2>1, LeftAlone DEF BackoffInv
<1>7. ASSUME NEW t \in Task, Begin(t) \/ Retry(t) PROVE BackoffInv'
  BY <1>1, <1>7 DEF Begin, Retry
<1> QED
  BY <1>2, <1>3, <1>4, <1>5, <1>6, <1>7 DEF Next, Step, Idle

-----------------------------------------------------------------------------
(* What the rate counts *)

\* A set of positions that has, with each, those before it, is as many first ones.
LEMMA FirstOnes ==
    ASSUME NEW n \in Nat, NEW I, I \subseteq 1 .. n,
           \A i \in I : \A j \in 1 .. n : j <= i => j \in I
    PROVE  Cardinality(I) \in 0 .. n /\ I = 1 .. Cardinality(I)
<1> DEFINE Out == {i \in 1 .. n + 1 : i \notin I}
<1>1. Out \subseteq Nat /\ n + 1 \in Out
  OBVIOUS
<1>2. PICK x \in Out : \A y \in Out : x <= y
  <2> HIDE DEF Out
  <2> QED
    BY <1>1, LeastOne
<1>3. x \in 1 .. n + 1 /\ x \notin I
  OBVIOUS
<1>4. ASSUME NEW i \in 1 .. x - 1 PROVE i \in I
  BY <1>2, <1>3
<1>5. ASSUME NEW i \in I PROVE i \in 1 .. x - 1
  <2>1. i \in 1 .. n /\ (x \in 1 .. n /\ x <= i => x \in I)
    OBVIOUS
  <2> QED
    BY <1>3, <2>1
<1>6. I = 1 .. x - 1
  BY <1>4, <1>5
<1>7. Cardinality(1 .. x - 1) = x - 1
  <2>1. 1 \in Int /\ x - 1 \in Int
    BY <1>3
  <2>2. Cardinality(1 .. x - 1) = IF 1 > x - 1 THEN 0 ELSE (x - 1) - 1 + 1
    BY <2>1, FS_Interval, Zenon
  <2> QED
    BY <1>3, <2>2
<1> QED
  BY <1>3, <1>6, <1>7

Sorted(times) == \A i, j \in 1 .. Len(times) : i <= j => times[i] <= times[j]

\* The positions of the times after one.
After(times, time) == {i \in 1 .. Len(times) : times[i] > time}

LEMMA AfterIsFinite ==
    ASSUME NEW times \in Seq(Nat), NEW time
    PROVE  IsFiniteSet(After(times, time)) /\ Cardinality(After(times, time)) \in Nat
<1>1. IsFiniteSet(1 .. Len(times))
  <2>1. 1 \in Int /\ Len(times) \in Int
    OBVIOUS
  <2> QED
    BY <2>1, FS_Interval, Zenon
<1>2. After(times, time) \in SUBSET (1 .. Len(times))
  BY DEF After
<1> QED
  BY <1>1, <1>2, FS_Subset, FS_CardinalityType

\* Of times in their order, popleft drops the first ones and leaves those after
\* the cutoff.
LEMMA SinceIs ==
    ASSUME NEW times \in Seq(Nat), NEW cutoff \in Int, Sorted(times)
    PROVE  \E k \in 0 .. Len(times) :
               /\ Since(times, cutoff) \in Seq(Nat)
               /\ Len(Since(times, cutoff)) = Len(times) - k
               /\ \A j \in 1 .. Len(times) - k : Since(times, cutoff)[j] = times[j + k]
               /\ \A i \in 1 .. Len(times) : times[i] <= cutoff <=> i <= k
<1> DEFINE old == {i \in DOMAIN times : times[i] <= cutoff}
           k == Cardinality(old)
           n == Len(times)
<1>1. DOMAIN times = 1 .. n /\ n \in Nat /\ \A i \in 1 .. n : times[i] \in Nat
  OBVIOUS
<1>2. old \subseteq 1 .. n /\ \A i \in old : \A j \in 1 .. n : j <= i => j \in old
  BY <1>1 DEF Sorted
<1> HIDE DEF n
<1>3. k \in 0 .. n /\ old = 1 .. k
  <2> HIDE DEF old
  <2> QED
    BY <1>1, <1>2, FirstOnes
<1>4. \A i \in 1 .. n : times[i] <= cutoff <=> i <= k
  <2>1. \A i \in 1 .. n : times[i] <= cutoff <=> i \in old
    BY <1>1
  <2> HIDE DEF old, k
  <2> QED
    BY <1>3, <2>1
<1> HIDE DEF old, k
<1>5. Since(times, cutoff) = SubSeq(times, k + 1, n)
  BY DEF Since, k, old, n
<1>6. /\ SubSeq(times, k + 1, n) \in Seq(Nat) /\ Len(SubSeq(times, k + 1, n)) = n - k
      /\ \A j \in 1 .. n - k : SubSeq(times, k + 1, n)[j] = times[j + k]
  <2>1. times \in Seq(Nat) /\ Len(times) = n /\ k \in Nat /\ k <= n
    BY <1>1, <1>3 DEF n
  <2>2. SubSeq(times, k + 1, n) \in Seq(Nat)
    BY <1>1, <2>1
  <2>3. Len(SubSeq(times, k + 1, n)) = n - k
    BY <1>1, <2>1
  <2>4. ASSUME NEW j \in 1 .. n - k PROVE SubSeq(times, k + 1, n)[j] = times[j + k]
    BY <1>1, <2>1
  <2> QED
    BY <2>2, <2>3, <2>4
<1> QED
  BY <1>3, <1>4, <1>5, <1>6 DEF n

\* So it leaves as many times after the cutoff, or a later one, as there were.
LEMMA SinceKeeps ==
    ASSUME NEW times \in Seq(Nat), NEW cutoff \in Int, Sorted(times),
           NEW time \in Int, cutoff <= time
    PROVE  Cardinality(After(Since(times, cutoff), time)) = Cardinality(After(times, time))
<1> DEFINE left == Since(times, cutoff)
           n == Len(times)
<1>1. PICK k \in 0 .. n :
          /\ left \in Seq(Nat) /\ Len(left) = n - k
          /\ \A j \in 1 .. n - k : left[j] = times[j + k]
          /\ \A i \in 1 .. n : times[i] <= cutoff <=> i <= k
  BY SinceIs
<1>2. n \in Nat /\ \A i \in 1 .. n : times[i] \in Nat
  OBVIOUS
<1> DEFINE f == [j \in After(left, time) |-> j + k]
<1> HIDE DEF left, n
<1>3. ASSUME NEW j \in After(left, time) PROVE j \in 1 .. n - k /\ j + k \in After(times, time)
  <2>1. j \in 1 .. n - k /\ left[j] > time /\ j + k \in 1 .. n
    BY <1>1, <1>2 DEF After
  <2> QED
    BY <1>1, <2>1 DEF After, n
<1>4. ASSUME NEW i \in After(times, time) PROVE \E j \in After(left, time) : i = j + k
  <2>1. i \in 1 .. n /\ times[i] > time /\ times[i] \in Nat
    BY <1>2 DEF After, n
  <2>2. ~ (i <= k)
    BY <1>1, <2>1
  <2>3. i - k \in 1 .. n - k /\ (i - k) + k = i
    BY <1>1, <1>2, <2>1, <2>2
  <2>4. i - k \in After(left, time)
    BY <1>1, <2>1, <2>3 DEF After
  <2> QED
    BY <2>3, <2>4
<1>5. f \in [After(left, time) -> After(times, time)]
  BY <1>3
<1>6. ASSUME NEW a \in After(left, time), NEW b \in After(left, time), f[a] = f[b] PROVE a = b
  <2>1. a \in Int /\ b \in Int /\ k \in Int /\ a + k = b + k
    BY <1>3, <1>6
  <2> QED
    BY <2>1
<1>7. f \in Bijection(After(left, time), After(times, time))
  BY <1>4, <1>5, <1>6 DEF Bijection, Injection, Surjection, IsInjective
<1>8. IsFiniteSet(After(left, time))
  BY <1>1, AfterIsFinite
<1>9. Cardinality(After(times, time)) = Cardinality(After(left, time))
  BY <1>7, <1>8, FS_Bijection DEF ExistsBijection
<1> QED
  BY <1>9 DEF left

\* A time that is recorded counts once.
LEMMA AppendCounts ==
    ASSUME NEW times \in Seq(Nat), NEW last \in Nat, NEW time \in Int
    PROVE  Cardinality(After(Append(times, last), time)) =
               IF last > time THEN Cardinality(After(times, time)) + 1
                              ELSE Cardinality(After(times, time))
<1> DEFINE n == Len(times)
           more == Append(times, last)
<1>1. /\ n \in Nat /\ Len(more) = n + 1 /\ more[n + 1] = last
      /\ \A i \in 1 .. n : more[i] = times[i]
  OBVIOUS
<1> HIDE DEF more
<1>2. CASE last > time
  <2>1. After(more, time) = After(times, time) \cup {n + 1}
    BY <1>1, <1>2 DEF After
  <2>2. n + 1 \notin After(times, time)
    BY <1>1 DEF After
  <2>3. Cardinality(After(times, time) \cup {n + 1}) = Cardinality(After(times, time)) + 1
    BY <2>2, AfterIsFinite, FS_AddElement
  <2> QED
    BY <1>2, <2>1, <2>3 DEF more
<1>3. CASE ~ (last > time)
  <2>1. After(more, time) = After(times, time)
    BY <1>1, <1>3 DEF After
  <2> QED
    BY <1>3, <2>1 DEF more
<1> QED
  BY <1>2, <1>3

\* The permits after a time, in a set of permits.
Later(permits, time) == {p \in permits : p.at > time}

\* The window holds, in their order, the times of the last period before the last
\* permit, each as often as it was given out.
WindowIs(times, permits, last) ==
    /\ Sorted(times)
    /\ \A i \in 1 .. Len(times) : last - Period < times[i] /\ times[i] <= last
    /\ \A time \in Int : time >= last - Period =>
           Cardinality(After(times, time)) = Cardinality(Later(permits, time))

\* The debug record counts the permits of its period, which has not ended.
DebugIs(record, permits, last) ==
    /\ record.start <= last /\ last - record.start < Period
    /\ record.permits = Cardinality({p \in permits : p.at >= record.start})

IsLast(permits, last) ==
    (\E p \in permits : p.at = last) /\ \A p \in permits : p.at <= last

MetricsInv ==
    /\ IsFiniteSet(granted)
    /\ granted = {} => window = <<>> /\ debug.permits = 0
    /\ granted # {} =>
           \E last \in Nat : /\ last <= now
                             /\ IsLast(granted, last)
                             /\ WindowIs(window, granted, last)
                             /\ DebugIs(debug, granted, last)

\* Recording a permit at a time that is not before the last one's.
LEMMA WindowRecords ==
    ASSUME NEW times \in Seq(Nat), NEW permits, NEW p, NEW before \in Nat,
           IsFiniteSet(permits), \A q \in permits : q.at \in Nat,
           p \notin permits, p.at \in Nat, before <= p.at,
           WindowIs(times, permits, before)
    PROVE  WindowIs(Since(Append(times, p.at), p.at - Period), permits \cup {p}, p.at)
<1> DEFINE at == p.at
           more == Append(times, at)
           cutoff == at - Period
           left == Since(more, cutoff)
           n == Len(times)
<1>0. at \in Nat /\ cutoff \in Int /\ cutoff < at /\ cutoff >= before - Period /\ before <= at
      /\ cutoff = at - Period
  BY PeriodType
<1>1. /\ n \in Nat /\ more \in Seq(Nat) /\ Len(more) = n + 1 /\ more[n + 1] = at
      /\ \A i \in 1 .. n : more[i] = times[i] /\ times[i] \in Nat
  OBVIOUS
<1>2. \A i \in 1 .. n : times[i] <= at
  <2>1. \A i \in 1 .. n : times[i] <= before
    BY DEF WindowIs
  <2> HIDE DEF at, n
  <2> QED
    BY <1>0, <1>1, <2>1
<1>a. ASSUME NEW i \in 1 .. n + 1 PROVE more[i] \in Nat /\ more[i] <= at
  <2> HIDE DEF at, n, more
  <2>1. CASE i = n + 1
    BY <1>0, <1>1, <2>1
  <2>2. CASE i # n + 1
    <3>1. i \in 1 .. n
      BY <1>1, <2>2
    <3> QED
      BY <1>1, <1>2, <3>1
  <2> QED
    BY <2>1, <2>2
<1>3. Sorted(more)
  <2>1. \A i, j \in 1 .. n : i <= j => times[i] <= times[j]
    BY DEF WindowIs, Sorted
  <2> HIDE DEF at, n, more
  <2> SUFFICES ASSUME NEW i \in 1 .. n + 1, NEW j \in 1 .. n + 1, i <= j
               PROVE  more[i] <= more[j]
    BY <1>1 DEF Sorted
  <2>2. CASE j = n + 1
    <3>1. CASE i = n + 1
      BY <1>0, <1>1, <2>2, <3>1
    <3>2. CASE i # n + 1
      <4>1. i \in 1 .. n
        BY <1>1, <3>2
      <4> QED
        BY <1>1, <1>2, <2>2, <4>1
    <3> QED
      BY <3>1, <3>2
  <2>3. CASE j # n + 1
    <3>1. i \in 1 .. n /\ j \in 1 .. n
      BY <1>1, <2>3
    <3> QED
      BY <1>1, <2>1, <3>1
  <2> QED
    BY <2>2, <2>3
<1>4. PICK k \in 0 .. n + 1 :
          /\ left \in Seq(Nat) /\ Len(left) = n + 1 - k
          /\ \A j \in 1 .. n + 1 - k : left[j] = more[j + k]
          /\ \A i \in 1 .. n + 1 : more[i] <= cutoff <=> i <= k
  <2> HIDE DEF at, n, more, cutoff
  <2>1. \E k \in 0 .. Len(more) :
            /\ Since(more, cutoff) \in Seq(Nat)
            /\ Len(Since(more, cutoff)) = Len(more) - k
            /\ \A j \in 1 .. Len(more) - k : Since(more, cutoff)[j] = more[j + k]
            /\ \A i \in 1 .. Len(more) : more[i] <= cutoff <=> i <= k
    BY <1>0, <1>1, <1>3, SinceIs
  <2> QED
    BY <1>1, <2>1
<1>5. ASSUME NEW j \in 1 .. Len(left)
      PROVE  /\ j + k \in 1 .. n + 1 /\ left[j] = more[j + k]
             /\ at - Period < left[j] /\ left[j] <= at
  <2> HIDE DEF at, n, more, cutoff, left
  <2>1. j \in 1 .. n + 1 - k /\ j + k \in 1 .. n + 1 /\ ~ (j + k <= k)
    BY <1>1, <1>4
  <2>2. left[j] = more[j + k] /\ ~ (more[j + k] <= cutoff)
    BY <1>4, <2>1
  <2>3. more[j + k] \in Nat /\ more[j + k] <= at
    BY <1>a, <2>1
  <2> QED
    BY <1>0, <2>1, <2>2, <2>3
<1>6. Sorted(left)
  <2> HIDE DEF at, n, more, cutoff, left
  <2> SUFFICES ASSUME NEW i \in 1 .. Len(left), NEW j \in 1 .. Len(left), i <= j
               PROVE  left[i] <= left[j]
    BY DEF Sorted
  <2>1. i + k <= j + k
    BY <1>4
  <2> QED
    BY <1>1, <1>3, <1>5, <2>1 DEF Sorted
<1>7. ASSUME NEW time \in Int, time >= at - Period
      PROVE  Cardinality(After(left, time)) = Cardinality(Later(permits \cup {p}, time))
  <2>1. Cardinality(After(left, time)) = Cardinality(After(more, time))
    <3> HIDE DEF at, more, cutoff
    <3>1. cutoff <= time
      BY <1>0, <1>7
    <3> QED
      BY <1>0, <1>1, <1>3, <3>1, SinceKeeps
  <2>2. Cardinality(After(more, time)) =
            IF at > time THEN Cardinality(After(times, time)) + 1
                         ELSE Cardinality(After(times, time))
    BY <1>0, AppendCounts
  <2>3. Cardinality(After(times, time)) = Cardinality(Later(permits, time))
    <3>1. time >= before - Period
      <4> HIDE DEF at
      <4> QED
        BY <1>0, <1>7, PeriodType
    <3> QED
      BY <3>1 DEF WindowIs
  <2>4. Later(permits, time) \in SUBSET permits /\ p \notin Later(permits, time)
    BY DEF Later
  <2>5. IsFiniteSet(Later(permits, time))
    BY <2>4, FS_Subset
  <2>6. CASE at > time
    <3>1. Later(permits \cup {p}, time) = Later(permits, time) \cup {p}
      BY <2>6 DEF Later
    <3>2. Cardinality(Later(permits, time) \cup {p}) = Cardinality(Later(permits, time)) + 1
      BY <2>4, <2>5, FS_AddElement
    <3> QED
      BY <2>1, <2>2, <2>3, <2>6, <3>1, <3>2
  <2>7. CASE ~ (at > time)
    <3>1. Later(permits \cup {p}, time) = Later(permits, time)
      BY <2>7 DEF Later
    <3> QED
      BY <2>1, <2>2, <2>3, <2>7, <3>1
  <2> QED
    BY <2>6, <2>7
<1> HIDE DEF left
<1>8. WindowIs(left, permits \cup {p}, at)
  BY <1>5, <1>6, <1>7 DEF WindowIs
<1> QED
  BY <1>8 DEF left

\* Before the first permit, the window is right for any last permit.
LEMMA WindowBegins ==
    ASSUME NEW last \in Nat
    PROVE  WindowIs(<<>>, {}, last)
<1>1. \A time : After(<<>>, time) = {} /\ Later({}, time) = {}
  BY DEF After, Later
<1> QED
  BY <1>1 DEF WindowIs, Sorted

\* Counting a permit at a time that is not before the last one's: a later period
\* begins with it, and the permits so far are then of earlier ones.
LEMMA DebugCounts ==
    ASSUME NEW permits, NEW p, NEW record \in [start : Nat, permits : Nat], NEW before \in Nat,
           IsFiniteSet(permits), \A q \in permits : q.at \in Nat,
           p \notin permits, p.at \in Nat, before <= p.at,
           \A q \in permits : q.at <= before,
           DebugIs(record, permits, before),
           NEW periods \in Nat, periods * Period \in Nat,
           periods * Period <= p.at - record.start,
           p.at - record.start - periods * Period < Period
    PROVE  DebugIs(IF periods = 0
                   THEN [start |-> record.start, permits |-> record.permits + 1]
                   ELSE [start |-> record.start + periods * Period, permits |-> 1],
                   permits \cup {p}, p.at)
<1> DEFINE at == p.at
           start == record.start
           In(from) == {q \in permits \cup {p} : q.at >= from}
<1>0. /\ at \in Nat /\ start \in Nat /\ Period \in Nat \ {0}
      /\ start <= before /\ before - start < Period /\ before <= at
      /\ periods * Period <= at - start /\ at - start - periods * Period < Period
  BY PeriodType DEF DebugIs
<1> HIDE DEF at, start
<1>1. CASE periods = 0
  <2>1. start <= at /\ at - start < Period
    BY <1>0, <1>1
  <2>2. {q \in permits : q.at >= start} \in SUBSET permits
    OBVIOUS
  <2>3. IsFiniteSet({q \in permits : q.at >= start}) /\ p \notin {q \in permits : q.at >= start}
    BY <2>2, FS_Subset
  <2>4. In(start) = {q \in permits : q.at >= start} \cup {p}
    BY <1>0, <2>1 DEF at
  <2>5. Cardinality(In(start)) = Cardinality({q \in permits : q.at >= start}) + 1
    BY <2>3, <2>4, FS_AddElement
  <2>6. record.permits = Cardinality({q \in permits : q.at >= start})
    BY DEF DebugIs, start
  <2> DEFINE now_ == [start |-> start, permits |-> record.permits + 1]
  <2>7. now_.start = start /\ now_.permits = record.permits + 1
    OBVIOUS
  <2>8. now_.permits = Cardinality(In(start))
    BY <2>5, <2>6, <2>7
  <2> HIDE DEF now_
  <2>9. DebugIs(now_, permits \cup {p}, at)
    BY <2>1, <2>7, <2>8 DEF DebugIs
  <2> QED
    BY <1>1, <2>9 DEF now_, start, at
<1>2. CASE periods # 0
  <2> DEFINE begin == start + periods * Period
  <2>1. periods * Period >= Period
    BY <1>0, <1>2, SMT
  <2>2. begin \in Nat /\ begin <= at /\ at - begin < Period /\ before < begin
    BY <1>0, <2>1
  <2> HIDE DEF begin
  <2>3. In(begin) = {p}
    <3>1. \A q \in permits : ~ (q.at >= begin)
      BY <1>0, <2>2
    <3> QED
      BY <2>2, <3>1 DEF at
  <2>4. Cardinality(In(begin)) = 1
    BY <2>3, FS_Singleton
  <2> DEFINE now_ == [start |-> begin, permits |-> 1]
  <2>5. now_.start = begin /\ now_.permits = Cardinality(In(begin))
    BY <2>4
  <2> HIDE DEF now_
  <2>6. DebugIs(now_, permits \cup {p}, at)
    BY <2>2, <2>5 DEF DebugIs
  <2> QED
    BY <1>2, <2>6 DEF now_, begin, start, at
<1> QED
  BY <1>1, <1>2

\* A permit keeps the metrics right.
LEMMA PermitIsCounted ==
    ASSUME TypeInv, OwnSlotInv, MetricsInv, NEW t \in Task, Permit(t)
    PROVE  MetricsInv'
<1> DEFINE p == [n |-> ticket[t], at |-> now]
<1>1. /\ phase[t] = "slot" /\ granted' = granted \cup {p} /\ now' = now
      /\ window' = Since(Append(window, now), now - Period) /\ debug' = Counted
  BY DEF Permit, Recorded, clock
<1>2. /\ now \in Nat /\ window \in Seq(Nat) /\ debug \in [start : Nat, permits : Nat]
      /\ \A q \in granted : q.at \in Nat
      /\ debug.start <= now
  BY DEF TypeInv, TypeOK, DebugStarted
<1>3. p \notin granted /\ p.at = now
  BY <1>1 DEF OwnSlotInv, OwnSlot
<1>4. IsFiniteSet(granted) /\ IsFiniteSet(granted \cup {p})
  BY FS_AddElement DEF MetricsInv
<1> HIDE DEF p
<1> SUFFICES /\ IsLast(granted \cup {p}, now)
             /\ WindowIs(Since(Append(window, now), now - Period), granted \cup {p}, now)
             /\ DebugIs(Counted, granted \cup {p}, now)
  BY <1>1, <1>2, <1>4 DEF MetricsInv
<1> DEFINE start == IF granted = {} THEN now ELSE debug.start
           periods == (now - start) \div Period
<1>5. Counted = IF periods = 0
                THEN [start |-> start, permits |-> debug.permits + 1]
                ELSE [start |-> start + periods * Period, permits |-> 1]
  BY DEF Counted, start, periods
<1>6. start \in Nat /\ start <= now /\ now - start \in Nat /\ Period \in Nat \ {0}
  BY <1>2, PeriodType
<1>7. /\ periods \in Nat /\ periods * Period \in Nat /\ periods * Period <= now - start
      /\ (now - start) - periods * Period < Period
  <2> HIDE DEF start
  <2> QED
    BY <1>6, WholePeriods
<1> HIDE DEF periods
<1>8. CASE granted = {}
  <2>1. window = <<>> /\ debug.permits = 0 /\ start = now
    BY <1>8 DEF MetricsInv
  <2>2. IsLast(granted \cup {p}, now)
    BY <1>2, <1>3, <1>8 DEF IsLast
  <2>3. WindowIs(Since(Append(window, now), now - Period), granted \cup {p}, now)
    <3>1. WindowIs(window, granted, now)
      BY <1>2, <1>8, <2>1, WindowBegins
    <3>2. p.at \in Nat /\ now <= p.at
      BY <1>2, <1>3
    <3>3. WindowIs(Since(Append(window, p.at), p.at - Period), granted \cup {p}, p.at)
      BY <1>2, <1>3, <1>4, <3>1, <3>2, WindowRecords
    <3> QED
      BY <1>3, <3>3
  <2>4. periods = 0
    <3>1. periods * Period = 0
      BY <1>2, <1>7, <2>1
    <3> QED
      BY <1>6, <1>7, <3>1, SMT
  <2>5. Counted = [start |-> now, permits |-> 1]
    BY <1>5, <2>1, <2>4
  <2>6. {q \in granted \cup {p} : q.at >= now} = {p}
    BY <1>2, <1>3, <1>8
  <2>7. Cardinality({q \in granted \cup {p} : q.at >= now}) = 1
    BY <2>6, FS_Singleton
  <2>8. DebugIs(Counted, granted \cup {p}, now)
    BY <1>2, <1>6, <2>5, <2>7 DEF DebugIs
  <2> QED
    BY <2>2, <2>3, <2>8
<1>9. CASE granted # {}
  <2>1. PICK last \in Nat : /\ last <= now
                            /\ IsLast(granted, last)
                            /\ WindowIs(window, granted, last)
                            /\ DebugIs(debug, granted, last)
    BY <1>9 DEF MetricsInv
  <2>2. start = debug.start
    BY <1>9
  <2>3. IsLast(granted \cup {p}, now)
    <3>1. \A q \in granted : q.at <= now
      BY <1>2, <2>1 DEF IsLast
    <3> QED
      BY <1>2, <1>3, <3>1 DEF IsLast
  <2>4. WindowIs(Since(Append(window, now), now - Period), granted \cup {p}, now)
    <3>1. WindowIs(Since(Append(window, p.at), p.at - Period), granted \cup {p}, p.at)
      BY <1>2, <1>3, <1>4, <2>1, WindowRecords
    <3> QED
      BY <1>3, <3>1
  <2>5. DebugIs(Counted, granted \cup {p}, now)
    <3>1. \A q \in granted : q.at <= last
      BY <2>1 DEF IsLast
    <3>2. DebugIs(IF periods = 0
                  THEN [start |-> debug.start, permits |-> debug.permits + 1]
                  ELSE [start |-> debug.start + periods * Period, permits |-> 1],
                  granted \cup {p}, p.at)
      <4> HIDE DEF start
      <4> QED
        BY <1>2, <1>3, <1>4, <1>7, <2>1, <2>2, <3>1, DebugCounts
    <3> QED
      BY <1>3, <1>5, <2>2, <3>2
  <2> QED
    BY <2>3, <2>4, <2>5
<1> QED
  BY <1>8, <1>9

LEMMA MetricsInductive ==
    ASSUME TypeInv, OwnSlotInv, MetricsInv, [Next]_vars
    PROVE  MetricsInv'
<1>1. ASSUME NEW t \in Task, Permit(t) PROVE MetricsInv'
  BY <1>1, PermitIsCounted
<1>2. ASSUME UNCHANGED <<granted, window, debug>>, now' \in Nat, now' >= now PROVE MetricsInv'
  <2>1. now \in Nat
    BY DEF TypeInv, TypeOK
  <2>2. \A last \in Nat : last <= now => last <= now'
    BY <1>2, <2>1
  <2>3. /\ IsFiniteSet(granted)
        /\ granted = {} => window = <<>> /\ debug.permits = 0
        /\ granted # {} =>
               \E last \in Nat : /\ last <= now'
                                 /\ IsLast(granted, last)
                                 /\ WindowIs(window, granted, last)
                                 /\ DebugIs(debug, granted, last)
    BY <2>2 DEF MetricsInv
  <2>4. granted' = granted /\ window' = window /\ debug' = debug
    BY <1>2
  <2> QED
    BY <2>3, <2>4, Zenon DEF MetricsInv
<1>3. now \in Nat
  BY DEF TypeInv, TypeOK
<1> USE DEF clock, metrics
<1>4. ASSUME NEW t \in Task, Begin(t) \/ Answer(t) \/ Transient(t) \/ Retry(t) \/ Cancel(t)
      PROVE  MetricsInv'
  <2>1. UNCHANGED <<granted, window, debug>> /\ now' = now
    BY <1>4 DEF Begin, Retry, Attempt, Answer, Transient, Cancel
  <2> QED
    BY <1>2, <1>3, <2>1
<1>5. CASE Tick \/ Close \/ UNCHANGED vars
  <2>1. UNCHANGED <<granted, window, debug>> /\ (now' = now \/ now' = now + 1)
    BY <1>5 DEF Tick, Close, vars
  <2> QED
    BY <1>2, <1>3, <2>1
<1> QED
  BY <1>1, <1>4, <1>5 DEF Next, Step, Idle

\* The two records agree with the permits that were given out.
LEMMA MetricsAreRight ==
    ASSUME TypeInv, MetricsInv
    PROVE  MetricsAgree
<1> SUFFICES ASSUME granted # {}
             PROVE  /\ Len(window) = Cardinality(Later(granted, LastPermit - Period))
                    /\ debug.permits = Cardinality({p \in granted : p.at >= debug.start})
                    /\ LastPermit - debug.start \in 0 .. Period - 1
  BY DEF MetricsAgree, Later
<1>1. PICK last \in Nat : /\ IsLast(granted, last)
                          /\ WindowIs(window, granted, last)
                          /\ DebugIs(debug, granted, last)
  BY DEF MetricsInv
<1>2. /\ window \in Seq(Nat) /\ debug.start \in Nat /\ Period \in Nat \ {0}
      /\ \A p \in granted : p.at \in Nat
  BY PeriodType DEF TypeInv, TypeOK
<1>3. LastPermit = last
  <2> DEFINE Times == {p.at : p \in granted}
             Is(time) == time \in Times /\ \A p \in granted : p.at <= time
  <2>1. Is(last)
    BY <1>1 DEF IsLast
  <2>2. ASSUME NEW time, Is(time) PROVE time = last
    <3>1. time \in Nat /\ time <= last
      BY <1>1, <1>2, <2>2 DEF IsLast
    <3>2. last <= time
      BY <1>1, <2>2 DEF IsLast
    <3> QED
      BY <3>1, <3>2
  <2>3. LastPermit = CHOOSE time : Is(time)
    BY DEF LastPermit
  <2> HIDE DEF Is
  <2> QED
    BY <2>1, <2>2, <2>3
<1>4. Len(window) = Cardinality(Later(granted, last - Period))
  <2>1. After(window, last - Period) = 1 .. Len(window)
    BY <1>1, <1>2 DEF After, WindowIs
  <2>2. Cardinality(1 .. Len(window)) = Len(window)
    <3>1. 1 \in Int /\ Len(window) \in Nat /\ Len(window) \in Int
      BY <1>2
    <3>2. Cardinality(1 .. Len(window)) = IF 1 > Len(window) THEN 0 ELSE Len(window) - 1 + 1
      BY <3>1, FS_Interval, Zenon
    <3> QED
      BY <3>1, <3>2
  <2>3. Cardinality(After(window, last - Period)) = Cardinality(Later(granted, last - Period))
    <3>1. last - Period \in Int /\ last - Period >= last - Period
      BY <1>2
    <3> QED
      BY <1>1, <3>1 DEF WindowIs
  <2> QED
    BY <2>1, <2>2, <2>3
<1>5. debug.permits = Cardinality({p \in granted : p.at >= debug.start})
  BY <1>1 DEF DebugIs
<1>6. last - debug.start \in 0 .. Period - 1
  BY <1>1, <1>2 DEF DebugIs
<1> QED
  BY <1>3, <1>4, <1>5, <1>6

-----------------------------------------------------------------------------
(* The theorems *)

ClientInv == TypeInv /\ SpacingInv /\ OwnSlotInv /\ BackoffInv /\ MetricsInv

LEMMA ClientInvHolds == Spec => []ClientInv
<1>1. Init => ClientInv
  <2> SUFFICES ASSUME Init PROVE ClientInv
    OBVIOUS
  <2>1. TypeInv
    BY TypeInit
  <2>2. SpacingInv /\ OwnSlotInv
    BY DEF Init, SpacingInv, SlotsApart, OwnSlotInv, OwnSlot, LineInv
  <2>3. BackoffInv
    BY DEF Init, BackoffInv, BackedOff
  <2>4. MetricsInv
    BY FS_EmptySet DEF Init, MetricsInv
  <2> QED
    BY <2>1, <2>2, <2>3, <2>4 DEF ClientInv
<1>2. ClientInv /\ [Next]_vars => ClientInv'
  BY TypeInductive, SpacingInductive, OwnSlotInductive, BackoffInductive, MetricsInductive
     DEF ClientInv
<1> QED
  BY <1>1, <1>2, PTL DEF Spec

\* The types hold for any number of tasks and any rate; in particular no fetch
\* makes more attempts than stop_after_attempt allows.
THEOREM TypeCorrect == Spec => []TypeOK
BY ClientInvHolds, PTL DEF ClientInv, TypeInv

\* Any two slots that a limiter gives out are an interval apart for each slot from
\* the one to the other, however its callers come, retry or are cancelled.
THEOREM SlotsStayApart == Spec => []SlotsApart
BY ClientInvHolds, PTL DEF ClientInv, SpacingInv

\* A permit belongs to one attempt and one slot, never precedes the slot's time,
\* and follows it by no more than the loop was late.
THEOREM PermitsFollowSlots == Spec => []OwnSlot
BY ClientInvHolds, PTL DEF ClientInv, OwnSlotInv

\* No period of the limiter holds more permits than the calls it was made for, plus
\* one for each interval, or begun interval, by which the loop was late.
THEOREM BudgetIsKept == Spec => []WithinBudget
BY ClientInvHolds, BudgetHolds, PTL DEF ClientInv

\* A fetch that is given up has been at it for at least the back-offs between its
\* attempts, whatever the attempts, their waits and the stalls are.
THEOREM GivenUpLate == Spec => []GivesUpAfterBackoff
<1>1. ClientInv => GivesUpAfterBackoff
  BY DEF ClientInv, BackoffInv, BackedOff, GivesUpAfterBackoff
<1> QED
  BY <1>1, ClientInvHolds, PTL

\* The exported rate and the debug record count exactly the permits they are about,
\* at any rate and after any stall.
THEOREM MetricsStayRight == Spec => []MetricsAgree
<1>1. ClientInv => MetricsAgree
  BY MetricsAreRight DEF ClientInv
<1> QED
  BY <1>1, ClientInvHolds, PTL

\* The abstract specification counts as this one does.
LEMMA SameCount ==
    ASSUME NEW S
    PROVE  Stream!Cardinality(S) = Cardinality(S)
BY DEF Stream!Cardinality, Cardinality

\* The permits themselves, and not only the slots behind them, are the docstring's
\* stream, an interval apart each, up to the time by which the loop has run late; a
\* loop that never runs late gives no two permits less than an interval apart.
THEOREM LimiterIsSteady == Spec => SteadyButForStalls
<1>1. Init => Stream!Init
  BY DEF Init, Stream!Init
<1>2. ASSUME ClientInv, ClientInv', PermitsPaced', [Next]_vars
      PROVE  [Stream!Emit \/ Stream!Delay]_<<granted, stalled>>
  <2>0. now \in Nat /\ stalled \in Nat /\ IsFiniteSet(granted)
        /\ \A q \in granted : q.at \in Nat /\ q.at <= now
    <3>1. now \in Nat /\ stalled \in Nat /\ \A q \in granted : q.at \in Nat
      BY <1>2 DEF ClientInv, TypeInv, TypeOK
    <3>2. IsFiniteSet(granted)
      BY <1>2 DEF ClientInv, MetricsInv
    <3>3. ASSUME NEW q \in granted PROVE q.at <= now
      <4>1. PICK last \in Nat : last <= now /\ \A r \in granted : r.at <= last
        BY <1>2, <3>3 DEF ClientInv, MetricsInv, IsLast
      <4> QED
        BY <3>1, <4>1
    <3> QED
      BY <3>1, <3>2, <3>3
  <2>1. ASSUME NEW t \in Task, Permit(t) PROVE Stream!Emit
    <3>0. PICK p : p = [n |-> ticket[t], at |-> now]
      OBVIOUS
    <3>1. granted' = granted \cup {p} /\ UNCHANGED <<now, stalled>>
      BY <2>1, <3>0 DEF Permit, clock
    <3>2. p \notin granted
      BY <1>2, <2>1, <3>0 DEF Permit, ClientInv, OwnSlotInv, OwnSlot
    <3>3. p.at = now
      BY <3>0
    <3>4. ASSUME NEW q \in granted
          PROVE  now >= q.at /\ now + stalled >= q.at + Interval * Cardinality(Stream!Since(q))
      <4> DEFINE before == Stream!Since(q)
                 n == Cardinality(before)
      <4>1. before = {r \in granted : r.at >= q.at}
        BY DEF Stream!Since
      <4>2. Between(q, p)' = before \cup {p}
        <5>1. \A r \in granted : q.at <= r.at <=> r.at >= q.at
          BY <2>0
        <5>2. \A r : r \in Between(q, p)' <=> r \in granted' /\ q.at <= r.at /\ r.at <= now
          BY <3>3 DEF Between
        <5>3. \A r : r \in granted' <=> r \in granted \/ r = p
          BY <3>1
        <5>4. \A r : r \in Between(q, p)' <=> r \in before \cup {p}
          BY <2>0, <3>3, <4>1, <5>1, <5>2, <5>3
        <5> QED
          BY <5>4
      <4>3. IsFiniteSet(before) /\ p \notin before
        <5>1. before \subseteq granted
          BY <4>1
        <5> HIDE DEF before
        <5> QED
          BY <2>0, <3>2, <5>1, FS_Subset
      <4> HIDE DEF before
      <4>4. n \in Nat /\ Cardinality(before \cup {p}) = n + 1
        BY <4>3, FS_AddElement, FS_CardinalityType
      <4>5. Interval * (Cardinality(before \cup {p}) - 1) <= now - q.at + stalled
        <5>1. q \in granted' /\ p \in granted' /\ q.at <= p.at
          BY <2>0, <3>1, <3>3
        <5>2. Interval * (Cardinality(Between(q, p)') - 1) <= p.at - q.at + stalled'
          BY <1>2, <5>1 DEF PermitsPaced
        <5> QED
          BY <3>1, <3>3, <4>2, <5>2
      <4>6. (n + 1) - 1 = n
        BY <4>4
      <4>7. Interval * n <= now - q.at + stalled /\ Interval * n \in Nat
        BY <4>4, <4>5, <4>6, SMT
      <4> HIDE DEF n
      <4>8. now + stalled >= q.at + Interval * n
        BY <2>0, <4>7
      <4> QED
        BY <2>0, <4>8 DEF n, before
    <3>5. p \in granted' \ granted /\ granted' = granted \cup {p} /\ stalled' = stalled
      BY <3>1, <3>2
    <3>6. \A q \in granted :
             p.at >= q.at /\ p.at + stalled >= q.at + Interval * Cardinality(Stream!Since(q))
      BY <3>3, <3>4
    <3> QED
      BY <3>5, <3>6, SameCount DEF Stream!Emit
  <2>2. CASE UNCHANGED granted /\ (UNCHANGED stalled \/ stalled' = stalled + 1)
    BY <2>2 DEF Stream!Delay
  <2>3. ASSUME NEW t \in Task, Reserves(t)
        PROVE  UNCHANGED granted /\ UNCHANGED stalled
    BY <2>3 DEF Reserves
  <2>4. CASE Rests
    BY <2>2, <2>4 DEF Rests
  <2> QED
    BY <1>2, <2>1, <2>2, <2>3, <2>4, ThreeKindsOfSteps DEF ClientInv
<1>3. ClientInv => PermitsPaced
  BY PaceHolds DEF ClientInv
<1> QED
  BY <1>1, <1>2, <1>3, ClientInvHolds, PTL DEF Spec, SteadyButForStalls, Stream!Spec
================================================================================
