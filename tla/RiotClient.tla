------------------------------ MODULE RiotClient ------------------------------
(***************************************************************************)
(* RiotAPI.fetch_json_detailed for one location: the limiter all its       *)
(* fetches share, the retries, and the outcome each fetch ends with.       *)
(*                                                                         *)
(* acquire hands out slots on one timeline under a lock and sleeps outside *)
(* it.  A task that is due may run late, when the loop is busy: those      *)
(* ticks are counted in stalled.  There is no await between the reading of *)
(* the clock and the reservation, so a reservation is one step, and so is  *)
(* what follows the sleep up to the request.                               *)
(***************************************************************************)
EXTENDS Integers, Sequences, FiniteSets

CONSTANTS
    Task,         \* the tasks that fetch from this location, one url each
    Calls,        \* RateLimitSpec.calls
    Interval,     \* Limiter._interval = period_s / calls, in ticks
    Attempts,     \* stop_after_attempt (5 in the code)
    MinWait,      \* wait_exponential's min and
    MaxWait,      \* its max (1 s and 10 s)
    Timeout,      \* the session's total timeout of one request
    MaxStall,     \* bound: ticks during which the loop runs late
    LastStart,    \* bound: until when the clock runs while nobody fetches
    Incidents     \* bound: cancellations, and closings of the session under a fetch

ASSUME ClientAssumption ==
    /\ IsFiniteSet(Task)
    /\ Calls \in Nat \ {0} /\ Interval \in Nat \ {0}
    /\ Attempts \in Nat \ {0} /\ Timeout \in Nat \ {0}
    /\ MinWait \in Nat /\ MaxWait \in Nat
    /\ MaxStall \in Nat /\ LastStart \in Nat /\ Incidents \in Nat

VARIABLES
    now,       \* loop.time()
    nextAt,    \* Limiter._next_at; 0 also stands for None, as now >= 0
    open,      \* the session is open
    phase,     \* task -> what it waits for, or how its fetch ended
    wake,      \* task -> when the timer it waits for is due
    tries,     \* task -> its permits so far: tenacity's attempt_number
    ticket,    \* task -> the number of its last slot
    began,     \* task -> when it got its first permit
    slots,     \* history: the slots handed out
    granted,   \* history: the permits, as [n: number of the slot, at: time]
    window,    \* TelemetryLimiter._times
    debug,     \* _LimiterDebugMetrics: [start, permits]
    stalled,   \* ticks during which a task was due and did not run
    incidents  \* cancellations and closings so far

clock == <<now, stalled>>
metrics == <<window, debug>>
vars == <<now, nextAt, open, phase, wake, tries, ticket, began, slots, granted,
          window, debug, stalled, incidents>>

Period == Calls * Interval
Waiting == {"slot", "request", "backoff"}
\* FetchOutcome, the RuntimeError of a closed session, and a cancellation.
\* "answered" is any answer that is not retried: OK, HTTP_NON_RETRYABLE, NON_JSON.
Outcome == {"answered", "retry_exhausted", "runtime_error", "cancelled"}

Init ==
    /\ now = 0 /\ nextAt = 0 /\ open = TRUE
    /\ phase = [t \in Task |-> "idle"] /\ wake = [t \in Task |-> 0]
    /\ tries = [t \in Task |-> 0] /\ ticket = [t \in Task |-> 0]
    /\ began = [t \in Task |-> 0]
    /\ slots = <<>> /\ granted = {} /\ window = <<>>
    /\ debug = [start |-> 0, permits |-> 0]
    /\ stalled = 0 /\ incidents = 0

-----------------------------------------------------------------------------
(* Limiter.acquire, up to its sleep *)

Move(t, to, at) ==
    /\ phase' = [phase EXCEPT ![t] = to]
    /\ wake' = [wake EXCEPT ![t] = at]

\* A fetch that has ended waits for nothing.
End(t, outcome) == Move(t, outcome, 0)

\* A slip: an idle limiter saves its permits up, as a token bucket would.
Slot_Credit == nextAt
Slot == IF nextAt >= now THEN nextAt ELSE now

\* A slip: the next slot is counted from the caller's time.
Reserve_FromNow(t) ==
    /\ slots' = Append(slots, Slot)
    /\ nextAt' = now + Interval
    /\ ticket' = [ticket EXCEPT ![t] = Len(slots) + 1]
    /\ Move(t, "slot", Slot)

Reserve(t) ==
    /\ slots' = Append(slots, Slot)
    /\ nextAt' = Slot + Interval
    /\ ticket' = [ticket EXCEPT ![t] = Len(slots) + 1]
    /\ Move(t, "slot", Slot)

\* A slip: a closed session is taken for one more transient failure.
Refuse_Silent(t) == UNCHANGED <<phase, wake, slots, nextAt, ticket>>
Refuse(t) == End(t, "runtime_error") /\ UNCHANGED <<slots, nextAt, ticket>>

\* One attempt begins: the session is looked at before the limiter.
Attempt(t) ==
    /\ IF open THEN Reserve(t) ELSE Refuse(t)
    /\ UNCHANGED <<open, tries, began, granted, metrics, clock, incidents>>

Begin(t) == phase[t] = "idle" /\ Attempt(t)

-----------------------------------------------------------------------------
(* the permit: telemetry, and the request *)

\* The times after the cutoff; they are in their order, so popleft drops the others.
Since(times, cutoff) ==
    SubSeq(times, Cardinality({i \in DOMAIN times : times[i] <= cutoff}) + 1, Len(times))

\* A slip: what is just a period old is kept.
Recorded_Closed == Since(Append(window, now), now - Period - 1)
\* TelemetryLimiter._record_and_export.
Recorded == Since(Append(window, now), now - Period)

\* _LimiterDebugMetrics.record: the first permit starts the first period.
Counted ==
    LET start == IF granted = {} THEN now ELSE debug.start
        periods == (now - start) \div Period
    IN  IF periods = 0
        THEN [start |-> start, permits |-> debug.permits + 1]
        ELSE [start |-> start + periods * Period, permits |-> 1]

Permit(t) ==
    /\ phase[t] = "slot" /\ wake[t] <= now
    /\ granted' = granted \cup {[n |-> ticket[t], at |-> now]}
    /\ window' = Recorded
    /\ debug' = Counted
    /\ tries' = [tries EXCEPT ![t] = @ + 1]
    /\ began' = IF tries[t] = 0 THEN [began EXCEPT ![t] = now] ELSE began
    /\ IF open THEN Move(t, "request", now + Timeout) ELSE End(t, "runtime_error")
    /\ UNCHANGED <<open, nextAt, ticket, slots, clock, incidents>>

-----------------------------------------------------------------------------
(* the answer *)

\* A 2xx with or without JSON, or a status outside RETRYABLE.
Answer(t) ==
    /\ phase[t] = "request"
    /\ End(t, "answered")
    /\ UNCHANGED <<open, nextAt, tries, ticket, began, slots, granted, metrics, clock, incidents>>

\* wait_exponential(multiplier=1, min, max).
Backoff(attempt) ==
    LET wait == IF 2^(attempt - 1) < MaxWait THEN 2^(attempt - 1) ELSE MaxWait
    IN  IF wait > MinWait THEN wait ELSE MinWait

\* A slip: the first attempt is not counted as one.
GivesUp_Late(t) == tries[t] > Attempts
\* A slip: the last attempt is left out.
GivesUp_Early(t) == tries[t] + 1 = Attempts
GivesUp(t) == tries[t] = Attempts

\* 429, 500, 502, 503, 504, a broken connection or payload, or the timeout.
Transient(t) ==
    /\ phase[t] = "request"
    /\ IF GivesUp(t) THEN Move(t, "retry_exhausted", now)
                     ELSE Move(t, "backoff", now + Backoff(tries[t]))
    /\ UNCHANGED <<open, nextAt, tries, ticket, began, slots, granted, metrics, clock, incidents>>

Retry(t) == phase[t] = "backoff" /\ wake[t] <= now /\ Attempt(t)

\* The TaskGroup of the payload batch, or the shutdown, cancels the fetch.
Cancel(t) ==
    /\ phase[t] \in Waiting
    /\ incidents < Incidents /\ incidents' = incidents + 1
    /\ End(t, "cancelled")
    /\ UNCHANGED <<open, nextAt, tries, ticket, began, slots, granted, metrics, clock>>

-----------------------------------------------------------------------------
(* time and the session *)

Due(t) == phase[t] \in Waiting /\ wake[t] <= now

Tick ==
    /\ now < LastStart \/ \E t \in Task : phase[t] \in Waiting
    /\ IF \E t \in Task : Due(t) THEN stalled < MaxStall /\ stalled' = stalled + 1
                                 ELSE UNCHANGED stalled
    /\ now' = now + 1
    /\ UNCHANGED <<nextAt, open, phase, wake, tries, ticket, began, slots, granted, metrics,
                   incidents>>

\* RiotAPI.__aexit__: requests in flight break or are answered.
Close ==
    /\ open /\ open' = FALSE
    /\ incidents < Incidents /\ incidents' = incidents + 1
    /\ UNCHANGED <<nextAt, phase, wake, tries, ticket, began, slots, granted, metrics, clock>>

Step(t) == Begin(t) \/ Permit(t) \/ Answer(t) \/ Transient(t) \/ Retry(t) \/ Cancel(t)

\* Every fetch has ended, and the clock need not run on.
Idle == (\A t \in Task : phase[t] \in Outcome) /\ UNCHANGED vars

Next == (\E t \in Task : Step(t)) \/ Tick \/ Close \/ Idle

Spec == Init /\ [][Next]_vars

\* Time passes, due tasks run, and a request is answered or times out.
FairSpec ==
    /\ Spec /\ WF_vars(Tick)
    /\ \A t \in Task : WF_vars(Permit(t)) /\ WF_vars(Retry(t)) /\ WF_vars(Due(t) /\ Transient(t))

-----------------------------------------------------------------------------
(* properties *)

\* Types: also, a task that waits for a slot waits for the one it holds.
TypeOK ==
    /\ now \in Nat /\ stalled \in 0 .. MaxStall /\ incidents \in 0 .. Incidents
    /\ open \in BOOLEAN
    /\ nextAt \in Nat
    /\ phase \in [Task -> {"idle"} \cup Waiting \cup Outcome]
    /\ wake \in [Task -> Nat] /\ began \in [Task -> Nat]
    /\ tries \in [Task -> 0 .. Attempts]
    /\ ticket \in [Task -> 0 .. Len(slots)]
    /\ slots \in Seq(Nat)
    /\ granted \subseteq [n : 1 .. Len(slots), at : Nat]
    /\ window \in Seq(Nat) /\ debug \in [start : Nat, permits : Nat]
    /\ \A t \in Task : phase[t] = "slot" => ticket[t] # 0 /\ wake[t] = slots[ticket[t]]

\* The slots are apart by an interval each, so that one slot and the Calls-th
\* after it are a period apart: no window of a period holds more than Calls.
SlotsApart ==
    \A i, j \in 1 .. Len(slots) : i < j => slots[j] >= slots[i] + Interval * (j - i)

\* What the callers rely on against the API's limit: any period that begins with
\* a permit sees at most Calls of them, and a stall of the loop adds what it has
\* held back, an interval's worth each, and never more.  Cancelled and refused
\* fetches lose their slots; they do not pass them on.
CeilDiv(a, b) == (a + b - 1) \div b
InPeriodOf(a) == {b \in granted : a.at <= b.at /\ b.at < a.at + Period}
WithinBudget ==
    \A a \in granted :
        Cardinality(InPeriodOf(a)) <= Calls + CeilDiv(stalled, Interval)

\* No request goes out before its slot, later than the stalls explain, or on a
\* permit that another attempt has used: also a retry takes a place in the line.
OwnSlot ==
    /\ \A p \in granted : slots[p.n] <= p.at /\ p.at <= slots[p.n] + stalled
    /\ \A p, q \in granted : p.n = q.n => p = q
    /\ \A t \in Task : phase[t] = "slot" => \A p \in granted : p.n # ticket[t]

\* A fetch is given up no earlier than all the back-offs between its attempts
\* after its first permit: an outage shorter than that fails no fetch.
TotalBackoff[n \in Nat] == IF n = 0 THEN 0 ELSE TotalBackoff[n - 1] + Backoff(n)
GivesUpAfterBackoff ==
    \A t \in Task : phase[t] = "retry_exhausted" =>
        wake[t] >= began[t] + TotalBackoff[Attempts - 1]

\* The exported rate counts the permits of the last period, no more and no less,
\* and the debug record those since its own period began.
LastPermit == CHOOSE time \in {p.at : p \in granted} : \A p \in granted : p.at <= time
MetricsAgree ==
    granted # {} =>
        /\ Len(window) = Cardinality({p \in granted : p.at > LastPermit - Period})
        /\ debug.permits = Cardinality({p \in granted : p.at >= debug.start})
        /\ LastPermit - debug.start \in 0 .. Period - 1

\* Each fetch that has begun ends with an outcome, whatever the service does.
FetchEnds == \A t \in Task : phase[t] # "idle" ~> phase[t] \in Outcome

\* The permits are the steady stream of Limiter's docstring (rate_limiter.py:89-91),
\* as far as it is one: what the loop holds back comes out in a burst afterwards, since
\* the slots of the tasks in the line are fixed before they sleep (rate_limiter.py:131).
Stream == INSTANCE PermitStream WITH permits <- granted, late <- stalled
SteadyButForStalls == Stream!Spec
==============================================================================
