----------------------------- MODULE PermitStream -----------------------------
(***************************************************************************)
(* The stream of permits that Limiter gives its callers.  The docstring    *)
(* promises one permit every interval and no bursts; it is kept up to the  *)
(* time by which the loop has run late, which the permits that were held   *)
(* back catch up with.                                                     *)
(***************************************************************************)
EXTENDS Integers, FiniteSets

CONSTANT Interval   \* time between two permits: period_s / calls

VARIABLES
    permits,    \* the permits given, as [n: a name, at: time]
    late        \* by how much the loop has been late, in all

Init == permits = {} /\ late = 0

Since(q) == {r \in permits : r.at >= q.at}

\* One more permit: each permit since an earlier one has taken its interval, less
\* the time the loop was late.  In a loop that is never late no two permits are less
\* than an interval apart.
Emit ==
    /\ \E p \in permits' \ permits :
           /\ permits' = permits \cup {p}
           /\ \A q \in permits :
                  p.at >= q.at /\ p.at + late >= q.at + Interval * Cardinality(Since(q))
    /\ UNCHANGED late

Delay == late' = late + 1 /\ UNCHANGED permits

Spec == Init /\ [][Emit \/ Delay]_<<permits, late>>
==============================================================================
