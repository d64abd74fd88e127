---------------------------- MODULE CombineStreams ----------------------------
(***************************************************************************)
(* The two payload pumps of combine_streams, the bounded queue between     *)
(* them and MatchDataSaver.save, and the TaskGroup that ties their fates.  *)
(*                                                                         *)
(* The generator yields inside its TaskGroup: while the saver works on an  *)
(* item the group's parent task is suspended outside the group's block, so *)
(* the cancellation that a failing pump causes lands in the saver's own    *)
(* code.  CancelledError is not an Exception: save's handler misses it.    *)
(***************************************************************************)
EXTENDS Naturals, Sequences, FiniteSets, SequencesExt

CONSTANTS
    Stream,          \* the pumps: {"non_timeline", "timeline"}
    N,               \* payloads each stream yields
    MaxBuffer,       \* the queue's maxsize (3000 in the code)
    Burst,           \* messages the pumps can put before a waiting get resumes
    MaxPumpErrors,   \* bound: a stop check or an unknown shard in a pump
    SaverMayFail     \* save may raise itself: a stop check, a parse or insert error

ASSUME SizeAssumption ==
    /\ IsFiniteSet(Stream) /\ Stream # {}
    /\ N \in Nat
    /\ Burst \in Nat \ {0} /\ MaxBuffer \in Nat /\ Burst < MaxBuffer
    /\ MaxPumpErrors \in Nat /\ SaverMayFail \in BOOLEAN

VARIABLES
    q,            \* the queue: <<stream, i>>, with i = 0 for _Done
    pump,         \* stream -> state of its pump
    error,        \* the streams whose iterator raised
    next,         \* stream -> the payload its pump yields next
    got,          \* stream -> payloads the saver has taken
    done,         \* the streams whose _Done arrived
    saver,        \* state of the saver's task
    aborting,     \* the TaskGroup has cancelled its tasks and its parent
    ownError,     \* save raised while its pumps were still in the group
    rolledBack,   \* rollback_run ran to its end
    shutdown      \* asyncio.run has cancelled what was still running

vars == <<q, pump, error, next, got, done, saver, aborting, ownError, rolledBack, shutdown>>

Done == 0
PumpState == {"fetch", "put", "cancelled", "finally", "ended"}
\* get and exit are inside the TaskGroup's block; the others are save's code.
SaverState == {"get", "exit", "busy", "settle", "rollback", "ok", "raised", "cancelled"}
Ended == {"ok", "raised", "cancelled"}

Init ==
    /\ q = <<>>
    /\ pump = [s \in Stream |-> "fetch"] /\ error = {}
    /\ next = [s \in Stream |-> 1] /\ got = [s \in Stream |-> 0]
    /\ done = {} /\ saver = "get"
    /\ aborting = FALSE
    /\ ownError = FALSE /\ rolledBack = FALSE /\ shutdown = FALSE

-----------------------------------------------------------------------------
(* pump *)

Move(s, from, to) == pump[s] = from /\ pump' = [pump EXCEPT ![s] = to]

\* A slip: the end of the iterator is noticed one payload late.
Yield_OneMore(s) ==
    /\ next[s] <= N + 1 /\ Move(s, "fetch", "put")
    /\ UNCHANGED <<q, error, next, got, done, saver, aborting, ownError, rolledBack, shutdown>>

\* The iterator yields a payload, ends, or raises.
Yield(s) ==
    /\ next[s] <= N /\ Move(s, "fetch", "put")
    /\ UNCHANGED <<q, error, next, got, done, saver, aborting, ownError, rolledBack, shutdown>>

\* A slip: no finally clause, the pump ends without its _Done.
Exhausted_NoDone(s) ==
    /\ next[s] > N /\ Move(s, "fetch", "ended")
    /\ UNCHANGED <<q, error, next, got, done, saver, aborting, ownError, rolledBack, shutdown>>

Exhausted(s) ==
    /\ next[s] > N /\ Move(s, "fetch", "finally")
    /\ UNCHANGED <<q, error, next, got, done, saver, aborting, ownError, rolledBack, shutdown>>

Raise(s) ==
    /\ Cardinality(error) < MaxPumpErrors
    /\ Move(s, "fetch", "finally")
    /\ error' = error \cup {s}
    /\ UNCHANGED <<q, next, got, done, saver, aborting, ownError, rolledBack, shutdown>>

\* q.put waits for room.  The first put resumes a waiting q.get in the loop's
\* next turn: until then each pump adds what is left of its batch of payloads
\* (64 in yield_match_data), at most.
Room == Len(q) < IF saver = "get" THEN Burst ELSE MaxBuffer

\* A slip: a full queue drops the payload.
Put_DropsWhenFull(s) ==
    /\ Move(s, "put", "fetch")
    /\ q' = IF Room THEN Append(q, <<s, next[s]>>) ELSE q
    /\ next' = [next EXCEPT ![s] = @ + 1]
    /\ UNCHANGED <<error, got, done, saver, aborting, ownError, rolledBack, shutdown>>

Put(s) ==
    /\ Room /\ Move(s, "put", "fetch")
    /\ q' = Append(q, <<s, next[s]>>)
    /\ next' = [next EXCEPT ![s] = @ + 1]
    /\ UNCHANGED <<error, got, done, saver, aborting, ownError, rolledBack, shutdown>>

\* CancelledError arrives at the pump's await; the finally clause still runs.
Unwind(s) ==
    /\ Move(s, "cancelled", "finally")
    /\ UNCHANGED <<q, error, next, got, done, saver, aborting, ownError, rolledBack, shutdown>>

\* Task.cancel: a pump already waiting in its finally clause is thrown out of it.
Cancelled(state) ==
    CASE state \in {"fetch", "put"} -> "cancelled"
      [] state = "finally"          -> "ended"
      [] OTHER                      -> state

\* Where CancelledError finds the saver's task: waiting in the group's block,
\* the group absorbs it and waits for its tasks; in save's own code it ends the
\* task, whatever save was doing; after save it meets the flow's cleanup.
CancelledSaver ==
    CASE saver \in {"get", "exit"} -> "exit"
      [] saver \in Ended           -> saver
      [] OTHER                     -> "cancelled"

\* The end of a task that raised aborts the group: its other tasks and the
\* parent are cancelled, once, unless the parent, the flow's task, is done: by the
\* shutdown it is.
Abort(s) ==
    IF s \in error /\ ~aborting /\ ~shutdown
    THEN /\ aborting' = TRUE
         /\ saver' = CancelledSaver
         /\ pump' = [p \in Stream |-> IF p = s THEN "ended" ELSE Cancelled(pump[p])]
    ELSE /\ pump' = [pump EXCEPT ![s] = "ended"]
         /\ UNCHANGED <<aborting, saver>>

\* The finally clause: await q.put(_Done), and the task is over.
PutDone(s) ==
    /\ pump[s] = "finally" /\ Room
    /\ q' = Append(q, <<s, Done>>)
    /\ Abort(s)
    /\ UNCHANGED <<error, next, got, done, ownError, rolledBack, shutdown>>

-----------------------------------------------------------------------------
(* The saver's task *)

\* A slip: the first _Done ends the loop.
Advance_FirstDone ==
    /\ q' = IF q = <<>> THEN q ELSE Tail(q)
    /\ done' = IF q # <<>> /\ Head(q)[2] = Done THEN done \cup {Head(q)[1]} ELSE done
    /\ got' = IF q = <<>> \/ Head(q)[2] = Done THEN got
              ELSE [got EXCEPT ![Head(q)[1]] = @ + 1]
    /\ saver' = IF q = <<>> THEN "get" ELSE IF Head(q)[2] = Done THEN "exit" ELSE "busy"

\* Where the first payload in the queue is; 0 if there is none.
FirstPayload == SelectInSeq(q, LAMBDA msg : msg[2] # Done)

\* The generator's loop on a queue that is not empty does not suspend: it notes
\* the _Done messages at the head and yields the next payload, if there is one.
Advance ==
    LET i == FirstPayload
        taken == IF i = 0 THEN Len(q) ELSE i
    IN /\ q' = SubSeq(q, taken + 1, Len(q))
       /\ done' = done \cup {q[j][1] : j \in {j \in 1 .. taken : q[j][2] = Done}}
       /\ got' = IF i = 0 THEN got ELSE [got EXCEPT ![q[i][1]] = @ + 1]
       /\ saver' = IF i # 0 THEN "busy" ELSE IF done' = Stream THEN "exit" ELSE "get"

\* q.get was waiting, and resumes.
Get ==
    /\ saver = "get" /\ q # <<>>
    /\ Advance
    /\ UNCHANGED <<pump, error, next, aborting, ownError, rolledBack, shutdown>>

\* save has parsed, buffered and perhaps flushed its item.
Handled ==
    /\ saver = "busy"
    /\ Advance
    /\ UNCHANGED <<pump, error, next, aborting, ownError, rolledBack, shutdown>>

\* save raises an exception of its own, with the pumps still running.
SaverError ==
    /\ SaverMayFail /\ saver = "busy" /\ saver' = "rollback"
    /\ ownError' = TRUE
    /\ UNCHANGED <<q, pump, error, next, got, done, aborting, rolledBack, shutdown>>

\* A slip: what the pumps raised is not looked at.
LeaveGroup_DropsErrors ==
    /\ saver = "exit" /\ \A s \in Stream : pump[s] = "ended"
    /\ saver' = "settle"
    /\ UNCHANGED <<q, pump, error, next, got, done, aborting, ownError, rolledBack, shutdown>>

\* Leaving the TaskGroup's block waits for its tasks; a task that raised makes
\* it an ExceptionGroup, which save's handler catches.
LeaveGroup ==
    /\ saver = "exit" /\ \A s \in Stream : pump[s] = "ended"
    /\ saver' = IF error = {} THEN "settle" ELSE "rollback"
    /\ UNCHANGED <<q, pump, error, next, got, done, aborting, ownError, rolledBack, shutdown>>

\* The final flush, the deletes and the mark.
Settled ==
    /\ saver = "settle" /\ saver' = "ok"
    /\ UNCHANGED <<q, pump, error, next, got, done, aborting, ownError, rolledBack, shutdown>>

RollBack ==
    /\ saver = "rollback" /\ saver' = "raised"
    /\ rolledBack' = TRUE
    /\ UNCHANGED <<q, pump, error, next, got, done, aborting, ownError, shutdown>>

\* The flow run ended: asyncio.run cancels the tasks that are left, once, and
\* waits for them.  An earlier cancellation was delivered by then: closing the
\* API client and reporting the flow's state take many turns of the loop.
Shutdown ==
    /\ saver \in {"raised", "cancelled"} /\ ~shutdown
    /\ \A s \in Stream : pump[s] # "cancelled"
    /\ shutdown' = TRUE
    /\ pump' = [s \in Stream |-> Cancelled(pump[s])]
    /\ UNCHANGED <<q, error, next, got, done, saver, aborting, ownError, rolledBack>>

-----------------------------------------------------------------------------
PumpStep(s) == Yield(s) \/ Exhausted(s) \/ Put(s) \/ Unwind(s) \/ PutDone(s)
SaverStep == Get \/ Handled \/ LeaveGroup \/ Settled \/ RollBack
AllEnded == saver \in Ended /\ \A s \in Stream : pump[s] = "ended"

Next ==
    \/ \E s \in Stream : PumpStep(s) \/ Raise(s)
    \/ SaverStep \/ SaverError \/ Shutdown
    \/ AllEnded /\ UNCHANGED vars

Spec == Init /\ [][Next]_vars

\* The event loop runs every task that can run.
FairSpec ==
    Spec /\ (\A s \in Stream : WF_vars(PumpStep(s))) /\ WF_vars(SaverStep) /\ WF_vars(Shutdown)
-----------------------------------------------------------------------------
(* Properties *)

TypeOK ==
    /\ q \in Seq(Stream \X (0 .. N))
    /\ pump \in [Stream -> PumpState] /\ error \subseteq Stream
    /\ next \in [Stream -> 1 .. N + 1] /\ got \in [Stream -> 0 .. N]
    /\ done \subseteq Stream /\ saver \in SaverState
    /\ aborting \in BOOLEAN
    /\ ownError \in BOOLEAN /\ rolledBack \in BOOLEAN /\ shutdown \in BOOLEAN

\* Each stream's payloads reach the saver once each and in order: what the queue
\* holds of a stream are the payloads after the ones taken and before the one to
\* come, each once and in order, and nothing follows its _Done.
InOrderOnce ==
    \A s \in Stream :
        LET ofStream == {i \in 1 .. Len(q) : q[i][1] = s}
            payloads == {i \in ofStream : q[i][2] # Done}
        IN /\ {q[i][2] : i \in payloads} = (got[s] + 1) .. (next[s] - 1)
           /\ \A i, j \in ofStream : i < j =>
                  q[i][2] # Done /\ (q[j][2] = Done \/ q[i][2] < q[j][2])
           /\ \A i \in ofStream \ payloads : pump[s] = "ended"

\* Matches are settled, and marked finished, only after every payload of both
\* streams was handled and no pump failed.
SettledMeansComplete ==
    saver \in {"settle", "ok"} => error = {} /\ \A s \in Stream : got[s] = N

\* A pump's failure always ends the batch, by an exception or a cancellation.
FailureSurfaces == error # {} ~> saver \in {"raised", "cancelled"}

\* Unless save itself raised, the batch and its pumps come to an end, even with
\* pumps blocked on a full queue when the group is aborted.
EndsUnlessSaveRaised == <>(AllEnded \/ ownError)

\* What a graceful stop relies on (stop_pipeline_safely.sh waits for the
\* container): the process always comes to an end.
Ends == <>AllEnded

\* A batch that fails is rolled back before the failure leaves save.
FailureIsRolledBack == saver \in {"raised", "cancelled"} => rolledBack
===============================================================================
