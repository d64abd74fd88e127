----------------------------- MODULE MatchIdCrawl -----------------------------
(***************************************************************************)
(* stream_match_ids: a pool of workers pages through the match history of  *)
(* every player key.  A worker that got a full page queues the key's next  *)
(* page itself, so the work queue's count of unfinished jobs is what tells *)
(* the closer that the crawl is over.                                      *)
(*                                                                         *)
(* Between two awaits a coroutine runs alone: out_q is unbounded, so what  *)
(* a worker does once a page is fetched is one step.                       *)
(***************************************************************************)
EXTENDS Naturals, Sequences, FiniteSets, SequencesExt

CONSTANTS
    Key,         \* (puuid, queue_type) pairs to crawl
    Worker,      \* max_in_flight tasks
    LastPage,    \* MAX_PAGE_START \div MAX_PAGE_COUNT: 9 in the code
    FullPages,   \* key -> pages of 100 ids its history has
    Rest,        \* keys whose history has ids after the full pages
    MaxErrors,   \* bound: pages whose fetch fails
    Poison,      \* the None a worker exits on
    Done,        \* _Done()
    Failure,     \* in place of a page: the error text of a failed crawl
    Idle, Exited \* a worker waiting in work_q.get(), and one that returned

ASSUME CrawlAssumption ==
    /\ IsFiniteSet(Key) /\ IsFiniteSet(Worker) /\ Worker # {}
    /\ LastPage \in Nat /\ FullPages \in [Key -> Nat] /\ Rest \subseteq Key
    /\ MaxErrors \in Nat
    /\ Cardinality({Poison, Idle, Exited}) = 3
    /\ {Poison, Idle, Exited, Done} \cap (Key \X (Nat \cup {Failure})) = {}
    /\ Failure \notin Nat

Page == 0 .. LastPage
Job == Key \X Page

VARIABLES
    work,        \* work_q: jobs, then one Poison for each worker
    unfinished,  \* work_q's count of puts without a task_done
    worker,      \* worker -> Idle, Exited, or the job it is fetching
    out,         \* out_q: <<key, page>> results, <<key, Failure>>, Done
    closer,      \* "start", "join", "woken", "gather", "end"
    reader,      \* the generator's caller: "get", "stopped", "closed" or "end"
    pages,       \* history: the results yielded, in order
    failed,      \* failed_player_keys
    errors

vars == <<work, unfinished, worker, out, closer, reader, pages, failed, errors>>

Init ==
    /\ work \in SetToSeqs({<<k, 0>> : k \in Key})
    /\ unfinished = Cardinality(Key)
    /\ worker = [w \in Worker |-> Idle]
    /\ out = <<>> /\ closer = "start" /\ reader = "get"
    /\ pages = <<>> /\ failed = {} /\ errors = 0

-----------------------------------------------------------------------------
(* The pool *)

Fetching(w) == worker[w] \notin {Idle, Exited}

Take(w) ==
    /\ worker[w] = Idle /\ work # <<>> /\ Head(work) # Poison
    /\ worker' = [worker EXCEPT ![w] = Head(work)]
    /\ work' = Tail(work)
    /\ UNCHANGED <<unfinished, out, closer, reader, pages, failed, errors>>

\* join returns the next time its task runs, once the count has been zero.
CountTo(n) ==
    /\ unfinished' = n
    /\ closer' = IF n = 0 /\ closer = "join" THEN "woken" ELSE closer

IsFull(k, p) == p < FullPages[k]
IsEmpty(k, p) == p > FullPages[k] \/ (p = FullPages[k] /\ k \notin Rest)

\* A slip: one page beyond the last offset the API serves.
HasNext_OneMore(k, p) == IsFull(k, p) /\ p <= LastPage

HasNext(k, p) == IsFull(k, p) /\ p < LastPage

\* A slip: the state is queued as it is, its offset not advanced.
NextPage_Same(k, p) == <<k, p>>

NextPage(k, p) == <<k, p + 1>>

\* A slip: task_done before the next page is queued.
Fetched_DoneFirst(w) ==
    /\ Fetching(w)
    /\ LET k == worker[w][1]
           p == worker[w][2]
       IN /\ out' = IF IsEmpty(k, p) THEN out ELSE Append(out, <<k, p>>)
          /\ work' = IF HasNext(k, p) THEN Append(work, NextPage(k, p)) ELSE work
          /\ unfinished' = IF HasNext(k, p) THEN unfinished ELSE unfinished - 1
          /\ closer' = IF unfinished = 1 /\ closer = "join" THEN "woken" ELSE closer
    /\ worker' = [worker EXCEPT ![w] = Idle]
    /\ UNCHANGED <<reader, pages, failed, errors>>

\* The page arrived: its ids are handed on, a full page queues the next one,
\* and only then is the job counted as done.
Fetched(w) ==
    /\ Fetching(w)
    /\ LET k == worker[w][1]
           p == worker[w][2]
       IN /\ out' = IF IsEmpty(k, p) THEN out ELSE Append(out, <<k, p>>)
          /\ work' = IF HasNext(k, p) THEN Append(work, NextPage(k, p)) ELSE work
          /\ CountTo(IF HasNext(k, p) THEN unfinished ELSE unfinished - 1)
    /\ worker' = [worker EXCEPT ![w] = Idle]
    /\ UNCHANGED <<reader, pages, failed, errors>>

\* A slip: task_done on the way of success only.
FetchFailed_NotCounted(w) ==
    /\ Fetching(w) /\ errors < MaxErrors
    /\ errors' = errors + 1
    /\ out' = Append(out, <<worker[w][1], Failure>>)
    /\ worker' = [worker EXCEPT ![w] = Idle]
    /\ UNCHANGED <<work, unfinished, closer, reader, pages, failed>>

\* The fetch failed for good: the key is reported, and has no next page.
FetchFailed(w) ==
    /\ Fetching(w) /\ errors < MaxErrors
    /\ errors' = errors + 1
    /\ out' = Append(out, <<worker[w][1], Failure>>)
    /\ CountTo(unfinished - 1)
    /\ worker' = [worker EXCEPT ![w] = Idle]
    /\ UNCHANGED <<work, reader, pages, failed>>

TakePoison(w) ==
    /\ worker[w] = Idle /\ work # <<>> /\ Head(work) = Poison
    /\ work' = Tail(work)
    /\ CountTo(unfinished - 1)
    /\ worker' = [worker EXCEPT ![w] = Exited]
    /\ UNCHANGED <<out, reader, pages, failed, errors>>

-----------------------------------------------------------------------------
(* The closer *)

\* join returns at once on a queue with nothing unfinished.
Join ==
    /\ closer = "start"
    /\ closer' = IF unfinished = 0 THEN "woken" ELSE "join"
    /\ UNCHANGED <<work, unfinished, worker, out, reader, pages, failed, errors>>

\* A slip: one Poison for the whole pool.
PoisonAll_One ==
    /\ closer = "woken" /\ closer' = "gather"
    /\ work' = Append(work, Poison)
    /\ unfinished' = unfinished + 1
    /\ UNCHANGED <<worker, out, reader, pages, failed, errors>>

PoisonAll ==
    /\ closer = "woken" /\ closer' = "gather"
    /\ work' = work \o [i \in 1 .. Cardinality(Worker) |-> Poison]
    /\ unfinished' = unfinished + Cardinality(Worker)
    /\ UNCHANGED <<worker, out, reader, pages, failed, errors>>

Gather ==
    /\ closer = "gather" /\ \A w \in Worker : worker[w] = Exited
    /\ closer' = "end"
    /\ out' = Append(out, Done)
    /\ UNCHANGED <<work, unfinished, worker, reader, pages, failed, errors>>

-----------------------------------------------------------------------------
(* MatchIDCollector.collect reads the generator *)

Read ==
    /\ reader = "get" /\ out # <<>>
    /\ out' = Tail(out)
    /\ LET item == Head(out)
       IN \/ /\ item = Done
             /\ reader' = "end"
             /\ UNCHANGED <<pages, failed>>
          \/ /\ item # Done /\ item[2] = Failure
             /\ failed' = failed \cup {item[1]}
             /\ UNCHANGED <<pages, reader>>
          \/ /\ item # Done /\ item[2] # Failure
             /\ pages' = Append(pages, item)
             /\ UNCHANGED <<failed, reader>>
    /\ UNCHANGED <<work, unfinished, worker, closer, errors>>

\* The stop check raises in the caller, which drops the item it has just read and
\* leaves the generator as it is: the pool goes on fetching for nobody.
Stop ==
    /\ reader = "get" /\ out # <<>> /\ Head(out) # Done
    /\ reader' = "stopped"
    /\ out' = Tail(out)
    /\ UNCHANGED <<work, unfinished, worker, closer, pages, failed, errors>>

\* Nobody closes the generator, so its finally runs when it is collected or when the
\* loop shuts down, if the pool has not come to its end by then.  A task that is
\* cancelled does nothing more: no put on out_q ever waits.
Close ==
    /\ reader = "stopped" /\ reader' = "closed"
    /\ worker' = [w \in Worker |-> Exited] /\ closer' = "end"
    /\ UNCHANGED <<work, unfinished, out, pages, failed, errors>>

-----------------------------------------------------------------------------
WorkerStep(w) == Take(w) \/ Fetched(w) \/ FetchFailed(w) \/ TakePoison(w)
CloserStep == Join \/ PoisonAll \/ Gather
Over == reader # "get" /\ closer = "end"

Next ==
    \/ \E w \in Worker : WorkerStep(w)
    \/ CloserStep \/ Read \/ Stop \/ Close
    \/ Over /\ UNCHANGED vars

Spec == Init /\ [][Next]_vars

\* Every task that can run is run by the loop; every fetch is answered.  A generator
\* that its caller has left need never be closed.
FairSpec ==
    /\ Spec
    /\ \A w \in Worker : WF_vars(WorkerStep(w))
    /\ WF_vars(CloserStep) /\ WF_vars(Read)

-----------------------------------------------------------------------------
(* Properties *)

TypeOK ==
    /\ work \in Seq(Job \cup {Poison}) /\ unfinished \in Nat
    /\ worker \in [Worker -> Job \cup {Idle, Exited}]
    /\ out \in Seq(Job \cup (Key \X {Failure}) \cup {Done})
    /\ closer \in {"start", "join", "woken", "gather", "end"}
    /\ reader \in {"get", "stopped", "closed", "end"}
    /\ pages \in Seq(Job) /\ failed \subseteq Key /\ errors \in 0 .. MaxErrors

\* The pages with ids that a key has within reach of the crawl.
Expected(k) == {p \in Page : ~ IsEmpty(k, p)}

\* A crawl that ends has yielded every page of every key that did not fail, and no
\* other: the closer never takes a moment without queued jobs for the end of the work.
CrawlIsComplete ==
    reader = "end" =>
        \A k \in Key \ failed : {p \in Page : <<k, p>> \in ToSet(pages)} = Expected(k)

\* Whatever the workers' interleaving, a page is yielded once, and after every page
\* before it of the same key, also if the key fails later.
PagesInOrder ==
    \A i \in 1 .. Len(pages) :
        /\ \A j \in 1 .. i - 1 : pages[j] # pages[i]
        /\ \A p \in 0 .. pages[i][2] - 1 :
               \E j \in 1 .. i - 1 : pages[j] = <<pages[i][1], p>>

\* A key has one job at most, queued or in flight, and the count of unfinished
\* jobs is exact, until the pool is cancelled: join can neither return early nor wait
\* for ever.
JobsCounted ==
    LET queued == ToSet(work) \ {Poison}
        flying == {worker[w] : w \in {v \in Worker : Fetching(v)}}
        busy == Cardinality({w \in Worker : Fetching(w)})
    IN reader # "closed" =>
        /\ unfinished = Len(work) + busy
        /\ Cardinality(queued \cup flying) = Cardinality({j[1] : j \in queued \cup flying})
        /\ queued \cap flying = {}

\* The pool comes to its end, also when its caller has stopped reading and nobody
\* closes it.
CrawlEnds == <>Over
===============================================================================
