-------------------------- MODULE MatchIdCrawl_proofs --------------------------
(***************************************************************************)
(* What the worker pool of MatchIdCrawl promises for any number of keys,   *)
(* pages and workers: the types, the count of unfinished jobs, one job for *)
(* each key at most, that the closer does not overtake a job, the order of *)
(* the pages of a key, and that a crawl which ends has yielded them all.   *)
(***************************************************************************)
EXTENDS MatchIdCrawl, FiniteSetTheorems, SequenceTheorems, TLAPS

-----------------------------------------------------------------------------
(* What the constants are *)

LEMMA TwoAreNotThree == ASSUME NEW a, NEW b PROVE Cardinality({a, b}) # 3
<1>1. IsFiniteSet({a}) /\ Cardinality({a}) = 1
  BY FS_Singleton
<1>2. {a, b} = {a} \cup {b}
  OBVIOUS
<1>3. Cardinality({a} \cup {b}) \in {1, 2}
  BY <1>1, FS_AddElement
<1> QED
  BY <1>2, <1>3

LEMMA Distinct == Poison # Idle /\ Poison # Exited /\ Idle # Exited
<1>1. Cardinality({Poison, Idle, Exited}) = 3
  BY CrawlAssumption DEF CrawlAssumption
<1>2. /\ Poison = Idle => {Poison, Idle, Exited} = {Idle, Exited}
      /\ Poison = Exited => {Poison, Idle, Exited} = {Poison, Idle}
      /\ Idle = Exited => {Poison, Idle, Exited} = {Poison, Idle}
  OBVIOUS
<1>3. Cardinality({Idle, Exited}) # 3 /\ Cardinality({Poison, Idle}) # 3
  BY TwoAreNotThree
<1> QED
  BY <1>1, <1>2, <1>3, Zenon

\* A job, a key and a result are told apart from the signals.
LEMMA NoSignals ==
    /\ Job \subseteq Key \X (Nat \cup {Failure}) /\ Key \X {Failure} \subseteq Key \X (Nat \cup {Failure})
    /\ Poison \notin Job /\ Idle \notin Job /\ Exited \notin Job
    /\ Done \notin Key \X (Nat \cup {Failure})
    /\ \A j \in Job : j[1] \in Key /\ j[2] \in Page /\ j[2] # Failure
<1>1. Page \subseteq Nat /\ Failure \notin Nat
  BY CrawlAssumption DEF CrawlAssumption, Page
<1>2. {Poison, Idle, Exited, Done} \cap (Key \X (Nat \cup {Failure})) = {}
  BY CrawlAssumption DEF CrawlAssumption
<1>3. Job \subseteq Key \X (Nat \cup {Failure})
  BY <1>1 DEF Job
<1> QED
  BY <1>1, <1>2, <1>3 DEF Job

\* The workers that fetch are finitely many.
Busy == {w \in Worker : Fetching(w)}

LEMMA WorkersFinite ==
    /\ IsFiniteSet(Worker) /\ Cardinality(Worker) \in Nat
    /\ \A S \in SUBSET Worker : IsFiniteSet(S) /\ Cardinality(S) \in Nat
BY CrawlAssumption, FS_Subset, FS_CardinalityType DEF CrawlAssumption

-----------------------------------------------------------------------------
(* Types *)

Result == Job \cup (Key \X {Failure}) \cup {Done}

\* One job for each key: as many as there are keys.
FirstJobs == {<<k, 0>> : k \in Key}

LEMMA FirstJobsCounted ==
    /\ Cardinality(FirstJobs) = Cardinality(Key) /\ Cardinality(Key) \in Nat
    /\ IsFiniteSet(FirstJobs) /\ FirstJobs \subseteq Job
<1>1. IsFiniteSet(Key) /\ Cardinality(Key) \in Nat
  BY CrawlAssumption, FS_CardinalityType DEF CrawlAssumption
<1>2. [k \in Key |-> <<k, 0>>] \in Bijection(Key, FirstJobs)
  BY DEF Bijection, Injection, Surjection, IsInjective, FirstJobs
<1>3. IsFiniteSet(FirstJobs) /\ Cardinality(FirstJobs) = Cardinality(Key)
  BY <1>1, <1>2, FS_Bijection DEF ExistsBijection
<1> QED
  BY <1>1, <1>3, CrawlAssumption DEF CrawlAssumption, FirstJobs, Job, Page

\* At the start there is a job for each key, each once.
LEMMA InitialWork ==
    ASSUME Init
    PROVE  /\ work \in Seq(FirstJobs) /\ Len(work) = Cardinality(Key)
           /\ \A i, j \in 1 .. Len(work) : i # j => work[i] # work[j]
           /\ \A j \in FirstJobs : \E i \in 1 .. Len(work) : work[i] = j
<1>1. work \in SetToSeqs(FirstJobs)
  BY DEF Init, FirstJobs
<1>2. /\ work \in [1 .. Cardinality(FirstJobs) -> FirstJobs]
      /\ \A i, j \in 1 .. Cardinality(FirstJobs) : i # j => work[i] # work[j]
  BY <1>1 DEF SetToSeqs
<1>3. work \in Seq(FirstJobs) /\ Len(work) = Cardinality(Key)
  BY <1>2, FirstJobsCounted
<1>4. \A j \in FirstJobs : \E i \in 1 .. Len(work) : work[i] = j
  <2> DEFINE n == Cardinality(FirstJobs)
  <2>1. n \in Nat /\ IsFiniteSet(FirstJobs)
    BY FirstJobsCounted
  <2>2. work \in Injection(1 .. n, FirstJobs)
    BY <1>2 DEF Injection, IsInjective
  <2>3. Cardinality(1 .. n) = n
    BY <2>1, FS_Interval
  <2>4. work \in Surjection(1 .. n, FirstJobs)
    BY <2>1, <2>2, <2>3, FS_Injection
  <2>5. Len(work) = n
    BY <1>3, FirstJobsCounted
  <2> QED
    BY <2>4, <2>5 DEF Surjection
<1> QED
  BY <1>2, <1>3, <1>4, FirstJobsCounted

LEMMA TypeInit == Init => TypeOK
<1> SUFFICES ASSUME Init PROVE TypeOK
  OBVIOUS
<1>1. work \in Seq(Job \cup {Poison})
  BY InitialWork, FirstJobsCounted
<1> QED
  BY <1>1, FirstJobsCounted, CrawlAssumption DEF Init, TypeOK, CrawlAssumption

-----------------------------------------------------------------------------
(* The inductive invariant *)

IsJob(i) == work[i] # Poison

\* Every job, queued or in flight, is of a key of its own.
OneJobEach ==
    /\ \A i, j \in 1 .. Len(work) :
           IsJob(i) /\ IsJob(j) /\ i # j => work[i][1] # work[j][1]
    /\ \A i \in 1 .. Len(work), w \in Busy : IsJob(i) => work[i][1] # worker[w][1]
    /\ \A v, w \in Busy : v # w => worker[v][1] # worker[w][1]

Counted == unfinished = Len(work) + Cardinality(Busy)

\* Once the closer has woken, no worker fetches and no job is queued.
NothingLeft ==
    closer \in {"woken", "gather", "end"} =>
        Busy = {} /\ \A i \in 1 .. Len(work) : ~ IsJob(i)

\* A closed generator has cancelled every worker, which ends what is said of them.
IInv ==
    /\ TypeOK
    /\ reader = "closed" => \A w \in Worker : worker[w] = Exited
    /\ reader # "closed" => Counted /\ OneJobEach /\ NothingLeft

LEMMA InvInit == Init => IInv
<1> SUFFICES ASSUME Init PROVE IInv
  OBVIOUS
<1>1. Busy = {} /\ Cardinality(Busy) = 0
  BY FS_EmptySet DEF Busy, Fetching, Init
<1>2. Len(work) = Cardinality(Key) /\ Cardinality(Key) \in Nat
  BY InitialWork, FirstJobsCounted
<1>3. \A i \in 1 .. Len(work) : work[i] \in FirstJobs
  BY InitialWork
<1>4. \A i, j \in 1 .. Len(work) : i # j => work[i][1] # work[j][1]
  <2> SUFFICES ASSUME NEW i \in 1 .. Len(work), NEW j \in 1 .. Len(work), i # j
               PROVE  work[i][1] # work[j][1]
    OBVIOUS
  <2>1. PICK k \in Key : work[i] = <<k, 0>>
    BY <1>3 DEF FirstJobs
  <2>2. PICK l \in Key : work[j] = <<l, 0>>
    BY <1>3 DEF FirstJobs
  <2>3. work[i] # work[j]
    BY InitialWork
  <2> QED
    BY <2>1, <2>2, <2>3
<1> QED
  BY <1>1, <1>2, <1>4, TypeInit DEF Init, IInv, Counted, OneJobEach, NothingLeft

-----------------------------------------------------------------------------
(* What the queue's operations do *)

Item == Job \cup {Poison}

LEMMA Dropped ==
    ASSUME work \in Seq(Item), work # <<>>
    PROVE  /\ Head(work) = work[1] /\ work[1] \in Item
           /\ Len(work) \in Nat \ {0}
           /\ Tail(work) \in Seq(Item) /\ Len(Tail(work)) = Len(work) - 1
           /\ \A i \in 1 .. Len(Tail(work)) :
                  i + 1 \in 2 .. Len(work) /\ Tail(work)[i] = work[i + 1]
<1>1. Len(work) \in Nat \ {0}
  BY EmptySeq
<1> QED
  BY <1>1

LEMMA Queued ==
    ASSUME work \in Seq(Item), NEW job \in Item
    PROVE  /\ Append(work, job) \in Seq(Item)
           /\ Len(work) \in Nat /\ Len(Append(work, job)) = Len(work) + 1
           /\ \A i \in 1 .. Len(work) + 1 :
                  Append(work, job)[i] = IF i = Len(work) + 1 THEN job ELSE work[i]
OBVIOUS

\* A worker that takes a job or ends one changes the number of the busy ones by one.
LEMMA BusyChanges ==
    ASSUME TypeOK, NEW w \in Worker, NEW s, worker' = [worker EXCEPT ![w] = s]
    PROVE  /\ worker'[w] = s /\ \A v \in Worker \ {w} : worker'[v] = worker[v]
           /\ s \in {Idle, Exited} => Busy' = Busy \ {w}
           /\ s \notin {Idle, Exited} => Busy' = Busy \cup {w}
           /\ Cardinality(Busy) \in Nat
           /\ Cardinality(Busy \cup {w}) =
                  IF w \in Busy THEN Cardinality(Busy) ELSE Cardinality(Busy) + 1
           /\ Cardinality(Busy \ {w}) =
                  IF w \in Busy THEN Cardinality(Busy) - 1 ELSE Cardinality(Busy)
<1>1. worker'[w] = s /\ \A v \in Worker \ {w} : worker'[v] = worker[v]
  BY DEF TypeOK
<1>2. IsFiniteSet(Busy) /\ Cardinality(Busy) \in Nat
  BY WorkersFinite DEF Busy
<1>3. s \in {Idle, Exited} => Busy' = Busy \ {w}
  BY <1>1 DEF Busy, Fetching
<1>4. s \notin {Idle, Exited} => Busy' = Busy \cup {w}
  BY <1>1 DEF Busy, Fetching
<1>5. Cardinality(Busy \cup {w}) = IF w \in Busy THEN Cardinality(Busy) ELSE Cardinality(Busy) + 1
  BY <1>2, FS_AddElement
<1>6. Cardinality(Busy \ {w}) = IF w \in Busy THEN Cardinality(Busy) - 1 ELSE Cardinality(Busy)
  BY <1>2, FS_RemoveElement
<1> QED
  BY <1>1, <1>2, <1>3, <1>4, <1>5, <1>6

\* An empty queue and no busy worker is what a count of zero means.
LEMMA ZeroIsNothing ==
    ASSUME TypeOK, Counted, unfinished = 0
    PROVE  Busy = {} /\ Len(work) = 0
<1>1. IsFiniteSet(Busy) /\ Cardinality(Busy) \in Nat
  BY WorkersFinite DEF Busy
<1>2. Len(work) \in Nat
  BY DEF TypeOK
<1>3. Cardinality(Busy) = 0 /\ Len(work) = 0
  BY <1>1, <1>2 DEF Counted
<1> QED
  BY <1>1, <1>3, FS_EmptySet

\* join wakes the closer on an exact count of zero only.
LEMMA WokenOnNothing ==
    ASSUME TypeOK', Counted', NEW n, CountTo(n),
           closer \in {"woken", "gather", "end"} =>
               Busy' = {} /\ \A i \in 1 .. Len(work') : ~ IsJob(i)'
    PROVE  NothingLeft'
<1>1. CASE closer' = closer
  BY <1>1 DEF NothingLeft
<1>2. CASE closer' # closer
  <2>1. unfinished' = 0
    BY <1>2 DEF CountTo
  <2>2. IsFiniteSet(Busy') /\ Cardinality(Busy') \in Nat
    <3>1. Busy' \in SUBSET Worker
      BY DEF Busy
    <3> QED
      BY <3>1, WorkersFinite
  <2>3. Len(work') \in Nat
    BY DEF TypeOK
  <2>4. Cardinality(Busy') = 0 /\ Len(work') = 0
    BY <2>1, <2>2, <2>3 DEF Counted
  <2>5. Busy' = {}
    BY <2>2, <2>4, FS_EmptySet
  <2> QED
    BY <2>4, <2>5 DEF NothingLeft
<1> QED
  BY <1>1, <1>2

-----------------------------------------------------------------------------
(* Every action keeps it *)

LEMMA TakeKeeps == ASSUME IInv, NEW w \in Worker, Take(w) PROVE IInv'
<1> DEFINE rest == Tail(work)
<1>1. work \in Seq(Item) /\ work # <<>> /\ TypeOK
  BY DEF IInv, TypeOK, Take, Item
<1>2. /\ Head(work) = work[1] /\ work[1] \in Item /\ Len(work) \in Nat \ {0}
      /\ rest \in Seq(Item) /\ Len(rest) = Len(work) - 1
      /\ \A i \in 1 .. Len(rest) : i + 1 \in 2 .. Len(work) /\ rest[i] = work[i + 1]
  BY <1>1, Dropped
<1>3. /\ work' = rest /\ work[1] # Poison /\ work[1] \in Job /\ worker[w] = Idle
      /\ worker' = [worker EXCEPT ![w] = work[1]]
      /\ UNCHANGED <<unfinished, out, closer, reader, pages, failed, errors>>
  BY <1>2 DEF Take, Item
<1> HIDE DEF rest
<1>4. work[1] \notin {Idle, Exited} /\ reader # "closed" /\ w \notin Busy
  BY <1>3, NoSignals, Distinct DEF IInv, Busy, Fetching
<1>5. /\ worker'[w] = work[1] /\ \A v \in Worker \ {w} : worker'[v] = worker[v]
      /\ Busy' = Busy \cup {w} /\ Cardinality(Busy) \in Nat
      /\ Cardinality(Busy') = Cardinality(Busy) + 1
  BY <1>1, <1>3, <1>4, BusyChanges
<1>6. TypeOK'
  BY <1>1, <1>2, <1>3 DEF TypeOK, Item
<1>7. Counted'
  <2>1. unfinished = Len(work) + Cardinality(Busy)
    BY <1>4 DEF IInv, Counted
  <2>2. Len(work') = Len(work) - 1 /\ Len(work) \in Nat /\ unfinished' = unfinished
    BY <1>2, <1>3
  <2>3. unfinished' = Len(work') + Cardinality(Busy')
    BY <1>5, <2>1, <2>2
  <2> QED
    BY <2>3 DEF Counted
<1>8. OneJobEach'
  <2>1. OneJobEach /\ Busy \subseteq Worker
    BY <1>4 DEF IInv, Busy
  <2>2. \A i, j \in 1 .. Len(work') :
            IsJob(i)' /\ IsJob(j)' /\ i # j => work'[i][1] # work'[j][1]
    BY <1>2, <1>3, <2>1 DEF OneJobEach, IsJob
  <2>3. \A i \in 1 .. Len(work'), v \in Busy' : IsJob(i)' => work'[i][1] # worker'[v][1]
    <3> SUFFICES ASSUME NEW i \in 1 .. Len(work'), NEW v \in Busy', IsJob(i)'
                 PROVE  work'[i][1] # worker'[v][1]
      OBVIOUS
    <3>1. /\ i + 1 \in 1 .. Len(work) /\ i + 1 # 1 /\ 1 \in 1 .. Len(work)
          /\ work'[i] = work[i + 1] /\ IsJob(i + 1) /\ IsJob(1)
      BY <1>2, <1>3 DEF IsJob
    <3>2. CASE v = w
      BY <1>5, <2>1, <3>1, <3>2 DEF OneJobEach
    <3>3. CASE v # w
      <4>1. v \in Busy /\ worker'[v] = worker[v]
        BY <1>5, <2>1, <3>3
      <4> QED
        BY <2>1, <3>1, <4>1 DEF OneJobEach
    <3> QED
      BY <3>2, <3>3
  <2>4. \A u, v \in Busy' : u # v => worker'[u][1] # worker'[v][1]
    <3>1. \A v \in Busy : work[1][1] # worker[v][1]
      BY <1>2, <1>3, <2>1 DEF OneJobEach, IsJob
    <3>2. \A v \in Busy : v # w /\ worker'[v] = worker[v]
      BY <1>4, <1>5, <2>1
    <3>3. \A u, v \in Busy : u # v => worker[u][1] # worker[v][1]
      BY <2>1 DEF OneJobEach
    <3> QED
      BY <1>5, <3>1, <3>2, <3>3
  <2> QED
    BY <2>2, <2>3, <2>4 DEF OneJobEach
<1>9. NothingLeft'
  BY <1>2, <1>3, <1>4 DEF NothingLeft, IInv, IsJob
<1> QED
  BY <1>3, <1>4, <1>6, <1>7, <1>8, <1>9 DEF IInv

\* A fetch that ends, well or not, with the key's next job or without one.
LEMMA FetchEndsKeeps ==
    ASSUME IInv, NEW w \in Worker, Fetching(w), reader' = reader, TypeOK',
           worker' = [worker EXCEPT ![w] = Idle],
           NEW job \in Job, job[1] = worker[w][1],
           \/ work' = work /\ CountTo(unfinished - 1)
           \/ work' = Append(work, job) /\ CountTo(unfinished)
    PROVE  IInv'
<1>1. TypeOK /\ work \in Seq(Item) /\ job \in Item /\ w \in Busy /\ worker[w] # Exited
  BY DEF IInv, TypeOK, Item, Busy, Fetching
<1>2. reader # "closed" /\ Counted /\ OneJobEach /\ NothingLeft
  BY <1>1 DEF IInv
<1>3. /\ \A v \in Worker \ {w} : worker'[v] = worker[v]
      /\ Busy' = Busy \ {w} /\ Cardinality(Busy) \in Nat
      /\ Cardinality(Busy') = Cardinality(Busy) - 1
  BY <1>1, BusyChanges
<1>4. /\ Len(work) \in Nat
      /\ Append(work, job) \in Seq(Item) /\ Len(Append(work, job)) = Len(work) + 1
      /\ \A i \in 1 .. Len(work) + 1 :
             Append(work, job)[i] = IF i = Len(work) + 1 THEN job ELSE work[i]
  BY <1>1, Queued
<1>5. closer \notin {"woken", "gather", "end"}
  BY <1>1, <1>2 DEF NothingLeft
<1>6. Counted'
  <2>1. unfinished = Len(work) + Cardinality(Busy)
    BY <1>2 DEF Counted
  <2>2. unfinished' = Len(work') + Cardinality(Busy')
    BY <1>3, <1>4, <2>1 DEF CountTo
  <2> QED
    BY <2>2 DEF Counted
<1>7. NothingLeft'
  BY <1>5, <1>6, WokenOnNothing
<1>8. \A v \in Busy' : v \in Busy /\ v # w /\ worker'[v] = worker[v]
  BY <1>3 DEF Busy
<1>9. OneJobEach'
  <2>1. CASE work' = work
    BY <1>2, <1>8, <2>1 DEF OneJobEach, IsJob
  <2>2. CASE work' = Append(work, job)
    <3>1. \A i \in 1 .. Len(work) : IsJob(i) => work[i][1] # job[1]
      BY <1>1, <1>2 DEF OneJobEach
    <3>2. \A v \in Busy' : job[1] # worker'[v][1]
      BY <1>1, <1>2, <1>8 DEF OneJobEach
    <3>3. \A i \in 1 .. Len(work') :
              \/ i \in 1 .. Len(work) /\ work'[i] = work[i] /\ (IsJob(i)' => IsJob(i))
              \/ i = Len(work) + 1 /\ work'[i] = job
      BY <1>4, <2>2 DEF IsJob
    <3>4. \A i, j \in 1 .. Len(work') :
              IsJob(i)' /\ IsJob(j)' /\ i # j => work'[i][1] # work'[j][1]
      <4> SUFFICES ASSUME NEW i \in 1 .. Len(work'), NEW j \in 1 .. Len(work'),
                          IsJob(i)', IsJob(j)', i # j
                   PROVE  work'[i][1] # work'[j][1]
        OBVIOUS
      <4>1. CASE i \in 1 .. Len(work) /\ j \in 1 .. Len(work)
        BY <1>2, <1>4, <3>3, <4>1 DEF OneJobEach
      <4>2. CASE i = Len(work) + 1 \/ j = Len(work) + 1
        BY <1>4, <3>1, <3>3, <4>2
      <4> QED
        BY <3>3, <4>1, <4>2
    <3>5. \A i \in 1 .. Len(work'), v \in Busy' : IsJob(i)' => work'[i][1] # worker'[v][1]
      BY <1>2, <1>8, <3>2, <3>3 DEF OneJobEach
    <3>6. \A u, v \in Busy' : u # v => worker'[u][1] # worker'[v][1]
      BY <1>2, <1>8 DEF OneJobEach
    <3> QED
      BY <3>4, <3>5, <3>6 DEF OneJobEach
  <2> QED
    BY <2>1, <2>2
<1> QED
  BY <1>2, <1>6, <1>7, <1>9 DEF IInv

LEMMA FetchedKeeps == ASSUME IInv, NEW w \in Worker, Fetched(w) PROVE IInv'
<1> DEFINE k == worker[w][1]
           p == worker[w][2]
<1>1. TypeOK /\ worker[w] \in Job /\ w \in Busy
  BY DEF IInv, TypeOK, Fetched, Fetching, Busy
<1>2. worker[w] = <<k, p>> /\ k \in Key /\ p \in Page /\ reader # "closed" /\ Counted
  BY <1>1 DEF Job, IInv, Busy, Fetching
<1>3. Fetching(w) /\ worker' = [worker EXCEPT ![w] = Idle]
  BY DEF Fetched
<1>4. LastPage \in Nat /\ (HasNext(k, p) => NextPage(k, p) \in Job)
  BY <1>2, CrawlAssumption DEF CrawlAssumption, HasNext, NextPage, Job, Page
<1>5. \/ ~ HasNext(k, p) /\ work' = work /\ CountTo(unfinished - 1)
      \/ HasNext(k, p) /\ work' = Append(work, NextPage(k, p)) /\ CountTo(unfinished)
  BY DEF Fetched
<1>6. out' \in Seq(Result)
  <2>1. out \in Seq(Result) /\ <<k, p>> \in Result
    BY <1>1, <1>2 DEF TypeOK, Result
  <2>2. out' = out \/ out' = Append(out, <<k, p>>)
    BY DEF Fetched
  <2> QED
    BY <2>1, <2>2
<1>7. UNCHANGED <<reader, pages, failed, errors>>
  BY DEF Fetched
<1> HIDE DEF k, p
<1>8. Cardinality(Busy) \in Nat /\ Cardinality(Busy) # 0 /\ Len(work) \in Nat
  <2>1. IsFiniteSet(Busy) /\ Cardinality(Busy) \in Nat /\ Busy # {}
    BY <1>1, WorkersFinite DEF Busy
  <2> QED
    BY <1>1, <2>1, FS_EmptySet DEF TypeOK
<1>9. unfinished - 1 \in Nat /\ unfinished \in Nat
  BY <1>2, <1>8 DEF Counted
<1>10. TypeOK'
  <2>1. work' \in Seq(Job \cup {Poison})
    BY <1>1, <1>4, <1>5 DEF TypeOK
  <2>2. unfinished' \in Nat /\ closer' \in {"start", "join", "woken", "gather", "end"}
    BY <1>1, <1>5, <1>9 DEF TypeOK, CountTo
  <2>3. worker' \in [Worker -> Job \cup {Idle, Exited}]
    BY <1>1, <1>3 DEF TypeOK
  <2> QED
    BY <1>1, <1>6, <1>7, <2>1, <2>2, <2>3 DEF TypeOK, Result
<1>11. CASE HasNext(k, p)
  <2>1. NextPage(k, p)[1] = worker[w][1]
    BY DEF NextPage, k
  <2> QED
    BY <1>3, <1>4, <1>5, <1>7, <1>10, <1>11, <2>1, FetchEndsKeeps
<1>12. CASE ~ HasNext(k, p)
  BY <1>1, <1>3, <1>5, <1>7, <1>10, <1>12, FetchEndsKeeps
<1> QED
  BY <1>11, <1>12

LEMMA FetchFailedKeeps == ASSUME IInv, NEW w \in Worker, FetchFailed(w) PROVE IInv'
<1>1. TypeOK /\ worker[w] \in Job /\ w \in Busy /\ reader # "closed" /\ Counted
  BY DEF IInv, TypeOK, FetchFailed, Fetching, Busy
<1>2. /\ Fetching(w) /\ worker' = [worker EXCEPT ![w] = Idle]
      /\ work' = work /\ CountTo(unfinished - 1)
      /\ out' = Append(out, <<worker[w][1], Failure>>)
      /\ errors < MaxErrors /\ errors' = errors + 1
      /\ UNCHANGED <<reader, pages, failed>>
  BY DEF FetchFailed
<1>3. Cardinality(Busy) \in Nat /\ Cardinality(Busy) # 0 /\ Len(work) \in Nat
  <2>1. IsFiniteSet(Busy) /\ Cardinality(Busy) \in Nat /\ Busy # {}
    BY <1>1, WorkersFinite DEF Busy
  <2> QED
    BY <1>1, <2>1, FS_EmptySet DEF TypeOK
<1>4. unfinished - 1 \in Nat
  BY <1>1, <1>3 DEF Counted
<1>5. <<worker[w][1], Failure>> \in Result
  BY <1>1 DEF Result, Job
<1>6. out' \in Seq(Result)
  BY <1>1, <1>2, <1>5 DEF TypeOK, Result
<1>7. errors' \in 0 .. MaxErrors
  BY <1>1, <1>2, CrawlAssumption DEF TypeOK, CrawlAssumption
<1>8. TypeOK'
  <2>1. unfinished' \in Nat /\ closer' \in {"start", "join", "woken", "gather", "end"}
    BY <1>1, <1>2, <1>4 DEF TypeOK, CountTo
  <2> QED
    BY <1>1, <1>2, <1>6, <1>7, <2>1 DEF TypeOK, Result
<1> QED
  BY <1>1, <1>2, <1>8, FetchEndsKeeps

LEMMA TakePoisonKeeps == ASSUME IInv, NEW w \in Worker, TakePoison(w) PROVE IInv'
<1> DEFINE rest == Tail(work)
<1>1. work \in Seq(Item) /\ work # <<>> /\ TypeOK
  BY DEF IInv, TypeOK, TakePoison, Item
<1>2. /\ Head(work) = work[1] /\ Len(work) \in Nat \ {0}
      /\ rest \in Seq(Item) /\ Len(rest) = Len(work) - 1
      /\ \A i \in 1 .. Len(rest) : i + 1 \in 2 .. Len(work) /\ rest[i] = work[i + 1]
  BY <1>1, Dropped
<1>3. /\ work' = rest /\ worker[w] = Idle /\ worker' = [worker EXCEPT ![w] = Exited]
      /\ CountTo(unfinished - 1) /\ UNCHANGED <<out, reader, pages, failed, errors>>
  BY DEF TakePoison
<1> HIDE DEF rest
<1>4. reader # "closed" /\ w \notin Busy /\ Counted /\ OneJobEach /\ NothingLeft
  BY <1>3, Distinct DEF IInv, Busy, Fetching
<1>5. /\ \A v \in Worker \ {w} : worker'[v] = worker[v]
      /\ Busy' = Busy \ {w} /\ Cardinality(Busy) \in Nat
      /\ Cardinality(Busy') = Cardinality(Busy)
  <2>1. /\ \A v \in Worker \ {w} : worker'[v] = worker[v]
        /\ Busy' = Busy \ {w} /\ Cardinality(Busy) \in Nat
    BY <1>1, <1>3, BusyChanges
  <2>2. Busy \ {w} = Busy
    BY <1>4
  <2> QED
    BY <2>1, <2>2
<1>6. Busy' = Busy /\ \A v \in Busy : worker'[v] = worker[v]
  <2>1. Busy \subseteq Worker
    BY DEF Busy
  <2> QED
    BY <1>4, <1>5, <2>1
<1>7. Counted'
  <2>1. unfinished = Len(work) + Cardinality(Busy)
    BY <1>4 DEF Counted
  <2>2. Len(work') = Len(work) - 1 /\ Len(work) \in Nat /\ unfinished' = unfinished - 1
    BY <1>2, <1>3 DEF CountTo
  <2>3. unfinished' = Len(work') + Cardinality(Busy')
    BY <1>5, <2>1, <2>2
  <2> QED
    BY <2>3 DEF Counted
<1>8. unfinished' \in Nat /\ closer' \in {"start", "join", "woken", "gather", "end"}
  <2>1. Len(work') \in Nat
    BY <1>2, <1>3
  <2>2. unfinished' \in Nat
    BY <1>5, <1>7, <2>1 DEF Counted
  <2> QED
    BY <1>1, <1>3, <2>2 DEF TypeOK, CountTo
<1>9. TypeOK'
  BY <1>1, <1>2, <1>3, <1>8 DEF TypeOK, Item
<1>10. OneJobEach'
  BY <1>2, <1>3, <1>4, <1>6 DEF OneJobEach, IsJob
<1>11. NothingLeft'
  <2>1. closer \in {"woken", "gather", "end"} =>
            Busy' = {} /\ \A i \in 1 .. Len(work') : ~ IsJob(i)'
    BY <1>2, <1>3, <1>4, <1>6 DEF NothingLeft, IsJob
  <2> QED
    BY <1>3, <1>7, <1>9, <2>1, WokenOnNothing
<1> QED
  BY <1>3, <1>4, <1>7, <1>9, <1>10, <1>11 DEF IInv

\* The closer: join waits or returns, the poison goes to the end of the queue.
LEMMA CloserKeeps == ASSUME IInv, CloserStep PROVE IInv'
<1>1. CASE Join
  <2>1. /\ UNCHANGED <<work, unfinished, worker, out, reader, pages, failed, errors>>
        /\ closer = "start" /\ closer' \in {"woken", "join"}
        /\ closer' = "woken" => unfinished = 0
    BY <1>1 DEF Join
  <2>2. TypeOK /\ TypeOK'
    BY <2>1 DEF IInv, TypeOK
  <2>3. Busy' = Busy
    BY <2>1 DEF Busy, Fetching
  <2>4. ASSUME reader # "closed" PROVE Counted' /\ OneJobEach' /\ NothingLeft'
    <3>1. Counted /\ OneJobEach /\ NothingLeft
      BY <2>4 DEF IInv
    <3>2. closer' = "woken" => Busy = {} /\ Len(work) = 0
      BY <2>1, <2>2, <3>1, ZeroIsNothing
    <3> QED
      BY <2>1, <2>3, <3>1, <3>2 DEF Counted, OneJobEach, NothingLeft, IsJob
  <2> QED
    BY <2>1, <2>2, <2>4 DEF IInv
<1>2. CASE PoisonAll
  <2> DEFINE n == Cardinality(Worker)
             poison == [i \in 1 .. n |-> Poison]
  <2>1. n \in Nat /\ TypeOK /\ work \in Seq(Item)
    BY WorkersFinite DEF IInv, TypeOK, Item
  <2>2. poison \in Seq(Item) /\ Len(poison) = n /\ \A i \in 1 .. n : poison[i] = Poison
    BY <2>1 DEF Item
  <2>3. /\ work' = work \o poison /\ unfinished' = unfinished + n
        /\ closer = "woken" /\ closer' = "gather"
        /\ UNCHANGED <<worker, out, reader, pages, failed, errors>>
    BY <1>2 DEF PoisonAll
  <2> HIDE DEF n, poison
  <2>4. /\ work' \in Seq(Item) /\ Len(work') = Len(work) + n /\ Len(work) \in Nat
        /\ \A i \in 1 .. Len(work) + n :
               work'[i] = IF i <= Len(work) THEN work[i] ELSE poison[i - Len(work)]
    <3>1. Len(work) \in Nat
      BY <2>1
    <3>2. /\ work \o poison \in Seq(Item) /\ Len(work \o poison) = Len(work) + Len(poison)
          /\ \A i \in 1 .. Len(work) + Len(poison) :
                 (work \o poison)[i] = IF i <= Len(work) THEN work[i] ELSE poison[i - Len(work)]
      BY <2>1, <2>2, ConcatProperties
    <3> QED
      BY <2>2, <2>3, <3>1, <3>2
  <2>5. TypeOK'
    BY <2>1, <2>3, <2>4 DEF TypeOK, Item
  <2>6. Busy' = Busy /\ Cardinality(Busy) \in Nat
    BY <2>3, WorkersFinite DEF Busy, Fetching
  <2>7. ASSUME reader # "closed" PROVE Counted' /\ OneJobEach' /\ NothingLeft'
    <3>1. Counted /\ Busy = {} /\ \A i \in 1 .. Len(work) : work[i] = Poison
      BY <2>3, <2>7 DEF IInv, NothingLeft, IsJob
    <3>2. \A i \in 1 .. Len(work') : work'[i] = Poison
      BY <2>1, <2>2, <2>4, <3>1
    <3>3. OneJobEach' /\ NothingLeft'
      BY <2>6, <3>1, <3>2 DEF OneJobEach, NothingLeft, IsJob
    <3>4. unfinished' = Len(work') + Cardinality(Busy')
      <4>1. unfinished = Len(work) + Cardinality(Busy)
        BY <3>1 DEF Counted
      <4> QED
        BY <2>1, <2>3, <2>4, <2>6, <4>1
    <3> QED
      BY <3>3, <3>4 DEF Counted
  <2> QED
    BY <2>3, <2>5, <2>7 DEF IInv
<1>3. CASE Gather
  <2>1. /\ UNCHANGED <<work, unfinished, worker, reader, pages, failed, errors>>
        /\ closer = "gather" /\ closer' = "end" /\ out' = Append(out, Done)
    BY <1>3 DEF Gather
  <2>2. Busy' = Busy
    BY <2>1 DEF Busy, Fetching
  <2>3. out' \in Seq(Result)
    BY <2>1 DEF IInv, TypeOK, Result
  <2>4. TypeOK'
    BY <2>1, <2>3 DEF IInv, TypeOK, Result
  <2>5. ASSUME reader # "closed" PROVE Counted' /\ OneJobEach' /\ NothingLeft'
    BY <2>1, <2>2, <2>5 DEF IInv, Counted, OneJobEach, NothingLeft, IsJob
  <2> QED
    BY <2>1, <2>4, <2>5 DEF IInv
<1> QED
  BY <1>1, <1>2, <1>3 DEF CloserStep

\* What the reader takes is a page, a failure or the end.
LEMMA ReadKeeps == ASSUME IInv, Read PROVE IInv'
<1>1. TypeOK /\ out \in Seq(Result) /\ out # <<>>
  BY DEF IInv, TypeOK, Result, Read
<1>2. Head(out) \in Result /\ Tail(out) \in Seq(Result)
  BY <1>1
<1>3. UNCHANGED <<work, unfinished, worker, closer, errors>> /\ out' = Tail(out)
      /\ reader = "get"
  BY DEF Read
<1>4. pages' \in Seq(Job) /\ failed' \subseteq Key /\ reader' \in {"get", "end"}
  <2>1. CASE Head(out) = Done
    BY <1>1, <1>3, <2>1 DEF Read, TypeOK
  <2>2. CASE Head(out) # Done /\ Head(out)[2] = Failure
    <3>1. Head(out)[1] \in Key
      BY <1>2, <2>2, NoSignals DEF Result
    <3> QED
      BY <1>1, <1>3, <2>2, <3>1 DEF Read, TypeOK
  <2>3. CASE Head(out) # Done /\ Head(out)[2] # Failure
    <3>1. Head(out) \in Job
      BY <1>2, <2>3 DEF Result
    <3>2. pages' = Append(pages, Head(out)) /\ UNCHANGED <<failed, reader>>
      BY <2>3 DEF Read
    <3> QED
      BY <1>1, <1>3, <3>1, <3>2 DEF TypeOK
  <2> QED
    BY <2>1, <2>2, <2>3
<1>5. TypeOK'
  BY <1>1, <1>2, <1>3, <1>4 DEF TypeOK, Result
<1>6. Busy' = Busy
  BY <1>3 DEF Busy, Fetching
<1>7. Counted' /\ OneJobEach' /\ NothingLeft'
  BY <1>3, <1>6 DEF IInv, Counted, OneJobEach, NothingLeft, IsJob
<1> QED
  BY <1>4, <1>5, <1>7 DEF IInv

LEMMA StopKeeps == ASSUME IInv, Stop PROVE IInv'
<1>1. out \in Seq(Result) /\ out # <<>>
  BY DEF IInv, TypeOK, Result, Stop
<1>2. Tail(out) \in Seq(Result)
  BY <1>1
<1>3. TypeOK'
  BY <1>2 DEF IInv, TypeOK, Stop, Result
<1>4. Busy' = Busy
  BY DEF Stop, Busy, Fetching
<1>5. Counted' /\ OneJobEach' /\ NothingLeft'
  BY <1>4 DEF Stop, IInv, Counted, OneJobEach, NothingLeft, IsJob
<1> QED
  BY <1>3, <1>5 DEF IInv, Stop

LEMMA CloseKeeps == ASSUME IInv, Close PROVE IInv'
<1>1. TypeOK'
  BY DEF IInv, TypeOK, Close
<1> QED
  BY <1>1 DEF IInv, Close

LEMMA InvStep == IInv /\ [Next]_vars => IInv'
<1> SUFFICES ASSUME IInv, [Next]_vars PROVE IInv'
  OBVIOUS
<1>1. CASE UNCHANGED vars
  BY <1>1 DEF IInv, TypeOK, Counted, OneJobEach, NothingLeft, IsJob, Busy, Fetching, vars
<1>2. CASE \E w \in Worker : WorkerStep(w)
  BY <1>2, TakeKeeps, FetchedKeeps, FetchFailedKeeps, TakePoisonKeeps DEF WorkerStep
<1>3. CASE CloserStep
  BY <1>3, CloserKeeps
<1>4. CASE Read
  BY <1>4, ReadKeeps
<1>5. CASE Stop
  BY <1>5, StopKeeps
<1>6. CASE Close
  BY <1>6, CloseKeeps
<1> QED
  BY <1>1, <1>2, <1>3, <1>4, <1>5, <1>6 DEF Next

\* The inductive invariant holds in every behaviour of the pool.
THEOREM Invariant == Spec => []IInv
<1> QED
  BY InvInit, InvStep, PTL DEF Spec

-----------------------------------------------------------------------------
(* The results *)

\* The types of the queue, the workers and the results: stream_match_ids.
THEOREM TypeCorrect == Spec => []TypeOK
<1>1. IInv => TypeOK
  BY DEF IInv
<1> QED
  BY <1>1, Invariant, PTL

\* The jobs of different keys are different jobs: as many as there are keys.
LEMMA InvCountsJobs == IInv => JobsCounted
<1> SUFFICES ASSUME IInv, reader # "closed" PROVE JobsCounted
  BY DEF JobsCounted
<1> DEFINE queued == ToSet(work) \ {Poison}
           flying == {worker[w] : w \in {v \in Worker : Fetching(v)}}
           jobs == queued \cup flying
           keys == {j[1] : j \in jobs}
<1>1. Counted /\ OneJobEach /\ TypeOK
  BY DEF IInv
<1>2. \A j \in queued : \E i \in 1 .. Len(work) : IsJob(i) /\ work[i] = j
  BY <1>1 DEF ToSet, IsJob, TypeOK
<1>3. \A j \in flying : \E w \in Busy : worker[w] = j
  BY DEF Busy
<1>4. ASSUME NEW j \in queued, NEW l \in flying PROVE j[1] # l[1]
  <2>1. PICK i \in 1 .. Len(work) : IsJob(i) /\ work[i] = j
    BY <1>2
  <2>2. PICK w \in Busy : worker[w] = l
    BY <1>3
  <2>3. work[i][1] # worker[w][1]
    BY <1>1, <2>1 DEF OneJobEach
  <2> QED
    BY <2>1, <2>2, <2>3
<1>5. \A j, l \in queued : j[1] = l[1] => j = l
  BY <1>1, <1>2 DEF OneJobEach
<1>6. \A j, l \in flying : j[1] = l[1] => j = l
  <2> SUFFICES ASSUME NEW j \in flying, NEW l \in flying, j[1] = l[1] PROVE j = l
    OBVIOUS
  <2>1. PICK v \in Busy : worker[v] = j
    BY <1>3
  <2>2. PICK w \in Busy : worker[w] = l
    BY <1>3
  <2> QED
    BY <1>1, <2>1, <2>2 DEF OneJobEach
<1>7. IsFiniteSet(jobs)
  <2>1. IsFiniteSet(ToSet(work))
    <3>1. Len(work) \in Nat /\ DOMAIN work = 1 .. Len(work)
      BY <1>1 DEF TypeOK
    <3>2. IsFiniteSet(1 .. Len(work))
      BY <3>1, FS_Interval
    <3>3. [i \in 1 .. Len(work) |-> work[i]] \in Surjection(1 .. Len(work), ToSet(work))
      BY <3>1 DEF Surjection, ToSet
    <3> QED
      BY <3>2, <3>3, FS_Surjection
  <2>2. IsFiniteSet(queued)
    BY <2>1, FS_RemoveElement
  <2>3. IsFiniteSet(flying)
    <3>1. IsFiniteSet(Busy)
      BY WorkersFinite DEF Busy
    <3>2. [w \in Busy |-> worker[w]] \in Surjection(Busy, flying)
      BY DEF Surjection, Busy
    <3> QED
      BY <3>1, <3>2, FS_Surjection
  <2> QED
    BY <2>2, <2>3, FS_Union
<1> HIDE DEF queued, flying
<1>8. \A j, l \in jobs : j[1] = l[1] => j = l
  BY <1>4, <1>5, <1>6
<1>9. [j \in jobs |-> j[1]] \in Bijection(jobs, keys)
  BY <1>8 DEF Bijection, Injection, Surjection, IsInjective
<1>10. Cardinality(keys) = Cardinality(jobs)
  BY <1>7, <1>9, FS_Bijection DEF ExistsBijection
<1>11. queued \cap flying = {}
  BY <1>4
<1>12. Cardinality(queued \cup flying) = Cardinality({j[1] : j \in queued \cup flying})
  BY <1>10
<1>13. unfinished = Len(work) + Cardinality({w \in Worker : Fetching(w)})
  BY <1>1 DEF Counted, Busy
<1> QED
  BY <1>11, <1>12, <1>13 DEF JobsCounted, queued, flying

\* The count that join waits for is exact, and a key never has two jobs, in
\* whatever order the workers finish: stream_match_ids.
THEOREM JobsAreCounted == Spec => []JobsCounted
<1> QED
  BY InvCountsJobs, Invariant, PTL

\* When the closer has been woken, and the pool was not cancelled, every job is done:
\* no page is left behind in the queue or with a worker.
NoJobLeftBehind ==
    closer \in {"woken", "gather", "end"} /\ reader # "closed" =>
        /\ \A w \in Worker : ~ Fetching(w)
        /\ \A i \in 1 .. Len(work) : work[i] = Poison

\* The closer cannot overtake a worker that is about to queue a next page.
THEOREM CloserWaitsForTheJobs == Spec => []NoJobLeftBehind
<1>1. IInv => NoJobLeftBehind
  BY DEF IInv, NothingLeft, NoJobLeftBehind, Busy, IsJob
<1> QED
  BY <1>1, Invariant, PTL

-----------------------------------------------------------------------------
(* The order of the pages *)

\* The jobs queued or in flight, the pages handed on, and the keys that failed.
Queuing(j) == \E i \in 1 .. Len(work) : work[i] = j
Flying(j) == \E w \in Busy : worker[w] = j
Pending == {j \in Job : Queuing(j) \/ Flying(j)}

Yielded(r) == \E i \in 1 .. Len(pages) : pages[i] = r
Coming(r) == \E i \in 1 .. Len(out) : out[i] = r
Given == {j \in Job : Yielded(j) \/ Coming(j)}
Failing == {k \in Key : k \in failed \/ Coming(<<k, Failure>>)}

\* Of every key, the pages before a pending job's have been handed on, and its own
\* has not.
JobIsNext ==
    \A j \in Pending : j \notin Given /\ \A p \in 0 .. j[2] - 1 : <<j[1], p>> \in Given

\* A key that neither failed nor has a job has handed on all that there was.
Complete ==
    \A k \in Key \ Failing :
        \/ \E j \in Pending : j[1] = k
        \/ \A p \in Expected(k) : <<k, p>> \in Given

NoneEmpty == \A j \in Given : j[2] \in Expected(j[1])

\* The results that wait are in order too, and none of them has been yielded.
ResultsInOrder ==
    \A i \in 1 .. Len(out) : out[i] \in Job =>
        /\ ~ Yielded(out[i])
        /\ \A j \in 1 .. i - 1 : out[j] # out[i]
        /\ \A p \in 0 .. out[i][2] - 1 :
               \/ Yielded(<<out[i][1], p>>)
               \/ \E j \in 1 .. i - 1 : out[j] = <<out[i][1], p>>

\* Done is the last result, and only a closer that has gathered the pool puts it.
DoneIsLast ==
    /\ \A i \in 1 .. Len(out) : out[i] = Done => i = Len(out) /\ closer = "end"
    /\ reader = "end" => out = <<>> /\ closer = "end"

Flow == JobIsNext /\ Complete /\ NoneEmpty

\* Once the caller has stopped, no page is yielded any more.
Reading == reader \notin {"stopped", "closed"}

OrderInv ==
    /\ IInv /\ PagesInOrder
    /\ Reading => Flow /\ ResultsInOrder /\ DoneIsLast

\* What is in a sequence without its head, or with one more element.
LEMMA AfterHead ==
    ASSUME NEW S, NEW s \in Seq(S), s # <<>>
    PROVE  /\ Head(s) = s[1] /\ Head(s) \in S /\ Len(s) \in Nat \ {0}
           /\ Len(Tail(s)) = Len(s) - 1
           /\ \A i \in 1 .. Len(Tail(s)) : i + 1 \in 2 .. Len(s) /\ Tail(s)[i] = s[i + 1]
           /\ \A x : (\E i \in 1 .. Len(s) : s[i] = x)
                     <=> (x = Head(s) \/ \E i \in 1 .. Len(Tail(s)) : Tail(s)[i] = x)
<1>1. Len(s) \in Nat \ {0}
  BY EmptySeq
<1>2. /\ Head(s) = s[1] /\ Head(s) \in S /\ Len(Tail(s)) = Len(s) - 1
      /\ \A i \in 1 .. Len(Tail(s)) : i + 1 \in 2 .. Len(s) /\ Tail(s)[i] = s[i + 1]
  BY <1>1
<1>3. ASSUME NEW x
      PROVE  (\E i \in 1 .. Len(s) : s[i] = x)
             <=> (x = Head(s) \/ \E i \in 1 .. Len(Tail(s)) : Tail(s)[i] = x)
  <2>1. ASSUME NEW i \in 1 .. Len(s), s[i] = x, x # Head(s)
        PROVE  i - 1 \in 1 .. Len(Tail(s)) /\ Tail(s)[i - 1] = x
    BY <1>1, <1>2, <2>1
  <2>2. ASSUME s[1] = x \/ \E i \in 1 .. Len(Tail(s)) : Tail(s)[i] = x
        PROVE  \E i \in 1 .. Len(s) : s[i] = x
    <3>1. 1 \in 1 .. Len(s) /\ \A i \in 1 .. Len(Tail(s)) : i + 1 \in 1 .. Len(s)
      BY <1>1, <1>2
    <3> QED
      BY <1>2, <2>2, <3>1
  <2> QED
    BY <1>2, <2>1, <2>2
<1> QED
  BY <1>1, <1>2, <1>3

LEMMA AtTheEnd ==
    ASSUME NEW S, NEW s \in Seq(S), NEW e \in S
    PROVE  /\ Len(s) \in Nat /\ Len(Append(s, e)) = Len(s) + 1
           /\ \A i \in 1 .. Len(s) + 1 :
                  Append(s, e)[i] = IF i = Len(s) + 1 THEN e ELSE s[i]
           /\ \A x : (\E i \in 1 .. Len(Append(s, e)) : Append(s, e)[i] = x)
                     <=> (x = e \/ \E i \in 1 .. Len(s) : s[i] = x)
<1>1. /\ Len(s) \in Nat /\ Len(Append(s, e)) = Len(s) + 1
      /\ \A i \in 1 .. Len(s) + 1 : Append(s, e)[i] = IF i = Len(s) + 1 THEN e ELSE s[i]
  OBVIOUS
<1>2. \A i \in 1 .. Len(s) : i \in 1 .. Len(s) + 1 /\ i # Len(s) + 1
  BY <1>1
<1>3. Len(s) + 1 \in 1 .. Len(s) + 1
  BY <1>1
<1>4. \A i \in 1 .. Len(s) + 1 : i = Len(s) + 1 \/ i \in 1 .. Len(s)
  BY <1>1
<1> QED
  BY <1>1, <1>2, <1>3, <1>4

\* A job that is queued or in flight is there once.
LEMMA PendingOnce ==
    ASSUME TypeOK, OneJobEach
    PROVE  /\ \A i, l \in 1 .. Len(work) : IsJob(i) /\ work[i] = work[l] => i = l
           /\ \A w \in Busy, i \in 1 .. Len(work) : work[i] # worker[w]
           /\ \A v, w \in Busy : worker[v] = worker[w] => v = w
<1>1. ASSUME NEW w \in Busy, NEW i \in 1 .. Len(work) PROVE work[i] # worker[w]
  <2>1. worker[w] # Poison
    BY NoSignals DEF TypeOK, Busy, Fetching
  <2> QED
    BY <2>1 DEF OneJobEach, IsJob
<1> QED
  BY <1>1 DEF OneJobEach, IsJob

LEMMA TakeMoves == ASSUME IInv, NEW w \in Worker, Take(w) PROVE Pending' = Pending
<1>1. TypeOK /\ work \in Seq(Item) /\ work # <<>>
  BY DEF IInv, TypeOK, Take, Item
<1>2. \A x : (\E i \in 1 .. Len(work) : work[i] = x)
             <=> (x = Head(work) \/ \E i \in 1 .. Len(work') : work'[i] = x)
  <2>1. \A x : (\E i \in 1 .. Len(work) : work[i] = x)
               <=> (x = Head(work) \/ \E i \in 1 .. Len(Tail(work)) : Tail(work)[i] = x)
    BY <1>1, AfterHead, Zenon
  <2>2. work' = Tail(work)
    BY DEF Take
  <2> QED
    BY <2>1, <2>2, Zenon
<1>3. Head(work) \in Job /\ Head(work) \notin {Idle, Exited}
  BY <1>1, AfterHead, NoSignals DEF Take, Item
<1>4. worker[w] = Idle /\ worker' = [worker EXCEPT ![w] = Head(work)]
  BY DEF Take
<1>5. /\ worker'[w] = Head(work) /\ \A v \in Worker \ {w} : worker'[v] = worker[v]
      /\ Busy' = Busy \cup {w}
  BY <1>1, <1>3, <1>4, BusyChanges
<1>6. w \notin Busy /\ Busy \subseteq Worker
  BY <1>4 DEF Busy, Fetching
<1>7. ASSUME NEW j PROVE Queuing(j)' <=> \E i \in 1 .. Len(work') : work'[i] = j
  BY DEF Queuing
<1>8. ASSUME NEW j PROVE Flying(j)' <=> Flying(j) \/ j = Head(work)
  BY <1>5, <1>6 DEF Flying
<1>9. ASSUME NEW j PROVE Queuing(j) \/ Flying(j) <=> Queuing(j)' \/ Flying(j)'
  BY <1>2, <1>7, <1>8 DEF Queuing
<1> QED
  BY <1>9 DEF Pending

\* A fetch that ends takes its job away, and may queue another.
LEMMA FetchMoves ==
    ASSUME IInv, NEW w \in Worker, Fetching(w), worker' = [worker EXCEPT ![w] = Idle]
    PROVE  /\ worker[w] \in Pending /\ worker[w] \in Job
           /\ work' = work => Pending' = Pending \ {worker[w]}
           /\ \A job \in Job \ {worker[w]} :
                  work' = Append(work, job) => Pending' = (Pending \ {worker[w]}) \cup {job}
<1>1. TypeOK /\ work \in Seq(Item) /\ Job \subseteq Item /\ w \in Busy /\ OneJobEach
  BY DEF IInv, TypeOK, Item, Busy, Fetching
<1>2. worker[w] \in Job /\ worker[w] \in Pending
  BY <1>1 DEF TypeOK, Busy, Fetching, Pending, Flying
<1>3. /\ \A v \in Worker \ {w} : worker'[v] = worker[v]
      /\ Busy' = Busy \ {w} /\ Busy \subseteq Worker
  BY <1>1, BusyChanges DEF Busy
<1>4. ASSUME NEW j PROVE Flying(j)' <=> Flying(j) /\ j # worker[w]
  BY <1>1, <1>3, PendingOnce DEF Flying
<1>5. ~ Queuing(worker[w])
  BY <1>1, PendingOnce DEF Queuing
<1>6. ASSUME work' = work PROVE Pending' = Pending \ {worker[w]}
  <2>1. ASSUME NEW j PROVE Queuing(j)' <=> Queuing(j)
    BY <1>6 DEF Queuing
  <2>2. ASSUME NEW j
        PROVE  (Queuing(j) \/ Flying(j))' <=> (Queuing(j) \/ Flying(j)) /\ j # worker[w]
    BY <1>4, <1>5, <2>1
  <2> QED
    BY <2>2 DEF Pending
<1>7. ASSUME NEW job \in Job \ {worker[w]}, work' = Append(work, job)
      PROVE  Pending' = (Pending \ {worker[w]}) \cup {job}
  <2>1. ASSUME NEW j PROVE Queuing(j)' <=> j = job \/ Queuing(j)
    BY <1>1, <1>7, AtTheEnd DEF Queuing
  <2>2. ASSUME NEW j
        PROVE  (Queuing(j) \/ Flying(j))'
               <=> ((Queuing(j) \/ Flying(j)) /\ j # worker[w]) \/ j = job
    BY <1>4, <1>5, <2>1
  <2> QED
    BY <2>2 DEF Pending
<1> QED
  BY <1>2, <1>6, <1>7

-----------------------------------------------------------------------------
(* What the results do *)

LEMMA ResultTypes ==
    ASSUME TypeOK
    PROVE  /\ out \in Seq(Result) /\ pages \in Seq(Job) /\ Len(out) \in Nat /\ Len(pages) \in Nat
           /\ \A i \in 1 .. Len(out) : out[i] \in Result
           /\ \A i \in 1 .. Len(pages) : pages[i] \in Job
<1>1. out \in Seq(Result) /\ pages \in Seq(Job)
  BY DEF TypeOK, Result
<1> QED
  BY <1>1

\* A page is a natural number, and a job its key and its page.
LEMMA JobParts ==
    /\ LastPage \in Nat /\ Page \subseteq Nat
    /\ \A j \in Job : j = <<j[1], j[2]>> /\ j[1] \in Key /\ j[2] \in Page
    /\ \A k \in Key, p \in Page : <<k, p>> \in Job
    /\ \A j \in Job : \A p \in 0 .. j[2] - 1 : p \in Page /\ <<j[1], p>> \in Job
    /\ \A j \in Job, k \in Key : j # <<k, Failure>>
    /\ Done \notin Job /\ \A k \in Key : Done # <<k, Failure>>
<1>1. LastPage \in Nat /\ Page \subseteq Nat /\ Failure \notin Nat
  BY CrawlAssumption DEF CrawlAssumption, Page
<1>2. \A j \in Job : j = <<j[1], j[2]>> /\ j[1] \in Key /\ j[2] \in Page
  BY DEF Job
<1>3. ASSUME NEW j \in Job, NEW p \in 0 .. j[2] - 1 PROVE p \in Page
  BY <1>1, <1>2 DEF Page
<1>4. \A k \in Key : <<k, Failure>> \in Key \X (Nat \cup {Failure})
  OBVIOUS
<1>5. \A j \in Job, k \in Key : j # <<k, Failure>>
  BY <1>1, <1>2
<1>6. Done \notin Job /\ \A k \in Key : Done # <<k, Failure>>
  BY <1>4, NoSignals
<1> QED
  BY <1>1, <1>2, <1>3, <1>5, <1>6 DEF Job

\* A page that has been handed on has those before it handed on.
LEMMA GivenIsClosed ==
    ASSUME TypeOK, PagesInOrder, ResultsInOrder, NEW j \in Given, NEW p \in 0 .. j[2] - 1
    PROVE  <<j[1], p>> \in Given
<1>1. j \in Job /\ <<j[1], p>> \in Job
  BY JobParts DEF Given
<1>2. CASE Yielded(j)
  <2>1. PICK i \in 1 .. Len(pages) : pages[i] = j
    BY <1>2 DEF Yielded
  <2>2. PICK l \in 1 .. i - 1 : pages[l] = <<j[1], p>>
    BY <2>1 DEF PagesInOrder
  <2>3. l \in 1 .. Len(pages)
    BY ResultTypes
  <2> QED
    BY <1>1, <2>2, <2>3 DEF Given, Yielded
<1>3. CASE Coming(j)
  <2>1. PICK i \in 1 .. Len(out) : out[i] = j
    BY <1>3 DEF Coming
  <2>2. Yielded(<<j[1], p>>) \/ \E l \in 1 .. i - 1 : out[l] = <<j[1], p>>
    BY <1>1, <2>1 DEF ResultsInOrder
  <2>3. \A l \in 1 .. i - 1 : l \in 1 .. Len(out)
    BY ResultTypes
  <2> QED
    BY <1>1, <2>2, <2>3 DEF Given, Coming
<1> QED
  BY <1>2, <1>3 DEF Given

\* A result is put at the end, after the pages before its own.
LEMMA ResultAdded ==
    ASSUME TypeOK, ResultsInOrder, NEW r \in Result, out' = Append(out, r), pages' = pages,
           r \in Job => r \notin Given /\ \A p \in 0 .. r[2] - 1 : <<r[1], p>> \in Given
    PROVE  /\ ResultsInOrder'
           /\ \A x : Coming(x)' <=> (x = r \/ Coming(x))
           /\ \A x : Yielded(x)' <=> Yielded(x)
<1>1. /\ Len(out) \in Nat /\ Len(out') = Len(out) + 1
      /\ \A i \in 1 .. Len(out) + 1 : out'[i] = IF i = Len(out) + 1 THEN r ELSE out[i]
      /\ \A x : (\E i \in 1 .. Len(out') : out'[i] = x)
                <=> (x = r \/ \E i \in 1 .. Len(out) : out[i] = x)
  <2>1. out \in Seq(Result)
    BY ResultTypes
  <2>2. /\ Len(out) \in Nat /\ Len(Append(out, r)) = Len(out) + 1
        /\ \A i \in 1 .. Len(out) + 1 :
               Append(out, r)[i] = IF i = Len(out) + 1 THEN r ELSE out[i]
        /\ \A x : (\E i \in 1 .. Len(Append(out, r)) : Append(out, r)[i] = x)
                  <=> (x = r \/ \E i \in 1 .. Len(out) : out[i] = x)
    BY <2>1, AtTheEnd
  <2> QED
    BY <2>2, Zenon
<1>2. \A x : Coming(x)' <=> (x = r \/ Coming(x))
  BY <1>1 DEF Coming
<1>3. \A x : Yielded(x)' <=> Yielded(x)
  BY DEF Yielded
<1>4. ASSUME NEW i \in 1 .. Len(out'), out'[i] \in Job
      PROVE  /\ ~ Yielded(out'[i])
             /\ \A j \in 1 .. i - 1 : out'[j] # out'[i]
             /\ \A p \in 0 .. out'[i][2] - 1 :
                    \/ Yielded(<<out'[i][1], p>>)
                    \/ \E j \in 1 .. i - 1 : out'[j] = <<out'[i][1], p>>
  <2>0. \A j \in 1 .. i - 1 : j \in 1 .. Len(out) /\ out'[j] = out[j]
    BY <1>1
  <2>1. CASE i = Len(out) + 1
    <3>1. out'[i] = r /\ r \in Job /\ r \notin Given
      BY <1>1, <1>4, <2>1
    <3>2. ~ Yielded(r) /\ ~ Coming(r)
      BY <3>1 DEF Given
    <3>3. ~ Yielded(out'[i])
      BY <3>1, <3>2
    <3>4. \A j \in 1 .. i - 1 : out'[j] # out'[i]
      BY <2>0, <3>1, <3>2 DEF Coming
    <3>5. ASSUME NEW p \in 0 .. r[2] - 1
          PROVE  Yielded(<<r[1], p>>) \/ \E j \in 1 .. i - 1 : out'[j] = <<r[1], p>>
      <4>1. Yielded(<<r[1], p>>) \/ Coming(<<r[1], p>>)
        BY <3>1 DEF Given
      <4>2. CASE Coming(<<r[1], p>>)
        <5>1. PICK j \in 1 .. Len(out) : out[j] = <<r[1], p>>
          BY <4>2 DEF Coming
        <5>2. j \in 1 .. i - 1
          BY <1>1, <2>1
        <5> QED
          BY <2>0, <5>1, <5>2
      <4> QED
        BY <4>1, <4>2
    <3> QED
      BY <3>1, <3>3, <3>4, <3>5
  <2>2. CASE i # Len(out) + 1
    <3>1. i \in 1 .. Len(out) /\ out'[i] = out[i]
      BY <1>1, <2>2
    <3>2. /\ ~ Yielded(out[i])
          /\ \A j \in 1 .. i - 1 : out[j] # out[i]
          /\ \A p \in 0 .. out[i][2] - 1 :
                 \/ Yielded(<<out[i][1], p>>)
                 \/ \E j \in 1 .. i - 1 : out[j] = <<out[i][1], p>>
      BY <1>4, <3>1 DEF ResultsInOrder
    <3> QED
      BY <2>0, <3>1, <3>2
  <2> QED
    BY <2>1, <2>2
<1>5. ResultsInOrder'
  <2>1. ASSUME NEW i \in 1 .. Len(out'), out'[i] \in Job
        PROVE  /\ ~ \E l \in 1 .. Len(pages') : pages'[l] = out'[i]
               /\ \A j \in 1 .. i - 1 : out'[j] # out'[i]
               /\ \A p \in 0 .. out'[i][2] - 1 :
                      \/ \E l \in 1 .. Len(pages') : pages'[l] = <<out'[i][1], p>>
                      \/ \E j \in 1 .. i - 1 : out'[j] = <<out'[i][1], p>>
    <3>1. /\ ~ Yielded(out'[i])
          /\ \A j \in 1 .. i - 1 : out'[j] # out'[i]
          /\ \A p \in 0 .. out'[i][2] - 1 :
                 \/ Yielded(<<out'[i][1], p>>)
                 \/ \E j \in 1 .. i - 1 : out'[j] = <<out'[i][1], p>>
      BY <1>4, <2>1
    <3>2. \A x : Yielded(x) <=> \E l \in 1 .. Len(pages') : pages'[l] = x
      BY DEF Yielded
    <3> QED
      BY <3>1, <3>2
  <2> QED
    BY <2>1, Zenon DEF ResultsInOrder, Yielded
<1> QED
  BY <1>2, <1>3, <1>5

\* Done is the last result as long as the closer has more to do.
LEMMA NoDoneYet ==
    ASSUME TypeOK, DoneIsLast, closer # "end", NEW r \in Result, r # Done, reader' = reader,
           out' = out \/ out' = Append(out, r)
    PROVE  DoneIsLast'
<1>1. (\A i \in 1 .. Len(out) : out[i] # Done) /\ reader # "end"
  BY DEF DoneIsLast
<1>2. \A i \in 1 .. Len(out') : out'[i] # Done
  <2>1. CASE out' = out
    BY <1>1, <2>1
  <2>2. CASE out' = Append(out, r)
    BY <1>1, <2>2, ResultTypes
  <2> QED
    BY <2>1, <2>2
<1> QED
  BY <1>1, <1>2 DEF DoneIsLast

LEMMA SamePages == ASSUME PagesInOrder, pages' = pages PROVE PagesInOrder'
<1>1. PagesInOrder' <=> PagesInOrder
  BY DEF PagesInOrder
<1> QED
  BY <1>1

\* Nothing moves in the results.
LEMMA SameResults ==
    ASSUME out' = out, pages' = pages, failed' = failed
    PROVE  /\ Given' = Given /\ Failing' = Failing
           /\ PagesInOrder => PagesInOrder'
           /\ ResultsInOrder => ResultsInOrder'
<1>1. Given' = Given
  BY DEF Given, Yielded, Coming
<1>2. Failing' = Failing
  BY DEF Failing, Coming
<1>3. PagesInOrder => PagesInOrder'
  BY SamePages
<1>4. ResultsInOrder' <=> ResultsInOrder
  BY DEF ResultsInOrder, Yielded
<1> QED
  BY <1>1, <1>2, <1>3, <1>4

LEMMA SameFlow ==
    ASSUME Flow, Pending' = Pending, Given' = Given, Failing' = Failing
    PROVE  Flow'
<1>1. JobIsNext'
  BY DEF Flow, JobIsNext
<1>2. Complete'
  BY DEF Flow, Complete, Expected
<1>3. NoneEmpty'
  BY DEF Flow, NoneEmpty, Expected
<1> QED
  BY <1>1, <1>2, <1>3 DEF Flow

LEMMA OrderInit == Init => OrderInv
<1> SUFFICES ASSUME Init PROVE OrderInv
  OBVIOUS
<1>1. out = <<>> /\ pages = <<>> /\ failed = {} /\ reader = "get" /\ closer = "start"
  BY DEF Init
<1>2. Given = {} /\ Failing = {}
  BY <1>1 DEF Given, Failing, Yielded, Coming
<1>3. Busy = {}
  BY DEF Busy, Fetching, Init
<1>4. \A j \in Pending : j \in FirstJobs
  BY <1>3, InitialWork DEF Pending, Queuing, Flying
<1>5. JobIsNext
  BY <1>2, <1>4 DEF JobIsNext, FirstJobs
<1>6. \A k \in Key : <<k, 0>> \in Pending
  <2>1. \A k \in Key : <<k, 0>> \in FirstJobs
    BY DEF FirstJobs
  <2>2. \A j \in FirstJobs : j \in Job /\ \E i \in 1 .. Len(work) : work[i] = j
    BY InitialWork, FirstJobsCounted
  <2> QED
    BY <2>1, <2>2 DEF Pending, Queuing
<1>7. Complete
  BY <1>6 DEF Complete
<1>8. NoneEmpty /\ PagesInOrder /\ ResultsInOrder /\ DoneIsLast
  BY <1>1, <1>2 DEF NoneEmpty, PagesInOrder, ResultsInOrder, DoneIsLast
<1> QED
  BY <1>5, <1>7, <1>8, InvInit DEF OrderInv, Flow

\* Where a step only moves jobs among the queue and the workers.
LEMMA SameOrder ==
    ASSUME OrderInv, IInv', Pending' = Pending, UNCHANGED <<out, pages, failed, reader>>,
           closer = "end" => closer' = "end"
    PROVE  OrderInv'
<1>1. PagesInOrder'
  BY SameResults DEF OrderInv
<1>2. ASSUME Reading PROVE Flow' /\ ResultsInOrder' /\ DoneIsLast'
  <2>1. Flow /\ ResultsInOrder /\ DoneIsLast
    BY <1>2 DEF OrderInv
  <2>2. DoneIsLast'
    BY <2>1 DEF DoneIsLast
  <2> QED
    BY <2>1, <2>2, SameResults, SameFlow
<1>3. Reading' <=> Reading
  BY DEF Reading
<1> QED
  BY <1>1, <1>2, <1>3 DEF OrderInv

LEMMA FetchedOrder == ASSUME OrderInv, Reading, NEW w \in Worker, Fetched(w) PROVE OrderInv'
<1> DEFINE k == worker[w][1]
           p == worker[w][2]
           r == worker[w]
           next == NextPage(k, p)
<1>1. IInv /\ TypeOK /\ r \in Job /\ w \in Busy /\ Reading /\ closer # "end"
  BY DEF OrderInv, IInv, TypeOK, Fetched, Fetching, Busy, NothingLeft
<1>2. r = <<k, p>> /\ k \in Key /\ p \in Page /\ p \in Nat /\ r \in Result /\ r # Done
  BY <1>1, JobParts DEF Result
<1>3. Flow /\ ResultsInOrder /\ DoneIsLast /\ PagesInOrder
  BY <1>1 DEF OrderInv
<1>4. /\ Fetching(w) /\ worker' = [worker EXCEPT ![w] = Idle]
      /\ UNCHANGED <<reader, pages, failed>>
      /\ out' = IF IsEmpty(k, p) THEN out ELSE Append(out, r)
      /\ work' = IF HasNext(k, p) THEN Append(work, next) ELSE work
  BY <1>2 DEF Fetched
<1>5. /\ FullPages[k] \in Nat /\ LastPage \in Nat
      /\ HasNext(k, p) => ~ IsEmpty(k, p) /\ p + 1 \in Page
      /\ next = <<k, p + 1>>
  BY <1>2, CrawlAssumption DEF CrawlAssumption, HasNext, IsFull, IsEmpty, NextPage, Page
<1> HIDE DEF k, p, r, next
<1>6. /\ r \in Pending
      /\ HasNext(k, p) => next \in Job /\ Pending' = (Pending \ {r}) \cup {next}
      /\ ~ HasNext(k, p) => Pending' = Pending \ {r}
  <2>1. <<k, p + 1>> # r /\ (HasNext(k, p) => next \in Job)
    BY <1>2, <1>5 DEF Job
  <2>2. CASE HasNext(k, p)
    BY <1>1, <1>4, <1>5, <2>1, <2>2, FetchMoves DEF r
  <2>3. CASE ~ HasNext(k, p)
    BY <1>1, <1>4, <2>3, FetchMoves DEF r
  <2> QED
    BY <2>2, <2>3
<1>7. r \notin Given /\ \A q \in 0 .. p - 1 : <<k, q>> \in Given
  BY <1>2, <1>3, <1>6 DEF Flow, JobIsNext
<1>8. ResultsInOrder' /\ Given' = (IF IsEmpty(k, p) THEN Given ELSE Given \cup {r})
                      /\ Failing' = Failing
  <2>1. CASE IsEmpty(k, p)
    BY <1>3, <1>4, <2>1, SameResults
  <2>2. CASE ~ IsEmpty(k, p)
    <3>1. out' = Append(out, r)
      BY <1>4, <2>2
    <3>2. /\ ResultsInOrder'
          /\ \A x : Coming(x)' <=> (x = r \/ Coming(x))
          /\ \A x : Yielded(x)' <=> Yielded(x)
      BY <1>1, <1>2, <1>3, <1>4, <1>7, <3>1, ResultAdded
    <3>3. Given' = Given \cup {r}
      BY <1>1, <3>2 DEF Given
    <3>4. \A l \in Key : <<l, Failure>> # r
      BY <1>1, JobParts
    <3>5. Failing' = Failing
      BY <1>4, <3>2, <3>4 DEF Failing
    <3> QED
      BY <2>2, <3>2, <3>3, <3>5
  <2> QED
    BY <2>1, <2>2
<1>9. JobIsNext'
  <2> SUFFICES ASSUME NEW j \in Pending'
               PROVE  j \notin Given' /\ \A q \in 0 .. j[2] - 1 : <<j[1], q>> \in Given'
    BY DEF JobIsNext
  <2>1. CASE j \in Pending /\ j # r
    BY <1>3, <1>8, <2>1 DEF Flow, JobIsNext
  <2>2. CASE HasNext(k, p) /\ j = next
    <3>1. j = <<k, p + 1>> /\ ~ IsEmpty(k, p) /\ j # r
      BY <1>2, <1>5, <2>2
    <3>2. j \notin Given
      <4> SUFFICES ASSUME j \in Given PROVE FALSE
        OBVIOUS
      <4>1. p \in 0 .. j[2] - 1
        BY <1>2, <3>1
      <4>2. <<j[1], p>> \in Given
        BY <1>1, <1>3, <4>1, GivenIsClosed
      <4> QED
        BY <1>2, <1>7, <3>1, <4>2
    <3>3. \A q \in 0 .. j[2] - 1 : q \in 0 .. p - 1 \/ q = p
      BY <1>2, <3>1
    <3> QED
      BY <1>2, <1>7, <1>8, <3>1, <3>2, <3>3
  <2> QED
    BY <1>6, <2>1, <2>2
<1>10. Complete'
  <2> SUFFICES ASSUME NEW l \in Key \ Failing
               PROVE  \/ \E j \in Pending' : j[1] = l
                      \/ \A q \in Expected(l) : <<l, q>> \in Given'
    BY <1>8 DEF Complete, Expected
  <2>1. CASE l # k
    <3>1. \A j \in Pending : j[1] = l => j \in Pending'
      BY <1>2, <1>6, <2>1
    <3> QED
      BY <1>3, <1>8, <3>1 DEF Flow, Complete
  <2>2. CASE l = k /\ HasNext(k, p)
    BY <1>5, <1>6, <2>2
  <2>3. CASE l = k /\ ~ HasNext(k, p)
    <3> SUFFICES ASSUME NEW q \in Expected(k) PROVE <<k, q>> \in Given'
      BY <2>3
    <3>1. q \in Nat /\ q <= p /\ (q = p => ~ IsEmpty(k, p))
      BY <1>2, <1>5, <2>3 DEF Expected, IsEmpty, HasNext, IsFull, Page
    <3>2. CASE q = p
      BY <1>2, <1>8, <3>1, <3>2
    <3>3. CASE q # p
      <4>1. q \in 0 .. p - 1
        BY <1>2, <3>1, <3>3
      <4> QED
        BY <1>7, <1>8, <4>1
    <3> QED
      BY <3>2, <3>3
  <2> QED
    BY <2>1, <2>2, <2>3
<1>11. NoneEmpty'
  <2>1. ~ IsEmpty(k, p) => r[2] \in Expected(r[1])
    BY <1>2 DEF Expected
  <2>2. \A j \in Given' : j[2] \in Expected(j[1])
    BY <1>3, <1>8, <2>1 DEF Flow, NoneEmpty
  <2> QED
    BY <2>2 DEF NoneEmpty, Expected
<1>12. DoneIsLast'
  BY <1>1, <1>2, <1>3, <1>4, NoDoneYet
<1>13. PagesInOrder'
  <2>1. pages' = pages
    BY <1>4
  <2> QED
    BY <1>3, <2>1, SamePages
<1>14. IInv'
  BY <1>1, FetchedKeeps
<1> QED
  BY <1>8, <1>9, <1>10, <1>11, <1>12, <1>13, <1>14 DEF OrderInv, Flow

LEMMA FetchFailedOrder == ASSUME OrderInv, Reading, NEW w \in Worker, FetchFailed(w) PROVE OrderInv'
<1> DEFINE j == worker[w]
           k == worker[w][1]
           r == <<k, Failure>>
<1>1. IInv /\ TypeOK /\ j \in Job /\ w \in Busy /\ Reading /\ closer # "end"
  BY DEF OrderInv, IInv, TypeOK, FetchFailed, Fetching, Busy, NothingLeft
<1>2. k \in Key /\ r \in Result /\ r # Done /\ r \notin Job
  BY <1>1, JobParts DEF Result
<1>3. Flow /\ ResultsInOrder /\ DoneIsLast /\ PagesInOrder
  BY <1>1 DEF OrderInv
<1>4. /\ Fetching(w) /\ worker' = [worker EXCEPT ![w] = Idle] /\ work' = work
      /\ UNCHANGED <<reader, pages, failed>> /\ out' = Append(out, r)
  BY DEF FetchFailed
<1>5. Pending' = Pending \ {j}
  BY <1>1, <1>4, FetchMoves
<1> HIDE DEF k, r, j
<1>6. /\ ResultsInOrder'
      /\ \A x : Coming(x)' <=> (x = r \/ Coming(x))
      /\ \A x : Yielded(x)' <=> Yielded(x)
  BY <1>1, <1>2, <1>3, <1>4, ResultAdded
<1>7. Given' = Given
  BY <1>2, <1>6 DEF Given
<1>8. Failing' = Failing \cup {k}
  <2>1. \A l \in Key : <<l, Failure>> = r <=> l = k
    BY DEF r
  <2> QED
    BY <1>2, <1>4, <1>6, <2>1 DEF Failing
<1>9. JobIsNext'
  BY <1>3, <1>5, <1>7 DEF Flow, JobIsNext
<1>10. Complete'
  <2> SUFFICES ASSUME NEW l \in Key \ Failing'
               PROVE  \/ \E i \in Pending' : i[1] = l
                      \/ \A q \in Expected(l) : <<l, q>> \in Given'
    BY DEF Complete, Expected
  <2>1. l \notin Failing /\ l # k
    BY <1>8
  <2>2. \A i \in Pending : i[1] = l => i \in Pending'
    BY <1>5, <2>1 DEF k, j
  <2> QED
    BY <1>3, <1>7, <2>1, <2>2 DEF Flow, Complete
<1>11. NoneEmpty'
  BY <1>3, <1>7 DEF Flow, NoneEmpty, Expected
<1>12. DoneIsLast'
  BY <1>1, <1>2, <1>3, <1>4, NoDoneYet
<1>13. PagesInOrder'
  <2>1. pages' = pages
    BY <1>4
  <2> QED
    BY <1>3, <2>1, SamePages
<1>14. IInv'
  BY <1>1, FetchFailedKeeps
<1> QED
  BY <1>6, <1>9, <1>10, <1>11, <1>12, <1>13, <1>14 DEF OrderInv, Flow

LEMMA TakeOrder == ASSUME OrderInv, NEW w \in Worker, Take(w) PROVE OrderInv'
<1>1. UNCHANGED <<out, pages, failed, reader, closer>>
  BY DEF Take
<1>2. IInv /\ Pending' = Pending
  BY TakeMoves DEF OrderInv
<1> QED
  BY <1>1, <1>2, TakeKeeps, SameOrder

LEMMA TakePoisonOrder == ASSUME OrderInv, NEW w \in Worker, TakePoison(w) PROVE OrderInv'
<1>1. IInv /\ TypeOK /\ work \in Seq(Item) /\ work # <<>> /\ Head(work) = Poison
  BY DEF OrderInv, IInv, TypeOK, TakePoison, Item
<1>2. /\ work' = Tail(work) /\ worker[w] = Idle /\ worker' = [worker EXCEPT ![w] = Exited]
      /\ UNCHANGED <<out, pages, failed, reader>> /\ (closer = "end" => closer' = "end")
  BY DEF TakePoison, CountTo
<1>3. \A x : (\E i \in 1 .. Len(work) : work[i] = x)
             <=> (x = Poison \/ \E i \in 1 .. Len(work') : work'[i] = x)
  <2>1. \A x : (\E i \in 1 .. Len(work) : work[i] = x)
               <=> (x = Head(work) \/ \E i \in 1 .. Len(Tail(work)) : Tail(work)[i] = x)
    BY <1>1, AfterHead, Zenon
  <2> QED
    BY <1>1, <1>2, <2>1, Zenon
<1>4. (\A v \in Worker \ {w} : worker'[v] = worker[v]) /\ Busy' = Busy \ {w}
  BY <1>1, <1>2, BusyChanges
<1>5. w \notin Busy /\ Busy \subseteq Worker
  BY <1>2 DEF Busy, Fetching
<1>6. ASSUME NEW j \in Job PROVE Queuing(j)' <=> Queuing(j)
  BY <1>3, NoSignals DEF Queuing
<1>7. ASSUME NEW j PROVE Flying(j)' <=> Flying(j)
  BY <1>4, <1>5 DEF Flying
<1>8. Pending' = Pending
  BY <1>6, <1>7 DEF Pending
<1> QED
  BY <1>1, <1>2, <1>8, TakePoisonKeeps, SameOrder

LEMMA CloserOrder == ASSUME OrderInv, CloserStep PROVE OrderInv'
<1>1. IInv /\ IInv' /\ TypeOK
  BY CloserKeeps DEF OrderInv, IInv
<1>2. CASE Join
  <2>1. UNCHANGED <<work, worker, out, reader, pages, failed>> /\ closer # "end"
    BY <1>2 DEF Join
  <2>2. Pending' = Pending
    BY <2>1 DEF Pending, Queuing, Flying, Busy, Fetching
  <2> QED
    BY <1>1, <2>1, <2>2, SameOrder
<1>3. CASE PoisonAll
  <2> DEFINE n == Cardinality(Worker)
             poison == [i \in 1 .. n |-> Poison]
  <2>1. n \in Nat /\ work \in Seq(Item) /\ Len(work) \in Nat
    BY <1>1, WorkersFinite DEF TypeOK, Item
  <2>2. poison \in Seq(Item) /\ Len(poison) = n /\ \A i \in 1 .. n : poison[i] = Poison
    BY <2>1 DEF Item
  <2>3. /\ work' = work \o poison /\ closer # "end"
        /\ UNCHANGED <<worker, out, reader, pages, failed>>
    BY <1>3 DEF PoisonAll
  <2> HIDE DEF n, poison
  <2>4. /\ Len(work') = Len(work) + n
        /\ \A i \in 1 .. Len(work) + n :
               work'[i] = IF i <= Len(work) THEN work[i] ELSE poison[i - Len(work)]
    BY <2>1, <2>2, <2>3, ConcatProperties
  <2>5. ASSUME NEW j \in Job PROVE Queuing(j)' <=> Queuing(j)
    <3>1. \A i \in 1 .. Len(work) : i \in 1 .. Len(work') /\ work'[i] = work[i]
      BY <2>1, <2>4
    <3>2. \A i \in 1 .. Len(work') : i \in 1 .. Len(work) \/ work'[i] = Poison
      BY <2>1, <2>2, <2>4
    <3>3. j # Poison
      BY NoSignals
    <3> QED
      BY <3>1, <3>2, <3>3 DEF Queuing
  <2>6. ASSUME NEW j PROVE Flying(j)' <=> Flying(j)
    BY <2>3 DEF Flying, Busy, Fetching
  <2>7. Pending' = Pending
    BY <2>5, <2>6 DEF Pending
  <2> QED
    BY <1>1, <2>3, <2>7, SameOrder
<1>4. CASE Gather
  <2>1. /\ UNCHANGED <<work, worker, reader, pages, failed>>
        /\ closer = "gather" /\ closer' = "end" /\ out' = Append(out, Done)
    BY <1>4 DEF Gather
  <2>2. Pending' = Pending
    BY <2>1 DEF Pending, Queuing, Flying, Busy, Fetching
  <2>3. Done \in Result /\ Done \notin Job /\ \A l \in Key : <<l, Failure>> # Done
    BY JobParts DEF Result
  <2>4. PagesInOrder'
    BY <2>1, SamePages DEF OrderInv
  <2>5. ASSUME Reading PROVE Flow' /\ ResultsInOrder' /\ DoneIsLast'
    <3>1. Flow /\ ResultsInOrder /\ DoneIsLast
      BY <2>5 DEF OrderInv
    <3>2. /\ ResultsInOrder'
          /\ \A x : Coming(x)' <=> (x = Done \/ Coming(x))
          /\ \A x : Yielded(x)' <=> Yielded(x)
      BY <1>1, <2>1, <2>3, <3>1, ResultAdded
    <3>3. Given' = Given
      BY <2>3, <3>2 DEF Given
    <3>4. Failing' = Failing
      BY <2>1, <2>3, <3>2 DEF Failing
    <3>5. DoneIsLast'
      <4>1. (\A i \in 1 .. Len(out) : out[i] # Done) /\ reader # "end"
        BY <2>1, <3>1 DEF DoneIsLast
      <4>2. \A i \in 1 .. Len(out') : out'[i] = Done => i = Len(out')
        BY <1>1, <2>1, <2>3, <4>1, ResultTypes
      <4> QED
        BY <2>1, <4>1, <4>2 DEF DoneIsLast
    <3> QED
      BY <2>2, <3>1, <3>2, <3>3, <3>4, <3>5, SameFlow
  <2>6. Reading' <=> Reading
    BY <2>1 DEF Reading
  <2> QED
    BY <1>1, <2>4, <2>5, <2>6 DEF OrderInv
<1> QED
  BY <1>2, <1>3, <1>4 DEF CloserStep

\* The reader moves a page from the waiting results to the yielded ones.
LEMMA PageRead ==
    ASSUME TypeOK, PagesInOrder, ResultsInOrder, out # <<>>, Head(out) \in Job,
           out' = Tail(out), pages' = Append(pages, Head(out))
    PROVE  /\ PagesInOrder' /\ ResultsInOrder'
           /\ \A x : Coming(x) <=> (x = Head(out) \/ Coming(x)')
           /\ \A x : Yielded(x)' <=> (x = Head(out) \/ Yielded(x))
<1> DEFINE r == Head(out)
<1>1. /\ r = out[1] /\ Len(out) \in Nat \ {0} /\ Len(out') = Len(out) - 1
      /\ \A i \in 1 .. Len(out') : i + 1 \in 2 .. Len(out) /\ out'[i] = out[i + 1]
      /\ \A x : (\E i \in 1 .. Len(out) : out[i] = x)
                <=> (x = r \/ \E i \in 1 .. Len(out') : out'[i] = x)
  <2>1. out \in Seq(Result)
    BY ResultTypes
  <2>2. /\ r = out[1] /\ Len(out) \in Nat \ {0} /\ Len(Tail(out)) = Len(out) - 1
        /\ \A i \in 1 .. Len(Tail(out)) : i + 1 \in 2 .. Len(out) /\ Tail(out)[i] = out[i + 1]
        /\ \A x : (\E i \in 1 .. Len(out) : out[i] = x)
                  <=> (x = r \/ \E i \in 1 .. Len(Tail(out)) : Tail(out)[i] = x)
    BY <2>1, AfterHead
  <2> QED
    BY <2>2, Zenon
<1>2. /\ Len(pages) \in Nat /\ Len(pages') = Len(pages) + 1
      /\ \A i \in 1 .. Len(pages) + 1 :
             pages'[i] = IF i = Len(pages) + 1 THEN r ELSE pages[i]
      /\ \A x : (\E i \in 1 .. Len(pages') : pages'[i] = x)
                <=> (x = r \/ \E i \in 1 .. Len(pages) : pages[i] = x)
  <2>1. pages \in Seq(Job)
    BY ResultTypes
  <2>2. /\ Len(pages) \in Nat /\ Len(Append(pages, r)) = Len(pages) + 1
        /\ \A i \in 1 .. Len(pages) + 1 :
               Append(pages, r)[i] = IF i = Len(pages) + 1 THEN r ELSE pages[i]
        /\ \A x : (\E i \in 1 .. Len(Append(pages, r)) : Append(pages, r)[i] = x)
                  <=> (x = r \/ \E i \in 1 .. Len(pages) : pages[i] = x)
    BY <2>1, AtTheEnd
  <2> QED
    BY <2>2, Zenon
<1> HIDE DEF r
<1>3. \A x : Coming(x) <=> (x = r \/ Coming(x)')
  BY <1>1 DEF Coming
<1>4. \A x : Yielded(x)' <=> (x = r \/ Yielded(x))
  BY <1>2 DEF Yielded
<1>5. /\ ~ Yielded(r)
      /\ \A p \in 0 .. r[2] - 1 : Yielded(<<r[1], p>>)
  <2>1. 1 \in 1 .. Len(out) /\ out[1] \in Job /\ ~ \E j \in 1 .. 1 - 1 : TRUE
    BY <1>1 DEF r
  <2> QED
    BY <1>1, <2>1 DEF ResultsInOrder
<1>6. PagesInOrder'
  <2> SUFFICES ASSUME NEW i \in 1 .. Len(pages')
               PROVE  /\ \A j \in 1 .. i - 1 : pages'[j] # pages'[i]
                      /\ \A p \in 0 .. pages'[i][2] - 1 :
                             \E j \in 1 .. i - 1 : pages'[j] = <<pages'[i][1], p>>
    BY DEF PagesInOrder
  <2>0. \A j \in 1 .. i - 1 : j \in 1 .. Len(pages) /\ pages'[j] = pages[j]
    BY <1>2
  <2>1. CASE i = Len(pages) + 1
    <3>1. pages'[i] = r /\ 1 .. i - 1 = 1 .. Len(pages)
      BY <1>2, <2>1
    <3>2. \A j \in 1 .. i - 1 : pages'[j] # pages'[i]
      BY <1>5, <2>0, <3>1 DEF Yielded
    <3>3. \A p \in 0 .. r[2] - 1 : \E j \in 1 .. i - 1 : pages'[j] = <<r[1], p>>
      <4> SUFFICES ASSUME NEW p \in 0 .. r[2] - 1
                   PROVE  \E j \in 1 .. i - 1 : pages'[j] = <<r[1], p>>
        OBVIOUS
      <4>1. PICK j \in 1 .. Len(pages) : pages[j] = <<r[1], p>>
        BY <1>5 DEF Yielded
      <4>2. j \in 1 .. i - 1
        BY <3>1
      <4> QED
        BY <2>0, <4>1, <4>2
    <3> QED
      BY <3>1, <3>2, <3>3
  <2>2. CASE i # Len(pages) + 1
    <3>1. i \in 1 .. Len(pages) /\ pages'[i] = pages[i]
      BY <1>2, <2>2
    <3>2. /\ \A j \in 1 .. i - 1 : pages[j] # pages[i]
          /\ \A p \in 0 .. pages[i][2] - 1 :
                 \E j \in 1 .. i - 1 : pages[j] = <<pages[i][1], p>>
      BY <3>1 DEF PagesInOrder
    <3> QED
      BY <2>0, <3>1, <3>2
  <2> QED
    BY <2>1, <2>2
<1>7. ASSUME NEW i \in 1 .. Len(out'), out'[i] \in Job
      PROVE  /\ ~ (out'[i] = r \/ Yielded(out'[i]))
             /\ \A j \in 1 .. i - 1 : out'[j] # out'[i]
             /\ \A p \in 0 .. out'[i][2] - 1 :
                    \/ <<out'[i][1], p>> = r \/ Yielded(<<out'[i][1], p>>)
                    \/ \E j \in 1 .. i - 1 : out'[j] = <<out'[i][1], p>>
  <2>1. /\ i + 1 \in 1 .. Len(out) /\ out'[i] = out[i + 1] /\ i + 1 # 1
        /\ 1 \in 1 .. (i + 1) - 1
        /\ \A j \in 1 .. i - 1 : j + 1 \in 1 .. (i + 1) - 1 /\ out'[j] = out[j + 1]
        /\ \A j \in 1 .. (i + 1) - 1 : j = 1 \/ (j - 1 \in 1 .. i - 1 /\ out'[j - 1] = out[j])
    BY <1>1
  <2>2. /\ ~ Yielded(out[i + 1])
        /\ \A j \in 1 .. (i + 1) - 1 : out[j] # out[i + 1]
        /\ \A p \in 0 .. out[i + 1][2] - 1 :
               \/ Yielded(<<out[i + 1][1], p>>)
               \/ \E j \in 1 .. (i + 1) - 1 : out[j] = <<out[i + 1][1], p>>
    BY <1>7, <2>1 DEF ResultsInOrder
  <2>3. ~ (out'[i] = r \/ Yielded(out'[i]))
    BY <1>1, <2>1, <2>2
  <2>4. \A j \in 1 .. i - 1 : out'[j] # out'[i]
    BY <2>1, <2>2
  <2>5. ASSUME NEW p \in 0 .. out[i + 1][2] - 1
        PROVE  \/ <<out[i + 1][1], p>> = r \/ Yielded(<<out[i + 1][1], p>>)
               \/ \E j \in 1 .. i - 1 : out'[j] = <<out[i + 1][1], p>>
    <3>1. CASE \E j \in 1 .. (i + 1) - 1 : out[j] = <<out[i + 1][1], p>>
      <4>1. PICK j \in 1 .. (i + 1) - 1 : out[j] = <<out[i + 1][1], p>>
        BY <3>1
      <4>2. CASE j = 1
        BY <1>1, <4>1, <4>2
      <4>3. CASE j # 1
        <5>1. j - 1 \in 1 .. i - 1 /\ out'[j - 1] = out[j]
          BY <2>1, <4>3
        <5> QED
          BY <4>1, <5>1
      <4> QED
        BY <4>2, <4>3
    <3> QED
      BY <2>2, <3>1
  <2> QED
    BY <2>1, <2>3, <2>4, <2>5
<1>8. ResultsInOrder'
  <2>1. \A x : (x = r \/ Yielded(x)) <=> \E l \in 1 .. Len(pages') : pages'[l] = x
    BY <1>2 DEF Yielded
  <2>2. ASSUME NEW i \in 1 .. Len(out'), out'[i] \in Job
        PROVE  /\ ~ \E l \in 1 .. Len(pages') : pages'[l] = out'[i]
               /\ \A j \in 1 .. i - 1 : out'[j] # out'[i]
               /\ \A p \in 0 .. out'[i][2] - 1 :
                      \/ \E l \in 1 .. Len(pages') : pages'[l] = <<out'[i][1], p>>
                      \/ \E j \in 1 .. i - 1 : out'[j] = <<out'[i][1], p>>
    <3>1. /\ ~ (out'[i] = r \/ Yielded(out'[i]))
          /\ \A j \in 1 .. i - 1 : out'[j] # out'[i]
          /\ \A p \in 0 .. out'[i][2] - 1 :
                 \/ <<out'[i][1], p>> = r \/ Yielded(<<out'[i][1], p>>)
                 \/ \E j \in 1 .. i - 1 : out'[j] = <<out'[i][1], p>>
      BY <1>7, <2>2
    <3> QED
      BY <2>1, <3>1, Zenon
  <2> QED
    BY <2>2, Zenon DEF ResultsInOrder, Yielded
<1> QED
  BY <1>3, <1>4, <1>6, <1>8 DEF r

LEMMA ReadOrder == ASSUME OrderInv, Read PROVE OrderInv'
<1> DEFINE r == Head(out)
<1>1. /\ IInv /\ IInv' /\ TypeOK /\ reader = "get" /\ Reading
      /\ Flow /\ ResultsInOrder /\ DoneIsLast /\ PagesInOrder
  BY ReadKeeps DEF OrderInv, IInv, Read, Reading
<1>2. out \in Seq(Result) /\ out # <<>> /\ r \in Result /\ out' = Tail(out)
  BY <1>1, ResultTypes DEF Read
<1>3. /\ r = out[1] /\ Len(out) \in Nat \ {0} /\ Len(out') = Len(out) - 1
      /\ \A i \in 1 .. Len(out') : i + 1 \in 2 .. Len(out) /\ out'[i] = out[i + 1]
      /\ \A x : (\E i \in 1 .. Len(out) : out[i] = x)
                <=> (x = r \/ \E i \in 1 .. Len(out') : out'[i] = x)
  <2>1. /\ r = out[1] /\ Len(out) \in Nat \ {0} /\ Len(Tail(out)) = Len(out) - 1
        /\ \A i \in 1 .. Len(Tail(out)) : i + 1 \in 2 .. Len(out) /\ Tail(out)[i] = out[i + 1]
        /\ \A x : (\E i \in 1 .. Len(out) : out[i] = x)
                  <=> (x = r \/ \E i \in 1 .. Len(Tail(out)) : Tail(out)[i] = x)
    BY <1>2, AfterHead
  <2> QED
    BY <1>2, <2>1, Zenon
<1>4. \A x : Coming(x) <=> (x = r \/ Coming(x)')
  BY <1>3 DEF Coming
<1>5. UNCHANGED <<work, worker, closer>>
  BY DEF Read
<1>6. Pending' = Pending
  BY <1>5 DEF Pending, Queuing, Flying, Busy, Fetching
<1>7. /\ \/ r = Done /\ reader' = "end" /\ UNCHANGED <<pages, failed>>
         \/ r # Done /\ r[2] = Failure /\ failed' = failed \cup {r[1]} /\ UNCHANGED <<pages, reader>>
         \/ r # Done /\ r[2] # Failure /\ pages' = Append(pages, r) /\ UNCHANGED <<failed, reader>>
  BY DEF Read
<1>8. Done \notin Job /\ \A l \in Key : <<l, Failure>> \notin Job /\ <<l, Failure>> # Done
  BY JobParts
<1> HIDE DEF r
\* What Tail does to the results that wait, when no page is taken.
<1>9. ASSUME r \notin Job, pages' = pages
      PROVE  PagesInOrder' /\ ResultsInOrder' /\ Given' = Given
  <2>1. PagesInOrder'
    BY <1>1, <1>9, SamePages
  <2>2. \A x : Yielded(x)' <=> Yielded(x)
    BY <1>9 DEF Yielded
  <2>3. Given' = Given
    BY <1>4, <1>9, <2>2 DEF Given
  <2>4. ASSUME NEW i \in 1 .. Len(out'), out'[i] \in Job
        PROVE  /\ ~ \E l \in 1 .. Len(pages') : pages'[l] = out'[i]
               /\ \A j \in 1 .. i - 1 : out'[j] # out'[i]
               /\ \A p \in 0 .. out'[i][2] - 1 :
                      \/ \E l \in 1 .. Len(pages') : pages'[l] = <<out'[i][1], p>>
                      \/ \E j \in 1 .. i - 1 : out'[j] = <<out'[i][1], p>>
    <3>1. /\ i + 1 \in 1 .. Len(out) /\ out'[i] = out[i + 1]
          /\ \A j \in 1 .. i - 1 : j + 1 \in 1 .. (i + 1) - 1 /\ out'[j] = out[j + 1]
          /\ \A j \in 1 .. (i + 1) - 1 : j = 1 \/ (j - 1 \in 1 .. i - 1 /\ out'[j - 1] = out[j])
      BY <1>3
    <3>2. /\ ~ Yielded(out[i + 1])
          /\ \A j \in 1 .. (i + 1) - 1 : out[j] # out[i + 1]
          /\ \A p \in 0 .. out[i + 1][2] - 1 :
                 \/ Yielded(<<out[i + 1][1], p>>)
                 \/ \E j \in 1 .. (i + 1) - 1 : out[j] = <<out[i + 1][1], p>>
      BY <1>1, <2>4, <3>1 DEF ResultsInOrder
    <3>3. \A x : Yielded(x) <=> \E l \in 1 .. Len(pages') : pages'[l] = x
      BY <1>9 DEF Yielded
    <3>4. \A j \in 1 .. i - 1 : out'[j] # out'[i]
      BY <3>1, <3>2
    <3>5. ASSUME NEW p \in 0 .. out[i + 1][2] - 1
          PROVE  Yielded(<<out[i + 1][1], p>>) \/ \E j \in 1 .. i - 1 : out'[j] = <<out[i + 1][1], p>>
      <4>1. CASE \E j \in 1 .. (i + 1) - 1 : out[j] = <<out[i + 1][1], p>>
        <5>1. PICK j \in 1 .. (i + 1) - 1 : out[j] = <<out[i + 1][1], p>>
          BY <4>1
        <5>2. <<out[i + 1][1], p>> \in Job
          <6>1. out[i + 1] \in Job
            BY <2>4, <3>1
          <6> QED
            BY <6>1, JobParts
        <5>3. j # 1
          BY <1>3, <1>9, <5>1, <5>2
        <5>4. j - 1 \in 1 .. i - 1 /\ out'[j - 1] = out[j]
          BY <3>1, <5>3
        <5> QED
          BY <5>1, <5>4
      <4> QED
        BY <3>2, <4>1
    <3>6. \A p \in 0 .. out'[i][2] - 1 :
              \/ Yielded(<<out'[i][1], p>>)
              \/ \E j \in 1 .. i - 1 : out'[j] = <<out'[i][1], p>>
      BY <3>1, <3>5
    <3> QED
      BY <3>1, <3>2, <3>3, <3>4, <3>6, Zenon
  <2>5. ResultsInOrder'
    BY <2>4, Zenon DEF ResultsInOrder, Yielded
  <2> QED
    BY <2>1, <2>3, <2>5
\* Done stays last, if it waits at all.
<1>10. ASSUME reader' = "get" PROVE DoneIsLast'
  <2>1. \A i \in 1 .. Len(out') : out'[i] = Done => i = Len(out') /\ closer' = "end"
    BY <1>1, <1>3, <1>5 DEF DoneIsLast
  <2> QED
    BY <1>10, <2>1 DEF DoneIsLast
<1>11. CASE r = Done
  <2>1. Len(out) = 1 /\ closer = "end" /\ reader' = "end" /\ pages' = pages /\ failed' = failed
    <3>1. 1 \in 1 .. Len(out)
      BY <1>3
    <3> QED
      BY <1>1, <1>3, <1>7, <1>11, <3>1 DEF DoneIsLast
  <2>2. out' = <<>>
    BY <1>2, <1>3, <2>1
  <2>3. DoneIsLast'
    BY <1>5, <2>1, <2>2 DEF DoneIsLast
  <2>4. Failing' = Failing
    BY <1>4, <1>8, <1>11, <2>1 DEF Failing
  <2>5. r \notin Job
    BY <1>8, <1>11
  <2>6. PagesInOrder' /\ ResultsInOrder' /\ Given' = Given
    BY <1>9, <2>1, <2>5
  <2>7. Flow'
    BY <1>1, <1>6, <2>4, <2>6, SameFlow
  <2> QED
    BY <1>1, <2>3, <2>6, <2>7 DEF OrderInv
<1>12. CASE r # Done /\ r[2] = Failure
  <2>1. r \in Key \X {Failure} /\ r \notin Job
    BY <1>2, <1>12, NoSignals DEF Result
  <2>2. failed' = failed \cup {r[1]} /\ pages' = pages /\ reader' = "get"
    BY <1>1, <1>7, <1>12
  <2>3. \A l \in Key : <<l, Failure>> = r <=> l = r[1]
    BY <2>1
  <2>4. Failing' = Failing
    BY <1>4, <2>2, <2>3 DEF Failing
  <2>5. PagesInOrder' /\ ResultsInOrder' /\ Given' = Given
    BY <1>9, <2>1, <2>2
  <2>6. Flow'
    BY <1>1, <1>6, <2>4, <2>5, SameFlow
  <2> QED
    BY <1>1, <1>10, <2>2, <2>5, <2>6 DEF OrderInv
<1>13. CASE r # Done /\ r[2] # Failure
  <2>1. r \in Job
    BY <1>2, <1>13 DEF Result
  <2>2. pages' = Append(pages, r) /\ failed' = failed /\ reader' = "get"
    BY <1>1, <1>7, <1>13
  <2>3. /\ PagesInOrder' /\ ResultsInOrder'
        /\ \A x : Yielded(x)' <=> (x = r \/ Yielded(x))
    BY <1>1, <1>2, <2>1, <2>2, PageRead DEF r
  <2>4. Given' = Given
    BY <1>4, <2>3 DEF Given
  <2>5. Failing' = Failing
    BY <1>4, <1>8, <2>1, <2>2 DEF Failing
  <2>6. Flow'
    BY <1>1, <1>6, <2>4, <2>5, SameFlow
  <2> QED
    BY <1>1, <1>10, <2>2, <2>3, <2>6 DEF OrderInv
<1> QED
  BY <1>7, <1>11, <1>12, <1>13

LEMMA OrderStep == OrderInv /\ [Next]_vars => OrderInv'
<1> SUFFICES ASSUME OrderInv, [Next]_vars PROVE OrderInv'
  OBVIOUS
<1>1. CASE UNCHANGED vars
  <2>1. IInv'
    BY <1>1, InvStep DEF OrderInv
  <2>2. UNCHANGED <<work, worker, out, pages, failed, reader, closer>>
    BY <1>1 DEF vars
  <2>3. Pending' = Pending
    BY <2>2 DEF Pending, Queuing, Flying, Busy, Fetching
  <2> QED
    BY <2>1, <2>2, <2>3, SameOrder
<1>2. CASE Reading /\ \E w \in Worker : WorkerStep(w)
  BY <1>2, TakeOrder, FetchedOrder, FetchFailedOrder, TakePoisonOrder DEF WorkerStep
<1>3. CASE CloserStep
  BY <1>3, CloserOrder
<1>4. CASE Read
  BY <1>4, ReadOrder
<1>5. CASE Stop
  <2>1. IInv' /\ pages' = pages /\ reader' = "stopped"
    BY <1>5, StopKeeps DEF OrderInv, Stop
  <2> QED
    BY <2>1, SamePages DEF OrderInv, Reading
<1>6. CASE ~ Reading /\ ((\E w \in Worker : WorkerStep(w)) \/ Close)
  <2>1. pages' = pages /\ reader' \in {"stopped", "closed"}
    BY <1>6 DEF Reading, WorkerStep, Take, Fetched, FetchFailed, TakePoison, Close
  <2>2. IInv'
    BY InvStep DEF OrderInv
  <2> QED
    BY <2>1, <2>2, SamePages DEF OrderInv, Reading
<1>7. Close => ~ Reading
  BY DEF Close, Reading
<1> QED
  BY <1>1, <1>2, <1>3, <1>4, <1>5, <1>6, <1>7 DEF Next

\* The order of the pages and the flow of the jobs hold in every behaviour.
THEOREM OrderInvariant == Spec => []OrderInv
<1> QED
  BY OrderInit, OrderStep, PTL DEF Spec

\* However the workers' fetches interleave, and also of a key that fails later, a
\* page is yielded once and after every page before it: stream_match_ids.
THEOREM PagesAreInOrder == Spec => []PagesInOrder
<1>1. OrderInv => PagesInOrder
  BY DEF OrderInv
<1> QED
  BY <1>1, OrderInvariant, PTL

\* A crawl that comes to its end has yielded exactly the pages with ids of every
\* key that did not fail: stream_match_ids and its closer.
THEOREM CrawlsAreComplete == Spec => []CrawlIsComplete
<1>1. ASSUME OrderInv PROVE CrawlIsComplete
  <2> SUFFICES ASSUME reader = "end", NEW k \in Key \ failed
               PROVE  {p \in Page : <<k, p>> \in ToSet(pages)} = Expected(k)
    BY DEF CrawlIsComplete
  <2>1. /\ Flow /\ DoneIsLast /\ NothingLeft /\ TypeOK
    BY <1>1 DEF OrderInv, IInv, Reading
  <2>2. out = <<>> /\ closer = "end"
    BY <2>1 DEF DoneIsLast
  <2>3. Pending = {}
    <3>1. Busy = {} /\ \A i \in 1 .. Len(work) : work[i] = Poison
      BY <2>1, <2>2 DEF NothingLeft, IsJob
    <3> QED
      BY <3>1, NoSignals DEF Pending, Queuing, Flying
  <2>4. \A x : ~ Coming(x)
    BY <2>2 DEF Coming
  <2>5. \A p \in Expected(k) : <<k, p>> \in Given
    BY <2>1, <2>3, <2>4 DEF Flow, Complete, Failing
  <2>6. \A x : Yielded(x) <=> x \in ToSet(pages)
    BY <2>1, ResultTypes DEF Yielded, ToSet
  <2>7. \A p \in Page : <<k, p>> \in Given <=> <<k, p>> \in ToSet(pages)
    BY <2>4, <2>6, JobParts DEF Given
  <2>8. \A p \in Page : <<k, p>> \in Given => p \in Expected(k)
    BY <2>1 DEF Flow, NoneEmpty
  <2> QED
    BY <2>5, <2>7, <2>8 DEF Expected
<1> QED
  BY <1>1, OrderInvariant, PTL
================================================================================
