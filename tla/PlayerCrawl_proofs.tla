--------------------------- MODULE PlayerCrawl_proofs ---------------------------
(***************************************************************************)
(* What PlayerCrawl promises for any regions, lists, limits and failures:  *)
(* what the page probe returns, which runs have a snapshot timestamp, what *)
(* a run that reports its error leaves, that a timestamp stays, and that a *)
(* run which goes through stores the players of every page it asks for.    *)
(*                                                                         *)
(* The first part is about sequences: what follows of one that is made of  *)
(* others, or spread in turns, that nothing in it is lost or repeated.     *)
(***************************************************************************)
EXTENDS PlayerCrawl, NatRecursion, FiniteSetTheorems, SequenceTheorems, TLAPS

-----------------------------------------------------------------------------
(* Sequences *)

\* f holds what the first sequences make together, for any number of them.
Flattens(f, seqs, T) ==
    /\ f \in [0 .. Len(seqs) -> Seq(T)] /\ f[0] = <<>>
    /\ \A i \in 1 .. Len(seqs) : f[i] = f[i - 1] \o seqs[i]
    /\ FlattenSeq(seqs) = f[Len(seqs)]

LEMMA FlattenIs ==
    ASSUME NEW T, NEW seqs \in Seq(Seq(T))
    PROVE  \E f : Flattens(f, seqs, T)
<1> DEFINE n == Len(seqs)
           step == [p \in Seq(T) \X Nat |-> IF p[2] \in 1 .. n THEN p[1] \o seqs[p[2]] ELSE p[1]]
<1>1. n \in Nat /\ \A i \in 1 .. n : seqs[i] \in Seq(T)
  OBVIOUS
<1>2. step \in [Seq(T) \X Nat -> Seq(T)]
  <2>1. ASSUME NEW p \in Seq(T) \X Nat
        PROVE  (IF p[2] \in 1 .. n THEN p[1] \o seqs[p[2]] ELSE p[1]) \in Seq(T)
    <3>1. p[1] \in Seq(T)
      OBVIOUS
    <3>2. CASE p[2] \in 1 .. n
      <4>1. seqs[p[2]] \in Seq(T)
        BY <1>1, <3>2
      <4> QED
        BY <3>1, <3>2, <4>1
    <3> QED
      BY <3>1, <3>2
  <2> QED
    BY <2>1
<1>3. ASSUME NEW s \in Seq(T), NEW i \in 1 .. n PROVE step[<<s, i>>] = s \o seqs[i]
  <2>1. i \in Nat /\ <<s, i>> \in Seq(T) \X Nat
    OBVIOUS
  <2> QED
    BY <2>1
<1>4. <<>> \in Seq(T)
  OBVIOUS
<1> HIDE DEF step
<1>5. PICK g : DefinedBy(g, Seq(T), <<>>, step)
  BY <1>2, <1>4, Recursion
<1>6. g[0] = <<>> /\ \A i \in Nat : g[i] \in Seq(T)
  BY <1>5 DEF DefinedBy
<1>7. ASSUME NEW i \in 1 .. n PROVE g[i] = g[i - 1] \o seqs[i] /\ g[i - 1] \in Seq(T)
  <2>1. i \in Nat \ {0} /\ i - 1 \in Nat
    OBVIOUS
  <2>2. g[i] = step[<<g[i - 1], i>>]
    BY <1>5, <2>1 DEF DefinedBy
  <2> QED
    BY <1>3, <1>6, <2>1, <2>2
<1> DEFINE Is(f) == f = [i \in 1 .. n |-> IF i = 1 THEN seqs[i] ELSE f[i - 1] \o seqs[i]]
<1>8. CASE n # 0
  <2> DEFINE h == [i \in 1 .. n |-> g[i]]
             c == CHOOSE f : Is(f)
  <2>0. n \in 1 .. n /\ 1 \in 1 .. n
    BY <1>1, <1>8
  <2>1. g[1] = seqs[1]
    <3>1. 1 \in Nat \ {0} /\ 1 - 1 = 0 /\ seqs[1] \in Seq(T)
      BY <1>1, <2>0
    <3>2. g[1] = step[<<g[0], 1>>]
      BY <1>5, <3>1 DEF DefinedBy
    <3>3. g[1] = <<>> \o seqs[1]
      BY <1>3, <1>4, <1>6, <2>0, <3>2
    <3> QED
      BY <3>1, <3>3, ConcatEmptySeq
  <2>2. ASSUME NEW i \in 1 .. n PROVE h[i] = IF i = 1 THEN seqs[i] ELSE h[i - 1] \o seqs[i]
    <3>1. CASE i = 1
      BY <2>1, <3>1
    <3>2. CASE i # 1
      <4>1. i - 1 \in 1 .. n
        BY <3>2
      <4> QED
        BY <1>7, <3>2, <4>1
    <3> QED
      BY <3>1, <3>2
  <2>3. h = [i \in 1 .. n |-> h[i]]
    OBVIOUS
  <2> HIDE DEF h
  <2>4. Is(h)
    BY <2>2, <2>3
  <2> HIDE DEF Is
  <2>5. Is(c)
    BY <2>4
  <2> USE DEF Is
  <2>6. FlattenSeq(seqs) = c[n]
    BY <1>1, <1>8 DEF FlattenSeq
  <2> HIDE DEF c
  <2>7. c[1] = seqs[1] /\ \A i \in 1 .. n : i # 1 => c[i] = c[i - 1] \o seqs[i]
    BY <2>0, <2>5
  <2> DEFINE Same == {i \in Nat : i + 1 \in 1 .. n => c[i + 1] = g[i + 1]}
  <2>8. 0 \in Same
    BY <2>1, <2>7
  <2>9. ASSUME NEW i \in Nat, i \in Same PROVE i + 1 \in Same
    <3> SUFFICES ASSUME (i + 1) + 1 \in 1 .. n PROVE c[(i + 1) + 1] = g[(i + 1) + 1]
      OBVIOUS
    <3>1. i + 1 \in 1 .. n /\ ((i + 1) + 1) - 1 = i + 1 /\ (i + 1) + 1 # 1
      BY <1>1
    <3>2. c[i + 1] = g[i + 1]
      BY <2>9, <3>1
    <3>3. c[(i + 1) + 1] = c[i + 1] \o seqs[(i + 1) + 1]
      BY <2>7, <3>1
    <3>4. g[(i + 1) + 1] = g[i + 1] \o seqs[(i + 1) + 1]
      BY <1>7, <3>1
    <3> QED
      BY <3>2, <3>3, <3>4
  <2> HIDE DEF Same
  <2>10. \A i \in Nat : i \in Same
    BY <2>8, <2>9, AllOfThem
  <2>11. c[n] = g[n]
    <3>1. n - 1 \in Nat /\ (n - 1) + 1 = n
      BY <1>1, <1>8
    <3>2. n - 1 \in Same
      BY <2>10, <3>1
    <3> QED
      BY <2>0, <3>1, <3>2 DEF Same
  <2> DEFINE f == [i \in 0 .. n |-> g[i]]
  <2>12. /\ f \in [0 .. n -> Seq(T)] /\ f[0] = <<>> /\ FlattenSeq(seqs) = f[n]
         /\ \A i \in 1 .. n : f[i] = f[i - 1] \o seqs[i]
    <3>1. \A i \in 1 .. n : i \in 0 .. n /\ i - 1 \in 0 .. n
      BY <1>1
    <3>2. 0 \in 0 .. n /\ n \in 0 .. n /\ \A i \in 0 .. n : g[i] \in Seq(T)
      BY <1>1, <1>6
    <3>3. \A i \in 0 .. n : f[i] = g[i]
      OBVIOUS
    <3>4. f \in [0 .. n -> Seq(T)]
      BY <3>2
    <3> HIDE DEF f
    <3>5. f[0] = <<>> /\ FlattenSeq(seqs) = f[n]
      BY <1>6, <2>6, <2>11, <3>2, <3>3
    <3>6. \A i \in 1 .. n : f[i] = f[i - 1] \o seqs[i]
      BY <1>7, <3>1, <3>3
    <3> QED
      BY <3>4, <3>5, <3>6
  <2> HIDE DEF f
  <2> QED
    BY <2>12 DEF Flattens
<1>9. CASE n = 0
  <2>1. seqs = <<>> /\ FlattenSeq(seqs) = <<>>
    BY <1>9 DEF FlattenSeq
  <2> DEFINE f == [i \in 0 .. 0 |-> <<>>]
  <2>2. f \in [0 .. 0 -> Seq(T)] /\ f[0] = <<>> /\ 1 .. 0 = {}
    BY <1>4
  <2> HIDE DEF f
  <2>3. Flattens(f, seqs, T)
    BY <1>9, <2>1, <2>2 DEF Flattens
  <2> QED
    BY <2>3
<1> QED
  BY <1>8, <1>9

LEMMA FlattenType ==
    ASSUME NEW T, NEW seqs \in Seq(Seq(T))
    PROVE  FlattenSeq(seqs) \in Seq(T)
<1>1. PICK f : Flattens(f, seqs, T)
  BY FlattenIs
<1> QED
  BY <1>1 DEF Flattens

\* Two sequences, one after the other.
LEMMA ConcatSet ==
    ASSUME NEW T, NEW s \in Seq(T), NEW t \in Seq(T)
    PROVE  /\ ToSet(s \o t) = ToSet(s) \cup ToSet(t)
           /\ IsInjective(s) /\ IsInjective(t) /\ ToSet(s) \cap ToSet(t) = {} => IsInjective(s \o t)
<1> DEFINE m == Len(s) n == Len(t) u == s \o t
<1>1. /\ m \in Nat /\ n \in Nat /\ DOMAIN s = 1 .. m /\ DOMAIN t = 1 .. n /\ DOMAIN u = 1 .. m + n
      /\ \A i \in 1 .. m : u[i] = s[i]
      /\ \A i \in 1 .. n : u[m + i] = t[i]
  OBVIOUS
<1> HIDE DEF u, m, n
<1>2. \A k \in 1 .. m + n : k \in 1 .. m \/ (k - m \in 1 .. n /\ k = m + (k - m))
  BY <1>1
<1>3. \A i \in 1 .. m : i \in 1 .. m + n
  BY <1>1
<1>4. \A i \in 1 .. n : m + i \in 1 .. m + n
  BY <1>1
<1>5. ToSet(u) = ToSet(s) \cup ToSet(t)
  <2>1. ASSUME NEW x \in ToSet(u) PROVE x \in ToSet(s) \cup ToSet(t)
    <3>1. PICK k \in 1 .. m + n : u[k] = x
      BY <1>1 DEF ToSet
    <3>2. CASE k \in 1 .. m
      BY <1>1, <3>1, <3>2 DEF ToSet
    <3>3. CASE k - m \in 1 .. n /\ k = m + (k - m)
      <4>1. u[k] = t[k - m]
        BY <1>1, <3>3
      <4> QED
        BY <1>1, <3>1, <3>3, <4>1 DEF ToSet
    <3> QED
      BY <1>2, <3>2, <3>3
  <2>2. ToSet(s) \subseteq ToSet(u)
    BY <1>1, <1>3 DEF ToSet
  <2>3. ToSet(t) \subseteq ToSet(u)
    <3>1. ASSUME NEW i \in 1 .. n PROVE t[i] \in ToSet(u)
      <4>1. u[m + i] = t[i] /\ m + i \in DOMAIN u
        BY <1>1, <1>4
      <4> QED
        BY <4>1 DEF ToSet
    <3> QED
      BY <1>1, <3>1 DEF ToSet
  <2> QED
    BY <2>1, <2>2, <2>3
<1>6. ASSUME IsInjective(s), IsInjective(t), ToSet(s) \cap ToSet(t) = {},
             NEW a \in 1 .. m + n, NEW b \in 1 .. m + n, u[a] = u[b]
      PROVE  a = b
  <2>1. CASE a \in 1 .. m /\ b \in 1 .. m
    BY <1>1, <1>6, <2>1 DEF IsInjective
  <2>2. CASE a \in 1 .. m /\ b - m \in 1 .. n /\ b = m + (b - m)
    <3>1. u[a] = s[a] /\ u[b] = t[b - m]
      BY <1>1, <2>2
    <3> QED
      BY <1>1, <1>6, <2>2, <3>1 DEF ToSet
  <2>3. CASE b \in 1 .. m /\ a - m \in 1 .. n /\ a = m + (a - m)
    <3>1. u[b] = s[b] /\ u[a] = t[a - m]
      BY <1>1, <2>3
    <3> QED
      BY <1>1, <1>6, <2>3, <3>1 DEF ToSet
  <2>4. CASE a - m \in 1 .. n /\ a = m + (a - m) /\ b - m \in 1 .. n /\ b = m + (b - m)
    <3>1. u[a] = t[a - m] /\ u[b] = t[b - m]
      BY <1>1, <2>4
    <3>2. a - m = b - m
      BY <1>1, <1>6, <2>4, <3>1 DEF IsInjective
    <3> QED
      BY <2>4, <3>2
  <2> QED
    BY <1>2, <2>1, <2>2, <2>3, <2>4
<1>7. IsInjective(s) /\ IsInjective(t) /\ ToSet(s) \cap ToSet(t) = {} => IsInjective(u)
  BY <1>1, <1>6 DEF IsInjective
<1> QED
  BY <1>5, <1>7 DEF u

\* The sequences that follow each other make up the whole, and nothing else does.
LEMMA FlattenMembers ==
    ASSUME NEW T, NEW seqs \in Seq(Seq(T))
    PROVE  ToSet(FlattenSeq(seqs)) = UNION {ToSet(seqs[i]) : i \in DOMAIN seqs}
<1>1. PICK f : Flattens(f, seqs, T)
  BY FlattenIs
<1> DEFINE n == Len(seqs)
           Parts(k) == UNION {ToSet(seqs[i]) : i \in 1 .. k}
           Made == {k \in Nat : k <= n => ToSet(f[k]) = Parts(k)}
<1>2. n \in Nat /\ DOMAIN seqs = 1 .. n /\ \A i \in 1 .. n : seqs[i] \in Seq(T)
  OBVIOUS
<1>3. 0 \in Made
  <2>1. ToSet(f[0]) = {} /\ Parts(0) = {}
    BY <1>1 DEF Flattens, ToSet
  <2> HIDE DEF Parts
  <2> QED
    BY <2>1
<1>4. ASSUME NEW k \in Nat, k \in Made PROVE k + 1 \in Made
  <2> SUFFICES ASSUME k + 1 <= n PROVE ToSet(f[k + 1]) = Parts(k + 1)
    OBVIOUS
  <2>1. k + 1 \in 1 .. n /\ k \in 0 .. n /\ (k + 1) - 1 = k /\ k <= n
    BY <1>2
  <2>2. f[k + 1] = f[k] \o seqs[k + 1] /\ f[k] \in Seq(T)
    BY <1>1, <2>1 DEF Flattens
  <2>3. ToSet(f[k + 1]) = ToSet(f[k]) \cup ToSet(seqs[k + 1])
    BY <1>2, <2>1, <2>2, ConcatSet
  <2>4. ToSet(f[k]) = Parts(k)
    BY <1>4, <2>1
  <2>5. Parts(k + 1) = Parts(k) \cup ToSet(seqs[k + 1])
    <3>1. 1 .. k + 1 = (1 .. k) \cup {k + 1}
      BY <1>4
    <3> QED
      BY <3>1
  <2> HIDE DEF Parts
  <2> QED
    BY <2>3, <2>4, <2>5
<1> HIDE DEF Made
<1>5. n \in Made
  BY <1>2, <1>3, <1>4, AllOfThem
<1>6. ToSet(f[n]) = Parts(n)
  BY <1>2, <1>5 DEF Made
<1>7. Parts(n) = UNION {ToSet(seqs[i]) : i \in DOMAIN seqs}
  BY <1>2
<1>8. FlattenSeq(seqs) = f[n]
  BY <1>1 DEF Flattens
<1> QED
  BY <1>6, <1>7, <1>8, Zenon

\* What holds nothing twice, and nothing in two of its sequences, holds nothing twice
\* when they follow each other.
LEMMA FlattenInjective ==
    ASSUME NEW T, NEW seqs \in Seq(Seq(T)),
           \A i \in DOMAIN seqs : IsInjective(seqs[i]),
           \A i, j \in DOMAIN seqs : i # j => ToSet(seqs[i]) \cap ToSet(seqs[j]) = {}
    PROVE  IsInjective(FlattenSeq(seqs))
<1>1. PICK f : Flattens(f, seqs, T)
  BY FlattenIs
<1> DEFINE n == Len(seqs)
           Parts(k) == UNION {ToSet(seqs[i]) : i \in 1 .. k}
           Made == {k \in Nat : k <= n => ToSet(f[k]) = Parts(k) /\ IsInjective(f[k])}
<1>2. n \in Nat /\ DOMAIN seqs = 1 .. n /\ \A i \in 1 .. n : seqs[i] \in Seq(T)
  OBVIOUS
<1>3. 0 \in Made
  <2>1. ToSet(f[0]) = {} /\ Parts(0) = {} /\ IsInjective(f[0])
    BY <1>1 DEF Flattens, ToSet, IsInjective
  <2> HIDE DEF Parts
  <2> QED
    BY <2>1
<1>4. ASSUME NEW k \in Nat, k \in Made PROVE k + 1 \in Made
  <2> SUFFICES ASSUME k + 1 <= n
               PROVE  ToSet(f[k + 1]) = Parts(k + 1) /\ IsInjective(f[k + 1])
    OBVIOUS
  <2>1. /\ k + 1 \in 1 .. n /\ k \in 0 .. n /\ (k + 1) - 1 = k /\ k <= n
        /\ \A i \in 1 .. k : i \in 1 .. n /\ i # k + 1
    BY <1>2
  <2>2. f[k + 1] = f[k] \o seqs[k + 1] /\ f[k] \in Seq(T)
    BY <1>1, <2>1 DEF Flattens
  <2>3. ToSet(f[k]) = Parts(k) /\ IsInjective(f[k])
    BY <1>4, <2>1
  <2>4. Parts(k) \cap ToSet(seqs[k + 1]) = {}
    BY <1>2, <2>1
  <2>5. Parts(k + 1) = Parts(k) \cup ToSet(seqs[k + 1])
    <3>1. 1 .. k + 1 = (1 .. k) \cup {k + 1}
      BY <1>4
    <3> QED
      BY <3>1
  <2> HIDE DEF Parts
  <2>6. IsInjective(seqs[k + 1]) /\ seqs[k + 1] \in Seq(T)
    BY <1>2, <2>1
  <2>7. ToSet(f[k + 1]) = ToSet(f[k]) \cup ToSet(seqs[k + 1])
    BY <2>2, <2>6, ConcatSet
  <2>8. IsInjective(f[k] \o seqs[k + 1])
    <3>1. ToSet(f[k]) \cap ToSet(seqs[k + 1]) = {}
      BY <2>3, <2>4
    <3> QED
      BY <2>2, <2>3, <2>6, <3>1, ConcatSet, Zenon
  <2> QED
    BY <2>2, <2>3, <2>5, <2>7, <2>8
<1> HIDE DEF Made
<1>5. n \in Made
  BY <1>2, <1>3, <1>4, AllOfThem
<1>6. IsInjective(f[n])
  BY <1>2, <1>5 DEF Made
<1> QED
  BY <1>1, <1>6 DEF Flattens

\* A finite set as a sequence.
LEMMA SetToSeqIs ==
    ASSUME NEW S, IsFiniteSet(S)
    PROVE  /\ SetToSeq(S) \in Seq(S) /\ IsInjective(SetToSeq(S)) /\ ToSet(SetToSeq(S)) = S
<1> DEFINE n == Cardinality(S) s == SetToSeq(S)
<1>1. n \in Nat /\ ExistsBijection(1 .. n, S)
  BY FS_CardinalityType
<1>2. \E f \in [1 .. n -> S] : IsInjective(f)
  BY <1>1 DEF ExistsBijection, Bijection, Injection, IsInjective
<1>3. s \in [1 .. n -> S] /\ IsInjective(s)
  BY <1>2 DEF SetToSeq
<1> HIDE DEF s
<1>4. s \in Seq(S)
  BY <1>1, <1>3
<1>5. s \in Injection(1 .. n, S)
  BY <1>3 DEF Injection
<1>6. 1 \in Int /\ n \in Int
  BY <1>1
<1>7. Cardinality(1 .. n) = n
  <2>1. Cardinality(1 .. n) = IF 1 > n THEN 0 ELSE n - 1 + 1
    BY <1>6, FS_Interval, Zenon
  <2> QED
    BY <1>1, <2>1
<1>8. s \in Surjection(1 .. n, S)
  BY <1>5, <1>7, FS_Injection, Zenon
<1>9. ToSet(s) = S
  BY <1>3, <1>8 DEF Surjection, ToSet
<1> QED
  BY <1>3, <1>4, <1>9 DEF s

-----------------------------------------------------------------------------
(* What is asked for *)

\* The entries that are in S, and no other.
LEMMA OnlyIs ==
    ASSUME NEW T, NEW s \in Seq(T), NEW S
    PROVE  Only(s, S) \in Seq(T) /\ ToSet(Only(s, S)) = ToSet(s) \cap S
<1> DEFINE parts == [i \in DOMAIN s |-> IF s[i] \in S THEN <<s[i]>> ELSE <<>>]
<1>1. Len(s) \in Nat /\ DOMAIN s = 1 .. Len(s) /\ \A i \in DOMAIN s : s[i] \in T
  OBVIOUS
<1>2. \A i \in DOMAIN s : parts[i] \in Seq(T)
  BY <1>1
<1>3. parts \in Seq(Seq(T)) /\ DOMAIN parts = DOMAIN s
  BY <1>1, <1>2
<1>4. \A i \in DOMAIN s : ToSet(parts[i]) = {s[i]} \cap S
  BY DEF ToSet
<1>5. Only(s, S) = FlattenSeq(parts)
  BY DEF Only
<1> HIDE DEF parts
<1>6. ToSet(Only(s, S)) = UNION {ToSet(parts[i]) : i \in DOMAIN parts}
  BY <1>3, <1>5, FlattenMembers
<1>7. ToSet(Only(s, S)) = ToSet(s) \cap S
  <2>1. UNION {ToSet(parts[i]) : i \in DOMAIN parts} = {s[i] : i \in DOMAIN s} \cap S
    BY <1>3, <1>4
  <2> QED
    BY <1>6, <2>1 DEF ToSet
<1> QED
  BY <1>3, <1>5, <1>7, FlattenType

\* The turns of a group are counted from one, and no two items have the same.
LEMMA TurnIs ==
    ASSUME NEW T, NEW groups \in Seq(T), NEW i \in DOMAIN groups
    PROVE  /\ Turn(groups, i) \in DOMAIN groups
           /\ \A k \in DOMAIN groups :
                  groups[k] = groups[i] /\ i # k => Turn(groups, i) # Turn(groups, k)
           /\ \E k \in DOMAIN groups : groups[k] = groups[i] /\ Turn(groups, k) = 1
<1> DEFINE n == Len(groups)
           Same(k) == {j \in 1 .. k : groups[j] = groups[k]}
<1>1. n \in Nat /\ DOMAIN groups = 1 .. n
  OBVIOUS
<1>2. \A k : Turn(groups, k) = Cardinality(Same(k))
  BY DEF Turn
<1>3. ASSUME NEW k \in 1 .. n
      PROVE  /\ IsFiniteSet(Same(k)) /\ IsFiniteSet(1 .. k) /\ Cardinality(1 .. k) = k
             /\ Cardinality(Same(k)) \in 1 .. k
  <2>1. 1 \in Int /\ k \in Int /\ ~ (1 > k) /\ k - 1 + 1 = k /\ k \in Nat
    BY <1>1
  <2>2. /\ IsFiniteSet(1 .. k)
        /\ Cardinality(1 .. k) = IF 1 > k THEN 0 ELSE k - 1 + 1
    BY <2>1, FS_Interval, Zenon
  <2>3. Cardinality(1 .. k) = k
    BY <2>1, <2>2
  <2>4. Same(k) \in SUBSET (1 .. k) /\ k \in Same(k)
    BY <1>1
  <2> HIDE DEF Same
  <2>5. IsFiniteSet(Same(k)) /\ Cardinality(Same(k)) <= k
    BY <2>2, <2>3, <2>4, FS_Subset
  <2>6. Cardinality(Same(k)) \in Nat
    BY <2>5, FS_CardinalityType
  <2>7. Cardinality(Same(k)) # 0
    BY <2>4, <2>5, FS_EmptySet
  <2> QED
    BY <2>1, <2>2, <2>3, <2>5, <2>6, <2>7
<1>4. ASSUME NEW a \in 1 .. n, NEW b \in 1 .. n, groups[a] = groups[b], a < b
      PROVE  Cardinality(Same(a)) # Cardinality(Same(b))
  <2>1. Same(a) \in SUBSET Same(b) /\ b \in Same(b) /\ b \notin Same(a)
    BY <1>1, <1>4
  <2>2. IsFiniteSet(Same(b))
    BY <1>3
  <2> HIDE DEF Same
  <2> QED
    BY <2>1, <2>2, FS_Subset
<1>5. Turn(groups, i) \in DOMAIN groups
  <2>1. Cardinality(Same(i)) \in 1 .. i
    BY <1>1, <1>3
  <2> HIDE DEF Same
  <2> QED
    BY <1>1, <1>2, <2>1
<1>6. ASSUME NEW k \in DOMAIN groups, groups[k] = groups[i], i # k
      PROVE  Turn(groups, i) # Turn(groups, k)
  <2>1. i < k \/ k < i
    BY <1>1, <1>6
  <2>2. Cardinality(Same(i)) # Cardinality(Same(k))
    BY <1>1, <1>4, <1>6, <2>1
  <2> HIDE DEF Same
  <2> QED
    BY <1>2, <2>2
<1>7. \E k \in DOMAIN groups : groups[k] = groups[i] /\ Turn(groups, k) = 1
  <2> DEFINE I == {j \in 1 .. n : groups[j] = groups[i]}
  <2>1. I \subseteq Nat /\ i \in I
    BY <1>1
  <2>2. PICK k \in I : \A j \in I : k <= j
    <3> HIDE DEF I
    <3> QED
      BY <2>1, LeastOne
  <2>3. Same(k) = {k}
    <3>1. k \in Same(k)
      BY <1>1, <2>2
    <3>2. ASSUME NEW j \in Same(k) PROVE j = k
      BY <1>1, <2>2
    <3> QED
      BY <3>1, <3>2
  <2>4. Cardinality(Same(k)) = 1
    <3> HIDE DEF Same
    <3> QED
      BY <2>3, FS_Singleton
  <2> QED
    BY <1>1, <1>2, <2>2, <2>4
<1> QED
  BY <1>5, <1>6, <1>7

\* A round has every item whose turn it is, once.
LEMMA RoundIs ==
    ASSUME NEW T, NEW groups \in Seq(T), NEW n \in Nat
    PROVE  /\ Round(groups, n) \in Seq(DOMAIN groups) /\ IsInjective(Round(groups, n))
           /\ ToSet(Round(groups, n)) = {i \in DOMAIN groups : Turn(groups, i) = n}
<1> DEFINE D == DOMAIN groups
           Due(first) == DueAfter(groups, first, n)
           parts == [first \in D |-> IF Turn(groups, first) = 1 THEN SetToSeq(Due(first)) ELSE <<>>]
<1>1. Len(groups) \in Nat /\ D = 1 .. Len(groups)
  OBVIOUS
<1>2. Round(groups, n) = FlattenSeq(parts)
  BY DEF Round
<1>3. IsFiniteSet(D)
  <2>1. 1 \in Int /\ Len(groups) \in Int
    BY <1>1
  <2> HIDE DEF D
  <2> QED
    BY <1>1, <2>1, FS_Interval, Zenon
<1> HIDE DEF D
<1>4. ASSUME NEW first \in D
      PROVE  /\ parts[first] \in Seq(D) /\ IsInjective(parts[first])
             /\ ToSet(parts[first]) = IF Turn(groups, first) = 1 THEN Due(first) ELSE {}
  <2>1. Due(first) \in SUBSET D
    BY DEF DueAfter, D
  <2>2. IsFiniteSet(Due(first))
    BY <1>3, <2>1, FS_Subset
  <2>3. /\ SetToSeq(Due(first)) \in Seq(Due(first)) /\ IsInjective(SetToSeq(Due(first)))
        /\ ToSet(SetToSeq(Due(first))) = Due(first)
    BY <2>2, SetToSeqIs
  <2> HIDE DEF Due
  <2>4. SetToSeq(Due(first)) \in Seq(D)
    BY <2>1, <2>3
  <2>5. <<>> \in Seq(D) /\ IsInjective(<<>>) /\ ToSet(<<>>) = {}
    BY DEF IsInjective, ToSet
  <2>6. CASE Turn(groups, first) = 1
    BY <2>3, <2>4, <2>6
  <2>7. CASE Turn(groups, first) # 1
    BY <2>5, <2>7
  <2> QED
    BY <2>6, <2>7
<1>5. DOMAIN parts = D
  OBVIOUS
<1> HIDE DEF parts
<1>6. parts \in Seq(Seq(D))
  BY <1>1, <1>4, <1>5 DEF parts
<1>7. \A i, j \in D : i # j => ToSet(parts[i]) \cap ToSet(parts[j]) = {}
  <2> SUFFICES ASSUME NEW i \in D, NEW j \in D, i # j, NEW x \in ToSet(parts[i]), x \in ToSet(parts[j])
               PROVE  FALSE
    OBVIOUS
  <2>1. Turn(groups, i) = 1 /\ x \in Due(i) /\ Turn(groups, j) = 1 /\ x \in Due(j)
    BY <1>4
  <2>2. groups[i] = groups[j]
    BY <2>1 DEF DueAfter
  <2> QED
    BY <2>1, <2>2, TurnIs DEF D
<1>8. IsInjective(FlattenSeq(parts))
  BY <1>4, <1>5, <1>6, <1>7, FlattenInjective
<1>9. ToSet(FlattenSeq(parts)) = UNION {ToSet(parts[i]) : i \in DOMAIN parts}
  BY <1>6, FlattenMembers
<1>10. UNION {ToSet(parts[i]) : i \in DOMAIN parts} = {i \in D : Turn(groups, i) = n}
  <2>1. ASSUME NEW i \in D, NEW x \in ToSet(parts[i])
        PROVE  x \in {k \in D : Turn(groups, k) = n}
    <3>1. x \in Due(i)
      BY <1>4
    <3> QED
      BY <3>1 DEF DueAfter, D
  <2>2. ASSUME NEW i \in D, Turn(groups, i) = n
        PROVE  \E k \in D : i \in ToSet(parts[k])
    <3>1. PICK k \in D : groups[k] = groups[i] /\ Turn(groups, k) = 1
      BY TurnIs DEF D
    <3>2. i \in Due(k)
      BY <2>2, <3>1 DEF DueAfter, D
    <3> QED
      BY <1>4, <3>1, <3>2
  <2> QED
    BY <1>5, <2>1, <2>2
<1>11. FlattenSeq(parts) \in Seq(D)
  BY <1>6, FlattenType
<1> QED
  BY <1>2, <1>8, <1>9, <1>10, <1>11 DEF D

\* Spreading keeps what it is given: no item is lost, added or asked for twice.
LEMMA SpreadingIs ==
    ASSUME NEW T, NEW items \in Seq(T), NEW S, NEW groups \in Seq(S), DOMAIN groups = DOMAIN items
    PROVE  /\ Spreading(items, groups) \in Seq(T)
           /\ ToSet(Spreading(items, groups)) = ToSet(items)
           /\ IsInjective(items) => IsInjective(Spreading(items, groups))
<1> DEFINE D == DOMAIN groups
           rounds == [n \in D |-> Round(groups, n)]
           order == FlattenSeq(rounds)
           spread == [k \in DOMAIN order |-> items[order[k]]]
<1>1. /\ Len(groups) \in Nat /\ D = 1 .. Len(groups) /\ D \subseteq Nat
      /\ DOMAIN items = D /\ \A i \in D : items[i] \in T
  OBVIOUS
<1>2. Spreading(items, groups) = spread
  BY DEF Spreading
<1>3. \A n \in D : /\ rounds[n] \in Seq(D) /\ IsInjective(rounds[n])
                   /\ ToSet(rounds[n]) = {i \in D : Turn(groups, i) = n}
  <2>1. ASSUME NEW n \in D
        PROVE  /\ Round(groups, n) \in Seq(D) /\ IsInjective(Round(groups, n))
               /\ ToSet(Round(groups, n)) = {i \in D : Turn(groups, i) = n}
    <3>1. n \in Nat
      BY <1>1
    <3> QED
      BY <3>1, RoundIs, Zenon
  <2> QED
    BY <2>1
<1>4. DOMAIN rounds = D
  OBVIOUS
<1> HIDE DEF D
<1>5. rounds \in Seq(Seq(D))
  BY <1>1, <1>3
<1> HIDE DEF rounds
<1>6. order \in Seq(D)
  BY <1>5, FlattenType
<1>7. IsInjective(order)
  <2>1. \A i, j \in D : i # j => ToSet(rounds[i]) \cap ToSet(rounds[j]) = {}
    BY <1>3
  <2> QED
    BY <1>3, <1>4, <1>5, <2>1, FlattenInjective
<1>8. ToSet(order) = D
  <2>1. ToSet(order) = UNION {ToSet(rounds[n]) : n \in DOMAIN rounds}
    BY <1>5, FlattenMembers
  <2>2. \A i \in D : Turn(groups, i) \in D
    BY TurnIs DEF D
  <2>3. UNION {ToSet(rounds[n]) : n \in DOMAIN rounds} = D
    BY <1>3, <1>4, <2>2
  <2> QED
    BY <2>1, <2>3
<1> HIDE DEF order
<1>9. spread \in Seq(T)
  BY <1>1, <1>6
<1>10. ToSet(spread) = ToSet(items)
  <2>1. ToSet(order) = {order[k] : k \in DOMAIN order}
    BY DEF ToSet
  <2>2. {items[order[k]] : k \in DOMAIN order} = {items[i] : i \in D}
    BY <1>8, <2>1
  <2> QED
    BY <1>1, <2>2 DEF ToSet
<1>11. IsInjective(items) => IsInjective(spread)
  <2>1. \A k \in DOMAIN order : order[k] \in D
    BY <1>6
  <2> QED
    BY <1>1, <1>7, <2>1 DEF IsInjective
<1> HIDE DEF spread
<1> QED
  BY <1>2, <1>9, <1>10, <1>11

\* A run of an order without repetitions.
LEMMA BetweenIs ==
    ASSUME NEW order, order \in Seq(ToSet(order)), IsInjective(order), NEW limits,
           {limits.upper, limits.lower} \subseteq ToSet(order) \cup {None}
    PROVE  Between(order, limits) \in Seq(ToSet(order)) /\ IsInjective(Between(order, limits))
<1> DEFINE T == ToSet(order)
           n == Len(order)
           first == IF limits.upper = None THEN 1
                    ELSE CHOOSE i \in DOMAIN order : order[i] = limits.upper
           last == IF limits.lower = None THEN n
                   ELSE CHOOSE i \in DOMAIN order : order[i] = limits.lower
           s == SubSeq(order, first, last)
<1>1. n \in Nat /\ DOMAIN order = 1 .. n /\ \A i \in 1 .. n : order[i] \in T
  OBVIOUS
<1>2. first \in Int /\ 1 <= first
  <2>1. CASE limits.upper = None
    BY <2>1
  <2>2. CASE limits.upper # None
    <3>1. \E i \in DOMAIN order : order[i] = limits.upper
      BY <2>2 DEF ToSet
    <3>2. first \in 1 .. n
      BY <1>1, <2>2, <3>1
    <3> QED
      BY <1>1, <3>2
  <2> QED
    BY <2>1, <2>2
<1>3. last \in Int /\ last <= n
  <2>1. CASE limits.lower = None
    BY <1>1, <2>1
  <2>2. CASE limits.lower # None
    <3>1. \E i \in DOMAIN order : order[i] = limits.lower
      BY <2>2 DEF ToSet
    <3>2. last \in 1 .. n
      BY <1>1, <2>2, <3>1
    <3> QED
      BY <1>1, <3>2
  <2> QED
    BY <2>1, <2>2
<1>4. Between(order, limits) = IF limits.collect THEN s ELSE <<>>
  BY DEF Between
<1> HIDE DEF first, last, T
<1>5. \A i \in first .. last : i \in 1 .. n
  BY <1>1, <1>2, <1>3
<1>6. /\ s \in Seq(T) /\ Len(s) = IF first <= last THEN last - first + 1 ELSE 0
      /\ \A i \in 1 .. last - first + 1 : s[i] = order[first + i - 1]
  BY <1>1, <1>2, <1>3, <1>5, SubSeqProperties
<1> HIDE DEF s
<1>7. ASSUME NEW i \in DOMAIN s, NEW j \in DOMAIN s, s[i] = s[j] PROVE i = j
  <2>1. DOMAIN s = 1 .. Len(s)
    BY <1>6
  <2>2. /\ i \in 1 .. last - first + 1 /\ j \in 1 .. last - first + 1
        /\ first + i - 1 \in first .. last /\ first + j - 1 \in first .. last
    BY <1>2, <1>3, <1>6, <2>1
  <2>3. first + i - 1 = first + j - 1
    BY <1>1, <1>5, <1>6, <1>7, <2>2 DEF IsInjective
  <2> QED
    BY <1>2, <2>2, <2>3
<1>8. <<>> \in Seq(T) /\ IsInjective(<<>>)
  BY DEF IsInjective
<1> QED
  BY <1>4, <1>6, <1>7, <1>8 DEF T, IsInjective

\* A list is asked for once, and an elite one is no other.
ListsOf(order, allBounds) ==
    ToSet(Regions) \X {limits.queue : limits \in ToSet(allBounds)} \X ToSet(order)

LEMMA EliteListsAre ==
    EliteLists \in Seq(ListsOf(EliteTiers, EliteBounds)) /\ IsInjective(EliteLists)
<1> DEFINE K == ListsOf(EliteTiers, EliteBounds)
           tiers(q) == Between(EliteTiers, EliteBounds[q])
           list(q, i) == [r \in DOMAIN Regions |-> <<Regions[r], EliteBounds[q].queue, tiers(q)[i]>>]
           lists(q) == [i \in DOMAIN tiers(q) |-> list(q, i)]
           all == [q \in DOMAIN EliteBounds |-> FlattenSeq(lists(q))]
<1>1. EliteLists = FlattenSeq(all)
  BY DEF EliteLists
<1>2. /\ Regions \in Seq(ToSet(Regions)) /\ IsInjective(Regions)
      /\ EliteTiers \in Seq(ToSet(EliteTiers)) /\ IsInjective(EliteTiers)
      /\ EliteBounds \in Seq(ToSet(EliteBounds))
      /\ \A i, j \in DOMAIN EliteBounds : EliteBounds[i].queue = EliteBounds[j].queue => i = j
      /\ \A limits \in ToSet(EliteBounds) :
             {limits.upper, limits.lower} \subseteq ToSet(EliteTiers) \cup {None}
  BY ListsAssumption DEF ListsAssumption
<1>3. ASSUME NEW q \in DOMAIN EliteBounds
      PROVE  /\ FlattenSeq(lists(q)) \in Seq(K) /\ IsInjective(FlattenSeq(lists(q)))
             /\ \A x \in ToSet(FlattenSeq(lists(q))) : x[2] = EliteBounds[q].queue
  <2> DEFINE t == tiers(q) ls == lists(q)
  <2>0. EliteBounds[q] \in ToSet(EliteBounds)
    BY DEF ToSet
  <2>1. t \in Seq(ToSet(EliteTiers)) /\ IsInjective(t)
    BY <1>2, <2>0, BetweenIs
  <2>2. ls = [i \in DOMAIN t |-> [r \in DOMAIN Regions |-> <<Regions[r], EliteBounds[q].queue, t[i]>>]]
    OBVIOUS
  <2> HIDE DEF t, ls, K
  <2>3. \A i \in DOMAIN t : t[i] \in ToSet(EliteTiers)
    BY <2>1
  <2>4. DOMAIN t = 1 .. Len(t) /\ Len(t) \in Nat /\ DOMAIN Regions = 1 .. Len(Regions)
        /\ Len(Regions) \in Nat /\ \A r \in DOMAIN Regions : Regions[r] \in ToSet(Regions)
    BY <1>2, <2>1
  <2>5. ASSUME NEW i \in DOMAIN t
        PROVE  /\ ls[i] \in Seq(K) /\ IsInjective(ls[i])
               /\ \A x \in ToSet(ls[i]) : x[2] = EliteBounds[q].queue /\ x[3] = t[i]
    <3>1. ls[i] = [r \in DOMAIN Regions |-> <<Regions[r], EliteBounds[q].queue, t[i]>>]
      BY <2>2
    <3>2. \A r \in DOMAIN Regions : <<Regions[r], EliteBounds[q].queue, t[i]>> \in K
      BY <2>0, <2>3, <2>4 DEF K, ListsOf
    <3>3. ls[i] \in Seq(K)
      BY <2>4, <3>1, <3>2
    <3>4. IsInjective(ls[i])
      BY <1>2, <3>1 DEF IsInjective
    <3>5. \A x \in ToSet(ls[i]) : x[2] = EliteBounds[q].queue /\ x[3] = t[i]
      BY <3>1 DEF ToSet
    <3> QED
      BY <3>3, <3>4, <3>5
  <2>6. DOMAIN ls = DOMAIN t
    BY <2>2
  <2>7. ls \in Seq(Seq(K))
    BY <2>2, <2>4, <2>5, <2>6
  <2>8. \A i, j \in DOMAIN ls : i # j => ToSet(ls[i]) \cap ToSet(ls[j]) = {}
    BY <2>1, <2>5, <2>6 DEF IsInjective
  <2>9. IsInjective(FlattenSeq(ls))
    BY <2>5, <2>6, <2>7, <2>8, FlattenInjective
  <2>10. ToSet(FlattenSeq(ls)) = UNION {ToSet(ls[i]) : i \in DOMAIN ls}
    BY <2>7, FlattenMembers
  <2>11. \A x \in ToSet(FlattenSeq(ls)) : x[2] = EliteBounds[q].queue
    BY <2>5, <2>6, <2>10
  <2>12. FlattenSeq(ls) \in Seq(K)
    BY <2>7, FlattenType
  <2> QED
    BY <2>9, <2>11, <2>12 DEF ls
<1> HIDE DEF K, lists
<1>4. /\ DOMAIN all = DOMAIN EliteBounds
      /\ \A q \in DOMAIN EliteBounds : all[q] = FlattenSeq(lists(q))
  OBVIOUS
<1>5. Len(EliteBounds) \in Nat /\ DOMAIN EliteBounds = 1 .. Len(EliteBounds)
  BY <1>2
<1>6. all \in Seq(Seq(K))
  BY <1>3, <1>5
<1> HIDE DEF all
<1>7. \A i, j \in DOMAIN all : i # j => ToSet(all[i]) \cap ToSet(all[j]) = {}
  BY <1>2, <1>3, <1>4
<1>8. \A q \in DOMAIN all : IsInjective(all[q])
  BY <1>3, <1>4
<1>9. IsInjective(FlattenSeq(all))
  BY <1>6, <1>7, <1>8, FlattenInjective
<1> QED
  BY <1>1, <1>6, <1>9, FlattenType DEF K

LEMMA BasicListsAre ==
    BasicLists \in Seq(ListsOf(Ranks, BasicBounds)) /\ IsInjective(BasicLists)
<1> DEFINE K == ListsOf(Ranks, BasicBounds)
           ranks(q) == Between(Ranks, BasicBounds[q])
           list(r, q) == [i \in DOMAIN ranks(q) |-> <<Regions[r], BasicBounds[q].queue, ranks(q)[i]>>]
           lists(r) == [q \in DOMAIN BasicBounds |-> list(r, q)]
           all == [r \in DOMAIN Regions |-> FlattenSeq(lists(r))]
<1>1. BasicLists = FlattenSeq(all)
  BY DEF BasicLists
<1>2. /\ Regions \in Seq(ToSet(Regions)) /\ IsInjective(Regions)
      /\ Ranks \in Seq(ToSet(Ranks)) /\ IsInjective(Ranks)
      /\ BasicBounds \in Seq(ToSet(BasicBounds))
      /\ \A i, j \in DOMAIN BasicBounds : BasicBounds[i].queue = BasicBounds[j].queue => i = j
      /\ \A limits \in ToSet(BasicBounds) :
             {limits.upper, limits.lower} \subseteq ToSet(Ranks) \cup {None}
  BY ListsAssumption DEF ListsAssumption
<1>3. /\ DOMAIN BasicBounds = 1 .. Len(BasicBounds) /\ Len(BasicBounds) \in Nat
      /\ DOMAIN Regions = 1 .. Len(Regions) /\ Len(Regions) \in Nat
      /\ \A r \in DOMAIN Regions : Regions[r] \in ToSet(Regions)
  BY <1>2
<1>4. ASSUME NEW r \in DOMAIN Regions, NEW q \in DOMAIN BasicBounds
      PROVE  /\ list(r, q) \in Seq(K) /\ IsInjective(list(r, q))
             /\ \A x \in ToSet(list(r, q)) : x[1] = Regions[r] /\ x[2] = BasicBounds[q].queue
  <2> DEFINE t == ranks(q)
  <2>0. BasicBounds[q] \in ToSet(BasicBounds)
    BY DEF ToSet
  <2>1. t \in Seq(ToSet(Ranks)) /\ IsInjective(t)
    BY <1>2, <2>0, BetweenIs
  <2>2. list(r, q) = [i \in DOMAIN t |-> <<Regions[r], BasicBounds[q].queue, t[i]>>]
    OBVIOUS
  <2> HIDE DEF t, list, K
  <2>3. DOMAIN t = 1 .. Len(t) /\ Len(t) \in Nat /\ \A i \in DOMAIN t : t[i] \in ToSet(Ranks)
    BY <2>1
  <2>4. \A i \in DOMAIN t : <<Regions[r], BasicBounds[q].queue, t[i]>> \in K
    BY <1>3, <2>0, <2>3 DEF K, ListsOf
  <2>5. list(r, q) \in Seq(K)
    BY <2>2, <2>3, <2>4
  <2>6. IsInjective(list(r, q))
    BY <2>1, <2>2 DEF IsInjective
  <2>7. \A x \in ToSet(list(r, q)) : x[1] = Regions[r] /\ x[2] = BasicBounds[q].queue
    BY <2>2 DEF ToSet
  <2> QED
    BY <2>5, <2>6, <2>7
<1> HIDE DEF K, list
<1>5. ASSUME NEW r \in DOMAIN Regions
      PROVE  /\ FlattenSeq(lists(r)) \in Seq(K) /\ IsInjective(FlattenSeq(lists(r)))
             /\ \A x \in ToSet(FlattenSeq(lists(r))) : x[1] = Regions[r]
  <2> DEFINE ls == lists(r)
  <2>1. DOMAIN ls = DOMAIN BasicBounds /\ \A q \in DOMAIN BasicBounds : ls[q] = list(r, q)
    OBVIOUS
  <2>2. ls \in Seq(Seq(K))
    BY <1>3, <1>4
  <2> HIDE DEF ls
  <2>3. \A i, j \in DOMAIN ls : i # j => ToSet(ls[i]) \cap ToSet(ls[j]) = {}
    BY <1>2, <1>4, <2>1
  <2>4. \A q \in DOMAIN ls : IsInjective(ls[q])
    BY <1>4, <2>1
  <2>5. IsInjective(FlattenSeq(ls))
    BY <2>2, <2>3, <2>4, FlattenInjective
  <2>6. ToSet(FlattenSeq(ls)) = UNION {ToSet(ls[q]) : q \in DOMAIN ls}
    BY <2>2, FlattenMembers
  <2>7. \A x \in ToSet(FlattenSeq(ls)) : x[1] = Regions[r]
    BY <1>4, <2>1, <2>6
  <2>8. FlattenSeq(ls) \in Seq(K)
    BY <2>2, FlattenType
  <2> QED
    BY <2>5, <2>7, <2>8 DEF ls
<1> HIDE DEF lists
<1>6. DOMAIN all = DOMAIN Regions /\ \A r \in DOMAIN Regions : all[r] = FlattenSeq(lists(r))
  OBVIOUS
<1>7. all \in Seq(Seq(K))
  BY <1>3, <1>5
<1> HIDE DEF all
<1>8. \A i, j \in DOMAIN all : i # j => ToSet(all[i]) \cap ToSet(all[j]) = {}
  BY <1>2, <1>5, <1>6 DEF IsInjective
<1>9. \A r \in DOMAIN all : IsInjective(all[r])
  BY <1>5, <1>6
<1>10. IsInjective(FlattenSeq(all))
  BY <1>7, <1>8, <1>9, FlattenInjective
<1> QED
  BY <1>1, <1>7, <1>10, FlattenType DEF K

LEMMA KeysDiffer == EliteKeys \cap BasicKeys = {}
<1>1. \A key \in EliteKeys : key[3] \in ToSet(EliteTiers)
  BY EliteListsAre DEF EliteKeys, ToSet, ListsOf
<1>2. \A key \in BasicKeys : key[3] \in ToSet(Ranks)
  BY BasicListsAre DEF BasicKeys, ToSet, ListsOf
<1> QED
  BY <1>1, <1>2, ListsAssumption DEF ListsAssumption

LEMMA EliteJobsAre ==
    /\ EliteJobs \in Seq(EliteKeys \X {1}) /\ IsInjective(EliteJobs)
    /\ ToSet(EliteJobs) = EliteKeys \X {1}
<1> DEFINE items == [i \in DOMAIN EliteLists |-> <<EliteLists[i], 1>>]
           groups == [i \in DOMAIN EliteLists |-> Continent[EliteLists[i][1]]]
<1>1. EliteLists \in Seq(ListsOf(EliteTiers, EliteBounds)) /\ IsInjective(EliteLists)
  BY EliteListsAre
<1> HIDE DEF EliteLists
<1>2. /\ DOMAIN EliteLists = 1 .. Len(EliteLists) /\ Len(EliteLists) \in Nat
      /\ \A i \in DOMAIN EliteLists : EliteLists[i] \in EliteKeys
      /\ EliteKeys = {EliteLists[i] : i \in DOMAIN EliteLists}
  BY <1>1 DEF EliteKeys, ToSet
<1>3. EliteJobs = Spreading(items, groups)
  BY DEF EliteJobs
<1>4. items \in Seq(EliteKeys \X {1}) /\ IsInjective(items)
  <2>1. \A i \in DOMAIN EliteLists : <<EliteLists[i], 1>> \in EliteKeys \X {1}
    BY <1>2
  <2> QED
    BY <1>1, <1>2, <2>1 DEF IsInjective
<1>5. ToSet(items) = EliteKeys \X {1}
  BY <1>2 DEF ToSet
<1>6. groups \in Seq({groups[i] : i \in DOMAIN groups}) /\ DOMAIN groups = DOMAIN items
  BY <1>2
<1> HIDE DEF items, groups
<1> QED
  BY <1>3, <1>4, <1>5, <1>6, SpreadingIs

LEMMA ProbeKeysAre ==
    ProbeKeys \in Seq(BasicKeys) /\ IsInjective(ProbeKeys) /\ ToSet(ProbeKeys) = BasicKeys
<1> DEFINE groups == [i \in DOMAIN BasicLists |-> BasicLists[i][1]]
<1>1. BasicLists \in Seq(ListsOf(Ranks, BasicBounds)) /\ IsInjective(BasicLists)
  BY BasicListsAre
<1>2. /\ DOMAIN BasicLists = 1 .. Len(BasicLists) /\ Len(BasicLists) \in Nat
      /\ BasicLists \in Seq(BasicKeys) /\ ToSet(BasicLists) = BasicKeys
  BY <1>1 DEF BasicKeys, ToSet
<1>3. ProbeKeys = Spreading(BasicLists, groups)
  BY DEF ProbeKeys
<1>4. groups \in Seq({groups[i] : i \in DOMAIN groups}) /\ DOMAIN groups = DOMAIN BasicLists
  BY <1>2
<1> HIDE DEF groups
<1> QED
  BY <1>1, <1>2, <1>3, <1>4, SpreadingIs

\* The pages of every key, from the first to the last.
LEMMA PageListIs ==
    ASSUME NEW last \in [BasicKeys -> 0 .. Upper]
    PROVE  /\ PageList(last) \in Seq(BasicKeys \X (1 .. Upper)) /\ IsInjective(PageList(last))
           /\ ToSet(PageList(last)) = UNION {{key} \X (1 .. last[key]) : key \in BasicKeys}
<1> DEFINE J == BasicKeys \X (1 .. Upper)
           pages == [i \in DOMAIN ProbeKeys |-> [p \in 1 .. last[ProbeKeys[i]] |-> <<ProbeKeys[i], p>>]]
<1>1. /\ ProbeKeys \in Seq(BasicKeys) /\ IsInjective(ProbeKeys)
      /\ {ProbeKeys[i] : i \in DOMAIN ProbeKeys} = BasicKeys
  BY ProbeKeysAre DEF ToSet
<1>2. /\ DOMAIN ProbeKeys = 1 .. Len(ProbeKeys) /\ Len(ProbeKeys) \in Nat
      /\ \A i \in DOMAIN ProbeKeys : ProbeKeys[i] \in BasicKeys
  BY <1>1
<1>3. Upper \in Nat
  BY PlayersAssumption DEF PlayersAssumption
<1>4. PageList(last) = FlattenSeq(pages)
  BY DEF PageList
<1>5. ASSUME NEW i \in DOMAIN ProbeKeys
      PROVE  /\ pages[i] \in Seq(J) /\ IsInjective(pages[i])
             /\ ToSet(pages[i]) = {ProbeKeys[i]} \X (1 .. last[ProbeKeys[i]])
  <2> DEFINE key == ProbeKeys[i] n == last[key]
  <2>1. key \in BasicKeys /\ n \in Nat /\ n <= Upper
    BY <1>2, <1>3
  <2>2. pages[i] = [p \in 1 .. n |-> <<key, p>>]
    OBVIOUS
  <2> HIDE DEF key, n, pages
  <2>3. \A p \in 1 .. n : <<key, p>> \in J
    BY <1>3, <2>1
  <2>4. pages[i] \in Seq(J)
    BY <2>1, <2>2, <2>3
  <2>5. IsInjective(pages[i])
    BY <2>2 DEF IsInjective
  <2>6. ToSet(pages[i]) = {key} \X (1 .. n)
    BY <2>2 DEF ToSet
  <2> QED
    BY <2>4, <2>5, <2>6 DEF key, n
<1>6. DOMAIN pages = DOMAIN ProbeKeys
  OBVIOUS
<1> HIDE DEF J
<1>7. pages \in Seq(Seq(J))
  BY <1>2, <1>5
<1> HIDE DEF pages
<1>8. \A i, j \in DOMAIN pages : i # j => ToSet(pages[i]) \cap ToSet(pages[j]) = {}
  BY <1>1, <1>5, <1>6 DEF IsInjective
<1>9. \A i \in DOMAIN pages : IsInjective(pages[i])
  BY <1>5, <1>6
<1>10. IsInjective(FlattenSeq(pages))
  BY <1>7, <1>8, <1>9, FlattenInjective
<1>11. ToSet(FlattenSeq(pages)) = UNION {ToSet(pages[i]) : i \in DOMAIN pages}
  BY <1>7, FlattenMembers
<1>12. UNION {ToSet(pages[i]) : i \in DOMAIN pages} = UNION {{key} \X (1 .. last[key]) : key \in BasicKeys}
  <2>1. \A x : (\E i \in DOMAIN ProbeKeys : x \in {ProbeKeys[i]} \X (1 .. last[ProbeKeys[i]]))
               <=> (\E key \in BasicKeys : x \in {key} \X (1 .. last[key]))
    BY <1>1
  <2> QED
    BY <1>5, <1>6, <2>1
<1> QED
  BY <1>4, <1>7, <1>10, <1>11, <1>12, FlattenType DEF J

LEMMA PageJobsAre ==
    ASSUME NEW last \in [BasicKeys -> 0 .. Upper]
    PROVE  /\ PageJobs[last] \in Seq(BasicKeys \X (1 .. Upper)) /\ IsInjective(PageJobs[last])
           /\ ToSet(PageJobs[last]) = UNION {{key} \X (1 .. last[key]) : key \in BasicKeys}
<1> DEFINE jobs == PageList(last)
           groups == [i \in DOMAIN jobs |-> jobs[i][1][1]]
<1>1. /\ jobs \in Seq(BasicKeys \X (1 .. Upper)) /\ IsInjective(jobs)
      /\ ToSet(jobs) = UNION {{key} \X (1 .. last[key]) : key \in BasicKeys}
  BY PageListIs
<1>2. PageJobs[last] = Spreading(jobs, groups)
  BY DEF PageJobs
<1> HIDE DEF jobs
<1>3. DOMAIN jobs = 1 .. Len(jobs) /\ Len(jobs) \in Nat
  BY <1>1
<1>4. groups \in Seq({groups[i] : i \in DOMAIN groups}) /\ DOMAIN groups = DOMAIN jobs
  BY <1>3
<1> HIDE DEF groups
<1> QED
  BY <1>1, <1>2, <1>4, SpreadingIs

-----------------------------------------------------------------------------
(* The page probe *)

\* A list has its probe's ends as long as the batch that probes it is awaited, and
\* a probe that has returned early met a 404.
ProbesOfChunk ==
    /\ DOMAIN flight = ToSet(chunk)
    /\ stage = "probe" =>
           /\ todo \in Seq(BasicKeys) /\ chunk \in Seq(BasicKeys)
           /\ DOMAIN range = DOMAIN flight
           /\ \A key \in DOMAIN flight :
                  /\ flight[key] \in {"pending", "answered", "failed"}
                  /\ flight[key] = "answered" => key \in cut
    /\ stage # "probe" => DOMAIN range = {}
    /\ \A key \in DOMAIN range :
           range[key] \in [low : Nat, high : Nat] /\ range[key].high <= Upper + 1

\* The bounds are those of the run at hand.
BoundsOfRun ==
    /\ bounds \in [BasicKeys -> 0 .. Upper]
    /\ stage = "start" => \A key \in BasicKeys : bounds[key] = 0

ProbeInv == ProbesOfChunk /\ BoundsOfRun /\ BoundIsLastPage

LEMMA PagesType ==
    ASSUME NEW key \in BasicKeys
    PROVE  Pages(key) \in Nat
BY PlayersAssumption DEF PlayersAssumption

\* The keys that are being probed have pages.
LEMMA RangeKeys ==
    ASSUME ProbeInv
    PROVE  DOMAIN range \subseteq BasicKeys
BY DEF ProbeInv, ProbesOfChunk, ToSet

\* The middle of two ends that are apart lies between them.
LEMMA MiddleLies ==
    ASSUME NEW low \in Nat, NEW high \in Nat, low + 1 < high
    PROVE  /\ (low + high) \div 2 \in Nat
           /\ low < (low + high) \div 2 /\ (low + high) \div 2 < high
BY SMT

LEMMA ProbeInit == Init => ProbeInv
<1> USE PlayersAssumption DEF PlayersAssumption
<1>1. ASSUME Init PROVE ProbeInv
  <2>1. DOMAIN flight = {} /\ DOMAIN range = {} /\ ToSet(chunk) = {}
    BY <1>1 DEF Init, ToSet
  <2>2. bounds \in [BasicKeys -> 0 .. Upper] /\ \A key \in BasicKeys : bounds[key] = 0
    BY <1>1 DEF Init
  <2>3. stage = "start"
    BY <1>1 DEF Init
  <2> QED
    BY <2>1, <2>2, <2>3 DEF ProbeInv, ProbesOfChunk, BoundsOfRun, BoundIsLastPage
<1> QED
  BY <1>1

\* A step that drops what is in memory, and does not begin the probes.
LEMMA ForgetKeepsProbes ==
    ASSUME Forget, stage' # "probe"
    PROVE  ProbeInv'
<1>1. DOMAIN flight' = {} /\ DOMAIN range' = {} /\ ToSet(chunk)' = {}
  BY DEF Forget, ToSet
<1>2. bounds' \in [BasicKeys -> 0 .. Upper] /\ \A key \in BasicKeys : bounds'[key] = 0
  BY PlayersAssumption DEF Forget, PlayersAssumption
<1> QED
  BY <1>1, <1>2 DEF ProbeInv, ProbesOfChunk, BoundsOfRun, BoundIsLastPage

\* A step that leaves the probe alone.
LEMMA ProbesUntouched ==
    ASSUME ProbeInv, UNCHANGED <<chunk, flight, range, bounds, cut>>,
           stage' # "start" \/ stage = "start",
           \/ stage' = stage /\ todo' = todo
           \/ stage' # "probe" /\ DOMAIN range = {}
    PROVE  ProbeInv'
<1>1. ProbesOfChunk'
  BY DEF ProbeInv, ProbesOfChunk, ToSet
<1>2. BoundsOfRun'
  BY DEF ProbeInv, BoundsOfRun
<1>3. BoundIsLastPage'
  BY DEF ProbeInv, BoundIsLastPage
<1> QED
  BY <1>1, <1>2, <1>3 DEF ProbeInv

\* A batch of keys to probe begins with the widest range, which holds any last page.
LEMMA NextChunkKeepsProbes ==
    ASSUME ProbeInv, NextChunk
    PROVE  ProbeInv'
<1> USE PlayersAssumption DEF PlayersAssumption
<1>1. UNCHANGED <<stage, bounds, cut>> /\ stage # "start"
  BY DEF NextChunk, history
<1> DEFINE n == IF Len(todo) < InFlight THEN Len(todo) ELSE InFlight
           first == SubSeq(todo, 1, n)
<1>2. /\ chunk' = first /\ todo' = SubSeq(todo, n + 1, Len(todo))
      /\ flight' = [item \in ToSet(first) |-> "pending"]
      /\ range' = IF stage = "probe"
                  THEN [key \in ToSet(first) |-> [low |-> 1, high |-> Upper + 1]]
                  ELSE <<>>
  BY DEF NextChunk
<1>3. DOMAIN flight' = ToSet(chunk)'
  BY <1>2
<1> HIDE DEF first
<1>4. BoundsOfRun'
  BY <1>1 DEF ProbeInv, BoundsOfRun
<1>5. CASE stage = "probe"
  <2>1. todo \in Seq(BasicKeys) /\ Len(todo) \in Nat /\ n \in 0 .. Len(todo)
    BY <1>5 DEF ProbeInv, ProbesOfChunk
  <2>2. first \in Seq(BasicKeys) /\ SubSeq(todo, n + 1, Len(todo)) \in Seq(BasicKeys)
    BY <2>1 DEF first
  <2>3. ToSet(first) \subseteq BasicKeys
    BY <2>2 DEF ToSet
  <2>4. /\ DOMAIN range' = ToSet(first)
        /\ \A key \in ToSet(first) : range'[key] = [low |-> 1, high |-> Upper + 1]
        /\ \A key \in ToSet(first) : flight'[key] = "pending"
    BY <1>2, <1>5
  <2>5. ProbesOfChunk'
    BY <1>1, <1>2, <1>3, <1>5, <2>2, <2>4 DEF ProbesOfChunk
  <2>6. BoundIsLastPage'
    BY <1>1, <2>4 DEF ProbeInv, BoundIsLastPage
  <2> QED
    BY <1>4, <2>5, <2>6 DEF ProbeInv
<1>6. CASE stage # "probe"
  <2>1. DOMAIN range' = {}
    BY <1>2, <1>6
  <2>2. ProbesOfChunk'
    BY <1>1, <1>3, <1>6, <2>1 DEF ProbesOfChunk
  <2>3. BoundIsLastPage'
    BY <1>1, <2>1 DEF ProbeInv, BoundIsLastPage
  <2> QED
    BY <1>4, <2>2, <2>3 DEF ProbeInv
<1> QED
  BY <1>5, <1>6

\* An answer halves the range and keeps the last page in it.
LEMMA ProbeKeepsProbes ==
    ASSUME ProbeInv, NEW key \in DOMAIN flight, Probe(key)
    PROVE  ProbeInv'
<1> USE PlayersAssumption DEF PlayersAssumption
<1>1. /\ stage = "probe" /\ key \in DOMAIN range /\ key \in BasicKeys
      /\ range[key] \in [low : Nat, high : Nat] /\ range[key].low + 1 < range[key].high
      /\ range[key].high <= Upper + 1
  BY RangeKeys DEF Probe, Probing, Halving, ProbeInv, ProbesOfChunk
<1>2. UNCHANGED <<stage, todo, chunk, flight, bounds, cut>>
  BY DEF Probe, history
<1>3. Pages(key) \in Nat
  BY <1>1, PagesType
<1>4. Middle(key) \in Nat /\ range[key].low < Middle(key) /\ Middle(key) < range[key].high
  BY <1>1, MiddleLies DEF Middle
<1> DEFINE low == IF Middle(key) <= Pages(key) THEN Middle(key) ELSE range[key].low
           high == IF Middle(key) <= Pages(key) THEN range[key].high ELSE Middle(key)
<1>5. low \in Nat /\ high \in Nat
  BY <1>1, <1>4
<1>6. /\ DOMAIN range' = DOMAIN range
      /\ range'[key] = [low |-> low, high |-> high]
      /\ \A k \in DOMAIN range \ {key} : range'[k] = range[k]
  <2>1. CASE Middle(key) <= Pages(key)
    <3>1. range' = [range EXCEPT ![key] = [range[key] EXCEPT !.low = Middle(key)]]
      BY <2>1 DEF Probe
    <3>2. [range[key] EXCEPT !.low = Middle(key)] = [low |-> low, high |-> high]
      BY <1>1, <2>1
    <3> HIDE DEF low, high
    <3> QED
      BY <1>1, <3>1, <3>2
  <2>2. CASE ~(Middle(key) <= Pages(key))
    <3>1. range' = [range EXCEPT ![key] = [range[key] EXCEPT !.high = Middle(key)]]
      BY <2>2 DEF Probe
    <3>2. [range[key] EXCEPT !.high = Middle(key)] = [low |-> low, high |-> high]
      BY <1>1, <2>2
    <3> HIDE DEF low, high
    <3> QED
      BY <1>1, <3>1, <3>2
  <2> QED
    BY <2>1, <2>2
<1>7. /\ range[key].low >= 1 /\ (range[key].low > 1 => range[key].low <= Pages(key))
      /\ range[key].high <= Upper => range[key].high > Pages(key)
  BY <1>1 DEF ProbeInv, BoundIsLastPage
<1>8. /\ 1 <= low /\ low < high /\ high <= Upper + 1
      /\ low > 1 => low <= Pages(key)
      /\ high <= Upper => high > Pages(key)
  BY <1>1, <1>3, <1>4, <1>5, <1>7
<1> HIDE DEF low, high
<1>9. ProbesOfChunk'
  <2>1. ToSet(chunk)' = ToSet(chunk)
    BY <1>2
  <2>2. ASSUME NEW k \in DOMAIN range'
        PROVE  range'[k] \in [low : Nat, high : Nat] /\ range'[k].high <= Upper + 1
    <3>1. CASE k = key
      BY <1>5, <1>6, <1>8, <3>1
    <3>2. CASE k # key
      BY <1>6, <3>2 DEF ProbeInv, ProbesOfChunk
    <3> QED
      BY <3>1, <3>2
  <2> QED
    BY <1>1, <1>2, <1>6, <2>1, <2>2 DEF ProbeInv, ProbesOfChunk
<1>10. BoundIsLastPage'
  BY <1>2, <1>6, <1>8 DEF ProbeInv, BoundIsLastPage
<1>11. BoundsOfRun'
  BY <1>2 DEF ProbeInv, BoundsOfRun
<1> QED
  BY <1>9, <1>10, <1>11 DEF ProbeInv

\* A 404 ends the probe, which is then recorded as cut short.
LEMMA NotFoundKeepsProbes ==
    ASSUME ProbeInv, NEW key \in DOMAIN flight, NotFound(key) \/ ProbeFails(key) \/ Fetch(key)
    PROVE  ProbeInv'
<1>1. UNCHANGED <<stage, todo, chunk, range, bounds>> /\ cut \subseteq cut' /\ stage # "start"
  BY DEF NotFound, ProbeFails, Fetch, Probing
<1>2. /\ DOMAIN flight' = DOMAIN flight
      /\ \A k \in DOMAIN flight \ {key} : flight'[k] = flight[k]
      /\ flight'[key] \in {"answered", "failed"}
  BY DEF NotFound, ProbeFails, Fetch
<1>3. stage = "probe" /\ flight'[key] = "answered" => key \in cut'
  BY DEF NotFound, ProbeFails, Fetch
<1>4. ProbesOfChunk'
  <2>1. ToSet(chunk)' = ToSet(chunk)
    BY <1>1
  <2> QED
    BY <1>1, <1>2, <1>3, <2>1 DEF ProbeInv, ProbesOfChunk
<1>5. BoundIsLastPage'
  BY <1>1 DEF ProbeInv, BoundIsLastPage
<1>6. BoundsOfRun'
  BY <1>1 DEF ProbeInv, BoundsOfRun
<1> QED
  BY <1>4, <1>5, <1>6 DEF ProbeInv

\* What the batch found is within the limit, and the last page unless it was cut.
LEMMA BoundsFoundKeepsProbes ==
    ASSUME ProbeInv, BoundsFound
    PROVE  ProbeInv'
<1> USE PlayersAssumption DEF PlayersAssumption
<1>1. /\ stage = "probe" /\ UNCHANGED <<stage, todo, cut>>
      /\ \A key \in DOMAIN flight : Probed(key)
      /\ bounds' = [key \in BasicKeys |->
                       IF key \in DOMAIN flight /\ flight[key] # "failed" THEN range[key].low
                       ELSE bounds[key]]
      /\ chunk' = <<>> /\ flight' = <<>> /\ range' = <<>>
  BY DEF BoundsFound, history
<1>2. DOMAIN flight' = {} /\ DOMAIN range' = {} /\ ToSet(chunk)' = {} /\ chunk' \in Seq(BasicKeys)
  BY <1>1 DEF ToSet
<1>3. ProbesOfChunk'
  BY <1>1, <1>2 DEF ProbeInv, ProbesOfChunk
<1>4. ASSUME NEW key \in BasicKeys, key \in DOMAIN flight, flight[key] # "failed"
      PROVE  /\ range[key].low \in 1 .. Upper
             /\ range[key].low > 1 => range[key].low <= WithinLimit(key)
             /\ key \notin cut => range[key].low >= WithinLimit(key)
  <2>1. /\ range[key] \in [low : Nat, high : Nat] /\ range[key].high <= Upper + 1
        /\ 1 <= range[key].low /\ range[key].low < range[key].high
        /\ range[key].low > 1 => range[key].low <= Pages(key)
        /\ range[key].high <= Upper => range[key].high > Pages(key)
    BY <1>1, <1>4 DEF ProbeInv, ProbesOfChunk, BoundIsLastPage
  <2>2. Pages(key) \in Nat
    BY PagesType
  <2>3. key \notin cut => ~ (range[key].low + 1 < range[key].high)
    BY <1>1, <1>4 DEF ProbeInv, ProbesOfChunk, Probed, Halving
  <2> QED
    BY <2>1, <2>2, <2>3 DEF WithinLimit
<1>5. BoundsOfRun'
  BY <1>1, <1>4 DEF ProbeInv, BoundsOfRun
<1>6. BoundIsLastPage'
  <2> SUFFICES ASSUME NEW key \in BasicKeys, bounds'[key] # 0
               PROVE  /\ bounds'[key] > 1 => bounds'[key] <= WithinLimit(key)
                      /\ key \notin cut => bounds'[key] >= WithinLimit(key)
    BY <1>1, <1>2 DEF BoundIsLastPage
  <2>1. CASE key \in DOMAIN flight /\ flight[key] # "failed"
    BY <1>1, <1>4, <2>1
  <2>2. CASE ~(key \in DOMAIN flight /\ flight[key] # "failed")
    BY <1>1, <2>2 DEF ProbeInv, BoundIsLastPage
  <2> QED
    BY <2>1, <2>2
<1> QED
  BY <1>3, <1>5, <1>6 DEF ProbeInv

\* Every step keeps the probe's invariant.
LEMMA ProbeInductive ==
    ASSUME ProbeInv, [Next]_vars
    PROVE  ProbeInv'
<1> USE DEF memory, history
<1>1. CASE Start
  <2>1. /\ stage = "start" /\ stage' \in {"undo", "elite"} /\ cut' = {}
        /\ UNCHANGED <<chunk, flight, range, bounds>>
    BY <1>1 DEF Start, Enter
  <2>2. DOMAIN range = {} /\ \A key \in BasicKeys : bounds[key] = 0
    BY <2>1 DEF ProbeInv, ProbesOfChunk, BoundsOfRun
  <2>3. ProbesOfChunk'
    BY <2>1, <2>2 DEF ProbeInv, ProbesOfChunk, ToSet
  <2>4. BoundsOfRun'
    BY <2>1 DEF ProbeInv, BoundsOfRun
  <2>5. BoundIsLastPage'
    BY <2>1, <2>2 DEF BoundIsLastPage
  <2> QED
    BY <2>3, <2>4, <2>5 DEF ProbeInv
<1>2. CASE StartProbes
  <2>1. CASE stop
    BY <1>2, <2>1, ForgetKeepsProbes DEF StartProbes, Fail, Enter
  <2>2. CASE ~ stop
    <3>1. /\ stage = "elite" /\ stage' = "probe" /\ todo' = ProbeKeys /\ chunk = <<>>
          /\ UNCHANGED <<chunk, flight, range, bounds, cut>>
      BY <1>2, <2>2 DEF StartProbes, Enter, Pulling
    <3>2. DOMAIN range = {} /\ DOMAIN flight = {} /\ ToSet(chunk) = {}
      BY <3>1 DEF ProbeInv, ProbesOfChunk, ToSet
    <3>3. todo' \in Seq(BasicKeys) /\ chunk' \in Seq(BasicKeys) /\ ToSet(chunk)' = ToSet(chunk)
      BY <3>1, ProbeKeysAre
    <3>4. ProbesOfChunk'
      BY <3>1, <3>2, <3>3 DEF ProbesOfChunk
    <3>5. BoundsOfRun' /\ BoundIsLastPage'
      BY <3>1 DEF ProbeInv, BoundsOfRun, BoundIsLastPage
    <3> QED
      BY <3>4, <3>5 DEF ProbeInv
  <2> QED
    BY <2>1, <2>2
<1>3. CASE StartPages
  <2>1. /\ stage = "probe" /\ stage' = "pages" /\ chunk = <<>>
        /\ UNCHANGED <<chunk, flight, range, bounds, cut>>
    BY <1>3 DEF StartPages, Enter, Pulling
  <2>2. ToSet(chunk) = {}
    BY <2>1 DEF ToSet
  <2>3. DOMAIN range = {}
    BY <2>1, <2>2 DEF ProbeInv, ProbesOfChunk
  <2> QED
    BY <2>1, <2>3, ProbesUntouched
<1>4. CASE NextChunk
  BY <1>4, NextChunkKeepsProbes
<1>5. CASE BoundsFound
  BY <1>5, BoundsFoundKeepsProbes
<1>6. CASE Deliver
  <2>1. /\ stage \in {"elite", "pages"} /\ UNCHANGED <<stage, range, bounds, cut>>
        /\ chunk' = <<>> /\ flight' = <<>>
    BY <1>6 DEF Deliver
  <2>2. DOMAIN flight' = {} /\ ToSet(chunk)' = {} /\ DOMAIN range' = {}
    BY <2>1 DEF ProbeInv, ProbesOfChunk, ToSet
  <2>3. ProbesOfChunk'
    BY <2>1, <2>2 DEF ProbesOfChunk
  <2>4. BoundsOfRun' /\ BoundIsLastPage'
    BY <2>1 DEF ProbeInv, BoundsOfRun, BoundIsLastPage
  <2> QED
    BY <2>3, <2>4 DEF ProbeInv
<1>7. CASE \E key \in DOMAIN flight : Probe(key) \/ NotFound(key) \/ ProbeFails(key) \/ Fetch(key)
  BY <1>7, ProbeKeepsProbes, NotFoundKeepsProbes
<1>8. CASE Pull
  <2>1. CASE stop
    BY <1>8, <2>1, ForgetKeepsProbes DEF Pull, Fail, Enter
  <2>2. CASE ~ stop
    BY <1>8, <2>2, ProbesUntouched DEF Pull
  <2> QED
    BY <2>1, <2>2
<1>9. CASE Insert \/ LastBatch
  BY <1>9, ProbesUntouched DEF Insert, LastBatch
<1>10. CASE InsertError \/ Stored \/ Interrupt
  BY <1>10, ForgetKeepsProbes DEF InsertError, Stored, Interrupt, EndRun, Fail, Enter
<1>11. CASE Undo \/ ForgetTs \/ TrimTs
  <2>1. \/ Forget /\ stage' # "probe"
        \/ UNCHANGED <<stage, memory, history>>
    BY <1>11 DEF Undo, ForgetTs, TrimTs, EndRun, Enter
  <2> QED
    BY <2>1, ForgetKeepsProbes, ProbesUntouched
<1>12. CASE UpsertTs
  <2>1. stage = "upsert" /\ stage' \in {"upsert", "trim", "forget"} /\ UNCHANGED <<memory, history>>
    BY <1>12 DEF UpsertTs, Enter
  <2>2. DOMAIN range = {}
    BY <2>1 DEF ProbeInv, ProbesOfChunk
  <2> QED
    BY <2>1, <2>2, ProbesUntouched
<1>13. CASE RequestStop \/ ClearStop \/ UNCHANGED vars
  BY <1>13, ProbesUntouched DEF RequestStop, ClearStop, vars
<1> QED
  BY <1>1, <1>2, <1>3, <1>4, <1>5, <1>6, <1>7, <1>8, <1>9, <1>10, <1>11, <1>12, <1>13
     DEF Next, Work, AllRun

\* For any limit, lists, batch size and failures: the ends of a probe hold the last page between them, and the
\* bound it returns is the last page within the limit, page 1 at least, and after
\* a 404 no more than that.
THEOREM ProbesFindLastPages == Spec => []BoundIsLastPage
<1>1. Init => ProbeInv
  BY ProbeInit
<1>2. ProbeInv /\ [Next]_vars => ProbeInv'
  BY ProbeInductive
<1>3. ProbeInv => BoundIsLastPage
  BY DEF ProbeInv
<1> QED
  BY <1>1, <1>2, <1>3, PTL DEF Spec

-----------------------------------------------------------------------------
(* Timestamps and undone runs *)

\* How a run ends.
Endings == {"complete", "undone", "stuck", "unanchored", "untrimmed", "interrupted"}

\* A run that is given its timestamp is whole, and has it when the others go.
RunsInv ==
    /\ outcome \in Seq(Endings)
    /\ AnchoredIsWhole /\ UndoneIsGone
    /\ stage \in {"upsert", "forget", "trim"} => run \in DOMAIN whole
    /\ stage = "trim" => run \in ts

\* A step within a run that touches no timestamp, and no row of another run.
LEMMA WithinRun ==
    ASSUME RunsInv, UNCHANGED <<outcome, whole, ts>>,
           \A row \in rows' : row \in rows \/ row[1] = run,
           stage' = stage \/ stage' \notin {"upsert", "forget", "trim"}
    PROVE  RunsInv'
<1>1. UndoneIsGone'
  BY DEF RunsInv, UndoneIsGone, StoredBy, run
<1> QED
  BY <1>1 DEF RunsInv, AnchoredIsWhole, run

\* A step that ends a run; an undone one is left without rows.
LEMMA RunEnded ==
    ASSUME RunsInv, stage' = "start", whole' = whole, ts' \subseteq ts, rows' \subseteq rows,
           \E how \in Endings :
               /\ outcome' = Append(outcome, how)
               /\ how = "undone" => \A row \in rows' : row[1] # run
    PROVE  RunsInv'
<1>0. PICK how \in Endings :
          /\ outcome' = Append(outcome, how)
          /\ how = "undone" => \A row \in rows' : row[1] # run
  OBVIOUS
<1>1. /\ outcome' \in Seq(Endings) /\ DOMAIN outcome' = DOMAIN outcome \cup {run}
      /\ \A r \in DOMAIN outcome : outcome'[r] = outcome[r]
      /\ outcome'[run] = how
  BY <1>0 DEF RunsInv, run
<1>2. \A r \in DOMAIN outcome : outcome[r] = "undone" => \A row \in rows' : row[1] # r
  BY DEF RunsInv, UndoneIsGone, StoredBy
<1>3. \A r \in DOMAIN outcome' : outcome'[r] = "undone" => \A row \in rows' : row[1] # r
  BY <1>0, <1>1, <1>2
<1>4. UndoneIsGone'
  BY <1>3 DEF UndoneIsGone, StoredBy
<1> QED
  BY <1>1, <1>4 DEF RunsInv, AnchoredIsWhole

LEMMA RunsInit == Init => RunsInv
BY DEF Init, RunsInv, AnchoredIsWhole, UndoneIsGone

LEMMA RunsInductive ==
    ASSUME RunsInv, [Next]_vars
    PROVE  RunsInv'
<1> USE DEF memory, history, tables
<1>1. CASE Start \/ StartProbes \/ StartPages \/ NextChunk \/ BoundsFound \/ Deliver
  <2>1. /\ UNCHANGED <<outcome, whole, ts, rows>>
        /\ stage' = stage \/ stage' \in {"undo", "elite", "probe", "pages"}
    BY <1>1 DEF Start, StartProbes, StartPages, NextChunk, BoundsFound, Deliver, Fail, Enter
  <2> QED
    BY <2>1, WithinRun
<1>2. ASSUME NEW key \in DOMAIN flight, Probe(key) \/ NotFound(key) \/ ProbeFails(key) \/ Fetch(key)
      PROVE  RunsInv'
  BY <1>2, WithinRun DEF Probe, NotFound, ProbeFails, Fetch
<1>3. CASE Pull \/ LastBatch
  <2>1. UNCHANGED <<outcome, whole, ts, rows>> /\ (stage' = stage \/ stage' = "undo")
    BY <1>3 DEF Pull, LastBatch, Fail, Enter
  <2> QED
    BY <2>1, WithinRun
<1>4. CASE Insert \/ InsertError
  <2>1. /\ UNCHANGED <<outcome, whole, ts>> /\ (stage' = stage \/ stage' = "undo")
        /\ rows' \subseteq rows \cup RowsOf(sending)
    BY <1>4 DEF Insert, InsertError, Fail, Enter
  <2>2. \A row \in RowsOf(sending) : row[1] = run
    BY DEF RowsOf
  <2> QED
    BY <2>1, <2>2, WithinRun
<1>5. CASE Stored
  <2>1. /\ UNCHANGED <<outcome, ts, rows>> /\ stage' = "upsert"
        /\ DOMAIN whole' = DOMAIN whole \cup {run}
    BY <1>5 DEF Stored, Enter
  <2> QED
    BY <2>1 DEF RunsInv, AnchoredIsWhole, UndoneIsGone, StoredBy, run
<1>6. CASE Undo
  <2>1. CASE Undone /\ EndRun("undone")
    <3>1. /\ outcome' = Append(outcome, "undone") /\ stage' = "start" /\ UNCHANGED <<whole, ts>>
          /\ rows' = {row \in rows : row[1] # run}
      BY <1>6, <2>1 DEF Undo, Undone, EndRun, Enter
    <3>2. rows' \subseteq rows /\ \A row \in rows' : row[1] # run
      BY <3>1
    <3> QED
      BY <3>1, <3>2, RunEnded DEF Endings
  <2>2. CASE EndRun("stuck") /\ (Undone \/ UNCHANGED rows)
    <3>1. /\ outcome' = Append(outcome, "stuck") /\ stage' = "start" /\ UNCHANGED <<whole, ts>>
          /\ rows' = {row \in rows : row[1] # run} \/ rows' = rows
      BY <1>6, <2>2 DEF Undo, Undone, EndRun, Enter
    <3>2. rows' \subseteq rows
      BY <3>1
    <3> QED
      BY <3>1, <3>2, RunEnded DEF Endings
  <2>3. CASE UNCHANGED <<stage, memory, history>> /\ (Undone \/ UNCHANGED rows)
    BY <1>6, <2>3, WithinRun DEF Undo, Undone
  <2> QED
    BY <1>6, <2>1, <2>2, <2>3 DEF Undo
<1>7. CASE UpsertTs
  <2>1. /\ stage = "upsert" /\ stage' \in {"upsert", "trim", "forget"}
        /\ UNCHANGED <<outcome, whole, rows>>
        /\ ts' \in {ts, ts \cup {run}} /\ (stage' = "trim" => ts' = ts \cup {run})
    BY <1>7 DEF UpsertTs, Enter
  <2> QED
    BY <2>1 DEF RunsInv, AnchoredIsWhole, UndoneIsGone, StoredBy, run
<1>8. CASE ForgetTs
  <2>1. CASE EndRun("unanchored")
    <3>1. /\ outcome' = Append(outcome, "unanchored") /\ stage' = "start"
          /\ UNCHANGED <<whole, rows>> /\ ts' \subseteq ts
      BY <1>8, <2>1 DEF ForgetTs, EndRun, Enter
    <3> QED
      BY <3>1, RunEnded DEF Endings
  <2>2. CASE UNCHANGED <<stage, memory, history>>
    BY <1>8, <2>2 DEF ForgetTs, RunsInv, AnchoredIsWhole, UndoneIsGone, StoredBy, run
  <2> QED
    BY <1>8, <2>1, <2>2 DEF ForgetTs
<1>9. CASE TrimTs
  <2>1. CASE EndRun("complete") \/ EndRun("untrimmed")
    <3>1. PICK how \in {"complete", "untrimmed"} :
              /\ outcome' = Append(outcome, how) /\ stage' = "start"
              /\ UNCHANGED <<whole, rows>> /\ ts' \subseteq ts
      BY <1>9, <2>1 DEF TrimTs, EndRun, Enter
    <3> QED
      BY <3>1, RunEnded DEF Endings
  <2>2. CASE UNCHANGED <<stage, memory, history>>
    BY <1>9, <2>2 DEF TrimTs, RunsInv, AnchoredIsWhole, UndoneIsGone, StoredBy, run
  <2> QED
    BY <1>9, <2>1, <2>2 DEF TrimTs
<1>10. CASE Interrupt
  <2>1. /\ outcome' = Append(outcome, "interrupted") /\ stage' = "start"
        /\ UNCHANGED <<whole, rows, ts>>
    BY <1>10 DEF Interrupt, EndRun, Enter
  <2> QED
    BY <2>1, RunEnded DEF Endings
<1>11. CASE RequestStop \/ ClearStop \/ UNCHANGED vars
  BY <1>11, WithinRun DEF RequestStop, ClearStop, vars
<1> QED
  BY <1>1, <1>2, <1>3, <1>4, <1>5, <1>6, <1>7, <1>8, <1>9, <1>10, <1>11 DEF Next, Work, AllRun

LEMMA RunsHold == Spec => []RunsInv
BY RunsInit, RunsInductive, PTL DEF Spec

\* The timestamp of an earlier run goes only when that of the run at hand is there.
THEOREM SnapshotIsRotated == Spec => SnapshotSurvives
<1>1. ASSUME RunsInv, [Next]_vars PROVE [ts \ {run} # {} => ts' # {}]_vars
  <2> USE DEF memory, history, tables
  <2>1. CASE TrimTs
    BY <1>1, <2>1 DEF TrimTs, RunsInv
  <2>2. CASE UpsertTs
    BY <1>1, <2>2 DEF UpsertTs
  <2>3. CASE ForgetTs
    BY <1>1, <2>3 DEF ForgetTs
  <2>4. CASE \E key \in DOMAIN flight : Probe(key) \/ NotFound(key) \/ ProbeFails(key) \/ Fetch(key)
    BY <2>4 DEF Probe, NotFound, ProbeFails, Fetch
  <2>5. ts' = ts \/ UpsertTs \/ ForgetTs \/ TrimTs
    <3>1. CASE Start \/ StartProbes \/ StartPages \/ NextChunk \/ BoundsFound \/ Deliver
      BY <3>1 DEF Start, StartProbes, StartPages, NextChunk, BoundsFound, Deliver
    <3>2. CASE Pull \/ Insert \/ InsertError \/ LastBatch \/ Stored \/ Undo
      BY <3>2 DEF Pull, Insert, InsertError, LastBatch, Stored, Undo
    <3>3. CASE RequestStop \/ ClearStop \/ Interrupt \/ UNCHANGED vars
      BY <3>3 DEF RequestStop, ClearStop, Interrupt, vars
    <3> QED
      BY <1>1, <2>4, <3>1, <3>2, <3>3 DEF Next, Work, AllRun, Probe, NotFound, ProbeFails, Fetch
  <2> QED
    BY <2>1, <2>2, <2>3, <2>5
<1> QED
  BY <1>1, RunsHold, PTL DEF Spec, SnapshotSurvives

-----------------------------------------------------------------------------
(* Types *)

Fetching == {"elite", "probe", "pages"}
Stages == {"start", "elite", "probe", "pages", "undo", "upsert", "forget", "trim"}

\* What a stage has fetched: pages of lists, or the last pages of keys.
Items ==
    IF stage = "elite" THEN EliteKeys \X {1}
    ELSE IF stage = "probe" THEN BasicKeys ELSE BasicKeys \X (1 .. Upper)

\* The run at hand is one of those the bound allows, and has the latest rows.
ControlInv ==
    /\ stage \in Stages /\ tries \in 0 .. Attempts - 1
    /\ incidents \in 0 .. MaxIncidents /\ stop \in BOOLEAN
    /\ stage # "start" => run <= Runs
    /\ ts \subseteq 1 .. Runs
    /\ rows \subseteq (1 .. Runs) \X Entry
    /\ \A row \in rows : row[1] <= run /\ (stage = "start" => row[1] < run)

\* An item is in the batch that is awaited or in those to come, once; players come
\* in when nothing is left of those before; nothing is in memory outside the run.
MemoryInv ==
    /\ ready \in Seq(Entry) /\ batch \in Seq(Entry) /\ sending \in Seq(Entry)
    /\ Len(batch) < BatchSize /\ Len(sending) <= BatchSize /\ Len(chunk) <= InFlight
    /\ todo \in Seq(Items) /\ chunk \in Seq(Items)
    /\ IsInjective(todo) /\ IsInjective(chunk) /\ ToSet(todo) \cap ToSet(chunk) = {}
    /\ chunk # <<>> => stage \in Fetching /\ ready = <<>> /\ sending = <<>>
    /\ stage \notin Fetching => todo = <<>> /\ ready = <<>> /\ batch = <<>> /\ sending = <<>>

TypeInv == ControlInv /\ MemoryInv

LEMMA RunType ==
    ASSUME RunsInv
    PROVE  /\ run \in Nat \ {0}
           /\ \A how \in Endings : outcome' = Append(outcome, how) => run' = run + 1
           /\ outcome' = outcome => run' = run
BY DEF RunsInv, run

\* How a step moves the counters.
Counters ==
    /\ tries' \in {tries, 0} \/ (tries + 1 < Attempts /\ tries' = tries + 1)
    /\ incidents' = incidents \/ Incident
    /\ stop' \in {stop, TRUE, FALSE}

LEMMA CountersMove ==
    ASSUME [Next]_vars
    PROVE  Counters
<1> USE DEF memory, history, tables
<1>1. CASE Start \/ StartProbes \/ StartPages \/ NextChunk \/ BoundsFound \/ Deliver
  BY <1>1 DEF Start, StartProbes, StartPages, NextChunk, BoundsFound, Deliver, Fail, Enter, Counters
<1>2. ASSUME NEW key \in DOMAIN flight, Probe(key) \/ NotFound(key) \/ ProbeFails(key) \/ Fetch(key)
      PROVE  Counters
  BY <1>2 DEF Probe, NotFound, ProbeFails, Fetch, Counters
<1>3. CASE Pull \/ Insert \/ InsertError \/ LastBatch \/ Stored
  BY <1>3 DEF Pull, Insert, InsertError, LastBatch, Stored, Fail, Enter, Counters
<1>4. CASE Undo
  BY <1>4 DEF Undo, CallFails, CallFailsForGood, EndRun, Enter, Incident, Counters
<1>5. CASE UpsertTs
  BY <1>5 DEF UpsertTs, CallFails, CallFailsForGood, Enter, Incident, Counters
<1>6. CASE ForgetTs
  BY <1>6 DEF ForgetTs, CallFails, CallFailsForGood, EndRun, Enter, Incident, Counters
<1>7. CASE TrimTs
  BY <1>7 DEF TrimTs, CallFails, CallFailsForGood, EndRun, Enter, Incident, Counters
<1>8. CASE RequestStop \/ ClearStop \/ Interrupt \/ UNCHANGED vars
  BY <1>8 DEF RequestStop, ClearStop, Interrupt, EndRun, Enter, vars, Counters
<1> QED
  BY <1>1, <1>2, <1>3, <1>4, <1>5, <1>6, <1>7, <1>8 DEF Next, Work, AllRun

LEMMA CountersTyped ==
    ASSUME ControlInv, Counters
    PROVE  tries' \in 0 .. Attempts - 1 /\ incidents' \in 0 .. MaxIncidents /\ stop' \in BOOLEAN
<1> USE PlayersAssumption DEF PlayersAssumption
<1>1. tries' \in 0 .. Attempts - 1
  BY DEF ControlInv, Counters
<1>2. incidents' \in 0 .. MaxIncidents
  BY DEF ControlInv, Counters, Incident
<1>3. stop' \in BOOLEAN
  BY Zenon DEF ControlInv, Counters
<1> QED
  BY <1>1, <1>2, <1>3

\* A step of the run at hand.
LEMMA RunGoesOn ==
    ASSUME ControlInv, RunsInv, Counters, UNCHANGED outcome,
           run <= Runs, stage' \in Stages, stage # "start" \/ rows' = rows,
           stage' # "start" \/ stage = "start",
           ts' \subseteq ts \cup {run}, rows' \subseteq rows \cup ({run} \X Entry)
    PROVE  ControlInv'
<1>1. run \in Nat \ {0} /\ run' = run
  BY RunType
<1>2. tries' \in 0 .. Attempts - 1 /\ incidents' \in 0 .. MaxIncidents /\ stop' \in BOOLEAN
  BY CountersTyped
<1>3. ts' \subseteq 1 .. Runs /\ rows' \subseteq (1 .. Runs) \X Entry
  BY <1>1 DEF ControlInv
<1>4. ASSUME NEW row \in rows' PROVE row[1] <= run /\ (stage' = "start" => row[1] < run)
  <2>1. CASE row \in rows
    BY <2>1 DEF ControlInv
  <2>2. CASE row \notin rows
    <3>1. row \in {run} \X Entry
      BY <1>4, <2>2
    <3>2. row[1] = run /\ stage' # "start"
      BY <1>4, <2>2, <3>1
    <3> QED
      BY <1>1, <3>2
  <2> QED
    BY <2>1, <2>2
<1> QED
  BY <1>1, <1>2, <1>3, <1>4 DEF ControlInv

\* A step that ends it.
LEMMA RunIsOver ==
    ASSUME ControlInv, RunsInv, Counters, stage # "start", stage' = "start",
           \E how \in Endings : outcome' = Append(outcome, how),
           ts' \subseteq ts \cup {run}, rows' \subseteq rows
    PROVE  ControlInv'
<1> USE PlayersAssumption DEF PlayersAssumption
<1>1. run \in Nat \ {0} /\ run' = run + 1
  BY RunType
<1>2. tries' \in 0 .. Attempts - 1 /\ incidents' \in 0 .. MaxIncidents /\ stop' \in BOOLEAN
  BY CountersTyped
<1>3. ts' \subseteq 1 .. Runs /\ rows' \subseteq (1 .. Runs) \X Entry
  BY <1>1 DEF ControlInv
<1>4. ASSUME NEW row \in rows' PROVE row[1] <= run' /\ row[1] < run'
  <2>1. row \in rows /\ row[1] \in Nat
    BY DEF ControlInv
  <2> QED
    BY <1>1, <2>1 DEF ControlInv
<1> QED
  BY <1>2, <1>3, <1>4 DEF ControlInv, Stages

LEMMA ControlInductive ==
    ASSUME TypeInv, RunsInv, [Next]_vars
    PROVE  ControlInv'
<1> USE DEF memory, history, tables
<1>0. ControlInv /\ Counters /\ (stage # "start" => run <= Runs) /\ stage \in Stages
  BY CountersMove DEF TypeInv, ControlInv
<1>1. CASE Start \/ StartProbes \/ StartPages \/ NextChunk \/ BoundsFound \/ Deliver
  <2>1. /\ UNCHANGED <<outcome, ts, rows>> /\ run <= Runs
        /\ (stage' = stage /\ stage # "start") \/ stage' \in {"undo", "elite", "probe", "pages"}
    BY <1>0, <1>1
       DEF Start, StartProbes, StartPages, NextChunk, BoundsFound, Deliver, Fail, Enter
  <2> QED
    BY <1>0, <2>1, RunGoesOn DEF Stages
<1>2. ASSUME NEW key \in DOMAIN flight, Probe(key) \/ NotFound(key) \/ ProbeFails(key) \/ Fetch(key)
      PROVE  ControlInv'
  <2>1. UNCHANGED <<outcome, ts, rows, stage>> /\ run <= Runs
    BY <1>0, <1>2 DEF Probe, NotFound, ProbeFails, Fetch, Probing
  <2> QED
    BY <1>0, <2>1, RunGoesOn
<1>3. ASSUME sending # <<>> \/ ready # <<>> \/ batch # <<>> PROVE stage \in Fetching
  BY <1>3 DEF TypeInv, MemoryInv
<1>4. CASE Pull \/ LastBatch \/ Stored
  <2>1. stage \in Fetching
    BY <1>3, <1>4 DEF Pull, LastBatch, Stored, Exhausted, Fetching
  <2>2. /\ UNCHANGED <<outcome, ts, rows>>
        /\ stage' = stage \/ stage' \in {"undo", "upsert"}
    BY <1>4 DEF Pull, LastBatch, Stored, Fail, Enter
  <2> QED
    BY <1>0, <2>1, <2>2, RunGoesOn DEF Stages, Fetching
<1>5. CASE Insert \/ InsertError
  <2>1. stage \in Fetching
    BY <1>3, <1>5 DEF Insert, InsertError
  <2>2. /\ UNCHANGED <<outcome, ts>> /\ (stage' = stage \/ stage' = "undo")
        /\ rows' \subseteq rows \cup RowsOf(sending)
    BY <1>5 DEF Insert, InsertError, Fail, Enter
  <2>3. RowsOf(sending) \subseteq {run} \X Entry
    BY DEF RowsOf, ToSet, TypeInv, MemoryInv
  <2>4. rows' \subseteq rows \cup ({run} \X Entry)
    BY <2>2, <2>3
  <2> QED
    BY <1>0, <2>1, <2>2, <2>4, RunGoesOn DEF Stages, Fetching
<1>6. CASE Undo
  <2>1. stage = "undo" /\ ts' = ts /\ rows' \subseteq rows
    BY <1>6 DEF Undo, Undone
  <2>2. \/ stage' = "start" /\ \E how \in Endings : outcome' = Append(outcome, how)
        \/ UNCHANGED <<stage, outcome>>
    BY <1>6 DEF Undo, EndRun, Enter, Endings
  <2> QED
    BY <1>0, <2>1, <2>2, RunGoesOn, RunIsOver
<1>7. CASE UpsertTs
  <2>1. /\ stage = "upsert" /\ UNCHANGED <<outcome, rows>> /\ ts' \subseteq ts \cup {run}
        /\ stage' \in {"upsert", "trim", "forget"}
    BY <1>7 DEF UpsertTs, Enter
  <2> QED
    BY <1>0, <2>1, RunGoesOn DEF Stages
<1>8. CASE ForgetTs
  <2>1. stage = "forget" /\ rows' = rows /\ ts' \subseteq ts
    BY <1>8 DEF ForgetTs
  <2>2. \/ stage' = "start" /\ \E how \in Endings : outcome' = Append(outcome, how)
        \/ UNCHANGED <<stage, outcome>>
    BY <1>8 DEF ForgetTs, EndRun, Enter, Endings
  <2> QED
    BY <1>0, <2>1, <2>2, RunGoesOn, RunIsOver
<1>9. CASE TrimTs
  <2>1. stage = "trim" /\ rows' = rows /\ ts' \subseteq ts
    BY <1>9 DEF TrimTs
  <2>2. \/ stage' = "start" /\ \E how \in Endings : outcome' = Append(outcome, how)
        \/ UNCHANGED <<stage, outcome>>
    BY <1>9 DEF TrimTs, EndRun, Enter, Endings
  <2> QED
    BY <1>0, <2>1, <2>2, RunGoesOn, RunIsOver
<1>10. CASE Interrupt
  <2>1. /\ stage # "start" /\ stage' = "start" /\ UNCHANGED <<ts, rows>>
        /\ \E how \in Endings : outcome' = Append(outcome, how)
    BY <1>10 DEF Interrupt, EndRun, Enter, Endings
  <2> QED
    BY <1>0, <2>1, RunIsOver
<1>11. CASE RequestStop \/ ClearStop \/ UNCHANGED vars
  <2>1. UNCHANGED <<stage, outcome, ts, rows>>
    BY <1>11 DEF RequestStop, ClearStop, vars
  <2>2. run' = run
    BY <2>1 DEF run
  <2>3. tries' \in 0 .. Attempts - 1 /\ incidents' \in 0 .. MaxIncidents /\ stop' \in BOOLEAN
    BY <1>0, CountersTyped
  <2> QED
    BY <1>0, <2>1, <2>2, <2>3 DEF ControlInv
<1> QED
  BY <1>1, <1>2, <1>4, <1>5, <1>6, <1>7, <1>8, <1>9, <1>10, <1>11 DEF Next, Work, AllRun

\* A sequence without repetitions, taken apart.
LEMMA TakeFirst ==
    ASSUME NEW T, NEW s \in Seq(T), IsInjective(s), NEW n \in 0 .. Len(s)
    PROVE  LET first == SubSeq(s, 1, n)
               rest == SubSeq(s, n + 1, Len(s))
           IN  /\ first \in Seq(T) /\ rest \in Seq(T) /\ Len(first) = n
               /\ IsInjective(first) /\ IsInjective(rest)
               /\ ToSet(first) \cap ToSet(rest) = {} /\ ToSet(first) \cup ToSet(rest) = ToSet(s)
<1> DEFINE first == SubSeq(s, 1, n)
           rest == SubSeq(s, n + 1, Len(s))
<1>1. Len(s) \in Nat /\ n \in Nat /\ n <= Len(s) /\ DOMAIN s = 1 .. Len(s)
  OBVIOUS
<1>2. /\ first \in Seq(T) /\ Len(first) = n /\ DOMAIN first = 1 .. n
      /\ \A i \in 1 .. n : first[i] = s[i]
  OBVIOUS
<1>3. /\ rest \in Seq(T) /\ DOMAIN rest = 1 .. Len(s) - n
      /\ \A i \in 1 .. Len(s) - n : rest[i] = s[n + i]
  OBVIOUS
<1> HIDE DEF first, rest
<1>4. \A i \in 1 .. n : i \in DOMAIN s
  BY <1>1
<1>5. \A i \in 1 .. Len(s) - n : n + i \in DOMAIN s /\ n + i \notin 1 .. n
  BY <1>1
<1>6. IsInjective(first)
  BY <1>2, <1>4 DEF IsInjective
<1>7. IsInjective(rest)
  <2>1. ASSUME NEW i \in DOMAIN rest, NEW j \in DOMAIN rest, rest[i] = rest[j] PROVE i = j
    <3>1. n + i = n + j
      BY <1>3, <1>5, <2>1 DEF IsInjective
    <3> QED
      BY <1>1, <1>3, <3>1
  <2> QED
    BY <2>1 DEF IsInjective
<1>8. ToSet(first) \cap ToSet(rest) = {}
  <2> SUFFICES ASSUME NEW i \in DOMAIN first, NEW j \in DOMAIN rest, first[i] = rest[j] PROVE FALSE
    BY DEF ToSet
  <2>1. s[i] = s[n + j] /\ i \in DOMAIN s /\ n + j \in DOMAIN s
    BY <1>2, <1>3, <1>4, <1>5
  <2>2. i = n + j
    BY <2>1 DEF IsInjective
  <2> QED
    BY <1>2, <1>3, <1>5, <2>2
<1>9. ToSet(first) \cup ToSet(rest) = ToSet(s)
  <2>1. ToSet(first) \subseteq ToSet(s)
    BY <1>2, <1>4 DEF ToSet
  <2>2. ToSet(rest) \subseteq ToSet(s)
    BY <1>3, <1>5 DEF ToSet
  <2>3. ASSUME NEW i \in DOMAIN s PROVE s[i] \in ToSet(first) \cup ToSet(rest)
    <3>1. CASE i \in 1 .. n
      BY <1>2, <3>1 DEF ToSet
    <3>2. CASE i \notin 1 .. n
      <4>1. i - n \in 1 .. Len(s) - n /\ n + (i - n) = i
        BY <1>1, <3>2
      <4>2. rest[i - n] = s[i]
        BY <1>3, <4>1
      <4> QED
        BY <1>3, <4>1, <4>2 DEF ToSet
    <3> QED
      BY <3>1, <3>2
  <2> QED
    BY <2>1, <2>2, <2>3 DEF ToSet
<1> QED
  BY <1>2, <1>3, <1>6, <1>7, <1>8, <1>9 DEF first, rest

\* What a page holds, and what is kept of it.
LEMMA PlayersType ==
    ASSUME NEW job \in (EliteKeys \cup BasicKeys) \X (Nat \ {0})
    PROVE  Players(job) \in Seq(Entry)
<1>1. job[1] \in EliteKeys \cup BasicKeys /\ job[2] \in Nat \ {0}
  OBVIOUS
<1>2. job[1] \in DOMAIN Book /\ Book[job[1]] \in Seq(Seq(Entry)) /\ Pages(job[1]) = Len(Book[job[1]])
  BY <1>1, ListsAssumption DEF ListsAssumption, Pages
<1>3. Page(job) \in Seq(Entry)
  <2>1. CASE job[2] <= Pages(job[1])
    BY <1>1, <1>2, <2>1 DEF Page
  <2>2. CASE ~ (job[2] <= Pages(job[1]))
    BY <2>2 DEF Page
  <2> QED
    BY <2>1, <2>2
<1>4. Only(Page(job), Entry \ Invalid) \in Seq(Entry)
  BY <1>3, OnlyIs
<1>5. <<>> \in Seq(Entry)
  OBVIOUS
<1> QED
  BY <1>3, <1>4, <1>5 DEF Players

LEMMA NoMemory ==
    ASSUME todo' = <<>>, chunk' = <<>>, ready' = <<>>, batch' = <<>>, sending' = <<>>
    PROVE  MemoryInv'
<1>1. Len(<<>>) = 0 /\ IsInjective(<<>>) /\ ToSet(<<>>) = {} /\ \A T : <<>> \in Seq(T)
  BY DEF IsInjective, ToSet
<1>2. 0 < BatchSize /\ 0 <= BatchSize /\ 0 <= InFlight
  BY PlayersAssumption DEF PlayersAssumption
<1> QED
  BY <1>1, <1>2 DEF MemoryInv

LEMMA MemoryKept ==
    ASSUME MemoryInv, UNCHANGED <<stage, todo, chunk, ready, batch, sending>>
    PROVE  MemoryInv'
<1>1. Items' = Items
  BY DEF Items
<1> QED
  BY <1>1, Zenon DEF MemoryInv, Fetching

\* Before the first stage, and behind the last one, there is nothing in memory.
LEMMA NothingOutside ==
    ASSUME MemoryInv, stage \notin Fetching
    PROVE  todo = <<>> /\ chunk = <<>> /\ ready = <<>> /\ batch = <<>> /\ sending = <<>>
BY DEF MemoryInv

LEMMA PullKeepsMemory ==
    ASSUME MemoryInv, Pull
    PROVE  MemoryInv'
<1>1. CASE stop
  BY <1>1, NoMemory DEF Pull, Fail, Forget
<1>2. CASE ~ stop
  <2>1. /\ ready # <<>> /\ sending = <<>> /\ ready' = Tail(ready) /\ UNCHANGED <<stage, todo, chunk>>
        /\ \/ batch' = <<>> /\ sending' = Append(batch, Head(ready))
           \/ /\ ~ FlushAt(Len(Append(batch, Head(ready))))
              /\ batch' = Append(batch, Head(ready)) /\ sending' = sending
    BY <1>2 DEF Pull
  <2>2. /\ ready \in Seq(Entry) /\ batch \in Seq(Entry) /\ Len(batch) < BatchSize
        /\ chunk = <<>> /\ stage \in Fetching
    BY <2>1 DEF MemoryInv
  <2>3. Head(ready) \in Entry /\ Tail(ready) \in Seq(Entry)
    BY <2>1, <2>2
  <2>4. /\ Append(batch, Head(ready)) \in Seq(Entry) /\ Len(batch) \in Nat
        /\ Len(Append(batch, Head(ready))) = Len(batch) + 1
    BY <2>2, <2>3
  <2>5. BatchSize \in Nat \ {0}
    BY PlayersAssumption DEF PlayersAssumption
  <2>6. /\ batch' \in Seq(Entry) /\ sending' \in Seq(Entry)
        /\ Len(batch') < BatchSize /\ Len(sending') <= BatchSize
    <3>1. CASE batch' = <<>> /\ sending' = Append(batch, Head(ready))
      BY <2>2, <2>4, <2>5, <3>1
    <3>2. CASE ~ FlushAt(Len(Append(batch, Head(ready)))) /\ batch' = Append(batch, Head(ready))
                 /\ sending' = sending
      BY <2>1, <2>4, <2>5, <3>2 DEF FlushAt
    <3> QED
      BY <2>1, <3>1, <3>2
  <2>7. Items' = Items
    BY <2>1 DEF Items
  <2> QED
    BY <2>1, <2>2, <2>3, <2>6, <2>7 DEF MemoryInv
<1> QED
  BY <1>1, <1>2

LEMMA NextChunkKeepsMemory ==
    ASSUME MemoryInv, NextChunk
    PROVE  /\ MemoryInv' /\ chunk = <<>> /\ ready = <<>> /\ sending = <<>>
           /\ ToSet(todo)' \cup ToSet(chunk)' = ToSet(todo)
<1> DEFINE n == IF Len(todo) < InFlight THEN Len(todo) ELSE InFlight
           first == SubSeq(todo, 1, n)
           rest == SubSeq(todo, n + 1, Len(todo))
<1>1. /\ chunk' = first /\ todo' = rest /\ UNCHANGED <<stage, ready, batch, sending>>
      /\ stage \in Fetching /\ ready = <<>> /\ sending = <<>> /\ chunk = <<>>
  BY DEF NextChunk, Pulling, Fetching
<1>2. todo \in Seq(Items) /\ IsInjective(todo)
  BY DEF MemoryInv
<1>3. n \in 0 .. Len(todo) /\ n <= InFlight
  BY <1>2, PlayersAssumption DEF PlayersAssumption
<1> HIDE DEF n
<1>4. /\ first \in Seq(Items) /\ rest \in Seq(Items) /\ Len(first) = n
      /\ IsInjective(first) /\ IsInjective(rest)
      /\ ToSet(first) \cap ToSet(rest) = {} /\ ToSet(first) \cup ToSet(rest) = ToSet(todo)
  BY <1>2, <1>3, TakeFirst
<1> HIDE DEF first, rest
<1>5. Items' = Items
  BY <1>1 DEF Items
<1>6. MemoryInv'
  <2>1. ToSet(todo)' \cap ToSet(chunk)' = {}
    BY <1>1, <1>4
  <2> QED
    BY <1>1, <1>3, <1>4, <1>5, <2>1 DEF MemoryInv
<1>7. ToSet(todo)' \cup ToSet(chunk)' = ToSet(todo)
  BY <1>1, <1>4
<1> QED
  BY <1>1, <1>6, <1>7

\* What the batch of fetches delivers: the players of the pages that were answered.
LEMMA DeliverIs ==
    ASSUME MemoryInv, ProbeInv, Deliver
    PROVE  /\ ready' \in Seq(Entry)
           /\ ToSet(ready)' =
                  UNION {ToSet(Players(job)) : job \in {j \in ToSet(chunk) : flight[j] # "failed"}}
<1> DEFINE parts == [i \in DOMAIN chunk |->
                        IF flight[chunk[i]] = "failed" THEN <<>> ELSE Players(chunk[i])]
<1>1. ready' = FlattenSeq(parts) /\ stage \in {"elite", "pages"}
  BY DEF Deliver
<1>2. chunk \in Seq((EliteKeys \cup BasicKeys) \X (Nat \ {0}))
  <2>1. Items \subseteq (EliteKeys \cup BasicKeys) \X (Nat \ {0})
    BY <1>1, PlayersAssumption DEF Items, PlayersAssumption
  <2>2. chunk \in Seq(Items)
    BY DEF MemoryInv
  <2> QED
    BY <2>1, <2>2
<1>3. /\ DOMAIN chunk = 1 .. Len(chunk) /\ Len(chunk) \in Nat
      /\ \A i \in DOMAIN chunk : chunk[i] \in (EliteKeys \cup BasicKeys) \X (Nat \ {0})
  BY <1>2
<1>4. \A i \in DOMAIN chunk : Players(chunk[i]) \in Seq(Entry) /\ <<>> \in Seq(Entry)
  BY <1>3, PlayersType
<1>5. parts \in Seq(Seq(Entry)) /\ DOMAIN parts = DOMAIN chunk
  BY <1>3, <1>4
<1>6. \A i \in DOMAIN chunk :
          ToSet(parts[i]) = IF flight[chunk[i]] = "failed" THEN {} ELSE ToSet(Players(chunk[i]))
  BY DEF ToSet
<1> HIDE DEF parts
<1>7. ToSet(FlattenSeq(parts)) = UNION {ToSet(parts[i]) : i \in DOMAIN parts}
  BY <1>5, FlattenMembers
<1>8. UNION {ToSet(parts[i]) : i \in DOMAIN parts}
      = UNION {ToSet(Players(job)) : job \in {j \in ToSet(chunk) : flight[j] # "failed"}}
  <2>1. ToSet(chunk) = {chunk[i] : i \in DOMAIN chunk}
    BY DEF ToSet
  <2>2. ASSUME NEW x
        PROVE  (\E i \in DOMAIN chunk : x \in ToSet(parts[i]))
               <=> (\E job \in ToSet(chunk) : flight[job] # "failed" /\ x \in ToSet(Players(job)))
    BY <1>6, <2>1
  <2> QED
    BY <1>5, <2>2
<1>9. ToSet(ready)' = ToSet(FlattenSeq(parts))
  BY <1>1
<1>10. FlattenSeq(parts) \in Seq(Entry)
  BY <1>5, FlattenType
<1> QED
  BY <1>1, <1>7, <1>8, <1>9, <1>10

LEMMA MemoryInductive ==
    ASSUME MemoryInv, ProbeInv, [Next]_vars
    PROVE  MemoryInv'
<1> USE DEF memory, history, tables
<1>1. CASE Start
  <2>1. CASE stop
    <3>1. UNCHANGED <<todo, chunk, ready, batch, sending>> /\ stage \notin Fetching
      BY <1>1, <2>1 DEF Start, Fetching
    <3> QED
      BY <3>1, NothingOutside, NoMemory
  <2>2. CASE ~ stop
    <3>1. /\ UNCHANGED <<chunk, ready, batch, sending>> /\ stage' = "elite" /\ todo' = EliteJobs
          /\ stage \notin Fetching
      BY <1>1, <2>2 DEF Start, Fetching, Enter
    <3>2. chunk' = <<>> /\ ready' = <<>> /\ batch' = <<>> /\ sending' = <<>>
      BY <3>1, NothingOutside
    <3>3. Len(<<>>) = 0 /\ IsInjective(<<>>) /\ ToSet(<<>>) = {} /\ \A T : <<>> \in Seq(T)
      BY DEF IsInjective, ToSet
    <3>4. Items' = EliteKeys \X {1}
      BY <3>1 DEF Items
    <3>5. 0 < BatchSize /\ 0 <= BatchSize /\ 0 <= InFlight
      BY PlayersAssumption DEF PlayersAssumption
    <3>6. stage' \in Fetching
      BY <3>1 DEF Fetching
    <3> QED
      BY <3>1, <3>2, <3>3, <3>4, <3>5, <3>6, EliteJobsAre DEF MemoryInv
  <2> QED
    BY <2>1, <2>2
<1>2. CASE StartProbes
  <2>1. CASE stop
    BY <1>2, <2>1, NoMemory DEF StartProbes, Fail, Forget
  <2>2. CASE ~ stop
    <3>1. /\ UNCHANGED <<chunk, ready, batch, sending>> /\ stage' = "probe" /\ todo' = ProbeKeys
          /\ chunk' = <<>>
      BY <1>2, <2>2 DEF StartProbes, Enter, Pulling
    <3>2. IsInjective(<<>>) /\ ToSet(<<>>) = {} /\ \A T : <<>> \in Seq(T)
      BY DEF IsInjective, ToSet
    <3>3. Items' = BasicKeys /\ stage' \in Fetching
      BY <3>1 DEF Items, Fetching
    <3> QED
      BY <3>1, <3>2, <3>3, ProbeKeysAre DEF MemoryInv
  <2> QED
    BY <2>1, <2>2
<1>3. CASE StartPages
  <2>1. /\ UNCHANGED <<chunk, ready, batch, sending>> /\ stage' = "pages"
        /\ todo' = PageJobs[bounds] /\ chunk' = <<>>
    BY <1>3 DEF StartPages, Enter, Pulling
  <2>2. IsInjective(<<>>) /\ ToSet(<<>>) = {} /\ \A T : <<>> \in Seq(T)
    BY DEF IsInjective, ToSet
  <2>3. Items' = BasicKeys \X (1 .. Upper) /\ stage' \in Fetching
    BY <2>1 DEF Items, Fetching
  <2>4. bounds \in [BasicKeys -> 0 .. Upper]
    BY DEF ProbeInv, BoundsOfRun
  <2>5. todo' \in Seq(Items') /\ IsInjective(todo')
    BY <2>1, <2>3, <2>4, PageJobsAre
  <2> QED
    BY <2>1, <2>2, <2>3, <2>5 DEF MemoryInv
<1>4. CASE NextChunk
  BY <1>4, NextChunkKeepsMemory
<1>5. CASE BoundsFound \/ Deliver
  <2>1. /\ chunk' = <<>> /\ UNCHANGED <<stage, todo, batch, sending>> /\ stage \in Fetching
        /\ ready' \in Seq(Entry)
    BY <1>5, DeliverIs DEF BoundsFound, Deliver, Fetching, MemoryInv
  <2>2. Len(<<>>) = 0 /\ IsInjective(<<>>) /\ ToSet(<<>>) = {} /\ \A T : <<>> \in Seq(T)
    BY DEF IsInjective, ToSet
  <2>3. Items' = Items /\ 0 <= InFlight
    BY <2>1, PlayersAssumption DEF Items, PlayersAssumption
  <2>4. stage' \in Fetching /\ ToSet(todo)' \cap ToSet(chunk)' = {}
    BY <2>1, <2>2
  <2> QED
    BY <2>1, <2>2, <2>3, <2>4 DEF MemoryInv
<1>6. ASSUME NEW key \in DOMAIN flight, Probe(key) \/ NotFound(key) \/ ProbeFails(key) \/ Fetch(key)
      PROVE  MemoryInv'
  BY <1>6, MemoryKept DEF Probe, NotFound, ProbeFails, Fetch
<1>7. CASE Pull
  BY <1>7, PullKeepsMemory
<1>8. CASE Insert
  <2>1. UNCHANGED <<stage, todo, chunk, ready, batch>> /\ sending' = <<>>
    BY <1>8 DEF Insert
  <2>2. Items' = Items /\ <<>> \in Seq(Entry) /\ 0 <= BatchSize /\ Len(<<>>) = 0
    BY <2>1, PlayersAssumption DEF Items, PlayersAssumption
  <2> QED
    BY <2>1, <2>2 DEF MemoryInv, Fetching
<1>9. CASE LastBatch
  <2>1. /\ UNCHANGED <<stage, todo, chunk, ready>> /\ sending' = batch /\ batch' = <<>>
        /\ chunk = <<>> /\ stage \in Fetching
    BY <1>9 DEF LastBatch, Exhausted, Pulling, Fetching
  <2>2. /\ Items' = Items /\ <<>> \in Seq(Entry) /\ 0 < BatchSize /\ Len(<<>>) = 0
        /\ Len(batch) <= BatchSize
    BY <2>1, PlayersAssumption DEF Items, PlayersAssumption, MemoryInv
  <2> QED
    BY <2>1, <2>2 DEF MemoryInv, Fetching
<1>10. CASE InsertError \/ Stored \/ Interrupt
  BY <1>10, NoMemory DEF InsertError, Stored, Interrupt, EndRun, Fail, Forget
<1>11. CASE Undo \/ ForgetTs \/ TrimTs
  <2>1. Forget \/ UNCHANGED <<stage, memory>>
    BY <1>11 DEF Undo, ForgetTs, TrimTs, EndRun
  <2> QED
    BY <2>1, NoMemory, MemoryKept DEF Forget
<1>12. CASE UpsertTs
  <2>1. UNCHANGED <<todo, chunk, ready, batch, sending>> /\ stage \notin Fetching
    BY <1>12 DEF UpsertTs, Fetching
  <2> QED
    BY <2>1, NothingOutside, NoMemory
<1>13. CASE RequestStop \/ ClearStop \/ UNCHANGED vars
  BY <1>13, MemoryKept DEF RequestStop, ClearStop, vars
<1> QED
  BY <1>1, <1>2, <1>3, <1>4, <1>5, <1>6, <1>7, <1>8, <1>9, <1>10, <1>11, <1>12, <1>13
     DEF Next, Work, AllRun

-----------------------------------------------------------------------------
(* What a run stores *)

\* The jobs that the run has asked for so far or is about to, and those of them that
\* have not been answered.
Asked == IF stage = "pages" THEN ToSet(EliteJobs) \cup ToSet(PageJobs[bounds]) ELSE ToSet(EliteJobs)
Left == IF stage = "probe" THEN {} ELSE ToSet(todo) \cup ToSet(chunk)
Got == (Asked \ Left) \ lost

\* What is reported as failed has failed: a job that was awaited or a key that has no
\* bound, and neither is asked for again.
Unbounded(key) ==
    /\ key \in lost \/ stage = "elite" => bounds[key] = 0
    /\ stage = "probe" /\ key \in ToSet(todo) \cup ToSet(chunk) => bounds[key] = 0
    /\ stage = "probe" /\ key \notin ToSet(todo) \cup ToSet(chunk) \cup lost => bounds[key] # 0
    /\ stage = "pages" /\ key \notin lost => bounds[key] # 0
ReportInv ==
    stage \in Fetching =>
        /\ Left \subseteq Asked
        /\ lost \cap ToSet(todo) = {}
        /\ \A item \in ToSet(chunk) : flight[item] = "failed" <=> item \in lost
        /\ stage = "elite" => lost \subseteq ToSet(EliteJobs)
        /\ stage = "probe" => lost \subseteq ToSet(EliteJobs) \cup BasicKeys
        /\ \A key \in BasicKeys : Unbounded(key)

\* The players of the jobs that were answered are in the table or on their way to
\* it, and no other is.
InHand == StoredBy(run) \cup ToSet(sending) \cup ToSet(batch) \cup ToSet(ready)
Gathered == UNION {ToSet(Players(job)) : job \in Got}
StockInv == stage \in Fetching => InHand = Gathered

\* A run that has stored its last batch has what it promised, from then on.
Closing == {"upsert", "forget", "trim"}
WholeInv ==
    /\ DOMAIN whole \subseteq 1 .. run
    /\ stage \notin Closing => run \notin DOMAIN whole
    /\ WholeIsStored

\* An elite page is no other page, and a page is no key.
LEMMA JobsDiffer ==
    /\ ToSet(EliteJobs) = EliteKeys \X {1}
    /\ (EliteKeys \X {1}) \cap (BasicKeys \X (1 .. Upper)) = {}
    /\ (EliteKeys \X {1}) \cap BasicKeys = {}
    /\ (BasicKeys \X (1 .. Upper)) \cap BasicKeys = {}
<1>1. ToSet(EliteJobs) = EliteKeys \X {1}
  BY EliteJobsAre
<1>2. (EliteKeys \X {1}) \cap (BasicKeys \X (1 .. Upper)) = {}
  BY KeysDiffer
<1>3. \A key \in BasicKeys : \E r, q, t : key = <<r, q, t>>
  BY BasicListsAre DEF BasicKeys, ToSet, ListsOf
<1>4. \A S, T : (S \X T) \cap BasicKeys = {}
  <2> SUFFICES ASSUME NEW S, NEW T, NEW x \in S \X T, x \in BasicKeys PROVE FALSE
    OBVIOUS
  <2>1. PICK r, q, t : x = <<r, q, t>>
    BY <1>3
  <2>2. PICK s \in S, u \in T : x = <<s, u>>
    OBVIOUS
  <2>3. Len(x) = 3 /\ Len(x) = 2
    BY <2>1, <2>2
  <2> QED
    BY <2>3
<1> QED
  BY <1>1, <1>2, <1>4

LEMMA BoundsType ==
    ASSUME ProbeInv
    PROVE  /\ bounds \in [BasicKeys -> 0 .. Upper]
           /\ ToSet(PageJobs[bounds]) = UNION {{key} \X (1 .. bounds[key]) : key \in BasicKeys}
           /\ ToSet(PageJobs[bounds]) \subseteq BasicKeys \X (1 .. Upper)
<1>1. bounds \in [BasicKeys -> 0 .. Upper]
  BY DEF ProbeInv, BoundsOfRun
<1>2. /\ PageJobs[bounds] \in Seq(BasicKeys \X (1 .. Upper))
      /\ ToSet(PageJobs[bounds]) = UNION {{key} \X (1 .. bounds[key]) : key \in BasicKeys}
  BY <1>1, PageJobsAre
<1>3. ToSet(PageJobs[bounds]) \subseteq BasicKeys \X (1 .. Upper)
  BY <1>2 DEF ToSet
<1> QED
  BY <1>1, <1>2, <1>3

LEMMA ReportKept ==
    ASSUME ReportInv, UNCHANGED <<stage, todo, chunk, flight, bounds, lost>>
    PROVE  ReportInv'
BY Zenon DEF ReportInv, Left, Asked, Unbounded, Fetching

\* A stage begins.
LEMMA StartReports ==
    ASSUME MemoryInv, ProbeInv, Start
    PROVE  ReportInv'
<1>1. CASE stop
  BY <1>1 DEF Start, Enter, ReportInv, Fetching
<1>2. CASE ~ stop
  <2>1. /\ stage = "start" /\ stage' = "elite" /\ todo' = EliteJobs /\ UNCHANGED <<chunk, bounds>>
        /\ lost' = {}
    BY <1>2 DEF Start, Enter
  <2>2. chunk' = <<>> /\ \A key \in BasicKeys : bounds'[key] = 0
    BY <2>1 DEF MemoryInv, Fetching, ProbeInv, BoundsOfRun
  <2>3. ToSet(chunk)' = {} /\ ToSet(todo)' = ToSet(EliteJobs)
    BY <2>1, <2>2 DEF ToSet
  <2>4. Asked' = ToSet(EliteJobs) /\ Left' = ToSet(EliteJobs)
    BY <2>1, <2>3 DEF Asked, Left
  <2> QED
    BY <2>1, <2>2, <2>3, <2>4 DEF ReportInv, Unbounded
<1> QED
  BY <1>1, <1>2

LEMMA StartProbesReports ==
    ASSUME ReportInv, MemoryInv, StartProbes
    PROVE  ReportInv'
<1>1. CASE stop
  BY <1>1 DEF StartProbes, Fail, Enter, ReportInv, Fetching
<1>2. CASE ~ stop
  <2>1. /\ stage = "elite" /\ stage' = "probe" /\ todo' = ProbeKeys /\ chunk = <<>>
        /\ UNCHANGED <<chunk, bounds, lost>>
    BY <1>2 DEF StartProbes, Enter, Pulling, history
  <2>2. /\ lost \subseteq EliteKeys \X {1} /\ lost \subseteq ToSet(EliteJobs)
        /\ \A key \in BasicKeys : bounds[key] = 0
    BY <2>1, JobsDiffer DEF ReportInv, Unbounded, Fetching
  <2>3. ToSet(chunk)' = {} /\ ToSet(todo)' = BasicKeys
    BY <2>1, ProbeKeysAre DEF ToSet
  <2>4. Left' = {}
    BY <2>1 DEF Left
  <2>5. lost \cap BasicKeys = {}
    BY <2>2, JobsDiffer
  <2> QED
    BY <2>1, <2>2, <2>3, <2>4, <2>5 DEF ReportInv, Unbounded
<1> QED
  BY <1>1, <1>2

LEMMA StartPagesReports ==
    ASSUME ReportInv, ProbeInv, StartPages
    PROVE  ReportInv'
<1>1. /\ stage = "probe" /\ stage' = "pages" /\ todo' = PageJobs[bounds] /\ chunk = <<>> /\ todo = <<>>
      /\ UNCHANGED <<chunk, bounds, lost>>
  BY DEF StartPages, Enter, Pulling, history
<1>2. /\ lost \subseteq (EliteKeys \X {1}) \cup BasicKeys
      /\ \A key \in BasicKeys : Unbounded(key)
  BY <1>1, JobsDiffer DEF ReportInv, Fetching
<1>3. ToSet(chunk) = {} /\ ToSet(todo) = {} /\ ToSet(chunk)' = {} /\ ToSet(todo)' = ToSet(PageJobs[bounds])
  BY <1>1 DEF ToSet
<1>4. lost \cap ToSet(PageJobs[bounds]) = {}
  BY <1>2, BoundsType, JobsDiffer
<1>5. Asked' = ToSet(EliteJobs) \cup ToSet(PageJobs[bounds]) /\ Left' = ToSet(PageJobs[bounds])
  BY <1>1, <1>3 DEF Asked, Left
<1>6. \A key \in BasicKeys : Unbounded(key)'
  BY <1>1, <1>2, <1>3 DEF Unbounded
<1> QED
  BY <1>1, <1>3, <1>4, <1>5, <1>6 DEF ReportInv

LEMMA NextChunkReports ==
    ASSUME ReportInv, MemoryInv, NextChunk
    PROVE  ReportInv' /\ Got' = Got
<1>1. /\ stage \in Fetching /\ UNCHANGED <<stage, bounds, lost>> /\ chunk = <<>>
      /\ \A item \in ToSet(chunk)' : flight'[item] = "pending"
  BY DEF NextChunk, Pulling, Fetching, history
<1>2. ToSet(todo)' \cup ToSet(chunk)' = ToSet(todo) /\ ToSet(chunk) = {}
  <2>1. ToSet(chunk) = {}
    BY <1>1 DEF ToSet
  <2> QED
    BY <2>1, NextChunkKeepsMemory
<1>3. Asked' = Asked /\ Left' = Left
  BY <1>1, <1>2 DEF Asked, Left
<1>4. \A key \in BasicKeys : Unbounded(key)'
  BY <1>1, <1>2 DEF Unbounded, ReportInv
<1>5. ReportInv'
  BY <1>1, <1>2, <1>3, <1>4 DEF ReportInv
<1>6. Got' = Got
  BY <1>1, <1>3 DEF Got
<1> QED
  BY <1>5, <1>6

LEMMA BoundsFoundReports ==
    ASSUME ReportInv, MemoryInv, ProbeInv, BoundsFound
    PROVE  ReportInv'
<1>1. /\ stage = "probe" /\ UNCHANGED <<stage, todo, lost>> /\ chunk' = <<>>
      /\ bounds' = [key \in BasicKeys |->
                       IF key \in DOMAIN flight /\ flight[key] # "failed" THEN range[key].low
                       ELSE bounds[key]]
  BY DEF BoundsFound, history
<1>2. /\ stage \in Fetching /\ ToSet(todo) \cap ToSet(chunk) = {}
      /\ ToSet(chunk)' = {} /\ ToSet(todo)' = ToSet(todo)
      /\ DOMAIN flight = ToSet(chunk) /\ DOMAIN range = DOMAIN flight
  <2>1. ToSet(chunk)' = {}
    BY <1>1 DEF ToSet
  <2>2. ToSet(todo)' = ToSet(todo)
    BY <1>1
  <2> QED
    BY <1>1, <2>1, <2>2 DEF MemoryInv, ProbeInv, ProbesOfChunk, Fetching
<1>3. \A key \in DOMAIN range : range[key].low \in Nat /\ range[key].low # 0
  BY DEF ProbeInv, ProbesOfChunk, BoundIsLastPage
<1>4. ASSUME NEW key \in BasicKeys PROVE Unbounded(key)'
  <2>1. Unbounded(key)
    BY <1>2 DEF ReportInv
  <2>2. bounds'[key] = IF key \in DOMAIN flight /\ flight[key] # "failed" THEN range[key].low
                       ELSE bounds[key]
    BY <1>1
  <2>3. key \in ToSet(chunk) => (flight[key] = "failed" <=> key \in lost)
    BY <1>2 DEF ReportInv
  <2> QED
    BY <1>1, <1>2, <1>3, <2>1, <2>2, <2>3 DEF Unbounded
<1>5. Left' = {}
  BY <1>1 DEF Left
<1> QED
  BY <1>1, <1>2, <1>4, <1>5 DEF ReportInv

LEMMA DeliverReports ==
    ASSUME ReportInv, Deliver
    PROVE  ReportInv'
<1>1. /\ stage \in {"elite", "pages"} /\ UNCHANGED <<stage, todo, bounds, lost>> /\ chunk' = <<>>
  BY DEF Deliver, history
<1>2. stage \in Fetching /\ ToSet(chunk)' = {} /\ ToSet(todo)' = ToSet(todo)
  BY <1>1 DEF ToSet, Fetching
<1>3. Asked' = Asked /\ Left' \subseteq Left
  BY <1>1, <1>2 DEF Asked, Left
<1>4. \A key \in BasicKeys : Unbounded(key)'
  BY <1>1, <1>2 DEF Unbounded, ReportInv
<1> QED
  BY <1>1, <1>2, <1>3, <1>4 DEF ReportInv

\* An answer that comes, or does not.
LEMMA AnswerReports ==
    ASSUME ReportInv, MemoryInv, ProbeInv, NEW item \in DOMAIN flight,
           Probe(item) \/ NotFound(item) \/ ProbeFails(item) \/ Fetch(item)
    PROVE  ReportInv' /\ Got' = Got
<1>1. /\ stage \in Fetching /\ UNCHANGED <<stage, todo, chunk, bounds>>
  BY DEF Probe, NotFound, ProbeFails, Fetch, Probing, Fetching
<1>2. /\ DOMAIN flight = ToSet(chunk) /\ ToSet(todo) \cap ToSet(chunk) = {}
      /\ ToSet(chunk)' = ToSet(chunk) /\ ToSet(todo)' = ToSet(todo) /\ item \in ToSet(chunk)
  BY <1>1 DEF MemoryInv, ProbeInv, ProbesOfChunk
<1>3. Asked' = Asked /\ Left' = Left
  BY <1>1, <1>2 DEF Asked, Left
<1>4. CASE lost' = lost /\ (flight' = flight \/ (flight[item] = "pending"
                              /\ flight' = [flight EXCEPT ![item] = "answered"]))
  <2>1. \A i \in ToSet(chunk) : flight'[i] = "failed" <=> flight[i] = "failed"
    BY <1>2, <1>4
  <2>2. \A key \in BasicKeys : Unbounded(key)'
    BY <1>1, <1>2, <1>4 DEF Unbounded, ReportInv
  <2> QED
    BY <1>1, <1>2, <1>3, <1>4, <2>1, <2>2 DEF ReportInv, Got
<1>5. CASE lost' = lost \cup {item} /\ flight' = [flight EXCEPT ![item] = "failed"]
  <2>1. \A i \in ToSet(chunk) : flight'[i] = "failed" <=> i \in lost'
    BY <1>1, <1>2, <1>5 DEF ReportInv
  <2>2. item \in Items
    BY <1>2 DEF MemoryInv, ToSet
  <2>3. CASE stage = "probe"
    <3>1. item \in BasicKeys /\ item \notin ToSet(EliteJobs)
      BY <2>2, <2>3, JobsDiffer DEF Items
    <3>2. \A key \in BasicKeys : Unbounded(key)'
      BY <1>1, <1>2, <1>5, <2>3 DEF Unbounded, ReportInv
    <3>3. ReportInv'
      BY <1>1, <1>2, <1>3, <1>5, <2>1, <2>3, <3>1, <3>2 DEF ReportInv
    <3>4. Got' = Got
      BY <1>3, <1>5, <2>3, <3>1 DEF Got, Asked
    <3> QED
      BY <3>3, <3>4
  <2>4. CASE stage # "probe"
    <3>1. item \in Left /\ item \notin BasicKeys
      BY <1>2, <2>2, <2>4, JobsDiffer DEF Items, Left
    <3>2. stage = "elite" => item \in ToSet(EliteJobs)
      BY <2>2, JobsDiffer DEF Items
    <3>3. \A key \in BasicKeys : Unbounded(key)'
      BY <1>1, <1>2, <1>5, <3>1 DEF Unbounded, ReportInv
    <3>4. ReportInv'
      BY <1>1, <1>2, <1>3, <1>5, <2>1, <2>4, <3>2, <3>3 DEF ReportInv
    <3>5. Got' = Got
      BY <1>3, <1>5, <3>1 DEF Got
    <3> QED
      BY <3>4, <3>5
  <2> QED
    BY <2>3, <2>4
<1>6. \/ lost' = lost /\ (flight' = flight \/ (flight[item] = "pending"
                              /\ flight' = [flight EXCEPT ![item] = "answered"]))
      \/ lost' = lost \cup {item} /\ flight' = [flight EXCEPT ![item] = "failed"]
  BY DEF Probe, NotFound, ProbeFails, Fetch, Probing, history
<1> QED
  BY <1>4, <1>5, <1>6

LEMMA ReportInductive ==
    ASSUME ReportInv, MemoryInv, ProbeInv, [Next]_vars
    PROVE  ReportInv'
<1> USE DEF memory, history, tables
<1>1. CASE Start \/ StartProbes \/ StartPages
  BY <1>1, StartReports, StartProbesReports, StartPagesReports
<1>2. CASE NextChunk \/ BoundsFound \/ Deliver
  BY <1>2, NextChunkReports, BoundsFoundReports, DeliverReports
<1>3. CASE \E key \in DOMAIN flight : Probe(key) \/ NotFound(key) \/ ProbeFails(key) \/ Fetch(key)
  BY <1>3, AnswerReports
<1>4. CASE Pull
  <2>1. stage' = "undo" \/ UNCHANGED <<stage, todo, chunk, flight, bounds, lost>>
    BY <1>4 DEF Pull, Fail, Enter
  <2> QED
    BY <2>1, ReportKept DEF ReportInv, Fetching
<1>5. CASE Insert \/ LastBatch \/ RequestStop \/ ClearStop \/ UNCHANGED vars
  BY <1>5, ReportKept DEF Insert, LastBatch, RequestStop, ClearStop, vars
<1>6. CASE InsertError \/ Stored \/ Undo \/ UpsertTs \/ ForgetTs \/ TrimTs \/ Interrupt
  <2>1. stage' \notin Fetching
    BY <1>6 DEF InsertError, Stored, Undo, UpsertTs, ForgetTs, TrimTs, Interrupt,
                Fail, EndRun, Enter, Fetching
  <2> QED
    BY <2>1 DEF ReportInv, Fetching
<1> QED
  BY <1>1, <1>2, <1>3, <1>4, <1>5, <1>6 DEF Next, Work, AllRun

LEMMA StockKept ==
    ASSUME StockInv, stage \in Fetching, Got' = Got, InHand' = InHand
    PROVE  StockInv'
<1>1. Gathered' = Gathered
  BY Zenon DEF Gathered, Players, Page, Pages
<1> QED
  BY <1>1 DEF StockInv

\* Nothing is stored yet when a run begins.
LEMMA StartStocks ==
    ASSUME TypeInv, RunsInv, Start
    PROVE  StockInv'
<1>1. CASE stop
  BY <1>1 DEF Start, Enter, StockInv, Fetching
<1>2. CASE ~ stop
  <2>1. /\ stage = "start" /\ stage' = "elite" /\ todo' = EliteJobs
        /\ UNCHANGED <<chunk, ready, batch, sending, rows, outcome>>
    BY <1>2 DEF Start, Enter, tables
  <2>2. ready' = <<>> /\ batch' = <<>> /\ sending' = <<>>
    BY <2>1 DEF TypeInv, MemoryInv, Fetching
  <2>3. ToSet(<<>>) = {}
    BY DEF ToSet
  <2>4. run' = run /\ run \in Nat
    BY <2>1, RunType
  <2>5. \A row \in rows : row[1] \in Nat /\ row[1] < run
    BY <2>1 DEF TypeInv, ControlInv
  <2>6. StoredBy(run)' = {}
    BY <2>1, <2>4, <2>5 DEF StoredBy
  <2>7. InHand' = {}
    BY <2>2, <2>3, <2>6 DEF InHand
  <2>8. Got' = {}
    BY <2>1 DEF Got, Asked, Left
  <2>9. Gathered' = {}
    BY <2>8 DEF Gathered
  <2> QED
    BY <2>7, <2>9 DEF StockInv
<1> QED
  BY <1>1, <1>2

\* The players of a batch of fetches come in.
LEMMA DeliverStocks ==
    ASSUME StockInv, ReportInv, MemoryInv, ProbeInv, RunsInv, Deliver
    PROVE  StockInv'
<1> DEFINE answered == {j \in ToSet(chunk) : flight[j] # "failed"}
<1>1. /\ stage \in {"elite", "pages"} /\ chunk # <<>> /\ chunk' = <<>>
      /\ UNCHANGED <<stage, todo, bounds, batch, sending, rows, outcome, lost>>
  BY DEF Deliver, tables, history
<1>2. /\ ready = <<>> /\ stage \in Fetching /\ ToSet(todo) \cap ToSet(chunk) = {}
  BY <1>1 DEF MemoryInv, Fetching
<1>3. ToSet(ready)' = UNION {ToSet(Players(job)) : job \in answered}
  BY DeliverIs
<1>4. ToSet(ready) = {} /\ ToSet(chunk)' = {}
  BY <1>1, <1>2 DEF ToSet
<1>5. InHand' = InHand \cup ToSet(ready)'
  <2>1. StoredBy(run)' = StoredBy(run)
    BY <1>1, RunType DEF StoredBy
  <2>2. ToSet(batch)' = ToSet(batch) /\ ToSet(sending)' = ToSet(sending)
    BY <1>1
  <2> QED
    BY <1>4, <2>1, <2>2 DEF InHand
<1>6. answered = ToSet(chunk) \ lost
  BY <1>2 DEF ReportInv
<1>7. Got' = Got \cup answered
  <2>1. Asked' = Asked /\ Left' = ToSet(todo) /\ Left = ToSet(todo) \cup ToSet(chunk)
    BY <1>1, <1>4 DEF Asked, Left
  <2>2. ToSet(chunk) \subseteq Asked
    BY <1>2, <2>1 DEF ReportInv
  <2> HIDE DEF answered
  <2> QED
    BY <1>1, <1>2, <1>6, <2>1, <2>2 DEF Got
<1> HIDE DEF answered
<1>8. Gathered' = Gathered \cup UNION {ToSet(Players(job)) : job \in answered}
  <2>1. Gathered' = UNION {ToSet(Players(job)) : job \in Got'}
    BY Zenon DEF Gathered, Players, Page, Pages
  <2>2. {ToSet(Players(job)) : job \in Got \cup answered}
        = {ToSet(Players(job)) : job \in Got} \cup {ToSet(Players(job)) : job \in answered}
    OBVIOUS
  <2>3. \A S, T : UNION (S \cup T) = (UNION S) \cup UNION T
    OBVIOUS
  <2> QED
    BY <1>7, <2>1, <2>2, <2>3 DEF Gathered
<1> QED
  BY <1>2, <1>3, <1>5, <1>8 DEF StockInv

\* A player that is pulled moves on, and so do those that are sent and stored.
LEMMA PullStocks ==
    ASSUME StockInv, TypeInv, RunsInv, Pull
    PROVE  StockInv'
<1>1. CASE stop
  BY <1>1 DEF Pull, Fail, Enter, StockInv, Fetching
<1>2. CASE ~ stop
  <2> DEFINE grown == Append(batch, Head(ready))
  <2>1. /\ ready # <<>> /\ sending = <<>> /\ ready' = Tail(ready)
        /\ UNCHANGED <<stage, todo, chunk, bounds, rows, outcome, lost>>
        /\ \/ batch' = <<>> /\ sending' = grown
           \/ batch' = grown /\ sending' = sending
    BY <1>2 DEF Pull, tables, history
  <2>2. ready \in Seq(Entry) /\ batch \in Seq(Entry) /\ stage \in Fetching
    BY <2>1 DEF TypeInv, MemoryInv
  <2>3. ToSet(ready) = {Head(ready)} \cup ToSet(Tail(ready))
    <3>1. Len(ready) \in Nat /\ Len(ready) # 0 /\ DOMAIN ready = 1 .. Len(ready)
      BY <2>1, <2>2
    <3>2. /\ Head(ready) = ready[1] /\ DOMAIN Tail(ready) = 1 .. Len(ready) - 1
          /\ \A i \in 1 .. Len(ready) - 1 : Tail(ready)[i] = ready[i + 1]
      BY <2>1, <2>2
    <3>3. \A i \in 1 .. Len(ready) : i = 1 \/ (i - 1 \in 1 .. Len(ready) - 1 /\ (i - 1) + 1 = i)
      BY <3>1
    <3>4. \A i \in 1 .. Len(ready) - 1 : i + 1 \in 1 .. Len(ready)
      BY <3>1
    <3>5. 1 \in 1 .. Len(ready)
      BY <3>1
    <3>6. ASSUME NEW i \in DOMAIN ready PROVE ready[i] \in {Head(ready)} \cup ToSet(Tail(ready))
      <4>1. CASE i = 1
        BY <3>2, <4>1
      <4>2. CASE i - 1 \in 1 .. Len(ready) - 1 /\ (i - 1) + 1 = i
        <5>1. Tail(ready)[i - 1] = ready[i]
          BY <3>2, <4>2
        <5> QED
          BY <3>2, <4>2, <5>1 DEF ToSet
      <4> QED
        BY <3>1, <3>3, <4>1, <4>2
    <3>7. ToSet(Tail(ready)) \subseteq ToSet(ready)
      BY <3>1, <3>2, <3>4 DEF ToSet
    <3>8. Head(ready) \in ToSet(ready)
      BY <3>1, <3>2, <3>5 DEF ToSet
    <3> QED
      BY <3>6, <3>7, <3>8 DEF ToSet
  <2>4. ToSet(grown) = ToSet(batch) \cup {Head(ready)}
    <3>1. Head(ready) \in Entry /\ <<Head(ready)>> \in Seq(Entry)
      BY <2>1, <2>2
    <3>2. grown = batch \o <<Head(ready)>>
      BY <2>2, <3>1
    <3>3. ToSet(<<Head(ready)>>) = {Head(ready)}
      BY DEF ToSet
    <3>4. ToSet(batch \o <<Head(ready)>>) = ToSet(batch) \cup ToSet(<<Head(ready)>>)
      BY <2>2, <3>1, ConcatSet
    <3> HIDE DEF grown
    <3> QED
      BY <3>2, <3>3, <3>4
  <2> HIDE DEF grown
  <2>5. ToSet(<<>>) = {}
    BY DEF ToSet
  <2>6. /\ ToSet(sending)' \cup ToSet(batch)' = ToSet(grown)
        /\ ToSet(sending) = {} /\ ToSet(ready)' = ToSet(Tail(ready))
    <3>1. CASE batch' = <<>> /\ sending' = grown
      BY <2>1, <2>5, <3>1
    <3>2. CASE batch' = grown /\ sending' = sending
      BY <2>1, <2>5, <3>2
    <3> QED
      BY <2>1, <3>1, <3>2
  <2>7. StoredBy(run)' = StoredBy(run)
    BY <2>1, RunType DEF StoredBy
  <2>8. InHand' = InHand
    BY <2>3, <2>4, <2>6, <2>7 DEF InHand
  <2>9. Got' = Got
    BY <2>1 DEF Got, Asked, Left
  <2> QED
    BY <2>2, <2>8, <2>9, StockKept
<1> QED
  BY <1>1, <1>2

LEMMA InsertStocks ==
    ASSUME StockInv, TypeInv, RunsInv, Insert
    PROVE  StockInv'
<1>1. /\ sending # <<>> /\ rows' = rows \cup RowsOf(sending) /\ sending' = <<>>
      /\ UNCHANGED <<stage, todo, chunk, bounds, ready, batch, outcome, lost>>
  BY DEF Insert, history
<1>2. stage \in Fetching
  BY <1>1 DEF TypeInv, MemoryInv
<1>3. run' = run
  BY <1>1, RunType
<1>4. StoredBy(run)' = StoredBy(run) \cup ToSet(sending)
  <2>1. \A row \in RowsOf(sending) : row[1] = run /\ row[2] \in ToSet(sending)
    BY DEF RowsOf
  <2>2. \A entry \in ToSet(sending) : <<run, entry>> \in RowsOf(sending)
    BY DEF RowsOf
  <2>3. \A entry : <<run, entry>>[1] = run /\ <<run, entry>>[2] = entry
    OBVIOUS
  <2>4. StoredBy(run)' = {row[2] : row \in {r \in rows \cup RowsOf(sending) : r[1] = run}}
    BY <1>1, <1>3 DEF StoredBy
  <2> QED
    BY <2>1, <2>2, <2>3, <2>4 DEF StoredBy
<1>5. ToSet(sending)' = {}
  BY <1>1 DEF ToSet
<1>6. ToSet(batch)' = ToSet(batch) /\ ToSet(ready)' = ToSet(ready)
  BY <1>1
<1>7. InHand' = InHand
  BY <1>4, <1>5, <1>6 DEF InHand
<1>8. Got' = Got
  BY <1>1 DEF Got, Asked, Left
<1> QED
  BY <1>2, <1>7, <1>8, StockKept

LEMMA StockInductive ==
    ASSUME StockInv, ReportInv, TypeInv, ProbeInv, RunsInv, [Next]_vars
    PROVE  StockInv'
<1> USE DEF memory, history, tables
<1>0. MemoryInv
  BY DEF TypeInv
<1>1. ASSUME stage \in Fetching,
             UNCHANGED <<rows, outcome, sending, batch, ready>>, Got' = Got
      PROVE  StockInv'
  <2>1. StoredBy(run)' = StoredBy(run)
    BY <1>1, RunType DEF StoredBy
  <2>2. /\ ToSet(sending)' = ToSet(sending) /\ ToSet(batch)' = ToSet(batch)
        /\ ToSet(ready)' = ToSet(ready)
    BY <1>1
  <2>3. InHand' = InHand
    BY <2>1, <2>2 DEF InHand
  <2> QED
    BY <1>1, <2>3, StockKept
<1>2. CASE Start
  BY <1>2, StartStocks
<1>3. CASE StartProbes
  <2>1. CASE stop
    BY <1>3, <2>1 DEF StartProbes, Fail, Enter, StockInv, Fetching
  <2>2. CASE ~ stop
    <3>1. /\ stage = "elite" /\ stage' = "probe" /\ todo = <<>> /\ chunk = <<>>
          /\ UNCHANGED <<rows, outcome, sending, batch, ready, lost>>
      BY <1>3, <2>2 DEF StartProbes, Enter, Pulling
    <3>2. ToSet(todo) = {} /\ ToSet(chunk) = {}
      BY <3>1 DEF ToSet
    <3>3. Got' = Got
      BY <3>1, <3>2 DEF Got, Asked, Left
    <3> QED
      BY <1>1, <3>1, <3>3 DEF Fetching
  <2> QED
    BY <2>1, <2>2
<1>4. CASE StartPages
  <2>1. /\ stage = "probe" /\ stage' = "pages" /\ todo' = PageJobs[bounds] /\ chunk' = <<>>
        /\ UNCHANGED <<rows, outcome, sending, batch, ready, lost, bounds>>
    BY <1>4 DEF StartPages, Enter, Pulling
  <2>2. ToSet(todo)' = ToSet(PageJobs[bounds]) /\ ToSet(chunk)' = {}
    BY <2>1 DEF ToSet
  <2>3. ToSet(EliteJobs) \cap ToSet(PageJobs[bounds]) = {}
    BY JobsDiffer, BoundsType
  <2>4. Asked' = ToSet(EliteJobs) \cup ToSet(PageJobs[bounds]) /\ Left' = ToSet(PageJobs[bounds])
    BY <2>1, <2>2 DEF Asked, Left
  <2>5. Asked = ToSet(EliteJobs) /\ Left = {}
    BY <2>1 DEF Asked, Left
  <2>6. Got' = Got
    BY <2>1, <2>3, <2>4, <2>5 DEF Got
  <2> QED
    BY <1>1, <2>1, <2>6 DEF Fetching
<1>5. CASE NextChunk
  <2>1. UNCHANGED <<rows, outcome, sending, batch, ready>> /\ stage \in Fetching
    BY <1>5 DEF NextChunk, Fetching
  <2> QED
    BY <1>0, <1>1, <1>5, <2>1, NextChunkReports
<1>6. CASE BoundsFound
  <2>1. /\ stage = "probe" /\ UNCHANGED <<stage, lost>>
        /\ UNCHANGED <<rows, outcome, sending, batch, ready>>
    BY <1>6 DEF BoundsFound
  <2>2. Got' = Got
    BY <2>1 DEF Got, Asked, Left
  <2> QED
    BY <1>1, <2>1, <2>2 DEF Fetching
<1>7. CASE Deliver
  BY <1>0, <1>7, DeliverStocks
<1>8. ASSUME NEW key \in DOMAIN flight, Probe(key) \/ NotFound(key) \/ ProbeFails(key) \/ Fetch(key)
      PROVE  StockInv'
  <2>1. UNCHANGED <<rows, outcome, sending, batch, ready>> /\ stage \in Fetching
    BY <1>8 DEF Probe, NotFound, ProbeFails, Fetch, Probing, Fetching
  <2> QED
    BY <1>0, <1>1, <1>8, <2>1, AnswerReports
<1>9. CASE Pull \/ Insert
  BY <1>9, PullStocks, InsertStocks
<1>10. CASE LastBatch
  <2>1. /\ sending = <<>> /\ sending' = batch /\ batch' = <<>> /\ stage \in Fetching
        /\ UNCHANGED <<stage, todo, chunk, bounds, ready, rows, outcome, lost>>
    BY <1>10 DEF LastBatch, Exhausted, Pulling, Fetching
  <2>2. /\ ToSet(sending)' = ToSet(batch) /\ ToSet(ready)' = ToSet(ready)
        /\ ToSet(batch)' = {} /\ ToSet(sending) = {}
    BY <2>1 DEF ToSet
  <2>3. StoredBy(run)' = StoredBy(run)
    BY <2>1, RunType DEF StoredBy
  <2>4. InHand' = InHand
    BY <2>2, <2>3 DEF InHand
  <2>5. Got' = Got
    BY <2>1 DEF Got, Asked, Left
  <2> QED
    BY <2>1, <2>4, <2>5, StockKept
<1>11. CASE InsertError \/ Stored \/ Undo \/ UpsertTs \/ ForgetTs \/ TrimTs \/ Interrupt
  <2>1. stage' \notin Fetching
    BY <1>11 DEF InsertError, Stored, Undo, UpsertTs, ForgetTs, TrimTs, Interrupt,
                Fail, EndRun, Enter, Fetching
  <2> QED
    BY <2>1 DEF StockInv, Fetching
<1>12. CASE RequestStop \/ ClearStop \/ UNCHANGED vars
  <2>1. /\ UNCHANGED <<stage, todo, chunk, bounds, lost>>
        /\ UNCHANGED <<rows, outcome, sending, batch, ready>>
    BY <1>12 DEF RequestStop, ClearStop, vars
  <2>2. Got' = Got
    BY <2>1 DEF Got, Asked, Left
  <2> QED
    BY <1>1, <2>1, <2>2 DEF StockInv
<1> QED
  BY <1>2, <1>3, <1>4, <1>5, <1>6, <1>7, <1>8, <1>9, <1>10, <1>11, <1>12 DEF Next, Work, AllRun

\* A run that gets to its end keeps its promise: every key has been probed, was
\* reported as lost or was cut short, and every page up to its bound been answered.
LEMMA PromiseIsKept ==
    ASSUME StockInv, ReportInv, ProbeInv, RunsInv, TypeInv, Exhausted, batch = <<>>
    PROVE  StoredBy(run) = Promised
<1>1. /\ stage = "pages" /\ todo = <<>> /\ chunk = <<>> /\ ready = <<>> /\ sending = <<>>
      /\ stage \in Fetching
  BY DEF Exhausted, Pulling, Fetching
<1>2. ToSet(<<>>) = {}
  BY DEF ToSet
<1> DEFINE J == ToSet(EliteJobs) \cup ToSet(PageJobs[bounds])
           P == ToSet(EliteJobs) \cup UNION {{key} \X (1 .. LastPage(key)) : key \in BasicKeys \ lost}
<1>3. StoredBy(run) = UNION {ToSet(Players(job)) : job \in J \ lost}
  <2>1. Left = {} /\ Asked = J
    BY <1>1, <1>2 DEF Left, Asked
  <2>2. InHand = StoredBy(run)
    BY <1>1, <1>2 DEF InHand
  <2>3. Got = J \ lost
    BY <2>1 DEF Got
  <2> HIDE DEF J
  <2> QED
    BY <1>1, <2>2, <2>3, Zenon DEF StockInv, Gathered
<1>4. Promised = UNION {ToSet(Players(job)) : job \in P \ lost}
  BY DEF Promised
<1>5. Upper \in Nat \ {0}
  BY PlayersAssumption DEF PlayersAssumption
<1>6. bounds \in [BasicKeys -> 0 .. Upper]
      /\ ToSet(PageJobs[bounds]) = UNION {{key} \X (1 .. bounds[key]) : key \in BasicKeys}
  BY BoundsType
<1>7. ASSUME NEW key \in BasicKeys
      PROVE  /\ key \in lost <=> bounds[key] = 0
             /\ key \notin lost => \/ bounds[key] = LastPage(key)
                                   \/ bounds[key] = 1 /\ LastPage(key) = 0 /\ Pages(key) = 0
  <2>1. Pages(key) \in Nat /\ bounds[key] \in 0 .. Upper
    BY <1>6, PagesType
  <2>2. Unbounded(key)
    BY <1>1 DEF ReportInv
  <2>3. key \in lost <=> bounds[key] = 0
    BY <1>1, <2>2 DEF Unbounded
  <2>4. bounds[key] # 0 =>
            /\ bounds[key] > 1 => bounds[key] <= WithinLimit(key)
            /\ key \notin cut => bounds[key] >= WithinLimit(key)
    BY DEF ProbeInv, BoundIsLastPage
  <2> QED
    BY <1>5, <2>1, <2>3, <2>4 DEF LastPage, WithinLimit
<1>8. P \subseteq J
  <2>1. ASSUME NEW key \in BasicKeys \ lost, NEW p \in 1 .. LastPage(key)
        PROVE  <<key, p>> \in ToSet(PageJobs[bounds])
    <3>1. bounds[key] = LastPage(key)
      BY <1>7, <2>1
    <3> QED
      BY <1>6, <2>1, <3>1
  <2> QED
    BY <2>1
<1>9. ASSUME NEW job \in J \ lost, job \notin P PROVE ToSet(Players(job)) = {}
  <2>1. job \in ToSet(PageJobs[bounds])
    BY <1>9
  <2>2. PICK key \in BasicKeys : job \in {key} \X (1 .. bounds[key])
    BY <1>6, <2>1
  <2>3. job[1] = key /\ job[2] \in 1 .. bounds[key] /\ job = <<key, job[2]>>
    BY <2>2
  <2>4. key \notin lost
    BY <1>6, <1>7, <2>3
  <2>5. bounds[key] # LastPage(key)
    <3> SUFFICES ASSUME bounds[key] = LastPage(key) PROVE FALSE
      OBVIOUS
    <3>1. job \in {key} \X (1 .. LastPage(key)) /\ key \in BasicKeys \ lost
      BY <2>2, <2>4
    <3> QED
      BY <1>9, <3>1
  <2>6. Pages(key) = 0
    BY <1>7, <2>4, <2>5
  <2>7. Page(job) = <<>>
    BY <1>6, <2>3, <2>6 DEF Page
  <2>8. key \notin EliteKeys
    BY KeysDiffer
  <2>9. Players(job) = Only(<<>>, Entry \ Invalid)
    BY <2>3, <2>7, <2>8 DEF Players
  <2>10. <<>> \in Seq(Entry)
    OBVIOUS
  <2>11. ToSet(Only(<<>>, Entry \ Invalid)) = ToSet(<<>>) \cap (Entry \ Invalid)
    BY <2>10, OnlyIs
  <2> QED
    BY <1>2, <2>9, <2>11
<1> HIDE DEF J, P
<1>10. UNION {ToSet(Players(job)) : job \in J \ lost} = UNION {ToSet(Players(job)) : job \in P \ lost}
  <2>1. \A x : (\E job \in J \ lost : x \in ToSet(Players(job)))
               <=> (\E job \in P \ lost : x \in ToSet(Players(job)))
    BY <1>8, <1>9
  <2> QED
    BY <2>1
<1> QED
  BY <1>3, <1>4, <1>10

\* A step that stores no last batch, and changes no row but those of the run at hand.
LEMMA WholeKept ==
    ASSUME WholeInv, RunsInv, whole' = whole,
           \A row : row[1] # run => (row \in rows' <=> row \in rows),
           run \notin DOMAIN whole \/ rows' = rows,
           \/ outcome' = outcome /\ (stage' \in Closing => stage \in Closing)
                                 /\ (stage \in Closing => stage' \in Closing)
           \/ \E how \in Endings : outcome' = Append(outcome, how)
    PROVE  WholeInv'
<1>1. run \in Nat \ {0} /\ (run' = run \/ run' = run + 1)
  BY RunType
<1>2. WholeIsStored'
  <2>1. ASSUME NEW r \in DOMAIN whole PROVE StoredBy(r)' = whole[r]
    <3>1. CASE r = run
      BY <2>1, <3>1 DEF WholeInv, WholeIsStored, StoredBy
    <3>2. CASE r # run
      <4>1. {row \in rows' : row[1] = r} = {row \in rows : row[1] = r}
        BY <3>2
      <4>2. StoredBy(r)' = StoredBy(r)
        BY <4>1 DEF StoredBy
      <4> QED
        BY <4>2 DEF WholeInv, WholeIsStored
    <3> QED
      BY <3>1, <3>2
  <2> QED
    BY <2>1 DEF WholeIsStored
<1>3. CASE outcome' = outcome
  <2>1. run' = run
    BY <1>3, RunType
  <2>2. stage' \notin Closing => stage \notin Closing
    <3>1. CASE \E how \in Endings : outcome' = Append(outcome, how)
      <4>1. run' = run + 1
        BY <3>1, RunType
      <4> QED
        BY <1>1, <2>1, <4>1
    <3> QED
      BY <3>1
  <2> QED
    BY <1>2, <2>1, <2>2 DEF WholeInv
<1>4. CASE \E how \in Endings : outcome' = Append(outcome, how)
  <2>1. run' = run + 1
    BY <1>4, RunType
  <2>2. DOMAIN whole' \subseteq 1 .. run' /\ run' \notin DOMAIN whole'
    BY <1>1, <2>1 DEF WholeInv
  <2> QED
    BY <1>2, <2>2 DEF WholeInv
<1> QED
  BY <1>3, <1>4

LEMMA WholeInductive ==
    ASSUME WholeInv, StockInv, ReportInv, TypeInv, ProbeInv, RunsInv, [Next]_vars
    PROVE  WholeInv'
<1> USE DEF memory, history, tables
<1>1. ASSUME UNCHANGED <<whole, outcome, rows>>,
             stage' = stage \/ (stage \notin Closing /\ stage' \notin Closing)
                            \/ (stage \in Closing /\ stage' \in Closing)
      PROVE  WholeInv'
  BY <1>1, WholeKept
<1>2. CASE Start \/ StartProbes \/ StartPages \/ NextChunk \/ BoundsFound \/ Deliver
  <2>1. /\ UNCHANGED <<whole, outcome, rows>>
        /\ stage' = stage \/ (stage \in {"start", "elite", "probe"}
                              /\ stage' \in {"undo", "elite", "probe", "pages"})
    BY <1>2 DEF Start, StartProbes, StartPages, NextChunk, BoundsFound, Deliver, Fail, Enter
  <2> QED
    BY <1>1, <2>1 DEF Closing
<1>3. ASSUME NEW key \in DOMAIN flight, Probe(key) \/ NotFound(key) \/ ProbeFails(key) \/ Fetch(key)
      PROVE  WholeInv'
  BY <1>1, <1>3 DEF Probe, NotFound, ProbeFails, Fetch
<1>4. ASSUME sending # <<>> \/ ready # <<>> PROVE stage \in Fetching /\ stage \notin Closing
  BY <1>4 DEF TypeInv, MemoryInv, Fetching, Closing
<1>5. CASE Pull \/ LastBatch
  <2>1. /\ UNCHANGED <<whole, outcome, rows>>
        /\ stage' = stage \/ (stage' = "undo" /\ ready # <<>>)
    BY <1>5 DEF Pull, LastBatch, Fail, Enter
  <2> QED
    BY <1>1, <1>4, <2>1 DEF Closing
<1>6. CASE Insert \/ InsertError
  <2>1. /\ sending # <<>> /\ UNCHANGED <<whole, outcome>> /\ (stage' = stage \/ stage' = "undo")
        /\ rows' = rows \/ rows' = rows \cup RowsOf(sending)
    BY <1>6 DEF Insert, InsertError, Fail, Enter
  <2>2. stage \notin Closing /\ stage' \notin Closing
    BY <1>4, <2>1 DEF Closing
  <2>3. \A row : row[1] # run => (row \in rows' <=> row \in rows)
    BY <2>1 DEF RowsOf
  <2>4. run \notin DOMAIN whole
    BY <2>2 DEF WholeInv
  <2> QED
    BY <2>1, <2>2, <2>3, <2>4, WholeKept
<1>7. CASE Stored
  <2>1. /\ Exhausted /\ batch = <<>> /\ UNCHANGED <<outcome, rows>> /\ stage' = "upsert"
        /\ whole' = [r \in DOMAIN whole \cup {run} |-> IF r = run THEN Promised ELSE whole[r]]
    BY <1>7 DEF Stored, Enter
  <2>2. run' = run /\ run \in Nat \ {0}
    BY <2>1, RunType
  <2>3. StoredBy(run) = Promised
    BY <2>1, PromiseIsKept
  <2> HIDE DEF memory, history, tables
  <2>4. \A r : StoredBy(r)' = StoredBy(r)
    BY <2>1 DEF StoredBy
  <2>5. ASSUME NEW r \in DOMAIN whole' PROVE StoredBy(r)' = whole'[r]
    <3>1. CASE r = run
      <4>1. whole'[r] = Promised
        BY <2>1, <3>1
      <4> QED
        BY <2>3, <2>4, <3>1, <4>1
    <3>2. CASE r # run
      <4>1. r \in DOMAIN whole /\ whole'[r] = whole[r]
        BY <2>1, <2>5, <3>2
      <4> QED
        BY <2>4, <4>1 DEF WholeInv, WholeIsStored
    <3> QED
      BY <3>1, <3>2
  <2>6. DOMAIN whole' \subseteq 1 .. run'
    BY <2>1, <2>2 DEF WholeInv
  <2> QED
    BY <2>1, <2>5, <2>6 DEF WholeInv, WholeIsStored, Closing
<1>8. CASE Undo
  <2>1. /\ stage = "undo" /\ whole' = whole
        /\ \/ UNCHANGED <<stage, outcome>>
           \/ \E how \in Endings : outcome' = Append(outcome, how)
        /\ rows' = {row \in rows : row[1] # run} \/ rows' = rows
    BY <1>8 DEF Undo, Undone, EndRun, Enter, Endings
  <2>2. run \notin DOMAIN whole
    BY <2>1 DEF WholeInv, Closing
  <2>3. \A row : row[1] # run => (row \in rows' <=> row \in rows)
    BY <2>1
  <2> QED
    BY <2>1, <2>2, <2>3, WholeKept
<1>9. CASE UpsertTs
  <2>1. /\ UNCHANGED <<whole, outcome, rows>> /\ stage = "upsert"
        /\ stage' \in {"upsert", "trim", "forget"}
    BY <1>9 DEF UpsertTs, Enter
  <2> QED
    BY <1>1, <2>1 DEF Closing
<1>10. CASE ForgetTs \/ TrimTs \/ Interrupt
  <2>1. /\ UNCHANGED <<whole, rows>>
        /\ \/ UNCHANGED <<stage, outcome>>
           \/ \E how \in Endings : outcome' = Append(outcome, how)
    BY <1>10 DEF ForgetTs, TrimTs, Interrupt, EndRun, Enter, Endings
  <2> QED
    BY <1>1, <2>1, WholeKept
<1>11. CASE RequestStop \/ ClearStop \/ UNCHANGED vars
  BY <1>1, <1>11 DEF RequestStop, ClearStop, vars
<1> QED
  BY <1>2, <1>3, <1>5, <1>6, <1>7, <1>8, <1>9, <1>10, <1>11 DEF Next, Work, AllRun

StepInv == RunsInv /\ ProbeInv /\ TypeInv /\ ReportInv /\ StockInv /\ WholeInv

LEMMA StepInit == Init => StepInv
<1> SUFFICES ASSUME Init PROVE StepInv
  OBVIOUS
<1>1. RunsInv /\ ProbeInv
  BY RunsInit, ProbeInit
<1>2. /\ stage = "start" /\ tries = 0 /\ rows = {} /\ ts = {} /\ stop = FALSE /\ incidents = 0
      /\ outcome = <<>> /\ whole = <<>>
      /\ todo = <<>> /\ chunk = <<>> /\ ready = <<>> /\ batch = <<>> /\ sending = <<>>
  BY DEF Init
<1>3. ControlInv
  <2>1. tries \in 0 .. Attempts - 1 /\ incidents \in 0 .. MaxIncidents
    BY <1>2, PlayersAssumption DEF PlayersAssumption
  <2> QED
    BY <1>2, <2>1 DEF ControlInv, Stages
<1>4. MemoryInv
  <2>1. Len(<<>>) = 0 /\ IsInjective(<<>>) /\ ToSet(<<>>) = {} /\ \A T : <<>> \in Seq(T)
    BY DEF IsInjective, ToSet
  <2>2. 0 < BatchSize /\ 0 <= BatchSize /\ 0 <= InFlight
    BY PlayersAssumption DEF PlayersAssumption
  <2> QED
    BY <1>2, <2>1, <2>2 DEF MemoryInv
<1>5. ReportInv /\ StockInv
  BY <1>2 DEF ReportInv, StockInv, Fetching
<1>6. WholeInv
  BY <1>2 DEF WholeInv, WholeIsStored
<1> QED
  BY <1>1, <1>3, <1>4, <1>5, <1>6 DEF StepInv, TypeInv

LEMMA StepInductive ==
    ASSUME StepInv, [Next]_vars
    PROVE  StepInv'
<1> USE DEF StepInv
<1>1. RunsInv' /\ ProbeInv'
  BY RunsInductive, ProbeInductive
<1>2. TypeInv'
  BY ControlInductive, MemoryInductive DEF TypeInv
<1>3. ReportInv' /\ StockInv'
  BY ReportInductive, StockInductive DEF TypeInv
<1>4. WholeInv'
  BY WholeInductive
<1> QED
  BY <1>1, <1>2, <1>3, <1>4

LEMMA StepsHold == Spec => []StepInv
BY StepInit, StepInductive, PTL DEF Spec

\* For any lists, limits and failures: a batch is never over full, no more fetches
\* are awaited than the limit allows, and rows and timestamps are those of runs.
THEOREM TypeCorrect == Spec => []TypeOK
<1>1. ASSUME StepInv PROVE TypeOK
  <2>1. ControlInv /\ MemoryInv /\ ProbesOfChunk /\ BoundsOfRun
    BY <1>1 DEF StepInv, TypeInv, ProbeInv
  <2> QED
    BY <2>1 DEF TypeOK, ControlInv, Stages, MemoryInv, ProbesOfChunk, BoundsOfRun
<1> QED
  BY <1>1, StepsHold, PTL

\* For any lists, bounds, limits and failures: a run that went through has every
\* player that it promised, those of every page of every list within the limit except
\* what it reported as failed or cut short, and no other player, and keeps them
\* whatever becomes of later runs; only such a run has a timestamp, and a run that
\* was undone has no row.
THEOREM RunsAreAllOrNothing == Spec => []AllOrNothing
<1>1. StepInv => AllOrNothing
  BY DEF StepInv, WholeInv, RunsInv, AllOrNothing
<1> QED
  BY <1>1, StepsHold, PTL
================================================================================
