----------------------------- MODULE NatRecursion -----------------------------
(***************************************************************************)
(* Induction and recursion over the natural numbers, stated without        *)
(* operators as parameters: a set of numbers stands for the predicate, a   *)
(* function on pairs for the step.  The proofs about functions that the    *)
(* modules define recursively, and about sequences, rest on these.         *)
(***************************************************************************)
EXTENDS Integers, WellFoundedInduction, TLAPS

-----------------------------------------------------------------------------
(* Induction *)

\* A set of numbers that is not empty has a least one.
LEMMA LeastOne ==
    ASSUME NEW I, I \subseteq Nat, I # {}
    PROVE  \E x \in I : \A y \in I : x <= y
<1>1. PICK x \in I : \A y \in I : ~ (<<y, x>> \in OpToRel(<, Nat))
  BY WFMin, NatLessThanWellFounded
<1>2. ASSUME NEW y \in I PROVE x <= y
  <2>1. x \in Nat /\ y \in Nat
    OBVIOUS
  <2>2. ~ (y < x)
    BY <1>1, <2>1, Zenon DEF OpToRel
  <2> QED
    BY <2>1, <2>2
<1> QED
  BY <1>2

\* One that stays under a bound has a greatest one.
LEMMA GreatestOne ==
    ASSUME NEW I, I \subseteq Nat, I # {}, NEW b \in Nat, \A x \in I : x <= b
    PROVE  \E x \in I : \A y \in I : y <= x
<1> DEFINE Room == {b - x : x \in I}
<1>1. Room \subseteq Nat /\ Room # {}
  <2>1. ASSUME NEW x \in I PROVE b - x \in Nat
    <3>1. x \in Nat /\ x <= b
      OBVIOUS
    <3> QED
      BY <3>1
  <2> QED
    BY <2>1
<1>2. PICK r \in Room : \A q \in Room : r <= q
  <2> HIDE DEF Room
  <2> QED
    BY <1>1, LeastOne
<1>3. PICK x \in I : r = b - x
  OBVIOUS
<1>4. ASSUME NEW y \in I PROVE y <= x
  <2>1. b - x <= b - y
    BY <1>2, <1>3
  <2>2. x \in Nat /\ y \in Nat
    OBVIOUS
  <2> QED
    BY <2>1, <2>2
<1> QED
  BY <1>4

\* A set that has zero, and with a number the next one, has every number.
LEMMA AllOfThem ==
    ASSUME NEW I, 0 \in I, \A n \in Nat : n \in I => n + 1 \in I
    PROVE  \A n \in Nat : n \in I
<1> DEFINE Out == {n \in Nat : n \notin I}
<1> SUFFICES ASSUME Out # {} PROVE FALSE
  OBVIOUS
<1>1. Out \subseteq Nat
  OBVIOUS
<1>2. PICK x \in Out : \A y \in Out : x <= y
  <2> HIDE DEF Out
  <2> QED
    BY <1>1, LeastOne
<1>3. x \in Nat /\ x \notin I /\ x # 0
  OBVIOUS
<1>4. x - 1 \in Nat /\ x - 1 \notin Out /\ (x - 1) + 1 = x
  <2>1. x - 1 \in Nat /\ ~ (x <= x - 1) /\ (x - 1) + 1 = x
    BY <1>3
  <2> HIDE DEF Out
  <2> QED
    BY <1>2, <2>1
<1>5. x - 1 \in I
  BY <1>4
<1>6. (x - 1) + 1 \in I
  BY <1>4, <1>5
<1> QED
  BY <1>3, <1>4, <1>6

-----------------------------------------------------------------------------
(* Recursion *)

\* f follows the step from base on, up to n.
Follows(f, n, S, base, step) ==
    /\ f \in [0 .. n -> S] /\ f[0] = base
    /\ \A i \in 1 .. n : f[i] = step[<<f[i - 1], i>>]

\* Up to any number there is a function that follows a step.
LEMMA FollowsExists ==
    ASSUME NEW S, NEW base \in S, NEW step \in [S \X Nat -> S], NEW n \in Nat
    PROVE  \E f : Follows(f, n, S, base, step)
<1> DEFINE I == {m \in Nat : \E f : Follows(f, m, S, base, step)}
<1>1. 0 \in I
  <2> DEFINE f == [i \in 0 .. 0 |-> base]
  <2>1. Follows(f, 0, S, base, step)
    BY DEF Follows
  <2> QED
    BY <2>1
<1>2. ASSUME NEW m \in Nat, m \in I PROVE m + 1 \in I
  <2>1. PICK f : Follows(f, m, S, base, step)
    BY <1>2
  <2> DEFINE g == [i \in 0 .. m + 1 |-> IF i = m + 1 THEN step[<<f[m], m + 1>>] ELSE f[i]]
  <2>2. f \in [0 .. m -> S] /\ f[0] = base /\ \A i \in 1 .. m : f[i] = step[<<f[i - 1], i>>]
    BY <2>1 DEF Follows
  <2>3. m \in 0 .. m /\ m + 1 \in Nat /\ m + 1 \in 0 .. m + 1 /\ 0 \in 0 .. m + 1 /\ 0 # m + 1
    OBVIOUS
  <2>4. step[<<f[m], m + 1>>] \in S
    BY <2>2, <2>3
  <2>5. \A i \in 0 .. m + 1 : i # m + 1 => i \in 0 .. m
    OBVIOUS
  <2>6. g \in [0 .. m + 1 -> S]
    BY <2>2, <2>4, <2>5
  <2>7. g[0] = base
    BY <2>2, <2>3
  <2>8. ASSUME NEW i \in 1 .. m + 1 PROVE g[i] = step[<<g[i - 1], i>>]
    <3>1. i - 1 \in 0 .. m /\ i - 1 \in 0 .. m + 1 /\ i - 1 # m + 1 /\ i \in 0 .. m + 1
      OBVIOUS
    <3>2. g[i - 1] = f[i - 1]
      BY <3>1
    <3>3. CASE i = m + 1
      <4>1. i - 1 = m
        BY <3>3
      <4> QED
        BY <3>1, <3>2, <3>3, <4>1
    <3>4. CASE i # m + 1
      <4>1. i \in 1 .. m
        BY <3>4
      <4> QED
        BY <2>2, <3>1, <3>2, <3>4, <4>1
    <3> QED
      BY <3>3, <3>4
  <2> HIDE DEF g
  <2>9. Follows(g, m + 1, S, base, step)
    BY <2>6, <2>7, <2>8 DEF Follows
  <2> QED
    BY <2>3, <2>9
<1> HIDE DEF I
<1>3. n \in I
  BY <1>1, <1>2, AllOfThem
<1> QED
  BY <1>3 DEF I

\* f, which goes up to n, and g, up to m, have the same values where both go.
Agree(f, n, g, m) == \A i \in Nat : i <= n /\ i <= m => f[i] = g[i]

\* Two that follow the same step agree as far as both go.
LEMMA FollowsAgree ==
    ASSUME NEW S, NEW base \in S, NEW step \in [S \X Nat -> S],
           NEW n \in Nat, NEW m \in Nat, NEW f, NEW g,
           Follows(f, n, S, base, step), Follows(g, m, S, base, step)
    PROVE  Agree(f, n, g, m)
<1> DEFINE I == {i \in Nat : i <= n /\ i <= m => f[i] = g[i]}
<1>1. 0 \in I
  BY DEF Follows
<1>2. ASSUME NEW i \in Nat, i \in I PROVE i + 1 \in I
  <2> SUFFICES ASSUME i + 1 <= n, i + 1 <= m PROVE f[i + 1] = g[i + 1]
    OBVIOUS
  <2>1. i <= n /\ i <= m /\ i + 1 \in 1 .. n /\ i + 1 \in 1 .. m /\ (i + 1) - 1 = i
    OBVIOUS
  <2>2. f[i] = g[i]
    BY <1>2, <2>1
  <2>3. f[i + 1] = step[<<f[i], i + 1>>] /\ g[i + 1] = step[<<g[i], i + 1>>]
    BY <2>1 DEF Follows
  <2> QED
    BY <2>2, <2>3
<1> HIDE DEF I
<1>3. \A i \in Nat : i \in I
  BY <1>1, <1>2, AllOfThem
<1> QED
  BY <1>3 DEF I, Agree

\* f is defined from base by the step.
DefinedBy(f, S, base, step) ==
    /\ f \in [Nat -> S] /\ f[0] = base
    /\ \A n \in Nat \ {0} : f[n] = step[<<f[n - 1], n>>]

\* Every step defines a function over all the numbers, as a recursive definition
\* takes for granted.
THEOREM Recursion ==
    ASSUME NEW S, NEW base \in S, NEW step \in [S \X Nat -> S]
    PROVE  \E f : DefinedBy(f, S, base, step)
<1> DEFINE Part(n) == CHOOSE f : Follows(f, n, S, base, step)
           whole == [n \in Nat |-> Part(n)[n]]
<1>1. ASSUME NEW n \in Nat PROVE Follows(Part(n), n, S, base, step)
  BY FollowsExists
<1> HIDE DEF Part
<1>2. ASSUME NEW n \in Nat PROVE whole[n] \in S
  <2>1. n \in 0 .. n
    OBVIOUS
  <2> QED
    BY <1>1, <2>1 DEF Follows
<1>3. whole[0] = base
  BY <1>1 DEF Follows
<1>4. ASSUME NEW n \in Nat \ {0} PROVE whole[n] = step[<<whole[n - 1], n>>]
  <2>1. n \in Nat /\ n - 1 \in Nat /\ n - 1 <= n /\ n - 1 <= n - 1 /\ n \in 1 .. n
    OBVIOUS
  <2>2. Part(n)[n] = step[<<Part(n)[n - 1], n>>]
    BY <1>1, <2>1 DEF Follows
  <2>3. Part(n)[n - 1] = Part(n - 1)[n - 1]
    <3> DEFINE k == n - 1
    <3>1. k \in Nat /\ k <= n /\ k <= k
      BY <2>1
    <3> HIDE DEF k
    <3>2. Follows(Part(n), n, S, base, step) /\ Follows(Part(k), k, S, base, step)
      BY <1>1, <2>1, <3>1
    <3>3. Agree(Part(n), n, Part(k), k)
      BY <2>1, <3>1, <3>2, FollowsAgree, Zenon
    <3>4. Part(n)[k] = Part(k)[k]
      BY <3>1, <3>3 DEF Agree
    <3> QED
      BY <3>4 DEF k
  <2> QED
    BY <2>1, <2>2, <2>3
<1>5. whole \in [Nat -> S]
  BY <1>2
<1> HIDE DEF whole
<1> QED
  BY <1>3, <1>4, <1>5 DEF DefinedBy
==============================================================================
