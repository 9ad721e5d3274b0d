--------------------------- MODULE InductionLemmas ---------------------------
(***************************************************************************)
(* Induction over the natural numbers, in the form of statements about     *)
(* sets and functions, which first-order provers can use: a set of numbers *)
(* has a least member, a value can be computed step by step, and a         *)
(* function can be computed from its end backwards.  The last lemma says   *)
(* what is where in two sequences, one after another.                      *)
(***************************************************************************)
EXTENDS Integers, WellFoundedInduction, SequenceTheorems, TLAPS

(* The library's well-founded relation on the numbers, without an operator *)
(* as its parameter.                                                       *)
Below == {ss \in Nat \X Nat : ss[1] < ss[2]}

LEMMA BelowIsWellFounded == IsWellFoundedOn(Below, Nat)
  BY NatLessThanWellFounded, Zenon DEF OpToRel, Below

(* To prove a statement for all numbers, assume that the set of those for  *)
(* which it is false is not empty, and take its least member.              *)
LEMMA LeastNumber ==
  ASSUME NEW S \in SUBSET Nat, S # {}
  PROVE  \E n \in S : \A m \in S : n <= m
  <1>1. PICK n \in S : \A m \in S : ~(<<m, n>> \in Below)
    BY BelowIsWellFounded, WFMin, Zenon
  <1>2. \A m \in S : ~(m < n)
    BY <1>1 DEF Below
  <1> QED
    BY <1>1, <1>2

(* A computation in n steps, each of which leads from T to T, exists.      *)
Computations(T, base, n, step) ==
  {g \in [0..n -> T] : g[0] = base /\ \A i \in 1..n : g[i] = step[<<g[i - 1], i>>]}

LEMMA ComputationExists ==
  ASSUME NEW T, NEW base \in T, NEW n \in Nat, NEW step \in [T \X (1..n) -> T]
  PROVE  \E g : g \in Computations(T, base, n, step)
  <1> DEFINE Computes(g, k) ==
               /\ g \in [0..k -> T]
               /\ g[0] = base /\ \A i \in 1..k : g[i] = step[<<g[i - 1], i>>]
             Bad == {k \in 0..n : ~ \E g : Computes(g, k)}
  <1>1. Bad = {}
    <2> SUFFICES ASSUME Bad # {} PROVE FALSE
      OBVIOUS
    <2>1. PICK k \in Bad : \A m \in Bad : k <= m
      <3>1. Bad \in SUBSET Nat
        OBVIOUS
      <3> HIDE DEF Bad
      <3> QED
        BY <3>1, LeastNumber
    <2>2. k # 0
      <3>1. Computes([i \in 0..0 |-> base], 0)
        OBVIOUS
      <3> HIDE DEF Computes
      <3> QED
        BY <3>1, <2>1
    <2>3. k - 1 \in 0..n /\ k - 1 \notin Bad /\ k \in 1..n
      <3> HIDE DEF Computes
      <3>1. k \in 0..n
        OBVIOUS
      <3> QED
        BY <2>1, <2>2, <3>1
    <2>4. PICK g : Computes(g, k - 1)
      BY <2>3
    <2> DEFINE h == [i \in 0..k |-> IF i = k THEN step[<<g[k - 1], k>>] ELSE g[i]]
    <2>5. step[<<g[k - 1], k>>] \in T
      BY <2>3, <2>4
    <2>6. h \in [0..k -> T] /\ h[0] = base
      BY <2>3, <2>4, <2>5
    <2>7. ASSUME NEW i \in 1..k PROVE h[i] = step[<<h[i - 1], i>>]
      <3>1. CASE i = k
        <4>1. k \in 0..k /\ k - 1 \in 0..k /\ k - 1 # k
          BY <2>3
        <4>2. h[k] = step[<<g[k - 1], k>>] /\ h[k - 1] = g[k - 1]
          BY <4>1
        <4> QED
          BY <3>1, <4>2
      <3>2. CASE i # k
        <4>1. i \in 1..k - 1 /\ i - 1 \in 0..k - 1 /\ i - 1 # k
          BY <3>2, <2>3
        <4> QED
          BY <4>1, <2>4, <3>2
      <3> QED
        BY <3>1, <3>2
    <2>8. Computes(h, k)
      <3> HIDE DEF h
      <3> QED
        BY <2>6, <2>7
    <2> QED
      BY <2>1, <2>8
  <1>2. \E g : Computes(g, n)
    BY <1>1
  <1> QED
    BY <1>2 DEF Computations

(* And a set of numbers up to n has a greatest one.                        *)
LEMMA GreatestNumber ==
  ASSUME NEW n \in Nat, NEW S \in SUBSET (0..n), S # {}
  PROVE  \E k \in S : \A m \in S : m <= k
  <1> DEFINE Above == {n - k : k \in S}
  <1>1. Above \in SUBSET Nat /\ Above # {}
    <2>1. \A k \in S : n - k \in Nat
      OBVIOUS
    <2>2. PICK k \in S : TRUE
      OBVIOUS
    <2>3. n - k \in Above
      BY <2>2
    <2> QED
      BY <2>1, <2>3
  <1>2. PICK l \in Above : \A m \in Above : l <= m
    <2> HIDE DEF Above
    <2> QED
      BY <1>1, LeastNumber
  <1>3. PICK k \in S : l = n - k
    OBVIOUS
  <1>4. \A m \in S : n - k <= n - m
    BY <1>2, <1>3
  <1> QED
    BY <1>4

(* A function of which each value is computed of those after it exists.    *)
LooksAhead(T, n, step) ==
  /\ step \in [(1..n) \X [1..n -> T] -> T]
  /\ \A p \in 1..n, f \in [1..n -> T], g \in [1..n -> T] :
       (\A q \in p + 1..n : f[q] = g[q]) => step[<<p, f>>] = step[<<p, g>>]

Recursions(T, n, step) == {f \in [1..n -> T] : \A p \in 1..n : f[p] = step[<<p, f>>]}

LEMMA RecursionExists ==
  ASSUME NEW T, NEW base \in T, NEW n \in Nat, NEW step, LooksAhead(T, n, step)
  PROVE  \E f : f \in Recursions(T, n, step)
  <1> DEFINE Computes(f, k) ==
               f \in [1..n -> T] /\ \A p \in n - k + 1..n : f[p] = step[<<p, f>>]
             Bad == {k \in 0..n : ~ \E f : Computes(f, k)}
  <1> USE DEF LooksAhead
  <1>1. Bad = {}
    <2> SUFFICES ASSUME Bad # {} PROVE FALSE
      OBVIOUS
    <2>1. PICK k \in Bad : \A m \in Bad : k <= m
      <3>1. Bad \in SUBSET Nat
        OBVIOUS
      <3> HIDE DEF Bad
      <3> QED
        BY <3>1, LeastNumber
    <2>2. k # 0
      <3>1. Computes([p \in 1..n |-> base], 0)
        OBVIOUS
      <3> HIDE DEF Computes
      <3> QED
        BY <3>1, <2>1
    <2>3. k - 1 \in 0..n /\ k - 1 \notin Bad /\ k \in 1..n
      <3> HIDE DEF Computes
      <3>1. k \in 0..n
        OBVIOUS
      <3> QED
        BY <2>1, <2>2, <3>1
    <2>4. PICK f : Computes(f, k - 1)
      BY <2>3
    <2> DEFINE r == n - k + 1
               h == [f EXCEPT ![r] = step[<<r, f>>]]
    <2>5. r \in 1..n /\ r = n - k + 1 /\ f \in [1..n -> T]
      BY <2>3, <2>4
    <2>6. \A p \in r + 1..n : f[p] = step[<<p, f>>]
      <3>1. r + 1 = n - (k - 1) + 1
        BY <2>3
      <3> QED
        BY <2>4, <3>1
    <2> HIDE DEF r
    <2>7. h \in [1..n -> T] /\ h[r] = step[<<r, f>>] /\ \A p \in 1..n : p # r => h[p] = f[p]
      BY <2>5
    <2> HIDE DEF h
    <2>8. \A p \in r..n : step[<<p, h>>] = step[<<p, f>>]
      <3> TAKE p \in r..n
      <3>1. p \in 1..n /\ \A q \in p + 1..n : q \in 1..n /\ q # r
        BY <2>5
      <3>2. \A q \in p + 1..n : h[q] = f[q]
        BY <2>7, <3>1
      <3> QED
        BY <2>5, <2>7, <3>1, <3>2
    <2>9. \A p \in r..n : h[p] = step[<<p, h>>]
      <3> TAKE p \in r..n
      <3>1. CASE p = r
        BY <2>7, <2>8, <3>1
      <3>2. CASE p # r
        <4>1. p \in r + 1..n /\ p \in 1..n
          BY <2>5, <3>2
        <4> QED
          BY <2>6, <2>7, <2>8, <3>2, <4>1
      <3> QED
        BY <3>1, <3>2
    <2>10. Computes(h, k)
      BY <2>5, <2>7, <2>9
    <2> QED
      BY <2>1, <2>10
  <1>2. PICK f : Computes(f, n)
    <2>1. n \in 0..n
      OBVIOUS
    <2> HIDE DEF Computes
    <2> QED
      BY <1>1, <2>1
  <1>3. n - n + 1 = 1
    OBVIOUS
  <1> QED
    BY <1>2, <1>3 DEF Recursions

----------------------------------------------------------------------------
(* Two sequences, one after another, as statements about their members.    *)
IsJoined(z, x, y) ==
  /\ Len(z) = Len(x) + Len(y)
  /\ \A i \in 1..Len(x) : z[i] = x[i]
  /\ \A i \in 1..Len(y) : z[Len(x) + i] = y[i]

LEMMA ConcatJoins ==
  ASSUME NEW S, NEW x \in Seq(S), NEW y \in Seq(S)
  PROVE  x \o y \in Seq(S) /\ IsJoined(x \o y, x, y)
  <1>1. x \o y \in Seq(S) /\ Len(x \o y) = Len(x) + Len(y)
    BY ConcatProperties
  <1>2. \A i \in 1..Len(x) : (x \o y)[i] = x[i]
    BY ConcatProperties
  <1>3. \A i \in 1..Len(y) : (x \o y)[Len(x) + i] = y[i]
    BY ConcatProperties
  <1> QED
    BY <1>1, <1>2, <1>3 DEF IsJoined

=============================================================================
