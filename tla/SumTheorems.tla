---------------------------- MODULE SumTheorems ----------------------------
(***************************************************************************)
(* A function that a recursion defines on the natural numbers, as the sum  *)
(* of the weights in a batch is, does what its definition says.  Each      *)
(* proof by induction looks at the least number for which it would fail.   *)
(***************************************************************************)
EXTENDS Naturals, WellFoundedInduction, TLAPS

\* The least number principle, for sets.
LEMMA LeastOf ==
  ASSUME NEW T, T \subseteq Nat, T # {}
  PROVE  \E n \in T : \A i \in T : n <= i
<1>1. PICK n \in T : \A i \in T : ~(<<i, n>> \in OpToRel(<, Nat))
  BY NatLessThanWellFounded, WFMin
<1>2. ASSUME NEW i \in T PROVE n <= i
  <2>1. i \in Nat /\ n \in Nat /\ ~(i < n)
    BY <1>1 DEF OpToRel
  <2> QED BY <2>1
<1> QED BY <1>2

\* h sums v up to n.
SumsTo(h, v, n) == h = [i \in 0 .. n |-> IF i = 0 THEN 0 ELSE h[i - 1] + v[i]]

LEMMA SumsExist ==
  ASSUME NEW v, NEW n \in Nat
  PROVE  \E h : SumsTo(h, v, n)
<1> DEFINE Without == {k \in Nat : ~ \E h : SumsTo(h, v, k)}
<1> SUFFICES ASSUME Without # {} PROVE FALSE
  OBVIOUS
<1>1. PICK k \in Without : \A i \in Without : k <= i
  BY LeastOf
<1>2. k \in Nat /\ ~ \E h : SumsTo(h, v, k)
  OBVIOUS
<1>3. CASE k = 0
  <2>1. PICK h : h = [i \in 0 .. 0 |-> 0]
    OBVIOUS
  <2>2. SumsTo(h, v, 0)
    BY <2>1 DEF SumsTo
  <2> QED BY <1>2, <1>3, <2>2
<1>4. CASE k # 0
  <2>1. k - 1 \in Nat /\ ~(k <= k - 1)
    BY <1>2, <1>4
  <2>2. PICK g : SumsTo(g, v, k - 1)
    BY <1>1, <2>1
  <2>3. PICK h : h = [i \in 0 .. k |-> IF i = k THEN g[k - 1] + v[k] ELSE g[i]]
    OBVIOUS
  <2>4. \A i \in 0 .. k - 1 : g[i] = IF i = 0 THEN 0 ELSE g[i - 1] + v[i]
    BY <2>2 DEF SumsTo
  <2>5. ASSUME NEW i \in 0 .. k PROVE h[i] = IF i = 0 THEN 0 ELSE h[i - 1] + v[i]
    <3>1. CASE i = 0
      BY <1>2, <1>4, <2>3, <2>4, <3>1
    <3>2. CASE i # 0 /\ i # k
      <4>1. i \in 0 .. k - 1 /\ i - 1 \in 0 .. k /\ i - 1 # k
        BY <1>2, <3>2
      <4> QED BY <2>3, <2>4, <3>2, <4>1
    <3>3. CASE i = k
      <4>1. k \in 0 .. k /\ k - 1 \in 0 .. k /\ k - 1 # k
        BY <1>2, <1>4
      <4> QED BY <1>4, <2>3, <3>3, <4>1
    <3> QED BY <3>1, <3>2, <3>3
  <2>6. SumsTo(h, v, k)
    <3>1. h = [i \in 0 .. k |-> h[i]]
      BY <2>3
    <3> QED BY <2>5, <3>1 DEF SumsTo
  <2> QED BY <1>2, <2>6
<1> QED BY <1>3, <1>4

LEMMA SumsAgree ==
  ASSUME NEW v, NEW n \in Nat, NEW m \in Nat, NEW g, NEW h, SumsTo(g, v, n), SumsTo(h, v, m),
         NEW i \in 0 .. n, i <= m
  PROVE  g[i] = h[i]
<1>1. /\ \A j \in 0 .. n : g[j] = IF j = 0 THEN 0 ELSE g[j - 1] + v[j]
      /\ \A j \in 0 .. m : h[j] = IF j = 0 THEN 0 ELSE h[j - 1] + v[j]
  BY DEF SumsTo
<1> DEFINE Differ == {j \in Nat : j <= n /\ j <= m /\ g[j] # h[j]}
<1> SUFFICES ASSUME Differ # {} PROVE FALSE
  OBVIOUS
<1>2. PICK k \in Differ : \A j \in Differ : k <= j
  BY LeastOf
<1>3. k \in Nat /\ k <= n /\ k <= m /\ g[k] # h[k]
  OBVIOUS
<1>4. k \in 0 .. n /\ k \in 0 .. m
  BY <1>3
<1>5. CASE k = 0
  BY <1>1, <1>3, <1>4, <1>5
<1>6. CASE k # 0
  <2>1. k - 1 \in Nat /\ k - 1 <= n /\ k - 1 <= m /\ ~(k <= k - 1)
    BY <1>3, <1>6
  <2>2. g[k - 1] = h[k - 1]
    BY <1>2, <2>1
  <2> QED BY <1>1, <1>3, <1>4, <1>6, <2>2
<1> QED BY <1>5, <1>6

\* A function defined by recursion that sums v does what its definition says.
LEMMA SumIs ==
  ASSUME NEW v, NEW f,
         f = CHOOSE g : g = [i \in Nat |-> IF i = 0 THEN 0 ELSE g[i - 1] + v[i]]
  PROVE  f = [i \in Nat |-> IF i = 0 THEN 0 ELSE f[i - 1] + v[i]]
<1> DEFINE Upto(n) == CHOOSE h : SumsTo(h, v, n)
<1>1. ASSUME NEW n \in Nat PROVE SumsTo(Upto(n), v, n)
  BY SumsExist
<1>2. PICK g : g = [i \in Nat |-> Upto(i)[i]]
  OBVIOUS
<1> HIDE DEF Upto
<1>3. ASSUME NEW i \in Nat PROVE g[i] = IF i = 0 THEN 0 ELSE g[i - 1] + v[i]
  <2>1. Upto(i)[i] = IF i = 0 THEN 0 ELSE Upto(i)[i - 1] + v[i]
    <3>1. i \in 0 .. i /\ SumsTo(Upto(i), v, i)
      BY <1>1
    <3> QED BY <3>1 DEF SumsTo
  <2>2. CASE i = 0
    BY <1>2, <2>1, <2>2
  <2>3. CASE i # 0
    <3>1. i - 1 \in Nat /\ i - 1 \in 0 .. i - 1 /\ i - 1 <= i
      BY <2>3
    <3>2. Upto(i - 1)[i - 1] = Upto(i)[i - 1]
      BY <1>1, <3>1, SumsAgree
    <3> QED BY <1>2, <2>1, <2>3, <3>1, <3>2
  <2> QED BY <2>2, <2>3
<1>4. g = [i \in Nat |-> IF i = 0 THEN 0 ELSE g[i - 1] + v[i]]
  <2>1. g = [i \in Nat |-> g[i]]
    BY <1>2
  <2> QED BY <1>3, <2>1
<1> QED BY <1>4
=============================================================================
