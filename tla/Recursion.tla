------------------------------- MODULE Recursion -------------------------------
(* A function that is defined by recursion on the natural numbers satisfies its *)
(* equation.  Step(p, before, n) is its value at n, for a parameter p, if       *)
(* before is its value at n - 1 (nothing, for n = 0).                           *)
EXTENDS Integers, WellFoundedInduction, TLAPS

CONSTANT Step(_, _, _)

Before(g, n) == IF n = 0 THEN << >> ELSE g[n - 1]

\* g is the function up to n.
UpTo(p, g, n) == g = [m \in 0..n |-> Step(p, Before(g, m), m)]

\* A set of numbers has a least one.
LEMMA Least ==
  ASSUME NEW U \in SUBSET Nat, U # {}
  PROVE  \E m \in U : \A k \in U : m <= k
<1> DEFINE R == {r \in Nat \X Nat : r[1] < r[2]}
<1>1. IsWellFoundedOn(R, Nat)
  BY NatLessThanWellFounded, Zenon DEF OpToRel
<1>2. PICK m \in U : \A k \in U : ~ (<<k, m>> \in R)
  <2> HIDE DEF R
  <2> QED
    BY <1>1, WFMin
<1>3. ASSUME NEW k \in U
      PROVE  m <= k
  <2>1. <<k, m>> \in Nat \X Nat /\ <<k, m>>[1] = k /\ <<k, m>>[2] = m
    OBVIOUS
  <2>2. ~ (k < m)
    BY <1>2, <2>1
  <2> QED
    BY <2>2
<1> QED
  BY <1>3

LEMMA UpToAt ==
  ASSUME NEW p, NEW g, NEW n \in Nat, UpTo(p, g, n), NEW m \in 0..n
  PROVE  g[m] = Step(p, Before(g, m), m)
  BY DEF UpTo

\* Two such functions agree where both are defined.
LEMMA UpToUnique ==
  ASSUME NEW p, NEW g, NEW n \in Nat, UpTo(p, g, n),
         NEW h, NEW k \in Nat, UpTo(p, h, k), NEW m \in Nat, m <= n, m <= k
  PROVE  g[m] = h[m]
<1> DEFINE Off == {j \in Nat : j <= n /\ j <= k /\ g[j] # h[j]}
<1>1. SUFFICES ASSUME Off # {}
               PROVE  FALSE
  OBVIOUS
<1>2. PICK j \in Off : \A i \in Off : j <= i
  <2> HIDE DEF Off
  <2>1. Off \in SUBSET Nat
    BY DEF Off
  <2> QED
    BY <1>1, <2>1, Least
<1>3. j \in 0..n /\ j \in 0..k /\ g[j] # h[j] /\ j \in Nat
  BY <1>2
<1>4. Before(g, j) = Before(h, j)
  <2>1. CASE j = 0
    BY <2>1 DEF Before
  <2>2. CASE j # 0
    <3>1. j - 1 \in Nat /\ ~ (j <= j - 1) /\ j - 1 <= n /\ j - 1 <= k
      BY <1>3, <2>2
    <3>2. g[j - 1] = h[j - 1]
      BY <1>2, <3>1
    <3> QED
      BY <2>2, <3>2 DEF Before
  <2> QED
    BY <2>1, <2>2
<1> QED
  BY <1>3, <1>4, UpToAt

LEMMA UpToExists ==
  ASSUME NEW p, NEW n \in Nat
  PROVE  \E g : UpTo(p, g, n)
<1> DEFINE Off == {j \in Nat : ~ \E g : UpTo(p, g, j)}
<1>1. SUFFICES ASSUME Off # {}
               PROVE  FALSE
  OBVIOUS
<1>2. PICK j \in Off : \A i \in Off : j <= i
  <2> HIDE DEF Off
  <2>1. Off \in SUBSET Nat
    BY DEF Off
  <2> QED
    BY <1>1, <2>1, Least
<1>3. j \in Nat /\ ~ \E g : UpTo(p, g, j)
  BY <1>2
<1>4. CASE j = 0
  <2> DEFINE g == [m \in 0..0 |-> Step(p, << >>, m)]
  <2>1. \A m \in 0..0 : Before(g, m) = << >>
    BY DEF Before
  <2>2. g = [m \in 0..0 |-> Step(p, Before(g, m), m)]
    BY <2>1
  <2> QED
    BY <1>3, <1>4, <2>2 DEF UpTo
<1>5. CASE j # 0
  <2>1. j - 1 \in Nat /\ ~ (j <= j - 1)
    BY <1>3, <1>5
  <2>2. PICK g : UpTo(p, g, j - 1)
    BY <1>2, <2>1
  <2> DEFINE h == [m \in 0..j |-> IF m = j THEN Step(p, g[j - 1], j) ELSE g[m]]
  <2>3. ASSUME NEW m \in 0..j
        PROVE  h[m] = Step(p, Before(h, m), m)
    <3>1. Before(h, m) = Before(g, m)
      BY <1>3 DEF Before
    <3>2. CASE m = j
      BY <1>5, <3>1, <3>2 DEF Before
    <3>3. CASE m # j
      <4>1. m \in 0..(j - 1) /\ h[m] = g[m]
        BY <1>3, <3>3
      <4> QED
        BY <2>1, <2>2, <3>1, <4>1, UpToAt
    <3> QED
      BY <3>2, <3>3
  <2>4. h = [m \in 0..j |-> Step(p, Before(h, m), m)]
    <3>1. h = [m \in 0..j |-> h[m]]
      OBVIOUS
    <3> HIDE DEF h
    <3> QED
      BY <2>3, <3>1
  <2> QED
    BY <1>3, <2>4 DEF UpTo
<1> QED
  BY <1>4, <1>5

\* There is a function that satisfies the equation everywhere.
THEOREM Recursion ==
  \A p : \E g : g = [n \in Nat |-> Step(p, Before(g, n), n)]
<1> TAKE p
<1> DEFINE Some(n) == CHOOSE g : UpTo(p, g, n)
           G == [n \in Nat |-> Some(n)[n]]
<1>1. \A n \in Nat : UpTo(p, Some(n), n)
  BY UpToExists
<1>2. ASSUME NEW n \in Nat
      PROVE  G[n] = Step(p, Before(G, n), n)
  <2>1. G[n] = Some(n)[n] /\ n \in 0..n
    OBVIOUS
  <2> HIDE DEF Some
  <2>2. Before(G, n) = Before(Some(n), n)
    <3>1. CASE n = 0
      BY <3>1 DEF Before
    <3>2. CASE n # 0
      <4>1. n - 1 \in Nat /\ n - 1 <= n /\ n - 1 <= n - 1
        BY <3>2
      <4>2. Some(n - 1)[n - 1] = Some(n)[n - 1]
        BY <1>1, <4>1, UpToUnique
      <4> QED
        BY <3>2, <4>1, <4>2 DEF Before
    <3> QED
      BY <3>1, <3>2
  <2> QED
    BY <1>1, <2>1, <2>2, UpToAt
<1>3. G = [n \in Nat |-> G[n]]
  OBVIOUS
<1>4. G = [n \in Nat |-> Step(p, Before(G, n), n)]
  <2> HIDE DEF G
  <2> QED
    BY <1>2, <1>3
<1> QED
  BY <1>4
================================================================================
