---------------------------- MODULE SignatureProofs ----------------------------
(* Proofs about signatures: the offsets lead to the ends of the types, however  *)
(* they nest, and stay within the string.                                       *)
EXTENDS SignatureOffsets, FiniteSetTheorems, SequenceTheorems,
        WellFoundedInduction, TLAPS

--------------------------------------------------------------------------------
(* Counting characters *)

\* A set of numbers has a least one.
LEMMA HasLeast ==
  ASSUME NEW U \in SUBSET Nat, U # {}
  PROVE  \E m \in U : \A p \in U : m <= p
<1> DEFINE R == {r \in Nat \X Nat : r[1] < r[2]}
<1>1. IsWellFoundedOn(R, Nat)
  BY NatLessThanWellFounded, Zenon DEF OpToRel
<1>2. PICK m \in U : \A p \in U : ~ (<<p, m>> \in R)
  <2> HIDE DEF R
  <2> QED
    BY <1>1, WFMin
<1>3. ASSUME NEW p \in U
      PROVE  m <= p
  <2>1. <<p, m>> \in Nat \X Nat /\ <<p, m>>[1] = p /\ <<p, m>>[2] = m
    OBVIOUS
  <2>2. ~ (p < m)
    BY <1>2, <2>1
  <2> QED
    BY <2>2
<1> QED
  BY <1>3

\* A count is a number.
LEMMA CountNat ==
  ASSUME NEW s, NEW i \in Int, NEW n \in Nat, NEW c
  PROVE  Count(s, i, n, c) \in Nat
<1> DEFINE S == {j \in 1..n : s[i + j] = c}
<1>1. IsFiniteSet(1..n) /\ S \subseteq 1..n
  BY FS_Interval
<1>2. IsFiniteSet(S)
  BY <1>1, FS_Subset
<1>3. Count(s, i, n, c) = Cardinality(S)
  BY DEF Count
<1>4. Cardinality(S) \in Nat
  <2> HIDE DEF S
  <2> QED
    BY <1>2, FS_CardinalityType
<1> QED
  BY <1>3, <1>4

\* Nothing occurs in an empty window.
LEMMA CountNone ==
  ASSUME NEW s, NEW i \in Int, NEW c
  PROVE  Count(s, i, 0, c) = 0
<1>1. {j \in 1..0 : s[i + j] = c} = {}
  OBVIOUS
<1> QED
  BY <1>1, FS_EmptySet DEF Count

\* One character more.
LEMMA CountNext ==
  ASSUME NEW s, NEW i \in Int, NEW n \in Nat, NEW c
  PROVE  Count(s, i, n + 1, c) = Count(s, i, n, c) + (IF s[i + (n + 1)] = c THEN 1 ELSE 0)
<1> DEFINE S(m) == {j \in 1..m : s[i + j] = c}
<1>1. n + 1 \notin S(n)
  OBVIOUS
<1>2. IsFiniteSet(S(n)) /\ Cardinality(S(n)) \in Nat
  <2>1. IsFiniteSet(1..n) /\ S(n) \subseteq 1..n
    BY FS_Interval
  <2> HIDE DEF S
  <2> QED
    BY <2>1, FS_Subset, FS_CardinalityType
<1>3. CASE s[i + (n + 1)] = c
  <2>1. S(n + 1) = S(n) \cup {n + 1}
    BY <1>3
  <2> HIDE DEF S
  <2>2. Cardinality(S(n + 1)) = Cardinality(S(n)) + 1
    BY <1>1, <1>2, <2>1, FS_AddElement
  <2> QED
    BY <2>2, <1>3 DEF Count, S
<1>4. CASE s[i + (n + 1)] # c
  <2>1. S(n + 1) = S(n)
    BY <1>4
  <2> QED
    BY <2>1, <1>2, <1>4 DEF Count
<1> QED
  BY <1>3, <1>4

\* Two windows side by side: a count of both is the sum of their counts.
LEMMA CountJoin ==
  ASSUME NEW s, NEW i \in Int, NEW k \in Nat, NEW n \in Nat, NEW c
  PROVE  Count(s, i, k + n, c) = Count(s, i, k, c) + Count(s, i + k, n, c)
<1> DEFINE Off == {m \in Nat : Count(s, i, k + m, c)
                                 # Count(s, i, k, c) + Count(s, i + k, m, c)}
<1>1. SUFFICES ASSUME Off # {}
               PROVE  FALSE
  OBVIOUS
<1>2. PICK m \in Off : \A p \in Off : m <= p
  <2> HIDE DEF Off
  <2>1. Off \subseteq Nat
    BY DEF Off
  <2> QED
    BY <1>1, <2>1, HasLeast
<1>3. m # 0
  <2>1. Count(s, i + k, 0, c) = 0 /\ Count(s, i, k, c) \in Nat /\ k + 0 = k
    <3>1. i + k \in Int
      OBVIOUS
    <3> QED
      BY <3>1, CountNone, CountNat
  <2>2. 0 \notin Off
    BY <2>1
  <2> QED
    BY <1>2, <2>2
<1>4. m - 1 \in Nat /\ m - 1 \notin Off
  BY <1>2, <1>3
<1>5. Count(s, i, k + (m - 1), c) = Count(s, i, k, c) + Count(s, i + k, m - 1, c)
  BY <1>4
<1>6. /\ k + (m - 1) \in Nat /\ (k + (m - 1)) + 1 = k + m /\ (m - 1) + 1 = m
      /\ i + (k + m) = (i + k) + m
  BY <1>4
<1>7. /\ Count(s, i, k + m, c)
          = Count(s, i, k + (m - 1), c) + (IF s[i + (k + m)] = c THEN 1 ELSE 0)
      /\ Count(s, i + k, m, c)
          = Count(s, i + k, m - 1, c) + (IF s[(i + k) + m] = c THEN 1 ELSE 0)
  <2>1. Count(s, i, (k + (m - 1)) + 1, c) = Count(s, i, k + (m - 1), c)
          + (IF s[i + ((k + (m - 1)) + 1)] = c THEN 1 ELSE 0)
    BY <1>6, CountNext
  <2>2. Count(s, i + k, (m - 1) + 1, c) = Count(s, i + k, m - 1, c)
          + (IF s[(i + k) + ((m - 1) + 1)] = c THEN 1 ELSE 0)
    BY <1>4, CountNext
  <2> QED
    BY <1>6, <2>1, <2>2
<1>8. /\ Count(s, i, k, c) \in Nat /\ Count(s, i + k, m - 1, c) \in Nat
      /\ Count(s, i, k + (m - 1), c) \in Nat
  <2>1. i + k \in Int
    OBVIOUS
  <2> QED
    BY <2>1, <1>4, <1>6, CountNat
<1>9. m \in Off
  BY <1>2
<1> QED
  BY <1>5, <1>6, <1>7, <1>8, <1>9
--------------------------------------------------------------------------------
(* Brackets *)

\* Among the n characters after i the brackets o and c are in pairs.
Balanced(s, i, n, o, c) ==
  /\ Count(s, i, n, o) = Count(s, i, n, c)
  /\ \A m \in 0..n : Count(s, i, m, c) <= Count(s, i, m, o)

\* An empty window is balanced, and so is a character that is no bracket.
LEMMA BalancedEmpty ==
  ASSUME NEW s, NEW i \in Int, NEW o, NEW c
  PROVE  Balanced(s, i, 0, o, c)
<1>1. Count(s, i, 0, o) = 0 /\ Count(s, i, 0, c) = 0
  BY CountNone
<1>2. \A m \in 0..0 : m = 0
  OBVIOUS
<1> QED
  BY <1>1, <1>2 DEF Balanced

\* The count of one character.
LEMMA CountOne ==
  ASSUME NEW s, NEW i \in Int, NEW c
  PROVE  Count(s, i, 1, c) = IF s[i + 1] = c THEN 1 ELSE 0
<1>1. Count(s, i, 0 + 1, c) = Count(s, i, 0, c) + (IF s[i + (0 + 1)] = c THEN 1 ELSE 0)
  BY CountNext
<1> QED
  BY <1>1, CountNone

\* And the other of the two.
LEMMA BalancedOne ==
  ASSUME NEW s, NEW i \in Int, NEW o, NEW c, s[i + 1] # o, s[i + 1] # c
  PROVE  Balanced(s, i, 1, o, c)
<1>1. Count(s, i, 1, o) = 0 /\ Count(s, i, 1, c) = 0
  BY CountOne
<1>2. Count(s, i, 0, o) = 0 /\ Count(s, i, 0, c) = 0
  BY CountNone
<1>3. \A m \in 0..1 : m = 0 \/ m = 1
  OBVIOUS
<1> QED
  BY <1>1, <1>2, <1>3 DEF Balanced

\* Two balanced windows side by side make one.
LEMMA BalancedJoin ==
  ASSUME NEW s, NEW i \in Int, NEW k \in Nat, NEW n \in Nat, NEW o, NEW c,
         Balanced(s, i, k, o, c), Balanced(s, i + k, n, o, c)
  PROVE  Balanced(s, i, k + n, o, c)
<1>1. i + k \in Int /\ k \in 0..k /\ n \in 0..n
  OBVIOUS
<1>2. ASSUME NEW x, NEW m \in Nat
      PROVE  /\ Count(s, i, k + m, x) = Count(s, i, k, x) + Count(s, i + k, m, x)
             /\ Count(s, i, k, x) \in Nat /\ Count(s, i + k, m, x) \in Nat
  BY <1>1, CountJoin, CountNat
<1>3. Count(s, i, k + n, o) = Count(s, i, k + n, c)
  <2>1. /\ Count(s, i, k, o) = Count(s, i, k, c)
        /\ Count(s, i + k, n, o) = Count(s, i + k, n, c)
    BY DEF Balanced
  <2> QED
    BY <1>2, <2>1
<1>4. ASSUME NEW m \in 0..(k + n)
      PROVE  Count(s, i, m, c) <= Count(s, i, m, o)
  <2>1. CASE m <= k
    <3>1. m \in 0..k
      BY <2>1
    <3> QED
      BY <3>1 DEF Balanced
  <2>2. CASE m > k
    <3>1. m - k \in 0..n /\ m - k \in Nat /\ k + (m - k) = m
      BY <2>2
    <3>2. /\ Count(s, i, k, c) <= Count(s, i, k, o)
          /\ Count(s, i + k, m - k, c) <= Count(s, i + k, m - k, o)
      BY <1>1, <3>1 DEF Balanced
    <3>3. /\ Count(s, i, k + (m - k), c) = Count(s, i, k, c) + Count(s, i + k, m - k, c)
          /\ Count(s, i, k + (m - k), o) = Count(s, i, k, o) + Count(s, i + k, m - k, o)
          /\ Count(s, i, k, c) \in Nat /\ Count(s, i + k, m - k, c) \in Nat
          /\ Count(s, i, k, o) \in Nat /\ Count(s, i + k, m - k, o) \in Nat
      BY <1>2, <3>1
    <3> QED
      BY <3>1, <3>2, <3>3
  <2> QED
    BY <2>1, <2>2
<1> QED
  BY <1>3, <1>4 DEF Balanced

\* In brackets: an opening one before, a closing one after.
LEMMA BalancedWrap ==
  ASSUME NEW s, NEW i \in Int, NEW n \in Nat, NEW o, NEW c, o # c,
         Balanced(s, i + 1, n, o, c), s[i + 1] = o, s[i + (n + 2)] = c
  PROVE  Balanced(s, i, n + 2, o, c)
<1>1. i + 1 \in Int /\ n \in 0..n /\ n + 1 \in Nat /\ (n + 1) + 1 = n + 2
  OBVIOUS
<1>2. Count(s, i, 1, o) = 1 /\ Count(s, i, 1, c) = 0
  BY CountOne
<1>3. ASSUME NEW m \in 0..n
      PROVE  /\ Count(s, i, 1 + m, o) = 1 + Count(s, i + 1, m, o)
             /\ Count(s, i, 1 + m, c) = Count(s, i + 1, m, c)
             /\ Count(s, i + 1, m, c) <= Count(s, i + 1, m, o)
             /\ Count(s, i + 1, m, o) \in Nat /\ Count(s, i + 1, m, c) \in Nat
  <2>1. m \in Nat /\ 1 \in Nat
    OBVIOUS
  <2>2. /\ Count(s, i, 1 + m, o) = Count(s, i, 1, o) + Count(s, i + 1, m, o)
        /\ Count(s, i, 1 + m, c) = Count(s, i, 1, c) + Count(s, i + 1, m, c)
    <3>1. ASSUME NEW x
          PROVE  Count(s, i, 1 + m, x) = Count(s, i, 1, x) + Count(s, i + 1, m, x)
      <4> DEFINE k == 1
      <4>1. k \in Nat
        OBVIOUS
      <4> HIDE DEF k
      <4>2. Count(s, i, k + m, x) = Count(s, i, k, x) + Count(s, i + k, m, x)
        BY <2>1, <4>1, CountJoin
      <4> QED
        BY <4>2 DEF k
    <3> QED
      BY <3>1
  <2>3. Count(s, i + 1, m, o) \in Nat /\ Count(s, i + 1, m, c) \in Nat
    BY <1>1, <2>1, CountNat
  <2> QED
    BY <1>2, <2>2, <2>3 DEF Balanced
<1>4. Count(s, i, n + 2, o) = Count(s, i, n + 2, c)
  <2>1. /\ Count(s, i, n + 2, o) = Count(s, i, n + 1, o)
        /\ Count(s, i, n + 2, c) = Count(s, i, n + 1, c) + 1
    <3>1. /\ Count(s, i, (n + 1) + 1, o)
              = Count(s, i, n + 1, o) + (IF s[i + ((n + 1) + 1)] = o THEN 1 ELSE 0)
          /\ Count(s, i, (n + 1) + 1, c)
              = Count(s, i, n + 1, c) + (IF s[i + ((n + 1) + 1)] = c THEN 1 ELSE 0)
      BY <1>1, CountNext
    <3>2. Count(s, i, n + 1, o) \in Nat
      BY <1>1, CountNat
    <3> QED
      BY <1>1, <3>1, <3>2
  <2>2. Count(s, i + 1, n, o) = Count(s, i + 1, n, c)
    BY DEF Balanced
  <2>3. 1 + n = n + 1
    OBVIOUS
  <2> QED
    BY <1>1, <1>3, <2>1, <2>2, <2>3
<1>5. ASSUME NEW m \in 0..(n + 2)
      PROVE  Count(s, i, m, c) <= Count(s, i, m, o)
  <2>1. CASE m = 0
    BY <2>1, CountNone
  <2>2. CASE m \in 1..(n + 1)
    <3>1. m - 1 \in 0..n /\ 1 + (m - 1) = m
      BY <2>2
    <3>2. /\ Count(s, i, 1 + (m - 1), o) = 1 + Count(s, i + 1, m - 1, o)
          /\ Count(s, i, 1 + (m - 1), c) = Count(s, i + 1, m - 1, c)
          /\ Count(s, i + 1, m - 1, c) <= Count(s, i + 1, m - 1, o)
          /\ Count(s, i + 1, m - 1, o) \in Nat /\ Count(s, i + 1, m - 1, c) \in Nat
      BY <1>3, <3>1
    <3> QED
      BY <3>1, <3>2
  <2>3. CASE m = n + 2
    <3>1. n + 2 \in Nat
      OBVIOUS
    <3>2. Count(s, i, n + 2, o) \in Nat
      BY <3>1, CountNat
    <3> QED
      BY <1>4, <2>3, <3>2
  <2> QED
    BY <2>1, <2>2, <2>3
<1> QED
  BY <1>4, <1>5 DEF Balanced

\* The character at k is c.
Shows(s, k, c) == s[k] = c

\* match finds the bracket that closes a balanced window, whatever follows it.
LEMMA MatchEnds ==
  ASSUME NEW s, NEW i \in Nat, NEW n \in Nat, NEW o, NEW c, o # c,
         Len(s) \in Nat, i + (n + 1) <= Len(s),
         Balanced(s, i, n, o, c), Shows(s, i + (n + 1), c)
  PROVE  Match(s, i, o, c) = n + 1
<1> DEFINE Ends == {m \in 1..(Len(s) - i) : Count(s, i, m, c) = Count(s, i, m, o) + 1}
<1>1. /\ Count(s, i, n, o) \in Nat /\ Count(s, i, n, c) = Count(s, i, n, o)
      /\ \A m \in 0..n : Count(s, i, m, c) <= Count(s, i, m, o)
  BY CountNat DEF Balanced
<1>2. /\ Count(s, i, n + 1, c) = Count(s, i, n, c) + 1
      /\ Count(s, i, n + 1, o) = Count(s, i, n, o)
  <2>1. /\ Count(s, i, n + 1, o)
            = Count(s, i, n, o) + (IF s[i + (n + 1)] = o THEN 1 ELSE 0)
        /\ Count(s, i, n + 1, c)
            = Count(s, i, n, c) + (IF s[i + (n + 1)] = c THEN 1 ELSE 0)
    BY CountNext
  <2> QED
    BY <1>1, <2>1 DEF Shows
<1>3. n + 1 \in Ends
  BY <1>1, <1>2
<1>4. ASSUME NEW m \in Ends
      PROVE  n + 1 <= m
  <2>1. m \in Nat /\ Count(s, i, m, c) = Count(s, i, m, o) + 1 /\ Count(s, i, m, o) \in Nat
    BY CountNat
  <2>2. m \notin 0..n
    BY <1>1, <2>1
  <2> QED
    BY <2>1, <2>2
<1>5. Match(s, i, o, c) = CHOOSE m \in Ends : \A p \in Ends : m <= p
  BY <1>3 DEF Match
<1>6. \A m \in Ends : m \in Nat
  OBVIOUS
<1>7. ASSUME NEW m \in Ends, \A p \in Ends : m <= p
      PROVE  m = n + 1
  <2> HIDE DEF Ends
  <2> QED
    BY <1>3, <1>4, <1>6, <1>7
<1> HIDE DEF Ends
<1> QED
  BY <1>3, <1>4, <1>5, <1>7
--------------------------------------------------------------------------------
(* Types where they stand in a signature *)

\* The n characters after i.
Window(s, i, n) == SubSeq(s, i + 1, i + n)

\* A window is a string of its own, whose characters are those of the string.
LEMMA WindowIs ==
  ASSUME NEW Chars, NEW s \in Seq(Chars), NEW i \in Nat, NEW n \in Nat, i + n <= Len(s)
  PROVE  /\ Window(s, i, n) \in Seq(Chars)
         /\ Len(Window(s, i, n)) = n
         /\ \A j \in 1..n : Window(s, i, n)[j] = s[i + j]
<1>1. \A j \in (i + 1)..(i + n) : s[j] \in Chars
  OBVIOUS
<1>2. /\ SubSeq(s, i + 1, i + n) \in Seq(Chars)
      /\ Len(SubSeq(s, i + 1, i + n))
          = IF i + 1 <= i + n THEN (i + n) - (i + 1) + 1 ELSE 0
      /\ \A j \in 1..((i + n) - (i + 1) + 1) :
            SubSeq(s, i + 1, i + n)[j] = s[(i + 1) + j - 1]
  BY <1>1, SubSeqProperties
<1> QED
  BY <1>2 DEF Window

\* A part of a window is a window.
LEMMA WindowInWindow ==
  ASSUME NEW Chars, NEW s \in Seq(Chars), NEW i \in Nat, NEW n \in Nat, i + n <= Len(s),
         NEW j \in Nat, NEW m \in Nat, j + m <= n
  PROVE  Window(Window(s, i, n), j, m) = Window(s, i + j, m)
<1> DEFINE w == Window(s, i, n)
           a == Window(w, j, m)
           b == Window(s, i + j, m)
<1>1. /\ w \in Seq(Chars) /\ Len(w) = n
      /\ \A k \in 1..n : w[k] = s[i + k]
  BY WindowIs
<1>2. i + j \in Nat /\ (i + j) + m <= Len(s)
  OBVIOUS
<1>3. /\ b \in Seq(Chars) /\ Len(b) = m
      /\ \A k \in 1..m : b[k] = s[(i + j) + k]
  BY <1>2, WindowIs
<1> HIDE DEF w, b
<1>4. /\ a \in Seq(Chars) /\ Len(a) = m
      /\ \A k \in 1..m : a[k] = w[j + k]
  BY <1>1, WindowIs
<1> HIDE DEF a
<1>5. ASSUME NEW k \in 1..m
      PROVE  a[k] = b[k]
  <2>1. j + k \in 1..n /\ i + (j + k) = (i + j) + k
    OBVIOUS
  <2>2. a[k] = w[j + k] /\ b[k] = s[(i + j) + k] /\ w[j + k] = s[i + (j + k)]
    BY <1>1, <1>3, <1>4, <2>1
  <2> QED
    BY <2>1, <2>2
<1>6. a = b
  BY <1>3, <1>4, <1>5
<1> QED
  BY <1>6 DEF a, b, w

\* What a complete type is made of, by the characters of the signature around it.
LEMMA TypeForms ==
  ASSUME NEW Chars, NEW s \in Seq(Chars), NEW i \in Nat, NEW n \in Nat, i + n <= Len(s),
         Window(s, i, n) \in Types
  PROVE  \/ n = 1 /\ s[i + 1] \in Basic \cup {"v"}
         \/ n > 1 /\ s[i + 1] = "a" /\ Window(s, i + 1, n - 1) \in Types \cup Entries
         \/ /\ n > 2 /\ s[i + 1] = "(" /\ s[i + n] = ")"
            /\ Window(s, i + 1, n - 2) \in Packs
<1> DEFINE w == Window(s, i, n)
<1>1. /\ w \in Seq(Chars) /\ Len(w) = n
      /\ \A k \in 1..n : w[k] = s[i + k]
  BY WindowIs
<1>2. \A j, m \in Nat : j + m <= n => Window(w, j, m) = Window(s, i + j, m)
  BY WindowInWindow
<1> HIDE DEF w
<1>3. \/ Len(w) = 1 /\ w[1] \in Basic \cup {"v"}
      \/ Len(w) > 1 /\ w[1] = "a" /\ Tail(w) \in Types \cup Entries
      \/ Len(w) > 2 /\ w[1] = "(" /\ w[Len(w)] = ")" /\ Inner(w) \in Packs
  BY Grammar DEF IsGrammar, w
<1>4. CASE Len(w) = 1 /\ w[1] \in Basic \cup {"v"}
  BY <1>1, <1>4
<1>5. CASE Len(w) > 1 /\ w[1] = "a" /\ Tail(w) \in Types \cup Entries
  <2>1. Tail(w) = SubSeq(w, 2, n)
    BY <1>1, <1>5, TailIsSubSeq
  <2>2. n - 1 \in Nat /\ 1 + (n - 1) = n /\ 1 + 1 = 2
    BY <1>1, <1>5
  <2>3. Window(w, 1, n - 1) = Window(s, i + 1, n - 1)
    BY <1>2, <2>2
  <2>4. Window(w, 1, n - 1) = Tail(w)
    BY <2>1, <2>2 DEF Window
  <2>5. n > 1 /\ w[1] = s[i + 1]
    BY <1>1, <1>5
  <2> QED
    BY <1>5, <2>3, <2>4, <2>5
<1>6. CASE Len(w) > 2 /\ w[1] = "(" /\ w[Len(w)] = ")" /\ Inner(w) \in Packs
  <2>1. n - 2 \in Nat /\ 1 + (n - 2) = n - 1 /\ 1 + 1 = 2 /\ 1 + (n - 2) <= n
    BY <1>1, <1>6
  <2>2. Window(w, 1, n - 2) = Window(s, i + 1, n - 2)
    BY <1>2, <2>1
  <2>3. Window(w, 1, n - 2) = Inner(w)
    BY <1>1, <2>1 DEF Window, Inner
  <2>4. n > 2 /\ w[1] = s[i + 1] /\ w[n] = s[i + n]
    BY <1>1, <1>6
  <2> QED
    BY <1>1, <1>6, <2>2, <2>3, <2>4
<1> QED
  BY <1>3, <1>4, <1>5, <1>6

\* A dictionary entry is a basic type and a complete type in braces.
LEMMA EntryForms ==
  ASSUME NEW Chars, NEW s \in Seq(Chars), NEW i \in Nat, NEW n \in Nat, i + n <= Len(s),
         Window(s, i, n) \in Entries
  PROVE  /\ n > 3 /\ s[i + 1] = EntryOpen /\ s[i + n] = EntryClose /\ s[i + 2] \in Basic
         /\ Window(s, i + 2, n - 3) \in Types
<1> DEFINE w == Window(s, i, n)
<1>1. /\ w \in Seq(Chars) /\ Len(w) = n
      /\ \A k \in 1..n : w[k] = s[i + k]
  BY WindowIs
<1>2. \A j, m \in Nat : j + m <= n => Window(w, j, m) = Window(s, i + j, m)
  BY WindowInWindow
<1> HIDE DEF w
<1>3. /\ Len(w) > 3 /\ w[1] = EntryOpen /\ w[Len(w)] = EntryClose
      /\ w[2] \in Basic /\ Tail(Inner(w)) \in Types
  BY Grammar DEF IsGrammar, w
<1>4. /\ n > 3 /\ n - 3 \in Nat /\ n - 2 \in Nat /\ n - 2 > 0
      /\ 1 + (n - 2) = n - 1 /\ 1 + (n - 3) = n - 2 /\ 2 + (n - 3) = n - 1
  <2>1. n > 3
    BY <1>1, <1>3
  <2> QED
    BY <2>1
<1>5. Inner(w) = Window(w, 1, n - 2)
  BY <1>1, <1>4 DEF Window, Inner
<1>6. Inner(w) \in Seq(Chars) /\ Len(Inner(w)) = n - 2
  <2>1. 1 + (n - 2) <= Len(w)
    BY <1>1, <1>4
  <2>2. /\ Window(w, 1, n - 2) \in Seq(Chars)
        /\ Len(Window(w, 1, n - 2)) = n - 2
    <3> DEFINE one == 1
               k == n - 2
    <3>1. one \in Nat /\ k \in Nat /\ one + k <= Len(w) /\ w \in Seq(Chars)
      BY <1>1, <1>4, <2>1
    <3> HIDE DEF one, k
    <3>2. /\ Window(w, one, k) \in Seq(Chars)
          /\ Len(Window(w, one, k)) = k
      BY <3>1, WindowIs
    <3> QED
      BY <3>2 DEF one, k
  <2> QED
    BY <1>5, <2>2
<1>7. Tail(Inner(w)) = SubSeq(Inner(w), 2, n - 2)
  <2>1. Inner(w) # << >>
    BY <1>4, <1>6
  <2> QED
    BY <1>6, <2>1, TailIsSubSeq
<1>8. Tail(Inner(w)) = Window(Window(w, 1, n - 2), 1, n - 3)
  BY <1>4, <1>5, <1>7 DEF Window
<1>9. Window(Window(w, 1, n - 2), 1, n - 3) = Window(w, 2, n - 3)
  <2> DEFINE k == 1
             a == n - 2
             b == n - 3
  <2>1. /\ k \in Nat /\ a \in Nat /\ b \in Nat
        /\ k + a <= Len(w) /\ k + b <= a /\ k + k = 2
    BY <1>1, <1>4
  <2>2. w \in Seq(Chars)
    BY <1>1
  <2> HIDE DEF k, a, b
  <2>3. Window(Window(w, k, a), k, b) = Window(w, k + k, b)
    BY <2>1, <2>2, WindowInWindow
  <2> QED
    BY <2>1, <2>3 DEF k, a, b
<1>10. Tail(Inner(w)) = Window(s, i + 2, n - 3)
  <2>1. 2 + (n - 3) <= n
    BY <1>4
  <2> QED
    BY <1>2, <1>4, <1>8, <1>9, <2>1
<1>11. w[1] = s[i + 1] /\ w[2] = s[i + 2] /\ w[n] = s[i + n]
  BY <1>1, <1>4
<1> QED
  BY <1>1, <1>3, <1>4, <1>10, <1>11

\* A sequence of types is empty, or a complete type with a sequence after it.
LEMMA PackForms ==
  ASSUME NEW Chars, NEW s \in Seq(Chars), NEW i \in Nat, NEW n \in Nat, i + n <= Len(s),
         Window(s, i, n) \in Packs
  PROVE  \/ n = 0
         \/ \E k \in 1..n : /\ Window(s, i, k) \in Types
                             /\ Window(s, i + k, n - k) \in Packs
<1> DEFINE w == Window(s, i, n)
<1>1. /\ w \in Seq(Chars) /\ Len(w) = n
      /\ \A k \in 1..n : w[k] = s[i + k]
  BY WindowIs
<1>2. \A j, m \in Nat : j + m <= n => Window(w, j, m) = Window(s, i + j, m)
  BY WindowInWindow
<1> HIDE DEF w
<1>3. w = << >> \/ \E k \in 1..Len(w) : /\ SubSeq(w, 1, k) \in Types
                                         /\ SubSeq(w, k + 1, Len(w)) \in Packs
  <2> DEFINE Form(p) == p = << >> \/ \E k \in 1..Len(p) : /\ SubSeq(p, 1, k) \in Types
                                                          /\ SubSeq(p, k + 1, Len(p)) \in Packs
  <2>1. Packs = {p \in Strings : Form(p)}
    BY Grammar, Zenon DEF IsGrammar
  <2>2. w \in Packs
    BY DEF w
  <2> HIDE DEF Form
  <2>3. Form(w)
    BY <2>1, <2>2
  <2> QED
    BY <2>3 DEF Form
<1>4. CASE w = << >>
  BY <1>1, <1>4
<1>5. ASSUME NEW k \in 1..n, SubSeq(w, 1, k) \in Types, SubSeq(w, k + 1, n) \in Packs
      PROVE  Window(s, i, k) \in Types /\ Window(s, i + k, n - k) \in Packs
  <2>1. k \in Nat /\ n - k \in Nat /\ k + (n - k) = n /\ 0 + k = k /\ 0 + 1 = 1
        /\ i + 0 = i /\ 0 + k <= n /\ k + (n - k) <= n
    OBVIOUS
  <2>2. Window(w, 0, k) = SubSeq(w, 1, k) /\ Window(w, k, n - k) = SubSeq(w, k + 1, n)
    BY <2>1 DEF Window
  <2>3. Window(w, 0, k) = Window(s, i, k) /\ Window(w, k, n - k) = Window(s, i + k, n - k)
    BY <1>2, <2>1
  <2> QED
    BY <1>5, <2>2, <2>3
<1> QED
  BY <1>1, <1>3, <1>4, <1>5
Brackets == {"(", ")", EntryOpen, EntryClose}

\* The characters of types differ from the braces.
LEMMA BracketsDiffer ==
  /\ EntryOpen # EntryClose
  /\ \A c \in Basic \cup {"a", "v", "(", ")"} : c # EntryOpen /\ c # EntryClose
  BY Zenon DEF EntryOpen, EntryClose, Basic

\* Characters of types without contents are no brackets.
LEMMA NotBrackets ==
  \A c \in Basic \cup {"a", "v"} : c \notin Brackets
<1>1. \A c \in Basic \cup {"a", "v"} : c # "(" /\ c # ")"
  BY DEF Basic
<1> QED
  BY <1>1, BracketsDiffer DEF Brackets

\* Both kinds of brackets are in pairs.
Paired(s, i, n) == Balanced(s, i, n, "(", ")") /\ Balanced(s, i, n, EntryOpen, EntryClose)

\* An empty window is balanced for both kinds of brackets.
LEMMA PairedEmpty ==
  ASSUME NEW s, NEW i \in Int
  PROVE  Paired(s, i, 0)
  BY BalancedEmpty DEF Paired

\* So is a character that is no bracket,
LEMMA PairedOne ==
  ASSUME NEW s, NEW i \in Int, s[i + 1] \notin Brackets
  PROVE  Paired(s, i, 1)
  BY BalancedOne DEF Paired, Brackets

\* and what two such windows make side by side.
LEMMA PairedJoin ==
  ASSUME NEW s, NEW i \in Int, NEW k \in Nat, NEW n \in Nat,
         Paired(s, i, k), Paired(s, i + k, n)
  PROVE  Paired(s, i, k + n)
  BY BalancedJoin DEF Paired

\* A character that is no bracket, then a paired window.
LEMMA PairedAfter ==
  ASSUME NEW s, NEW i \in Int, NEW n \in Nat, s[i + 1] \notin Brackets,
         Paired(s, i + 1, n)
  PROVE  Paired(s, i, n + 1)
<1> DEFINE k == 1
<1>1. k \in Nat /\ k + n = n + 1
  OBVIOUS
<1>2. Paired(s, i, k)
  BY PairedOne
<1>3. Paired(s, i + k, n)
  OBVIOUS
<1> HIDE DEF k
<1>4. Paired(s, i, k + n)
  BY <1>1, <1>2, <1>3, PairedJoin
<1> QED
  BY <1>1, <1>4

\* A paired window in brackets.
LEMMA PairedWrap ==
  ASSUME NEW s, NEW i \in Int, NEW n \in Nat, Paired(s, i + 1, n),
         \/ s[i + 1] = "(" /\ s[i + (n + 2)] = ")"
         \/ s[i + 1] = EntryOpen /\ s[i + (n + 2)] = EntryClose
  PROVE  Paired(s, i, n + 2)
<1>1. ASSUME NEW o, NEW c, s[i + 1] # o, s[i + 1] # c,
             s[i + (n + 2)] # o, s[i + (n + 2)] # c, Balanced(s, i + 1, n, o, c)
      PROVE  Balanced(s, i, n + 2, o, c)
  <2> DEFINE k == 1
             m == 1 + n
             j == i + m
  <2>1. /\ k \in Nat /\ m \in Nat /\ j \in Int /\ i + k \in Int
        /\ i + k = i + 1 /\ m = k + n /\ j = i + m
    OBVIOUS
  <2>2. m + k = n + 2 /\ j + k = i + (n + 2)
    OBVIOUS
  <2> HIDE DEF k, m, j
  <2>3. Balanced(s, i, k, o, c)
    BY <1>1, BalancedOne DEF k
  <2>4. Balanced(s, i, k + n, o, c)
    BY <1>1, <2>1, <2>3, BalancedJoin
  <2>5. Balanced(s, j, k, o, c)
    <3>1. s[j + 1] # o /\ s[j + 1] # c
      BY <1>1, <2>2 DEF k
    <3> QED
      BY <2>1, <3>1, BalancedOne DEF k
  <2>6. Balanced(s, i, m + k, o, c)
    BY <2>1, <2>4, <2>5, BalancedJoin
  <2> QED
    BY <2>2, <2>6
<1>2. CASE s[i + 1] = "(" /\ s[i + (n + 2)] = ")"
  <2>1. Balanced(s, i, n + 2, "(", ")")
    BY <1>2, BalancedWrap DEF Paired
  <2>2. Balanced(s, i, n + 2, EntryOpen, EntryClose)
    <3>1. "(" # EntryOpen /\ "(" # EntryClose /\ ")" # EntryOpen /\ ")" # EntryClose
      BY BracketsDiffer
    <3>2. Balanced(s, i + 1, n, EntryOpen, EntryClose)
      BY DEF Paired
    <3> QED
      BY <1>1, <1>2, <3>1, <3>2
  <2> QED
    BY <2>1, <2>2 DEF Paired
<1>3. CASE s[i + 1] = EntryOpen /\ s[i + (n + 2)] = EntryClose
  <2>1. Balanced(s, i, n + 2, EntryOpen, EntryClose)
    <3>1. EntryOpen # EntryClose
      BY BracketsDiffer
    <3>2. Balanced(s, i + 1, n, EntryOpen, EntryClose)
      BY DEF Paired
    <3> QED
      BY <1>3, <3>1, <3>2, BalancedWrap
  <2>2. Balanced(s, i, n + 2, "(", ")")
    <3>1. "(" # EntryOpen /\ "(" # EntryClose /\ ")" # EntryOpen /\ ")" # EntryClose
      BY BracketsDiffer
    <3>2. Balanced(s, i + 1, n, "(", ")")
      BY DEF Paired
    <3> QED
      BY <1>1, <1>3, <3>1, <3>2
  <2> QED
    BY <2>1, <2>2 DEF Paired
<1> QED
  BY <1>2, <1>3

\* In every complete type, dictionary entry and sequence of types the brackets are in
\* pairs: of those that are not there would be a shortest one, made of shorter ones.
LEMMA GrammarPaired ==
  ASSUME NEW Chars, NEW s \in Seq(Chars),
         NEW i \in Nat, NEW n \in Nat, i + n <= Len(s),
         Window(s, i, n) \in Types \cup Entries \cup Packs
  PROVE  Paired(s, i, n)
<1> DEFINE All == Types \cup Entries \cup Packs
           Stands(j, m) == j + m <= Len(s) /\ Window(s, j, m) \in All
           Off == {m \in Nat : \E j \in Nat : Stands(j, m) /\ ~ Paired(s, j, m)}
<1>1. SUFFICES ASSUME Off # {}
               PROVE  FALSE
  OBVIOUS
<1>2. PICK least \in Off : \A p \in Off : least <= p
  <2> HIDE DEF Off
  <2>1. Off \subseteq Nat
    BY DEF Off
  <2> QED
    BY <1>1, <2>1, HasLeast
<1>3. ASSUME NEW m \in Nat, NEW j \in Nat, m < least, Stands(j, m)
      PROVE  Paired(s, j, m)
  BY <1>2, <1>3
<1>4. Len(s) \in Nat /\ least \in Nat
  OBVIOUS
<1>5. ASSUME NEW j \in Nat, j + least <= Len(s), Window(s, j, least) \in Types
      PROVE  Paired(s, j, least)
  <2>1. \/ least = 1 /\ s[j + 1] \in Basic \cup {"v"}
        \/ /\ least > 1 /\ s[j + 1] = "a"
           /\ Window(s, j + 1, least - 1) \in Types \cup Entries
        \/ /\ least > 2 /\ s[j + 1] = "(" /\ s[j + least] = ")"
           /\ Window(s, j + 1, least - 2) \in Packs
    BY <1>4, <1>5, TypeForms
  <2>2. CASE least = 1 /\ s[j + 1] \in Basic \cup {"v"}
    <3>1. s[j + 1] \notin Brackets
      BY <2>2, NotBrackets
    <3>2. Paired(s, j, 1)
      BY <3>1, PairedOne
    <3> QED
      BY <2>2, <3>2
  <2>3. CASE /\ least > 1 /\ s[j + 1] = "a"
             /\ Window(s, j + 1, least - 1) \in Types \cup Entries
    <3> DEFINE m == least - 1
    <3>1. m \in Nat /\ m < least /\ j + 1 \in Nat /\ Stands(j + 1, m) /\ m + 1 = least
      BY <1>4, <1>5, <2>3
    <3> HIDE DEF m, Stands
    <3>2. Paired(s, j + 1, m)
      BY <1>3, <3>1
    <3>3. Paired(s, j, m + 1)
      <4>1. s[j + 1] \notin Brackets
        BY <2>3, NotBrackets
      <4> QED
        BY <3>1, <3>2, <4>1, PairedAfter
    <3> QED
      BY <3>1, <3>3
  <2>4. CASE /\ least > 2 /\ s[j + 1] = "(" /\ s[j + least] = ")"
             /\ Window(s, j + 1, least - 2) \in Packs
    <3> DEFINE m == least - 2
    <3>1. m \in Nat /\ m < least /\ j + 1 \in Nat /\ Stands(j + 1, m) /\ m + 2 = least
      BY <1>4, <1>5, <2>4
    <3> HIDE DEF m, Stands
    <3>2. Paired(s, j + 1, m)
      BY <1>3, <3>1
    <3>3. Paired(s, j, m + 2)
      <4>1. s[j + 1] = "(" /\ s[j + (m + 2)] = ")"
        BY <2>4, <3>1
      <4> QED
        BY <3>1, <3>2, <4>1, PairedWrap
    <3> QED
      BY <3>1, <3>3
  <2> QED
    BY <2>1, <2>2, <2>3, <2>4
<1>6. ASSUME NEW j \in Nat, j + least <= Len(s), Window(s, j, least) \in Entries
      PROVE  Paired(s, j, least)
  <2> DEFINE m == least - 3
  <2>1. /\ least > 3 /\ s[j + 1] = EntryOpen /\ s[j + least] = EntryClose /\ s[j + 2] \in Basic
        /\ Window(s, j + 2, m) \in Types
    BY <1>4, <1>6, EntryForms
  <2>2. /\ m \in Nat /\ m + 1 \in Nat /\ m < least /\ (m + 1) + 2 = least
        /\ j + 1 \in Nat /\ j + 2 \in Nat /\ (j + 1) + 1 = j + 2
    BY <1>4, <2>1
  <2>6. Stands(j + 2, m)
    <3>1. (j + 2) + m <= Len(s)
      BY <1>4, <1>6
    <3> QED
      BY <2>1, <3>1
  <2> HIDE DEF m, Stands
  <2>3. Paired(s, j + 2, m)
    BY <1>3, <2>2, <2>6
  <2>4. Paired(s, j + 1, m + 1)
    <3>1. s[(j + 1) + 1] \notin Brackets
      BY <2>1, <2>2, NotBrackets
    <3>2. j + 1 \in Int /\ Paired(s, (j + 1) + 1, m)
      BY <2>2, <2>3
    <3> QED
      BY <2>2, <3>1, <3>2, PairedAfter
  <2>5. Paired(s, j, (m + 1) + 2)
    <3>1. s[j + 1] = EntryOpen /\ s[j + ((m + 1) + 2)] = EntryClose
      BY <2>1, <2>2
    <3> DEFINE l == m + 1
    <3>2. l \in Nat /\ Paired(s, j + 1, l) /\ s[j + (l + 2)] = EntryClose
      BY <2>2, <2>4, <3>1
    <3> HIDE DEF l
    <3>3. Paired(s, j, l + 2)
      BY <3>1, <3>2, PairedWrap
    <3> QED
      BY <3>3 DEF l
  <2> QED
    BY <2>2, <2>5
<1>7. ASSUME NEW j \in Nat, j + least <= Len(s), Window(s, j, least) \in Packs
      PROVE  Paired(s, j, least)
  <2>1. \/ least = 0
        \/ \E k \in 1..least : /\ Window(s, j, k) \in Types
                                /\ Window(s, j + k, least - k) \in Packs
    BY <1>4, <1>7, PackForms
  <2>2. CASE least = 0
    BY <2>2, PairedEmpty
  <2>3. ASSUME NEW k \in 1..least, Window(s, j, k) \in Types,
               Window(s, j + k, least - k) \in Packs
        PROVE  Paired(s, j, least)
    <3> DEFINE m == least - k
    <3>1. /\ k \in Nat /\ m \in Nat /\ m < least /\ k + m = least /\ j + k \in Nat
          /\ j + k <= Len(s) /\ Stands(j + k, m) /\ Stands(j, k) /\ k <= least
      BY <1>4, <1>7, <2>3
    <3> HIDE DEF m, Stands
    <3>2. Paired(s, j + k, m)
      BY <1>3, <3>1
    <3>3. Paired(s, j, k)
      <4>1. CASE k < least
        BY <1>3, <3>1, <4>1
      <4>2. CASE k = least
        BY <1>5, <1>7, <2>3, <4>2
      <4> QED
        BY <1>4, <3>1, <4>1, <4>2
    <3>4. Paired(s, j, k + m)
      BY <3>1, <3>2, <3>3, PairedJoin
    <3> QED
      BY <3>1, <3>4
  <2> QED
    BY <2>1, <2>2, <2>3
<1>8. PICK j \in Nat : Stands(j, least) /\ ~ Paired(s, j, least)
  BY <1>2
<1> QED
  BY <1>5, <1>6, <1>7, <1>8
--------------------------------------------------------------------------------
(* The offsets *)

\* match stays in the signature, or panics.
LEMMA MatchInside ==
  ASSUME NEW s, NEW i \in Int, Len(s) \in Nat, NEW o, NEW c
  PROVE  Match(s, i, o, c) = Panic \/ Match(s, i, o, c) \in 1..(Len(s) - i)
<1> DEFINE Ends == {m \in 1..(Len(s) - i) : Count(s, i, m, c) = Count(s, i, m, o) + 1}
<1>1. CASE Ends = {}
  BY <1>1 DEF Match
<1>2. CASE Ends # {}
  <2>1. Match(s, i, o, c) = CHOOSE m \in Ends : \A p \in Ends : m <= p
    BY <1>2 DEF Match
  <2>2. Ends \subseteq Nat /\ Ends \subseteq 1..(Len(s) - i)
    OBVIOUS
  <2> HIDE DEF Ends
  <2>3. \E m \in Ends : \A p \in Ends : m <= p
    BY <1>2, <2>2, HasLeast
  <2>4. Match(s, i, o, c) \in Ends
    BY <2>1, <2>3
  <2> QED
    BY <2>2, <2>4
<1> QED
  BY <1>1, <1>2

\* The leading "a"s end somewhere, at the latest with the signature.
LEMMA ArraysIs ==
  ASSUME NEW Chars, NEW s \in Seq(Chars), NEW i \in 1..Len(s)
  PROVE  /\ Arrays(s, i) \in 0..Len(s)
         /\ At(s, i + Arrays(s, i)) # "a"
         /\ \A m \in 0..(Arrays(s, i) - 1) : At(s, i + m) = "a"
<1> DEFINE Stop == {n \in 0..Len(s) : At(s, i + n) # "a"}
           Is(n) == At(s, i + n) # "a" /\ \A m \in 0..(n - 1) : At(s, i + m) = "a"
<1>1. Len(s) \in Nat /\ i \in Nat /\ i + Len(s) \notin 1..Len(s)
  OBVIOUS
<1>2. Len(s) \in Stop
  BY <1>1 DEF At
<1>3. PICK n \in Stop : \A p \in Stop : n <= p
  <2>1. Stop \subseteq Nat
    OBVIOUS
  <2> HIDE DEF Stop
  <2> QED
    BY <1>2, <2>1, HasLeast
<1>4. n \in 0..Len(s) /\ At(s, i + n) # "a"
  OBVIOUS
<1>5. ASSUME NEW m \in 0..(n - 1)
      PROVE  At(s, i + m) = "a"
  <2>1. m \in 0..Len(s) /\ ~ (n <= m)
    BY <1>1, <1>4
  <2>2. m \notin Stop
    BY <1>3, <2>1
  <2> QED
    BY <2>1, <2>2
<1>6. \E k \in 0..Len(s) : Is(k)
  BY <1>4, <1>5
<1>7. Arrays(s, i) = CHOOSE k \in 0..Len(s) : Is(k)
  BY DEF Arrays
<1> HIDE DEF Is
<1>8. Arrays(s, i) \in 0..Len(s) /\ Is(Arrays(s, i))
  BY <1>6, <1>7
<1> QED
  BY <1>8 DEF Is

\* Only one number can be that of the leading "a"s.
LEMMA ArraysOnly ==
  ASSUME NEW Chars, NEW s \in Seq(Chars), NEW i \in 1..Len(s), NEW n \in Nat,
         At(s, i + n) # "a", \A m \in 0..(n - 1) : At(s, i + m) = "a"
  PROVE  Arrays(s, i) = n
<1> DEFINE k == Arrays(s, i)
<1>1. /\ k \in 0..Len(s) /\ At(s, i + k) # "a"
      /\ \A m \in 0..(k - 1) : At(s, i + m) = "a"
  BY ArraysIs
<1> HIDE DEF k
<1>2. k \in Nat /\ k \notin 0..(n - 1) /\ n \notin 0..(k - 1)
  BY <1>1
<1> QED
  BY <1>2 DEF k

\* find_subtype is what the code says: one more for an "a" than for what follows it.
LEMMA SubtypeAfterArray ==
  ASSUME NEW Chars, NEW s \in Seq(Chars), NEW i \in 1..Len(s), i + 1 <= Len(s), s[i] = "a"
  PROVE  FindSubtype(s, i) = IF FindSubtype(s, i + 1) = Panic THEN Panic
                             ELSE FindSubtype(s, i + 1) + 1
<1> DEFINE n == Arrays(s, i + 1)
           l == n + 1
           j == i + l
<1>1. i + 1 \in 1..Len(s) /\ i \in Nat /\ Len(s) \in Nat
  OBVIOUS
<1>2. /\ n \in 0..Len(s) /\ At(s, (i + 1) + n) # "a"
      /\ \A m \in 0..(n - 1) : At(s, (i + 1) + m) = "a"
  BY <1>1, ArraysIs
<1> HIDE DEF n
<1>3. n \in Nat /\ l \in Nat /\ j = (i + 1) + n /\ j \in Nat /\ j = i + l /\ l = n + 1
  BY <1>1, <1>2
<1> HIDE DEF l, j
<1>4. Arrays(s, i) = l
  <2>1. At(s, i + l) # "a"
    BY <1>2, <1>3
  <2>2. ASSUME NEW m \in 0..(l - 1)
        PROVE  At(s, i + m) = "a"
    <3>1. CASE m = 0
      BY <1>1, <3>1 DEF At
    <3>2. CASE m # 0
      <4>1. m - 1 \in 0..(n - 1) /\ (i + 1) + (m - 1) = i + m
        BY <1>1, <1>3, <3>2
      <4>2. At(s, (i + 1) + (m - 1)) = "a"
        BY <1>2, <4>1
      <4> QED
        BY <4>1, <4>2
    <3> QED
      BY <3>1, <3>2
  <2> QED
    BY <1>3, <2>1, <2>2, ArraysOnly
<1> DEFINE End(q) == CASE At(s, q) = "end" -> Panic
                       [] At(s, q) = EntryOpen -> Match(s, q, EntryOpen, EntryClose)
                       [] At(s, q) = "(" -> Match(s, q, "(", ")")
                       [] OTHER -> 0
           Sum(q, k) == IF End(q + k) = Panic THEN Panic ELSE k + End(q + k)
<1>5. /\ FindSubtype(s, i) = IF End(j) = Panic THEN Panic ELSE l + End(j)
      /\ FindSubtype(s, i + 1) = IF End(j) = Panic THEN Panic ELSE n + End(j)
  <2>1. /\ FindSubtype(s, i) = Sum(i, Arrays(s, i))
        /\ FindSubtype(s, i + 1) = Sum(i + 1, Arrays(s, i + 1))
    BY DEF FindSubtype
  <2> HIDE DEF End
  <2>2. Sum(i, l) = IF End(j) = Panic THEN Panic ELSE l + End(j)
    BY <1>3
  <2>3. Sum(i + 1, n) = IF End(j) = Panic THEN Panic ELSE n + End(j)
    BY <1>3
  <2> QED
    BY <1>4, <2>1, <2>2, <2>3 DEF n
<1>6. End(j) = Panic \/ End(j) \in Nat
  <2>1. \A o, c : Match(s, j, o, c) = Panic \/ Match(s, j, o, c) \in Nat
    <3>1. \A o, c : Match(s, j, o, c) = Panic \/ Match(s, j, o, c) \in 1..(Len(s) - j)
      BY <1>1, <1>3, MatchInside
    <3> QED
      BY <1>1, <1>3, <3>1
  <2> QED
    BY <2>1
<1> HIDE DEF End
<1> QED
  BY <1>3, <1>5, <1>6 DEF Panic

\* At a character that starts no array, find_subtype looks no further.
LEMMA SubtypeHere ==
  ASSUME NEW Chars, NEW s \in Seq(Chars), NEW i \in 1..Len(s),
         s[i] \in Basic \cup {"v", "(", EntryOpen}
  PROVE  /\ s[i] = EntryOpen => FindSubtype(s, i) = Match(s, i, EntryOpen, EntryClose)
         /\ s[i] = "(" => FindSubtype(s, i) = Match(s, i, "(", ")")
         /\ s[i] \in Basic \cup {"v"} => FindSubtype(s, i) = 0
<1>1. /\ EntryOpen # "a" /\ EntryOpen # "end" /\ EntryOpen # "("
      /\ \A c \in Basic \cup {"v"} : c # EntryOpen
  BY Zenon DEF EntryOpen, Basic
<1>2. \A c \in Basic \cup {"v"} : c # "a" /\ c # "end" /\ c # "("
  BY DEF Basic
<1>3. i \in Nat /\ Len(s) \in Nat
  OBVIOUS
<1>4. At(s, i) = s[i] /\ s[i] # "a" /\ s[i] # "end"
  BY <1>1, <1>2 DEF At
<1>5. Arrays(s, i) = 0
  <2> DEFINE n == 0
  <2>1. n \in Nat /\ i + n = i /\ 0..(n - 1) = {}
    BY <1>3
  <2> HIDE DEF n
  <2>2. At(s, i + n) # "a" /\ \A m \in 0..(n - 1) : At(s, i + m) = "a"
    BY <1>4, <2>1
  <2>3. Arrays(s, i) = n
    BY <2>1, <2>2, ArraysOnly
  <2> QED
    BY <2>3 DEF n
<1> DEFINE End(q) == CASE At(s, q) = "end" -> Panic
                       [] At(s, q) = EntryOpen -> Match(s, q, EntryOpen, EntryClose)
                       [] At(s, q) = "(" -> Match(s, q, "(", ")")
                       [] OTHER -> 0
           Sum(q, k) == IF End(q + k) = Panic THEN Panic ELSE k + End(q + k)
<1>6. FindSubtype(s, i) = IF End(i) = Panic THEN Panic ELSE 0 + End(i)
  <2>1. FindSubtype(s, i) = Sum(i, Arrays(s, i))
    BY DEF FindSubtype
  <2>2. i + 0 = i
    BY <1>3
  <2> HIDE DEF End
  <2> QED
    BY <1>5, <2>1, <2>2
<1>7. /\ s[i] = EntryOpen => End(i) = Match(s, i, EntryOpen, EntryClose)
      /\ s[i] = "(" => End(i) = Match(s, i, "(", ")")
      /\ s[i] \in Basic \cup {"v"} => End(i) = 0
  BY <1>1, <1>2, <1>4
<1>8. \A o, c : Match(s, i, o, c) = Panic \/ Match(s, i, o, c) \in Nat
  <2>1. \A o, c : Match(s, i, o, c) = Panic \/ Match(s, i, o, c) \in 1..(Len(s) - i)
    BY <1>3, MatchInside
  <2> QED
    BY <1>3, <2>1
<1> HIDE DEF End
<1>9. End(i) = Panic \/ End(i) \in Nat
  BY <1>7, <1>8
<1> QED
  BY <1>6, <1>7, <1>9 DEF Panic

\* The bracket that opens a window is matched by the one that closes it, if the
\* brackets in between are in pairs.
LEMMA MatchOfPaired ==
  ASSUME NEW s, Len(s) \in Nat, NEW i \in Nat, NEW n \in Nat, n >= 2, i + n <= Len(s),
         Paired(s, i + 1, n - 2)
  PROVE  /\ s[i + n] = ")" => Match(s, i + 1, "(", ")") = n - 1
         /\ s[i + n] = EntryClose => Match(s, i + 1, EntryOpen, EntryClose) = n - 1
<1> DEFINE j == i + 1
           m == n - 2
<1>1. j \in Nat /\ m \in Nat /\ j + (m + 1) <= Len(s) /\ j + (m + 1) = i + n /\ m + 1 = n - 1
  OBVIOUS
<1>2. Balanced(s, j, m, "(", ")") /\ Balanced(s, j, m, EntryOpen, EntryClose)
  BY DEF Paired
<1>3. "(" # ")" /\ EntryOpen # EntryClose
  BY BracketsDiffer
<1>4. ASSUME NEW o, NEW c, o # c, Balanced(s, j, m, o, c), s[i + n] = c
      PROVE  Match(s, j, o, c) = n - 1
  <2> HIDE DEF j, m
  <2>1. j \in Nat /\ m \in Nat /\ Len(s) \in Nat /\ j + (m + 1) <= Len(s)
    BY <1>1
  <2>2. s[j + (m + 1)] = c
    BY <1>1, <1>4
  <2>3. Shows(s, j + (m + 1), c)
    BY <2>2 DEF Shows
  <2>4. Match(s, j, o, c) = m + 1
    BY <1>4, <2>1, <2>3, MatchEnds
  <2> QED
    BY <1>1, <2>1, <2>4
<1> HIDE DEF m
<1>5. s[i + n] = ")" => Match(s, j, "(", ")") = n - 1
  BY <1>2, <1>3, <1>4
<1>6. s[i + n] = EntryClose => Match(s, j, EntryOpen, EntryClose) = n - 1
  BY <1>2, <1>3, <1>4
<1> QED
  BY <1>5, <1>6

\* The parentheses of a struct match.
LEMMA PackMatches ==
  ASSUME NEW Chars, NEW s \in Seq(Chars),
         NEW i \in Nat, NEW n \in Nat, n > 2, i + n <= Len(s),
         s[i + n] = ")", Window(s, i + 1, n - 2) \in Packs
  PROVE  Match(s, i + 1, "(", ")") = n - 1
<1>1. /\ n - 2 \in Nat /\ i + 1 \in Nat /\ (i + 1) + (n - 2) <= Len(s)
      /\ Len(s) \in Nat /\ n >= 2
  OBVIOUS
<1>2. Paired(s, i + 1, n - 2)
  BY <1>1, GrammarPaired
<1>3. s[i + n] = ")" => Match(s, i + 1, "(", ")") = n - 1
  BY <1>1, <1>2, MatchOfPaired
<1> QED
  BY <1>3

\* The braces of a dictionary entry match.
LEMMA EntryMatches ==
  ASSUME NEW Chars, NEW s \in Seq(Chars),
         NEW i \in Nat, NEW n \in Nat, i + n <= Len(s), Window(s, i, n) \in Entries
  PROVE  Match(s, i + 1, EntryOpen, EntryClose) = n - 1
<1>1. /\ n > 3 /\ s[i + 1] = EntryOpen /\ s[i + n] = EntryClose /\ s[i + 2] \in Basic
      /\ Window(s, i + 2, n - 3) \in Types
  BY EntryForms
<1> DEFINE m == n - 3
           k == i + 2
           j == i + 1
<1>2. /\ m \in Nat /\ k \in Nat /\ j \in Int /\ j + 1 = k /\ m + 1 = n - 2
      /\ k + m <= Len(s) /\ Len(s) \in Nat /\ n >= 2
  BY <1>1
<1>3. s[k] \in Basic /\ Window(s, k, m) \in Types
  BY <1>1
<1> HIDE DEF m, k, j
<1>4. Paired(s, k, m)
  BY <1>2, <1>3, GrammarPaired
<1>5. Paired(s, j, m + 1)
  <2>1. s[j + 1] \notin Brackets /\ Paired(s, j + 1, m)
    BY <1>2, <1>3, <1>4, NotBrackets
  <2> QED
    BY <1>2, <2>1, PairedAfter
<1>6. Paired(s, i + 1, n - 2)
  BY <1>2, <1>5 DEF j
<1> QED
  BY <1>1, <1>2, <1>6, MatchOfPaired

\* find_subtype leads from the first character of a complete type or dictionary entry
\* to its last one: of those where it does not there would be a shortest one.
LEMMA SubtypeEnds ==
  ASSUME NEW Chars, NEW s \in Seq(Chars),
         NEW i \in Nat, NEW n \in Nat, i + n <= Len(s),
         Window(s, i, n) \in Types \cup Entries
  PROVE  n >= 1 /\ FindSubtype(s, i + 1) = n - 1
<1> DEFINE Stands(j, m) == j + m <= Len(s) /\ Window(s, j, m) \in Types \cup Entries
           Ends(j, m) == m >= 1 /\ FindSubtype(s, j + 1) = m - 1
           Off == {m \in Nat : \E j \in Nat : Stands(j, m) /\ ~ Ends(j, m)}
<1>1. SUFFICES ASSUME Off # {}
               PROVE  FALSE
  OBVIOUS
<1>2. PICK least \in Off : \A p \in Off : least <= p
  <2> HIDE DEF Off
  <2>1. Off \subseteq Nat
    BY DEF Off
  <2> QED
    BY <1>1, <2>1, HasLeast
<1>3. ASSUME NEW m \in Nat, NEW j \in Nat, m < least, Stands(j, m)
      PROVE  Ends(j, m)
  <2> HIDE DEF Stands, Ends
  <2> QED
    BY <1>2, <1>3
<1>4. Len(s) \in Nat /\ least \in Nat
  OBVIOUS
<1>5. ASSUME NEW j \in Nat, j + least <= Len(s), Window(s, j, least) \in Types
      PROVE  Ends(j, least)
  <2>1. \/ least = 1 /\ s[j + 1] \in Basic \cup {"v"}
        \/ /\ least > 1 /\ s[j + 1] = "a"
           /\ Window(s, j + 1, least - 1) \in Types \cup Entries
        \/ /\ least > 2 /\ s[j + 1] = "(" /\ s[j + least] = ")"
           /\ Window(s, j + 1, least - 2) \in Packs
    BY <1>4, <1>5, TypeForms
  <2>2. CASE least = 1 /\ s[j + 1] \in Basic \cup {"v"}
    <3>1. j + 1 \in 1..Len(s)
      BY <1>4, <1>5, <2>2
    <3>2. FindSubtype(s, j + 1) = 0
      BY <2>2, <3>1, SubtypeHere
    <3> QED
      BY <2>2, <3>2
  <2>3. CASE /\ least > 1 /\ s[j + 1] = "a"
             /\ Window(s, j + 1, least - 1) \in Types \cup Entries
    <3> DEFINE m == least - 1
               k == j + 1
    <3>1. m \in Nat /\ m < least /\ k \in Nat /\ m + 1 = least /\ least >= 1
      BY <1>4, <2>3
    <3>2. Stands(k, m)
      BY <1>4, <1>5, <2>3
    <3>3. Ends(k, m)
      BY <1>3, <3>1, <3>2
    <3>4. k \in 1..Len(s) /\ k + 1 <= Len(s) /\ s[k] = "a"
      BY <1>4, <1>5, <2>3
    <3>5. m >= 1 /\ FindSubtype(s, k + 1) = m - 1
      BY <3>3
    <3> HIDE DEF m, k
    <3>6. FindSubtype(s, k) = IF FindSubtype(s, k + 1) = Panic THEN Panic
                              ELSE FindSubtype(s, k + 1) + 1
      BY <3>4, SubtypeAfterArray
    <3>7. FindSubtype(s, k) = least - 1
      BY <3>1, <3>5, <3>6 DEF Panic
    <3> QED
      BY <3>1, <3>7 DEF k
  <2>4. CASE /\ least > 2 /\ s[j + 1] = "(" /\ s[j + least] = ")"
             /\ Window(s, j + 1, least - 2) \in Packs
    <3>1. /\ least - 2 \in Nat /\ j + 1 \in Nat /\ (j + 1) + (least - 2) <= Len(s)
          /\ j + 1 \in 1..Len(s)
      BY <1>4, <1>5, <2>4
    <3>3. Match(s, j + 1, "(", ")") = least - 1
      BY <1>4, <1>5, <2>4, PackMatches
    <3>4. FindSubtype(s, j + 1) = Match(s, j + 1, "(", ")")
      BY <2>4, <3>1, SubtypeHere
    <3> QED
      BY <2>4, <3>3, <3>4
  <2> QED
    BY <2>1, <2>2, <2>3, <2>4
<1>6. ASSUME NEW j \in Nat, j + least <= Len(s), Window(s, j, least) \in Entries
      PROVE  Ends(j, least)
  <2>1. /\ least > 3 /\ s[j + 1] = EntryOpen /\ s[j + least] = EntryClose
        /\ s[j + 2] \in Basic /\ Window(s, j + 2, least - 3) \in Types
    BY <1>4, <1>6, EntryForms
  <2>2. Match(s, j + 1, EntryOpen, EntryClose) = least - 1
    BY <1>4, <1>6, <2>1, EntryMatches
  <2>3. j + 1 \in 1..Len(s)
    BY <1>4, <1>6, <2>1
  <2>4. FindSubtype(s, j + 1) = Match(s, j + 1, EntryOpen, EntryClose)
    BY <2>1, <2>3, SubtypeHere
  <2> QED
    BY <2>1, <2>2, <2>4
<1>7. PICK j \in Nat : Stands(j, least) /\ ~ Ends(j, least)
  BY <1>2
<1> QED
  BY <1>5, <1>6, <1>7

--------------------------------------------------------------------------------
(* What the append functions do with a complete type *)

\* Where a complete type stands in a signature, the offsets the code computes at its
\* first character are right, however deep the type is nested and whatever follows it:
\* find_subtype and match lead to its last character, span_next_type counts its length
\* (for a structure, without the closing bracket), and what append_struct_type,
\* append_dict_type and append_array_type cut out are the types of the contents
\* (message.c:65-117, 162-186, 224-228 and 247-255).
THEOREM OffsetsFindTypes ==
  ASSUME NEW Chars, NEW s \in Seq(Chars),
         NEW i \in 1..Len(s), NEW n \in Nat, i + n <= Len(s),
         SubSeq(s, i, i + n) \in Types
  PROVE  /\ FindSubtype(s, i) = n
         /\ Span(s, i) = IF s[i] = "(" THEN n ELSE n + 1
         /\ s[i] = "(" => /\ Match(s, i, "(", ")") = n
                          /\ SubSeq(s, i + 1, i + n - 1) \in Packs
         /\ s[i] = "a" /\ s[i + 1] = EntryOpen =>
              /\ Match(s, i + 1, EntryOpen, EntryClose) = n - 1
              /\ SubSeq(s, i + 1, i + n) \in Entries
              /\ s[i + 2] \in Basic /\ SubSeq(s, i + 3, i + n - 1) \in Types
         /\ s[i] = "a" /\ s[i + 1] # EntryOpen => SubSeq(s, i + 1, i + n) \in Types
<1> DEFINE j == i - 1
           l == n + 1
<1>1. /\ j \in Nat /\ l \in Nat /\ j + 1 = i /\ j + l = i + n /\ j + l <= Len(s)
      /\ l - 1 = n /\ Len(s) \in Nat /\ l >= 1 /\ i \in Nat
  OBVIOUS
<1>2. Window(s, j, l) \in Types
  BY <1>1 DEF Window
<1> HIDE DEF j, l
<1>3. FindSubtype(s, i) = n
  <2>1. Window(s, j, l) \in Types \cup Entries
    BY <1>2
  <2>2. FindSubtype(s, j + 1) = l - 1
    BY <1>1, <2>1, SubtypeEnds
  <2> QED
    BY <1>1, <2>2
<1>4. \/ l = 1 /\ s[j + 1] \in Basic \cup {"v"}
      \/ l > 1 /\ s[j + 1] = "a" /\ Window(s, j + 1, l - 1) \in Types \cup Entries
      \/ /\ l > 2 /\ s[j + 1] = "(" /\ s[j + l] = ")"
         /\ Window(s, j + 1, l - 2) \in Packs
  BY <1>1, <1>2, TypeForms
<1>5. At(s, i) = s[i]
  BY DEF At
<1>6. /\ \A c \in Basic \cup {"v"} : c # "a" /\ c # "("
      /\ "a" \notin Basic \cup {"v"} /\ "(" \notin Basic \cup {"v"}
  BY DEF Basic
<1>7. CASE l = 1 /\ s[i] \in Basic \cup {"v"}
  <2>1. Span(s, i) = 1
    <3>1. At(s, i) \in Basic \cup {"v"}
      BY <1>5, <1>7
    <3> QED
      BY <1>6, <3>1 DEF Span
  <2> QED
    BY <1>1, <1>3, <1>6, <1>7, <2>1
<1>8. CASE l > 1 /\ s[i] = "a" /\ Window(s, i, n) \in Types \cup Entries
  <2>1. Span(s, i) = n + 1
    <3>1. Span(s, i) = IF FindSubtype(s, i) = Panic THEN FindSubtype(s, i)
                       ELSE 1 + FindSubtype(s, i)
      BY <1>5, <1>6, <1>8 DEF Span
    <3> QED
      BY <1>3, <3>1 DEF Panic
  <2>2. s[i + 1] = EntryOpen => Window(s, i, n) \in Entries
    <3>1. ASSUME Window(s, i, n) \in Types
          PROVE  s[i + 1] # EntryOpen
      <4>1. s[i + 1] \in Basic \cup {"v", "a", "("}
        BY <1>1, <3>1, TypeForms
      <4> QED
        BY <4>1, BracketsDiffer
    <3> QED
      BY <1>8, <3>1
  <2>3. s[i + 1] # EntryOpen => Window(s, i, n) \in Types
    <3>1. ASSUME Window(s, i, n) \in Entries
          PROVE  s[i + 1] = EntryOpen
      BY <1>1, <3>1, EntryForms
    <3> QED
      BY <1>8, <3>1
  <2>4. Window(s, i, n) = SubSeq(s, i + 1, i + n)
    BY DEF Window
  <2>5. ASSUME Window(s, i, n) \in Entries
        PROVE  /\ Match(s, i + 1, EntryOpen, EntryClose) = n - 1
               /\ s[i + 2] \in Basic /\ SubSeq(s, i + 3, i + n - 1) \in Types
    <3>1. Match(s, i + 1, EntryOpen, EntryClose) = n - 1
      BY <1>1, <2>5, EntryMatches
    <3>2. n > 3 /\ s[i + 2] \in Basic /\ Window(s, i + 2, n - 3) \in Types
      BY <1>1, <2>5, EntryForms
    <3>3. (i + 2) + 1 = i + 3 /\ (i + 2) + (n - 3) = i + n - 1
      BY <1>1
    <3> QED
      BY <3>1, <3>2, <3>3 DEF Window
  <2>6. s[i] # "("
    BY <1>8
  <2> QED
    BY <1>3, <1>8, <2>1, <2>2, <2>3, <2>4, <2>5, <2>6
<1>9. CASE l > 2 /\ s[i] = "(" /\ s[i + n] = ")" /\ Window(s, i, n - 1) \in Packs
  <2>1. n >= 2 /\ n - 1 \in Nat /\ i + (n - 1) = i + n - 1
    BY <1>1, <1>9
  <2>2. Match(s, i, "(", ")") = n
    <3>1. j + 1 = i /\ j + l = i + n /\ l - 2 = n - 1
      BY <1>1
    <3>2. s[j + l] = ")" /\ Window(s, j + 1, l - 2) \in Packs
      BY <1>9, <3>1
    <3>3. Match(s, j + 1, "(", ")") = l - 1
      BY <1>1, <1>9, <3>2, PackMatches
    <3> QED
      BY <1>1, <3>3
  <2>3. Span(s, i) = n
    BY <1>5, <1>6, <1>9, <2>2 DEF Span
  <2>4. SubSeq(s, i + 1, i + n - 1) \in Packs
    BY <1>9, <2>1 DEF Window
  <2>5. s[i] # "a"
    BY <1>9
  <2> QED
    BY <1>3, <1>9, <2>2, <2>3, <2>4, <2>5
<1>10. l - 2 = n - 1
  BY <1>1
<1> QED
  BY <1>1, <1>4, <1>7, <1>8, <1>9, <1>10

--------------------------------------------------------------------------------
(* Types within a string *)

\* What is cut out of a string is one that the grammar knows.
LEMMA StringsAre ==
  ASSUME NEW s \in Strings
  PROVE  /\ s \in Seq(STRING) /\ Len(s) \in Nat
         /\ \A i \in 1..(Len(s) + 1), j \in 0..Len(s) : SubSeq(s, i, j) \in Strings
<1>1. Strings \subseteq Seq(STRING)
  BY Substrings DEF HasSubstrings
<1>2. s \in Seq(STRING)
  BY <1>1
<1> QED
  BY <1>2, Substrings DEF HasSubstrings

\* The characters from i to e, and what is cut out of them.
LEMMA PartIs ==
  ASSUME NEW s \in Strings, NEW i \in Nat, i >= 1, NEW e \in Nat, i <= e, e <= Len(s)
  PROVE  /\ SubSeq(s, i, e) \in Strings /\ SubSeq(s, i, e) \in Seq(STRING)
         /\ Len(SubSeq(s, i, e)) = e - i + 1
         /\ \A j \in 1..(e - i + 1) : SubSeq(s, i, e)[j] = s[i + j - 1]
         /\ \A j, k \in Nat : 1 <= j /\ j <= k + 1 /\ k <= e - i + 1 =>
              SubSeq(SubSeq(s, i, e), j, k) = SubSeq(s, i + j - 1, i + k - 1)
<1> DEFINE a == i - 1
           n == e - i + 1
<1>1. s \in Seq(STRING) /\ Len(s) \in Nat
  BY StringsAre
<1>2. a \in Nat /\ n \in Nat /\ a + n <= Len(s) /\ a + 1 = i /\ a + n = e
  OBVIOUS
<1>3. i \in 1..(Len(s) + 1) /\ e \in 0..Len(s)
  BY <1>1
<1>4. SubSeq(s, i, e) \in Strings
  BY <1>3, StringsAre
<1> HIDE DEF a, n
<1>5. Window(s, a, n) = SubSeq(s, i, e)
  BY <1>2 DEF Window
<1>6. /\ Window(s, a, n) \in Seq(STRING) /\ Len(Window(s, a, n)) = n
      /\ \A j \in 1..n : Window(s, a, n)[j] = s[a + j]
  <2> DEFINE Chars == STRING
  <2>1. s \in Seq(Chars)
    BY <1>1
  <2> HIDE DEF Chars
  <2>2. /\ Window(s, a, n) \in Seq(Chars) /\ Len(Window(s, a, n)) = n
        /\ \A j \in 1..n : Window(s, a, n)[j] = s[a + j]
    BY <1>2, <2>1, WindowIs
  <2> QED
    BY <2>2 DEF Chars
<1>7. \A j \in 1..n : a + j = i + j - 1
  BY <1>2
<1>8. ASSUME NEW j \in Nat, NEW k \in Nat, 1 <= j, j <= k + 1, k <= n
      PROVE  SubSeq(SubSeq(s, i, e), j, k) = SubSeq(s, i + j - 1, i + k - 1)
  <2> DEFINE b == j - 1
             m == k - j + 1
  <2>1. b \in Nat /\ m \in Nat /\ b + m <= n /\ b + 1 = j /\ b + m = k
    BY <1>8, <1>2
  <2>2. (a + b) + 1 = i + j - 1 /\ (a + b) + m = i + k - 1
    BY <1>2, <1>8
  <2> HIDE DEF b, m
  <2>3. Window(Window(s, a, n), b, m) = Window(s, a + b, m)
    BY <1>1, <1>2, <2>1, WindowInWindow
  <2>4. Window(Window(s, a, n), b, m) = SubSeq(SubSeq(s, i, e), j, k)
    BY <1>5, <2>1 DEF Window
  <2>5. Window(s, a + b, m) = SubSeq(s, i + j - 1, i + k - 1)
    BY <2>2 DEF Window
  <2> QED
    BY <2>3, <2>4, <2>5
<1>9. n = e - i + 1
  BY DEF n
<1> QED
  BY <1>4, <1>5, <1>6, <1>7, <1>8, <1>9

\* A string is all of it.
LEMMA WholeIs ==
  ASSUME NEW s \in Strings
  PROVE  SubSeq(s, 1, Len(s)) = s
<1>1. s \in Seq(STRING) /\ Len(s) \in Nat
  BY StringsAre
<1>2. s = << >> \/ Len(s) >= 1
  BY <1>1, EmptySeq
<1>3. CASE s = << >>
  BY <1>3
<1>4. CASE Len(s) >= 1
  <2>1. \A i \in 1..Len(s) : s[i] \in STRING
    BY <1>1
  <2>2. /\ SubSeq(s, 1, Len(s)) \in Seq(STRING) /\ Len(SubSeq(s, 1, Len(s))) = Len(s)
        /\ \A j \in 1..Len(s) : SubSeq(s, 1, Len(s))[j] = s[j]
    <3> DEFINE l == Len(s)
    <3>1. 1 \in Nat /\ l \in Nat /\ 1 <= l /\ l <= Len(s)
      BY <1>1, <1>4
    <3> HIDE DEF l
    <3>2. /\ SubSeq(s, 1, l) \in Seq(STRING) /\ Len(SubSeq(s, 1, l)) = l - 1 + 1
          /\ \A j \in 1..(l - 1 + 1) : SubSeq(s, 1, l)[j] = s[1 + j - 1]
      BY <3>1, PartIs
    <3>3. l - 1 + 1 = l /\ \A j \in 1..l : 1 + j - 1 = j
      BY <3>1
    <3> QED
      BY <3>2, <3>3 DEF l
  <2> QED
    BY <1>1, <2>2
<1> QED
  BY <1>2, <1>3, <1>4

\* What a complete type starts with; a basic type and a variant have nothing more.
LEMMA TypesAre ==
  ASSUME NEW t \in Types
  PROVE  /\ t \in Strings /\ t \in Seq(STRING) /\ Len(t) \in Nat /\ Len(t) >= 1
         /\ t[1] \in Basic \cup {"v", "a", "("}
         /\ t[1] \in Basic \cup {"v"} => Len(t) = 1
<1>1. /\ t \in Strings
      /\ \/ Len(t) = 1 /\ t[1] \in Basic \cup {"v"}
         \/ Len(t) > 1 /\ t[1] = "a"
         \/ Len(t) > 2 /\ t[1] = "("
  BY Grammar DEF IsGrammar
<1>2. t \in Seq(STRING) /\ Len(t) \in Nat
  BY <1>1, StringsAre
<1>3. "a" \notin Basic \cup {"v"} /\ "(" \notin Basic \cup {"v"}
  BY DEF Basic
<1> QED
  BY <1>1, <1>2, <1>3

\* What a dictionary entry starts with, and how long it is at least.
LEMMA EntriesAre ==
  ASSUME NEW t \in Entries
  PROVE  /\ t \in Strings /\ t \in Seq(STRING) /\ Len(t) \in Nat /\ Len(t) > 3
         /\ t[1] = EntryOpen
<1>1. t \in Strings /\ Len(t) > 3 /\ t[1] = EntryOpen
  BY Grammar DEF IsGrammar
<1> QED
  BY <1>1, StringsAre

\* Only one complete type starts at a place.
LEMMA OneTypeStarts ==
  ASSUME NEW s \in Strings, NEW i \in Nat, i >= 1,
         NEW d \in Nat, i <= d, d <= Len(s), SubSeq(s, i, d) \in Types,
         NEW e \in Nat, i <= e, e <= Len(s), SubSeq(s, i, e) \in Types
  PROVE  d = e
<1>1. s \in Seq(STRING) /\ Len(s) \in Nat
  BY StringsAre
<1>2. ASSUME NEW j \in Nat, i <= j, j <= Len(s), SubSeq(s, i, j) \in Types
      PROVE  FindSubtype(s, i) = j - i
  <2> DEFINE n == j - i
  <2>1. n \in Nat /\ i + n <= Len(s) /\ i + n = j /\ i \in 1..Len(s)
    BY <1>1, <1>2
  <2> HIDE DEF n
  <2>2. SubSeq(s, i, i + n) \in Types
    BY <1>2, <2>1
  <2>3. FindSubtype(s, i) = n
    BY <1>1, <2>1, <2>2, OffsetsFindTypes
  <2> QED
    BY <2>3 DEF n
<1>3. FindSubtype(s, i) = d - i /\ FindSubtype(s, i) = e - i
  BY <1>2
<1> QED
  BY <1>3

--------------------------------------------------------------------------------
(* Types put together *)

\* The grammar makes every type it can.
LEMMA GrammarMakes ==
  ASSUME NEW t \in Strings,
         \/ Len(t) = 1 /\ t[1] \in Basic \cup {"v"}
         \/ Len(t) > 1 /\ t[1] = "a" /\ Tail(t) \in Types \cup Entries
         \/ Len(t) > 2 /\ t[1] = "(" /\ t[Len(t)] = ")" /\ Inner(t) \in Packs
  PROVE  t \in Types
<1>1. Types = {u \in Strings :
                 \/ Len(u) = 1 /\ u[1] \in Basic \cup {"v"}
                 \/ Len(u) > 1 /\ u[1] = "a" /\ Tail(u) \in Types \cup Entries
                 \/ Len(u) > 2 /\ u[1] = "(" /\ u[Len(u)] = ")" /\ Inner(u) \in Packs}
  BY Grammar, Zenon DEF IsGrammar
<1> QED
  BY <1>1, Zenon

\* The forms of a complete type, where it stands in a signature: one character,
LEMMA TypeOfOne ==
  ASSUME NEW s \in Strings, NEW i \in Nat, i >= 1, i <= Len(s),
         s[i] \in Basic \cup {"v"}
  PROVE  SubSeq(s, i, i) \in Types
<1> DEFINE t == SubSeq(s, i, i)
<1>1. i - i + 1 = 1 /\ i + 1 - 1 = i /\ 1 \in 1..1
  OBVIOUS
<1>2. t \in Strings /\ Len(t) = 1 /\ t[1] = s[i]
  BY <1>1, PartIs
<1> HIDE DEF t
<1>3. t \in Types
  BY <1>2, Grammar DEF IsGrammar
<1> QED
  BY <1>3 DEF t

\* an array of a complete type or a dictionary entry,
LEMMA TypeOfArray ==
  ASSUME NEW s \in Strings, NEW i \in Nat, i >= 1, NEW e \in Nat, i < e, e <= Len(s),
         s[i] = "a", SubSeq(s, i + 1, e) \in Types \cup Entries
  PROVE  SubSeq(s, i, e) \in Types
<1> DEFINE t == SubSeq(s, i, e)
           n == e - i + 1
<1>1. n \in Nat /\ n > 1 /\ i + 1 - 1 = i /\ 1 \in 1..n /\ i <= e
      /\ i + 2 - 1 = i + 1 /\ i + n - 1 = e /\ 2 <= n + 1
  OBVIOUS
<1>2. t \in Strings /\ t \in Seq(STRING) /\ Len(t) = n /\ t[1] = s[i]
  BY <1>1, PartIs
<1>3. SubSeq(t, 2, n) = SubSeq(s, i + 1, e)
  BY <1>1, PartIs
<1> HIDE DEF t, n
<1>4. t # << >>
  BY <1>1, <1>2
<1>5. Tail(t) = SubSeq(t, 2, Len(t))
  BY <1>2, <1>4, TailIsSubSeq
<1>6. Len(t) > 1 /\ t[1] = "a" /\ Tail(t) \in Types \cup Entries
  BY <1>1, <1>2, <1>3, <1>5
<1>7. t \in Types
  BY <1>2, <1>6, GrammarMakes
<1> QED
  BY <1>7 DEF t

\* and a structure of a sequence of types.
LEMMA TypeOfStruct ==
  ASSUME NEW s \in Strings, NEW i \in Nat, i >= 1, NEW e \in Nat, i + 1 < e, e <= Len(s),
         s[i] = "(", s[e] = ")", SubSeq(s, i + 1, e - 1) \in Packs
  PROVE  SubSeq(s, i, e) \in Types
<1> DEFINE t == SubSeq(s, i, e)
           n == e - i + 1
<1>1. n \in Nat /\ n > 2 /\ i + 1 - 1 = i /\ 1 \in 1..n /\ i <= e /\ n \in 1..n
      /\ i + 2 - 1 = i + 1 /\ i + n - 1 = e /\ i + (n - 1) - 1 = e - 1
      /\ 2 <= (n - 1) + 1 /\ n - 1 \in Nat /\ n - 1 <= n
  OBVIOUS
<1>2. t \in Strings /\ t \in Seq(STRING) /\ Len(t) = n /\ t[1] = s[i] /\ t[n] = s[e]
  BY <1>1, PartIs
<1>3. SubSeq(t, 2, n - 1) = SubSeq(s, i + 1, e - 1)
  BY <1>1, PartIs
<1> HIDE DEF t, n
<1>4. Len(t) > 2 /\ t[1] = "(" /\ t[Len(t)] = ")" /\ Inner(t) \in Packs
  BY <1>1, <1>2, <1>3 DEF Inner
<1>5. t \in Types
  BY <1>2, <1>4, GrammarMakes
<1> QED
  BY <1>5 DEF t

--------------------------------------------------------------------------------
(* Offsets stay within the string *)

\* Where match stops there is a closing bracket: the depth changes by one at most.
LEMMA MatchCloses ==
  ASSUME NEW s, NEW i \in Nat, Len(s) \in Nat, NEW o, NEW c,
         Match(s, i, o, c) # Panic
  PROVE  /\ Match(s, i, o, c) \in 1..(Len(s) - i)
         /\ s[i + Match(s, i, o, c)] = c
<1> DEFINE Stops == {n \in 1..(Len(s) - i) : Count(s, i, n, c) = Count(s, i, n, o) + 1}
           Over == {n \in 1..(Len(s) - i) : Count(s, i, n, c) >= Count(s, i, n, o) + 1}
           n == Match(s, i, o, c)
<1>1. Match(s, i, o, c) = IF Stops = {} THEN Panic
                          ELSE CHOOSE k \in Stops : \A m \in Stops : k <= m
  BY DEF Match
<1>2. Stops # {} /\ n = CHOOSE k \in Stops : \A m \in Stops : k <= m
  BY <1>1
<1>3. PICK least \in Stops : \A m \in Stops : least <= m
  <2> HIDE DEF Stops
  <2>1. Stops \in SUBSET Nat
    BY DEF Stops
  <2> QED
    BY <1>2, <2>1, HasLeast
<1>4. n \in Stops /\ \A m \in Stops : n <= m
  <2> HIDE DEF Stops, n
  <2> QED
    BY <1>2, <1>3
<1> HIDE DEF n
<1>5. \A m \in Nat : Count(s, i, m, c) \in Nat /\ Count(s, i, m, o) \in Nat
  BY CountNat
<1>6. \A m \in Nat : /\ Count(s, i, m + 1, c) = Count(s, i, m, c) + (IF s[i + (m + 1)] = c THEN 1 ELSE 0)
                     /\ Count(s, i, m + 1, o) = Count(s, i, m, o) + (IF s[i + (m + 1)] = o THEN 1 ELSE 0)
  BY CountNext
<1>7. Count(s, i, 0, c) = 0 /\ Count(s, i, 0, o) = 0
  BY CountNone
<1>8. PICK k \in Over : \A m \in Over : k <= m
  <2>1. n \in Over
    BY <1>4, <1>5
  <2> HIDE DEF Over
  <2>2. Over \in SUBSET Nat
    BY DEF Over
  <2> QED
    BY <2>1, <2>2, HasLeast
<1> DEFINE p == k - 1
<1>9. p \in Nat /\ p + 1 = k /\ k \in 1..(Len(s) - i) /\ p < k
  OBVIOUS
<1>10. Count(s, i, p, c) <= Count(s, i, p, o)
  <2>1. CASE p = 0
    BY <1>7, <2>1
  <2>2. CASE p # 0
    <3>1. p \in 1..(Len(s) - i) /\ p \notin Over
      BY <1>8, <1>9, <2>2
    <3> QED
      BY <1>5, <1>9, <3>1
  <2> QED
    BY <2>1, <2>2
<1>11. Count(s, i, k, c) >= Count(s, i, k, o) + 1
  BY <1>8
<1> HIDE DEF p
<1>12. s[i + k] = c /\ Count(s, i, k, c) = Count(s, i, k, o) + 1
  <2>1. /\ Count(s, i, k, c) = Count(s, i, p, c) + (IF s[i + k] = c THEN 1 ELSE 0)
        /\ Count(s, i, k, o) = Count(s, i, p, o) + (IF s[i + k] = o THEN 1 ELSE 0)
    BY <1>6, <1>9
  <2>2. /\ Count(s, i, p, c) \in Nat /\ Count(s, i, p, o) \in Nat
        /\ Count(s, i, k, c) \in Nat /\ Count(s, i, k, o) \in Nat
    BY <1>5, <1>9
  <2> QED
    BY <1>10, <1>11, <2>1, <2>2
<1>13. n = k
  <2>1. k \in Stops
    BY <1>9, <1>12
  <2>3. n \in Over
    <3>1. n \in 1..(Len(s) - i) /\ n \in Nat /\ Count(s, i, n, c) = Count(s, i, n, o) + 1
      BY <1>4
    <3>2. Count(s, i, n, c) >= Count(s, i, n, o) + 1
      <4>1. Count(s, i, n, o) \in Nat
        BY <1>5, <3>1, Zenon
      <4> HIDE DEF Stops, Over
      <4> QED
        BY <3>1, <4>1
    <3> QED
      BY <3>1, <3>2
  <2>2. n <= k /\ k <= n
    BY <1>4, <1>8, <2>1, <2>3
  <2> QED
    BY <1>4, <1>9, <2>2
<1> QED
  BY <1>9, <1>12, <1>13 DEF n

\* What find_subtype returns stays within the string, whatever is there.
LEMMA SubtypeInside ==
  ASSUME NEW s \in Strings, NEW i \in Nat, i >= 1, i <= Len(s), FindSubtype(s, i) # Panic
  PROVE  FindSubtype(s, i) \in 0..(Len(s) - i)
<1> DEFINE n == Arrays(s, i)
           j == i + n
           end == CASE At(s, i + n) = "end" -> Panic
                    [] At(s, i + n) = EntryOpen -> Match(s, i + n, EntryOpen, EntryClose)
                    [] At(s, i + n) = "(" -> Match(s, i + n, "(", ")")
                    [] OTHER -> 0
<1>1. s \in Seq(STRING) /\ Len(s) \in Nat /\ i \in 1..Len(s)
  BY StringsAre
<1>2. n \in Nat /\ j \in Nat
  BY <1>1, ArraysIs
<1>3. FindSubtype(s, i) = IF end = Panic THEN Panic ELSE n + end
  BY DEF FindSubtype
<1>4. end # Panic /\ FindSubtype(s, i) = n + end
  <2> HIDE DEF end, n
  <2> QED
    BY <1>3
<1>5. At(s, j) # "end"
  <2>1. At(s, j) = "end" => end = Panic
    <3>1. EntryOpen # "end"
      BY Zenon DEF EntryOpen
    <3> HIDE DEF n
    <3> QED
      BY <3>1
  <2> QED
    BY <1>4, <2>1
<1>6. j \in 1..Len(s)
  BY <1>5 DEF At
<1>7. end \in 0..(Len(s) - j)
  <2>1. \A o, c : Match(s, j, o, c) = Panic \/ Match(s, j, o, c) \in 1..(Len(s) - j)
    BY <1>1, <1>2, MatchInside
  <2>2. \/ end = Match(s, j, EntryOpen, EntryClose) \/ end = Match(s, j, "(", ")") \/ end = 0
    <3> HIDE DEF n
    <3> QED
      BY <1>5
  <2> HIDE DEF end, j
  <2>3. end = Panic \/ end \in 1..(Len(s) - j) \/ end = 0
    BY <2>1, <2>2
  <2> QED
    BY <1>1, <1>2, <1>4, <1>6, <2>3
<1> HIDE DEF end, n
<1> QED
  BY <1>1, <1>2, <1>4, <1>6, <1>7

\* A type that span_next_type counts is there, whatever it counts.
LEMMA SpanInside ==
  ASSUME NEW s \in Strings, NEW i \in Nat, i >= 1, Span(s, i) # Panic
  PROVE  /\ i <= Len(s) /\ s[i] \in Basic \cup {"v", "a", "("} /\ At(s, i) = s[i]
         /\ Span(s, i) \in Nat /\ Span(s, i) >= 1 /\ i + Span(s, i) - 1 <= Len(s)
         /\ SubSeq(s, i, i + Span(s, i) - 1) \in Strings
<1>1. s \in Seq(STRING) /\ Len(s) \in Nat
  BY StringsAre
<1>2. At(s, i) \in Basic \cup {"v", "a", "("}
  BY DEF Span
<1>3. i \in 1..Len(s) /\ At(s, i) = s[i]
  <2>1. "end" \notin Basic \cup {"v", "a", "("}
    BY DEF Basic
  <2> QED
    BY <1>1, <1>2, <2>1 DEF At
<1>4. Span(s, i) \in Nat /\ Span(s, i) >= 1 /\ i + Span(s, i) - 1 <= Len(s)
  <2>1. CASE At(s, i) \in Basic \cup {"v"}
    <3>1. Span(s, i) = 1
      BY <2>1 DEF Span, Basic
    <3> QED
      BY <1>1, <1>3, <3>1
  <2>2. CASE At(s, i) = "a"
    <3>1. At(s, i) \notin Basic \cup {"v"}
      BY <2>2 DEF Basic
    <3>2. Span(s, i) = IF FindSubtype(s, i) = Panic THEN FindSubtype(s, i)
                       ELSE 1 + FindSubtype(s, i)
      BY <2>2, <3>1 DEF Span
    <3>3. FindSubtype(s, i) # Panic
      BY <3>2
    <3>4. FindSubtype(s, i) \in 0..(Len(s) - i)
      BY <1>1, <1>3, <3>3, SubtypeInside
    <3> QED
      BY <1>1, <1>3, <3>2, <3>3, <3>4
  <2>3. CASE At(s, i) = "("
    <3>1. At(s, i) \notin Basic \cup {"v"} /\ At(s, i) # "a"
      BY <2>3 DEF Basic
    <3>2. Span(s, i) = Match(s, i, "(", ")")
      BY <2>3, <3>1 DEF Span
    <3>3. Match(s, i, "(", ")") \in 1..(Len(s) - i)
      BY <1>1, <3>2, MatchInside
    <3> QED
      BY <1>1, <1>3, <3>2, <3>3
  <2> QED
    BY <1>2, <2>1, <2>2, <2>3
<1> DEFINE e == i + Span(s, i) - 1
<1>5. e \in Nat /\ i <= e /\ e <= Len(s)
  BY <1>4
<1>6. SubSeq(s, i, e) \in Strings
  <2> HIDE DEF e
  <2> QED
    BY <1>5, PartIs
<1> QED
  BY <1>1, <1>2, <1>3, <1>4, <1>6
================================================================================
