----------------------------- MODULE MessageProofs -----------------------------
(* Proofs about messages: message-append takes exactly the arguments that fit   *)
(* the signature, what is read is what was written, and it is read in order.    *)
(* The argument goes up from the functions that are defined by recursion to the *)
(* loops, to each kind of type, to append_complete_type for values of any depth *)
(* and to message-append, and ends with the operations on a message.  The last  *)
(* part goes the same way for what the message of a type error says.            *)
EXTENDS Messages, SignatureProofs

--------------------------------------------------------------------------------
(* The recursive functions                                                      *)

\* The values that nest one deeper than those in V.
Deeper(V) ==
  Atoms \cup [kind : {"tuple"}, n : {0}, text : {<< >>}, items : Seq(V)]
        \cup [kind : {"table"}, n : {0}, text : {<< >>},
              items : Seq([kind : {"tuple"}, n : {0}, text : {<< >>}, items : V \X V])]
\* Each recursive function of the model, as an instance of Recursion.
ValuesStep(p, V, n) == IF n = 0 THEN Atoms ELSE Deeper(V)
ValuesRec == INSTANCE Recursion WITH Step <- ValuesStep

\* So each of them satisfies its equation: the values,
LEMMA ValuesIs ==
  /\ Values[0] = Atoms
  /\ \A n \in Nat : n # 0 => Values[n] = Deeper(Values[n - 1])
<1> DEFINE Is(V) == V = [n \in Nat |->
  IF n = 0 THEN Atoms
  ELSE Atoms \cup [kind : {"tuple"}, n : {0}, text : {<< >>}, items : Seq(V[n - 1])]
             \cup [kind : {"table"}, n : {0}, text : {<< >>},
                   items : Seq([kind : {"tuple"}, n : {0}, text : {<< >>},
                                items : V[n - 1] \X V[n - 1]])]]
<1>1. PICK V : V = [n \in Nat |-> ValuesStep(0, ValuesRec!Before(V, n), n)]
  BY ValuesRec!Recursion, Zenon
<1>2. V = [n \in Nat |-> IF n = 0 THEN Atoms ELSE Deeper(V[n - 1])]
  <2>1. \A n \in Nat : ValuesStep(0, ValuesRec!Before(V, n), n)
                         = IF n = 0 THEN Atoms ELSE Deeper(V[n - 1])
    BY Zenon DEF ValuesStep, ValuesRec!Before
  <2> QED
    BY <1>1, <2>1, Zenon
<1>3. Is(V)
  BY <1>2, Zenon DEF Deeper
<1>4. Is(Values)
  <2> HIDE DEF Is
  <2>1. Values = CHOOSE W : Is(W)
    BY Zenon DEF Values, Is
  <2> QED
    BY <1>3, <2>1, Zenon
<1>5. Values = [n \in Nat |-> IF n = 0 THEN Atoms ELSE Deeper(Values[n - 1])]
  BY <1>4, Zenon DEF Deeper
<1> QED
  BY <1>5, Zenon

Calls(n) == [s : Strings, i : Nat, v : Values[n], x : Contexts]
\* append_complete_type for one more level.
AppendStep(p, f, n) == [c \in Calls(n) |-> AppendComplete(f, c.s, c.i, c.v, c.x)]
AppendRec == INSTANCE Recursion WITH Step <- AppendStep

\* What append_complete_type calls itself with, for values that nest n deep.
Below(g, n) == IF n = 0 THEN << >> ELSE g[n - 1]

\* append_complete_type,
LEMMA AppendingIs ==
  \A n \in Nat : Appending[n] = [c \in Calls(n) |->
                    AppendComplete(Below(Appending, n), c.s, c.i, c.v, c.x)]
<1> DEFINE Is(F) == F = [n \in Nat |->
  [c \in [s : Strings, i : Nat, v : Values[n], x : Contexts] |->
     AppendComplete(IF n = 0 THEN << >> ELSE F[n - 1], c.s, c.i, c.v, c.x)]]
<1>1. PICK F : F = [n \in Nat |-> AppendStep(0, AppendRec!Before(F, n), n)]
  BY AppendRec!Recursion, Zenon
<1>2. Is(F)
  BY <1>1, Zenon DEF AppendStep, Calls, AppendRec!Before
<1>3. Is(Appending)
  <2> HIDE DEF Is
  <2>1. Appending = CHOOSE G : Is(G)
    BY Zenon DEF Appending, Is
  <2> QED
    BY <1>2, <2>1, Zenon
<1> QED
  BY <1>3, Zenon DEF Calls, Below

\* What a message holds, one container deeper than what is in I.
Around(I) ==
  Leaves \cup [type : {"v", "(", "a"}, sig : Strings,
               items : Seq(I \cup [type : {EntryOpen}, sig : Strings, items : Seq(I)])]
\* The items of one more level.
ItemsStep(p, I, n) == IF n = 0 THEN Leaves ELSE Around(I)
ItemsRec == INSTANCE Recursion WITH Step <- ItemsStep

\* the items,
LEMMA ItemsIs ==
  /\ Items[0] = Leaves
  /\ \A n \in Nat : n # 0 => Items[n] = Around(Items[n - 1])
<1> DEFINE Is(I) == I = [n \in Nat |->
  IF n = 0 THEN Leaves
  ELSE Leaves \cup [type : {"v", "(", "a"}, sig : Strings,
                    items : Seq(I[n - 1] \cup [type : {EntryOpen}, sig : Strings,
                                               items : Seq(I[n - 1])])]]
<1>1. PICK I : I = [n \in Nat |-> ItemsStep(0, ItemsRec!Before(I, n), n)]
  BY ItemsRec!Recursion, Zenon
<1>2. I = [n \in Nat |-> IF n = 0 THEN Leaves ELSE Around(I[n - 1])]
  <2>1. \A n \in Nat : ItemsStep(0, ItemsRec!Before(I, n), n)
                         = IF n = 0 THEN Leaves ELSE Around(I[n - 1])
    BY Zenon DEF ItemsStep, ItemsRec!Before
  <2> QED
    BY <1>1, <2>1, Zenon
<1>3. Is(I)
  BY <1>2, Zenon DEF Around
<1>4. Is(Items)
  <2> HIDE DEF Is
  <2>1. Items = CHOOSE J : Is(J)
    BY Zenon DEF Items, Is
  <2> QED
    BY <1>3, <2>1, Zenon
<1>5. Items = [n \in Nat |-> IF n = 0 THEN Leaves ELSE Around(Items[n - 1])]
  BY <1>4, Zenon DEF Around
<1> QED
  BY <1>5, Zenon

\* read_complete_type for one more level.
ReadStep(p, read, n) == [item \in Items[n] |-> ReadComplete(read, item)]
ReadRec == INSTANCE Recursion WITH Step <- ReadStep

\* read_complete_type,
LEMMA ReadingIs ==
  \A n \in Nat : Reading[n] = [item \in Items[n] |-> ReadComplete(Below(Reading, n), item)]
<1> DEFINE Is(F) == F = [n \in Nat |->
  [item \in Items[n] |-> ReadComplete(IF n = 0 THEN << >> ELSE F[n - 1], item)]]
<1>1. PICK F : F = [n \in Nat |-> ReadStep(0, ReadRec!Before(F, n), n)]
  BY ReadRec!Recursion, Zenon
<1>2. Is(F)
  BY <1>1, Zenon DEF ReadStep, ReadRec!Before
<1>3. Is(Reading)
  <2> HIDE DEF Is
  <2>1. Reading = CHOOSE G : Is(G)
    BY Zenon DEF Reading, Is
  <2> QED
    BY <1>2, <2>1, Zenon
<1> QED
  BY <1>3, Zenon DEF Below

\* The reference for one more level.
BackStep(p, back, n) == [q \in Strings \X Values[n] |-> Back(back, q[1], q[2])]
BackRec == INSTANCE Recursion WITH Step <- BackStep

\* what values read back as,
LEMMA ReadBackIs ==
  \A n \in Nat : ReadBack[n] = [q \in Strings \X Values[n] |->
                                 Back(Below(ReadBack, n), q[1], q[2])]
<1> DEFINE Is(F) == F = [n \in Nat |->
  [p \in Strings \X Values[n] |-> Back(IF n = 0 THEN << >> ELSE F[n - 1], p[1], p[2])]]
<1>1. PICK F : F = [n \in Nat |-> BackStep(0, BackRec!Before(F, n), n)]
  BY BackRec!Recursion, Zenon
<1>2. Is(F)
  BY <1>1, Zenon DEF BackStep, BackRec!Before
<1>3. Is(ReadBack)
  <2> HIDE DEF Is
  <2>1. ReadBack = CHOOSE G : Is(G)
    BY Zenon DEF ReadBack, Is
  <2> QED
    BY <1>2, <2>1, Zenon
<1> QED
  BY <1>3, Zenon DEF Below

\* The loops: where they are after k values.
LoopNext(f, loop, s, to, v) ==
  IF to.error # NoError THEN to ELSE Proceed(to, AppendOne(f, loop, s, to, v))
\* The loop over an argument list: p is what AppendEach is called with.
LoopStep(p, to, k) ==
  IF k = 0 THEN Start(p[5]) ELSE LoopNext(p[1], p[2], p[3], to, p[4][k])
LoopRec == INSTANCE Recursion WITH Step <- LoopStep

\* r is where the loop over vals is after each number of values.
Runs(r, f, loop, s, vals, x) ==
  /\ r[0] = Start(x)
  /\ \A k \in Nat : k # 0 => r[k] = LoopNext(f, loop, s, r[k - 1], vals[k])

\* the loops of the append functions,
LEMMA EachRuns ==
  ASSUME NEW f, NEW loop, NEW s, NEW vals, NEW x
  PROVE  \E r : /\ Runs(r, f, loop, s, vals, x)
                /\ AppendEach(f, loop, s, vals, x) = r[Len(vals)]
<1> DEFINE p == << f, loop, s, vals, x >>
           Step(to, v) == IF to.error # NoError THEN to
                          ELSE Proceed(to, AppendOne(f, loop, s, to, v))
           Is(r) == r = [k \in Nat |-> IF k = 0 THEN Start(x) ELSE Step(r[k - 1], vals[k])]
           run == CHOOSE r : Is(r)
<1>1. PICK r : r = [k \in Nat |-> LoopStep(p, LoopRec!Before(r, k), k)]
  <2> HIDE DEF p
  <2> QED
    BY LoopRec!Recursion, Zenon
<1>2. p[1] = f /\ p[2] = loop /\ p[3] = s /\ p[4] = vals /\ p[5] = x
  OBVIOUS
<1>3. Is(r)
  <2>1. \A k \in Nat : LoopStep(p, LoopRec!Before(r, k), k)
                        = IF k = 0 THEN Start(x) ELSE Step(r[k - 1], vals[k])
    <3> HIDE DEF p
    <3> QED
      BY <1>2, Zenon DEF LoopStep, LoopNext, LoopRec!Before
  <2> QED
    BY <1>1, <2>1, Zenon
<1>4. Is(run)
  <2> HIDE DEF Is
  <2> QED
    BY <1>3, Zenon
<1>5. Runs(run, f, loop, s, vals, x)
  <2> HIDE DEF run
  <2> QED
    BY <1>4, Zenon DEF Runs, LoopNext
<1>6. AppendEach(f, loop, s, vals, x) = run[Len(vals)]
  BY Zenon DEF AppendEach
<1> QED
  BY <1>5, <1>6, Zenon

\* The end of the complete type that follows the first e characters.
Ends(s, e) == {n \in (e + 1)..Len(s) : SubSeq(s, e + 1, n) \in Types}
\* Where the complete type after e ends.
EndAfter(s, e) == IF Ends(s, e) = {} THEN Len(s) + 1 ELSE CHOOSE n \in Ends(s, e) : TRUE
\* The ends of the types of a signature, one after the other.
EndStep(s, e, k) == IF k = 0 THEN 0 ELSE EndAfter(s, e)
EndRec == INSTANCE Recursion WITH Step <- EndStep

\* and the ends of types.
LEMMA TypeEndIs ==
  ASSUME NEW s
  PROVE  /\ TypeEnd(s, 0) = 0
         /\ \A k \in Nat : k # 0 => TypeEnd(s, k) = EndAfter(s, TypeEnd(s, k - 1))
<1> DEFINE End(e) == {n \in (e + 1)..Len(s) : SubSeq(s, e + 1, n) \in Types}
           Is(g) == g = [j \in Nat |-> IF j = 0 THEN 0
                                       ELSE IF End(g[j - 1]) = {} THEN Len(s) + 1
                                       ELSE CHOOSE n \in End(g[j - 1]) : TRUE]
           ends == CHOOSE g : Is(g)
<1>1. PICK g : g = [j \in Nat |-> EndStep(s, EndRec!Before(g, j), j)]
  BY EndRec!Recursion, Zenon
<1>2. Is(g)
  <2>1. \A e : EndAfter(s, e) = IF End(e) = {} THEN Len(s) + 1 ELSE CHOOSE n \in End(e) : TRUE
    BY Zenon DEF EndAfter, Ends
  <2>2. g = [j \in Nat |-> IF j = 0 THEN 0 ELSE EndAfter(s, g[j - 1])]
    <3>1. \A j \in Nat : EndStep(s, EndRec!Before(g, j), j)
                          = IF j = 0 THEN 0 ELSE EndAfter(s, g[j - 1])
      BY Zenon DEF EndStep, EndRec!Before
    <3> QED
      BY <1>1, <3>1, Zenon
  <2> HIDE DEF End
  <2> QED
    BY <2>1, <2>2, Zenon
<1>3. Is(ends)
  <2> HIDE DEF Is
  <2> QED
    BY <1>2, Zenon
<1>4. \A k : TypeEnd(s, k) = ends[k]
  BY Zenon DEF TypeEnd
<1>5. /\ ends[0] = 0
      /\ \A k \in Nat : k # 0 => ends[k] = EndAfter(s, ends[k - 1])
  <2> HIDE DEF ends
  <2> QED
    BY <1>3, Zenon DEF EndAfter, Ends
<1> QED
  <2> HIDE DEF ends
  <2> QED
    BY <1>4, <1>5, Zenon

--------------------------------------------------------------------------------
(* Contexts and errors *)

\* A result that is an error.
IsError(e) == e # NoError /\ e.kind \in {"type", "other"}

\* Blaming a value is an error, and so is what has no value to blame.
LEMMA ErrorsAre ==
  /\ \A x, v : IsError(TypeError(x, v))
  /\ IsError(OtherError)
<1>1. NoError.kind = "none" /\ OtherError.kind = "other" /\ \A x, v : TypeError(x, v).kind = "type"
  BY DEF NoError, OtherError, TypeError
<1>2. /\ NoError # OtherError /\ \A x, v : TypeError(x, v) # NoError
  BY <1>1
<1> HIDE DEF IsError
<1> QED
  BY <1>1, <1>2 DEF IsError

\* Context x is put together from these parts.
LEMMA ContextIs ==
  ASSUME NEW x \in Contexts
  PROVE  /\ x.argc \in Nat /\ x.depth \in Nat /\ x.outer \in Strings
         /\ x.inner \in Strings \cup {Freed}
         /\ x = [argc |-> x.argc, depth |-> x.depth, outer |-> x.outer, inner |-> x.inner]
  BY DEF Contexts

\* Entering, leaving and freeing keep a context one.
LEMMA ContextsStay ==
  ASSUME NEW x \in Contexts
  PROVE  /\ Inc(x) \in Contexts /\ Exit(x) \in Contexts
         /\ \A t \in Strings : Enter(x, t) \in Contexts
         /\ \A vals : Free(x, vals) \in Contexts
<1>1. Inc(x) \in Contexts /\ Exit(x) \in Contexts
  BY ContextIs DEF Inc, Exit, Contexts
<1>2. ASSUME NEW t \in Strings
      PROVE  Enter(x, t) \in Contexts
  <2>1. CASE x.depth = 0
    <3>1. Enter(x, t) = [x EXCEPT !.depth = @ + 1, !.outer = t]
      BY <2>1, Zenon DEF Enter
    <3>2. Enter(x, t) = [argc |-> x.argc, depth |-> x.depth + 1, outer |-> t, inner |-> x.inner]
      BY <3>1, ContextIs
    <3> HIDE DEF Freed
    <3> QED
      BY <3>2, ContextIs DEF Contexts
  <2>2. CASE x.depth # 0
    <3>1. Enter(x, t) = [x EXCEPT !.depth = @ + 1, !.inner = t]
      BY <2>2, Zenon DEF Enter
    <3>2. Enter(x, t) = [argc |-> x.argc, depth |-> x.depth + 1, outer |-> x.outer, inner |-> t]
      BY <3>1, ContextIs
    <3> HIDE DEF Freed
    <3> QED
      BY <3>2, ContextIs DEF Contexts
  <2> QED
    BY <2>1, <2>2
<1>3. ASSUME NEW vals
      PROVE  Free(x, vals) \in Contexts
  <2>1. CASE vals = << >>
    <3>1. Free(x, vals) = [x EXCEPT !.inner = x.inner]
      BY <2>1, Zenon DEF Free
    <3> QED
      BY <3>1 DEF Contexts
  <2>2. CASE vals # << >>
    <3>1. Free(x, vals) = [x EXCEPT !.inner = Freed]
      BY <2>2, Zenon DEF Free
    <3> HIDE DEF Freed
    <3> QED
      BY <3>1 DEF Contexts
  <2> QED
    BY <2>1, <2>2
<1> QED
  BY <1>1, <1>2, <1>3

\* A call of message-append starts with a context.
LEMMA ResetIs == Reset \in Contexts
<1>1. << >> \in Strings
  BY Substrings DEF HasSubstrings
<1> QED
  BY <1>1 DEF Reset, Contexts

--------------------------------------------------------------------------------
(* The loops *)

\* The state of a loop.
IsRun(to) ==
  \E i, vals, left, x, e :
    to = [i |-> i, items |-> vals, open |-> left, x |-> x, error |-> e]

\* Where a loop starts.
LEMMA StartIs ==
  ASSUME NEW x
  PROVE  /\ IsRun(Start(x)) /\ Start(x).i = 1 /\ Start(x).items = << >>
         /\ Start(x).open = FALSE /\ Start(x).x = x /\ Start(x).error = NoError
<1> HIDE DEF NoError
<1> QED
  BY DEF Start, IsRun

\* What one value does to the state of a loop.
LEMMA ProceedIs ==
  ASSUME NEW to, IsRun(to), NEW r
  PROVE  /\ IsRun(Proceed(to, r))
         /\ r.ok => /\ Proceed(to, r).i = r.i + 1
                    /\ Proceed(to, r).items = Append(to.items, r.item)
                    /\ Proceed(to, r).x = r.x
                    /\ Proceed(to, r).open = to.open
                    /\ Proceed(to, r).error = to.error
         /\ ~ r.ok => /\ Proceed(to, r).i = to.i
                      /\ Proceed(to, r).items = to.items
                      /\ Proceed(to, r).x = to.x
                      /\ Proceed(to, r).open = r.open
                      /\ Proceed(to, r).error = r.error
<1>1. PICK i, vals, left, x, e :
        to = [i |-> i, items |-> vals, open |-> left, x |-> x, error |-> e]
  BY DEF IsRun
<1>2. CASE r.ok
  <2>1. Proceed(to, r) = [i |-> r.i + 1, items |-> Append(vals, r.item), open |-> left,
                          x |-> r.x, error |-> e]
    BY <1>1, <1>2 DEF Proceed
  <2>2. IsRun(Proceed(to, r))
    BY <2>1, Zenon DEF IsRun
  <2> HIDE DEF Proceed
  <2> QED
    BY <1>1, <1>2, <2>1, <2>2
<1>3. CASE ~ r.ok
  <2>1. Proceed(to, r) = [i |-> i, items |-> vals, open |-> r.open, x |-> x, error |-> r.error]
    BY <1>1, <1>3 DEF Proceed
  <2>2. IsRun(Proceed(to, r))
    BY <2>1, Zenon DEF IsRun
  <2> HIDE DEF Proceed
  <2> QED
    BY <1>1, <1>3, <2>1, <2>2
<1> QED
  BY <1>2, <1>3

\* Where the loops over the arguments and the members of a structure are, which take
\* a type from the signature for each value.
Cursor(loop, s, i, k) ==
  loop \in {"struct", "arguments"} => TypeEnd(s, k) \in 0..Len(s) /\ i = TypeEnd(s, k) + 1

\* After k values, to: each item that was written is right, one of those in W; or
\* there is a value that nothing right can be written for, none that B holds.
LoopRight(loop, s, W, B, to, k) ==
  IF to.error = NoError
  THEN /\ to.x \in Contexts /\ to.open = FALSE /\ to.i \in Nat
       /\ Cursor(loop, s, to.i, k)
       /\ Len(to.items) = k /\ to.items \in Seq(UNION {W[j] : j \in 1..k})
       /\ \A j \in 1..k : to.items[j] \in W[j]
  ELSE /\ IsError(to.error) /\ to.open \in BOOLEAN
       /\ \E b \in 1..k : /\ B[b] = {} /\ Len(to.items) = b - 1
                          /\ to.items \in Seq(UNION {W[j] : j \in 1..(b - 1)})
                          /\ \A j \in 1..(b - 1) : to.items[j] \in W[j]

\* The result of the j-th value is right: what was written is one of W[j] and leaves the
\* cursor behind j types, or the j-th value does not fit, and B[j] is empty.
OneRight(loop, s, W, B, j, one) ==
  IF one.ok
  THEN /\ one.x \in Contexts /\ one.i \in Nat /\ one.item \in W[j]
       /\ Cursor(loop, s, one.i + 1, j)
  ELSE IsError(one.error) /\ one.open \in BOOLEAN /\ B[j] = {}

\* Every value of a loop has the right result, wherever the loop is by then.
EachRight(f, loop, s, vals, W, B) ==
  \A j \in 1..Len(vals) : \A to :
    to.x \in Contexts /\ to.i \in Nat /\ Cursor(loop, s, to.i, j - 1)
      => OneRight(loop, s, W, B, j, AppendOne(f, loop, s, to, vals[j]))

\* A loop starts right,
LEMMA StartRight ==
  ASSUME NEW loop, NEW s, Len(s) \in Nat, NEW x \in Contexts, NEW W, NEW B
  PROVE  LoopRight(loop, s, W, B, Start(x), 0)
<1>1. TypeEnd(s, 0) = 0
  BY TypeEndIs
<1>2. Cursor(loop, s, 1, 0)
  BY <1>1 DEF Cursor
<1>3. << >> \in Seq(UNION {W[j] : j \in 1..0}) /\ Len(<< >>) = 0 /\ \A j \in 1..0 : FALSE
  OBVIOUS
<1>4. /\ Start(x).i = 1 /\ Start(x).items = << >>
      /\ Start(x).open = FALSE /\ Start(x).x = x /\ Start(x).error = NoError
  BY StartIs
<1> QED
  BY <1>2, <1>3, <1>4 DEF LoopRight

\* and stays right with each value.
LEMMA NextRight ==
  ASSUME NEW f, NEW loop, NEW s, NEW vals, NEW W, NEW B, EachRight(f, loop, s, vals, W, B),
         NEW k \in 1..Len(vals), Len(vals) \in Nat, NEW to, IsRun(to),
         LoopRight(loop, s, W, B, to, k - 1)
  PROVE  /\ IsRun(LoopNext(f, loop, s, to, vals[k]))
         /\ LoopRight(loop, s, W, B, LoopNext(f, loop, s, to, vals[k]), k)
<1>1. k - 1 \in Nat /\ k \in Nat /\ (k - 1) + 1 = k
  OBVIOUS
<1>2. CASE to.error # NoError
  <2>1. LoopNext(f, loop, s, to, vals[k]) = to
    BY <1>2, Zenon DEF LoopNext
  <2>2. \A b \in 1..(k - 1) : b \in 1..k
    OBVIOUS
  <2>3. LoopRight(loop, s, W, B, to, k)
    BY <1>2, <2>2, Zenon DEF LoopRight
  <2> QED
    BY <2>1, <2>3
<1>3. CASE to.error = NoError
  <2> DEFINE one == AppendOne(f, loop, s, to, vals[k])
             new == Proceed(to, one)
  <2>1. LoopNext(f, loop, s, to, vals[k]) = new
    BY <1>3, Zenon DEF LoopNext
  <2>2. /\ to.x \in Contexts /\ to.open = FALSE /\ to.i \in Nat
        /\ Cursor(loop, s, to.i, k - 1)
        /\ Len(to.items) = k - 1 /\ to.items \in Seq(UNION {W[j] : j \in 1..(k - 1)})
        /\ \A j \in 1..(k - 1) : to.items[j] \in W[j]
    BY <1>3, Zenon DEF LoopRight
  <2>3. OneRight(loop, s, W, B, k, one)
    BY <2>2, Zenon DEF EachRight
  <2> HIDE DEF one
  <2>4. /\ IsRun(new)
        /\ one.ok => /\ new.i = one.i + 1 /\ new.items = Append(to.items, one.item)
                     /\ new.x = one.x /\ new.open = to.open /\ new.error = to.error
        /\ ~ one.ok => /\ new.items = to.items /\ new.open = one.open
                       /\ new.error = one.error
    BY ProceedIs
  <2> HIDE DEF new
  <2>5. CASE one.ok
    <3>1. /\ one.x \in Contexts /\ one.i \in Nat /\ one.item \in W[k]
          /\ Cursor(loop, s, one.i + 1, k)
      BY <2>3, <2>5, Zenon DEF OneRight
    <3> DEFINE U == UNION {W[j] : j \in 1..k}
    <3>2. to.items \in Seq(U) /\ one.item \in U
      <4>1. UNION {W[j] : j \in 1..(k - 1)} \subseteq U
        BY <1>1
      <4> DEFINE T == UNION {W[j] : j \in 1..(k - 1)}
      <4>2. one.item \in U
        BY <3>1
      <4>3. to.items \in Seq(T)
        BY <2>2
      <4> HIDE DEF T, U
      <4>4. to.items \in Seq(U)
        BY <4>1, <4>3 DEF T
      <4> QED
        BY <4>2, <4>4
    <3> HIDE DEF U
    <3>3. /\ new.items \in Seq(U) /\ Len(new.items) = k
          /\ \A j \in 1..k : new.items[j] = IF j = k THEN one.item ELSE to.items[j]
      <4>1. new.items = Append(to.items, one.item) /\ Len(to.items) = k - 1
        BY <2>2, <2>4, <2>5
      <4>2. /\ Append(to.items, one.item) \in Seq(U)
            /\ Len(Append(to.items, one.item)) = Len(to.items) + 1
            /\ \A j \in 1..(Len(to.items) + 1) :
                 Append(to.items, one.item)[j] = IF j <= Len(to.items) THEN to.items[j] ELSE one.item
        BY <3>2, AppendProperties
      <4>3. \A j \in 1..k : j \in 1..(Len(to.items) + 1) /\ (j <= Len(to.items) <=> j # k)
        BY <1>1, <4>1
      <4>4. Len(to.items) + 1 = k
        BY <1>1, <4>1
      <4> QED
        BY <4>1, <4>2, <4>3, <4>4, Zenon
    <3>4. \A j \in 1..k : new.items[j] \in W[j]
      <4>1. \A j \in 1..k : j = k \/ j \in 1..(k - 1)
        BY <1>1
      <4> QED
        BY <2>2, <3>1, <3>3, <4>1, Zenon
    <3>5. new.i \in Nat /\ Cursor(loop, s, new.i, k)
      BY <2>4, <2>5, <3>1
    <3>6. LoopRight(loop, s, W, B, new, k)
      BY <1>3, <2>2, <2>4, <2>5, <3>1, <3>3, <3>4, <3>5, Zenon DEF LoopRight, U
    <3> QED
      BY <2>1, <2>4, <3>6
  <2>6. CASE ~ one.ok
    <3>1. IsError(one.error) /\ one.open \in BOOLEAN /\ B[k] = {}
      BY <2>3, <2>6, Zenon DEF OneRight
    <3>2. new.error # NoError /\ k \in 1..k
      BY <1>1, <2>4, <2>6, <3>1 DEF IsError
    <3>3. LoopRight(loop, s, W, B, new, k)
      BY <2>2, <2>4, <2>6, <3>1, <3>2, Zenon DEF LoopRight
    <3> QED
      BY <2>1, <2>4, <3>3
  <2> QED
    BY <2>5, <2>6
<1> QED
  BY <1>2, <1>3

\* A loop that is right about each value is right about all of them.
LEMMA LoopsRight ==
  ASSUME NEW f, NEW loop, NEW s, Len(s) \in Nat, NEW vals, Len(vals) \in Nat,
         NEW x \in Contexts, NEW W, NEW B, EachRight(f, loop, s, vals, W, B)
  PROVE  /\ IsRun(AppendEach(f, loop, s, vals, x))
         /\ LoopRight(loop, s, W, B, AppendEach(f, loop, s, vals, x), Len(vals))
<1>1. PICK r : /\ Runs(r, f, loop, s, vals, x)
               /\ AppendEach(f, loop, s, vals, x) = r[Len(vals)]
  BY EachRuns
<1> DEFINE Good(k) == IsRun(r[k]) /\ LoopRight(loop, s, W, B, r[k], k)
           Off == {k \in Nat : k <= Len(vals) /\ ~ Good(k)}
<1>2. SUFFICES ASSUME Off # {}
               PROVE  FALSE
  <2>1. Len(vals) \notin Off
    BY <1>2
  <2>2. Good(Len(vals))
    <3> HIDE DEF Good
    <3> QED
      BY <2>1
  <2> QED
    BY <1>1, <2>2
<1>3. PICK k \in Off : \A p \in Off : k <= p
  <2> HIDE DEF Off
  <2>1. Off \in SUBSET Nat
    BY DEF Off
  <2> QED
    BY <1>2, <2>1, HasLeast
<1>4. k \in Nat /\ k <= Len(vals) /\ ~ Good(k)
  <2> HIDE DEF Good
  <2> QED
    BY <1>3
<1>5. CASE k = 0
  <2>1. r[0] = Start(x)
    BY <1>1, Zenon DEF Runs
  <2>2. Good(0)
    BY <2>1, StartIs, StartRight, Zenon
  <2> QED
    BY <1>4, <1>5, <2>2, Zenon
<1>6. CASE k # 0
  <2>1. k - 1 \in Nat /\ k - 1 <= Len(vals) /\ ~ (k <= k - 1) /\ k \in 1..Len(vals)
    BY <1>4, <1>6
  <2>2. Good(k - 1)
    <3> HIDE DEF Good
    <3> QED
      BY <1>3, <2>1
  <2>3. r[k] = LoopNext(f, loop, s, r[k - 1], vals[k])
    BY <1>1, <1>4, <1>6, Zenon DEF Runs
  <2>4. Good(k)
    BY <2>1, <2>2, <2>3, NextRight, Zenon
  <2> QED
    BY <1>4, <2>4, Zenon
<1> QED
  BY <1>5, <1>6

--------------------------------------------------------------------------------
(* Values and items *)

\* What the kind of a value says of the values in it: they nest one less deep.
LEMMA ValuesAre ==
  ASSUME NEW n \in Nat, NEW v \in Values[n]
  PROVE  /\ v.kind \in {"number", "string", "tuple", "table"}
         /\ v.kind \in {"number", "string"} => v \in Atoms /\ v.text \in Strings
         /\ v.kind = "tuple" => n # 0 /\ v.items \in Seq(Values[n - 1])
         /\ v.kind = "table" =>
              /\ n # 0 /\ Len(v.items) \in Nat
              /\ \A j \in 1..Len(v.items) :
                   /\ v.items[j].items[1] \in Values[n - 1]
                   /\ v.items[j].items[2] \in Values[n - 1]
<1>1. CASE v \in Atoms
  BY <1>1 DEF Atoms
<1>2. CASE v \notin Atoms
  <2> DEFINE V == Values[n - 1]
  <2>1. n # 0 /\ Values[n] = Deeper(V)
    BY <1>2, ValuesIs, Zenon
  <2> HIDE DEF V
  <2>2. \/ v \in [kind : {"tuple"}, n : {0}, text : {<< >>}, items : Seq(V)]
        \/ v \in [kind : {"table"}, n : {0}, text : {<< >>},
                  items : Seq([kind : {"tuple"}, n : {0}, text : {<< >>}, items : V \X V])]
    BY <1>2, <2>1, Zenon DEF Deeper
  <2>3. CASE v \in [kind : {"tuple"}, n : {0}, text : {<< >>}, items : Seq(V)]
    BY <2>1, <2>3 DEF V
  <2>4. CASE v \in [kind : {"table"}, n : {0}, text : {<< >>},
                    items : Seq([kind : {"tuple"}, n : {0}, text : {<< >>}, items : V \X V])]
    <3> DEFINE E == [kind : {"tuple"}, n : {0}, text : {<< >>}, items : V \X V]
    <3>1. v.kind = "table" /\ v.items \in Seq(E)
      BY <2>4
    <3>2. \A e \in E : e.items[1] \in V /\ e.items[2] \in V
      OBVIOUS
    <3> HIDE DEF E
    <3>3. Len(v.items) \in Nat /\ \A j \in 1..Len(v.items) : v.items[j] \in E
      BY <3>1
    <3> QED
      BY <2>1, <3>1, <3>2, <3>3 DEF V
  <2> QED
    BY <2>2, <2>3, <2>4
<1> QED
  BY <1>1, <1>2

\* What a basic type accepts has no values in it.
LEMMA AtomsAre ==
  ASSUME NEW n \in Nat, NEW v \in Values[n], NEW c, Accepts(c, v)
  PROVE  v \in Atoms
  BY ValuesAre DEF Accepts

\* Dictionary entries.
EntriesOf(I) == [type : {EntryOpen}, sig : Strings, items : Seq(I)]

\* A container of items that nest n deep nests one deeper.
LEMMA ItemsAre ==
  ASSUME NEW n \in Nat
  PROVE  /\ Leaves \subseteq Items[n]
         /\ \A type \in {"v", "(", "a"}, sig \in Strings,
               vals \in Seq(Items[n] \cup EntriesOf(Items[n])) :
                 Item(type, sig, vals) \in Items[n + 1]
<1>1. Leaves \subseteq Items[n]
  <2>1. CASE n = 0
    BY <2>1, ItemsIs, Zenon
  <2>2. CASE n # 0
    <3>1. Items[n] = Around(Items[n - 1])
      BY <2>2, ItemsIs, Zenon
    <3> QED
      BY <3>1, Zenon DEF Around
  <2> QED
    BY <2>1, <2>2
<1> DEFINE I == Items[n]
           T == I \cup EntriesOf(I)
<1>2. Items[n + 1] = Around(I)
  <2> DEFINE k == n + 1
  <2>1. k \in Nat /\ k # 0 /\ k - 1 = n
    OBVIOUS
  <2> HIDE DEF k
  <2>2. Items[k] = Around(Items[k - 1])
    BY <2>1, ItemsIs, Zenon
  <2> QED
    BY <2>1, <2>2 DEF k
<1> HIDE DEF I
<1>3. Around(I) = Leaves \cup [type : {"v", "(", "a"}, sig : Strings, items : Seq(T)]
  BY Zenon DEF Around, EntriesOf
<1> HIDE DEF T
<1>4. \A type \in {"v", "(", "a"}, sig \in Strings, vals \in Seq(T) :
        Item(type, sig, vals) \in [type : {"v", "(", "a"}, sig : Strings, items : Seq(T)]
  BY DEF Item
<1>5. \A type \in {"v", "(", "a"}, sig \in Strings, vals \in Seq(T) :
        Item(type, sig, vals) \in Items[n + 1]
  <2>1. Items[n + 1] = Leaves \cup [type : {"v", "(", "a"}, sig : Strings, items : Seq(T)]
    BY <1>2, <1>3, Zenon
  <2> DEFINE M == Items[n + 1]
             C == [type : {"v", "(", "a"}, sig : Strings, items : Seq(T)]
  <2>2. M = Leaves \cup C /\ \A type \in {"v", "(", "a"}, sig \in Strings, vals \in Seq(T) :
                              Item(type, sig, vals) \in C
    BY <1>4, <2>1, Zenon
  <2> HIDE DEF M, C
  <2>3. \A type \in {"v", "(", "a"}, sig \in Strings, vals \in Seq(T) : Item(type, sig, vals) \in M
    BY <2>2
  <2> QED
    BY <2>3, Zenon DEF M
<1> QED
  BY <1>1, <1>5, Zenon DEF T, I

\* What reading gives for an item: level by level.
Contents(read, item) == [j \in 1..Len(item.items) |-> read[item.items[j]]]

\* Reading a basic value gives it back; reading a container reads what is in it.
LEMMA ReadingOf ==
  ASSUME NEW n \in Nat
  PROVE  /\ \A item \in Leaves : Reading[n][item] = item.items[1]
         /\ \A item \in Items[n + 1] : Reading[n + 1][item] = ReadComplete(Reading[n], item)
<1>1. ASSUME NEW item \in Leaves
      PROVE  Reading[n][item] = item.items[1]
  <2>1. item \in Items[n]
    BY ItemsAre
  <2>2. Reading[n][item] = ReadComplete(Below(Reading, n), item)
    BY <2>1, ReadingIs, Zenon
  <2>3. item.type \in Basic
    BY DEF Leaves
  <2>4. item.type # "v" /\ item.type # "("
    BY <2>3 DEF Basic
  <2> QED
    BY <2>2, <2>3, <2>4 DEF ReadComplete
<1>2. ASSUME NEW item \in Items[n + 1]
      PROVE  Reading[n + 1][item] = ReadComplete(Reading[n], item)
  <2> DEFINE k == n + 1
  <2>1. k \in Nat /\ k # 0 /\ k - 1 = n /\ item \in Items[k]
    OBVIOUS
  <2> HIDE DEF k
  <2>2. Reading[k][item] = ReadComplete(Below(Reading, k), item)
    BY <2>1, ReadingIs, Zenon
  <2>3. Below(Reading, k) = Reading[n]
    BY <2>1 DEF Below
  <2> QED
    BY <2>2, <2>3 DEF k
<1> QED
  BY <1>1, <1>2

\* read_complete_type, by cases on what is read.
LEMMA ReadCompleteIs ==
  ASSUME NEW read, NEW item
  PROVE  /\ item.type = "v" =>
              ReadComplete(read, item) = Tuple(<< Str(item.sig) >> \o Contents(read, item))
         /\ item.type = "(" => ReadComplete(read, item) = Tuple(Contents(read, item))
         /\ item.type = "a" =>
              /\ item.sig[1] = EntryOpen =>
                   ReadComplete(read, item)
                     = Table([j \in 1..Len(item.items) |-> Tuple(Contents(read, item.items[j]))])
              /\ item.sig[1] # EntryOpen =>
                   ReadComplete(read, item) = Tuple(Contents(read, item))
<1>1. /\ "v" \notin Basic /\ "(" \notin Basic /\ "a" \notin Basic
      /\ "v" # "(" /\ "a" # "v" /\ "a" # "("
  BY DEF Basic
<1>2. ASSUME item.type = "v"
      PROVE  ReadComplete(read, item) = Tuple(<< Str(item.sig) >> \o Contents(read, item))
  BY <1>1, <1>2 DEF ReadComplete, Contents
<1>3. ASSUME item.type = "("
      PROVE  ReadComplete(read, item) = Tuple(Contents(read, item))
  BY <1>1, <1>3 DEF ReadComplete, Contents
<1>4. ASSUME item.type = "a", item.sig[1] = EntryOpen
      PROVE  ReadComplete(read, item)
               = Table([j \in 1..Len(item.items) |-> Tuple(Contents(read, item.items[j]))])
  <2> HIDE DEF EntryOpen
  <2> QED
    BY <1>1, <1>4 DEF ReadComplete, Contents
<1>5. ASSUME item.type = "a", item.sig[1] # EntryOpen
      PROVE  ReadComplete(read, item) = Tuple(Contents(read, item))
  BY <1>1, <1>5 DEF ReadComplete, Contents
<1> QED
  BY <1>2, <1>3, <1>4, <1>5

\* The level below n.
LEMMA BelowIs ==
  ASSUME NEW g, NEW n \in Nat, n # 0
  PROVE  Below(g, n) = g[n - 1]
  BY DEF Below

\* The reference, and append_complete_type, in terms of the level below.
LEMMA BackOf ==
  ASSUME NEW n \in Nat, NEW t \in Strings, NEW v \in Values[n]
  PROVE  ReadBack[n][<< t, v >>] = Back(Below(ReadBack, n), t, v)
<1>1. << t, v >> \in Strings \X Values[n] /\ << t, v >>[1] = t /\ << t, v >>[2] = v
  OBVIOUS
<1>2. ReadBack[n] = [q \in Strings \X Values[n] |-> Back(Below(ReadBack, n), q[1], q[2])]
  BY ReadBackIs
<1> QED
  BY <1>1, <1>2, Zenon

\* And the other of the two.
LEMMA AppendOf ==
  ASSUME NEW n \in Nat, NEW s \in Strings, NEW i \in Nat, NEW v \in Values[n], NEW x \in Contexts
  PROVE  Appending[n][Call(s, i, v, x)] = AppendComplete(Below(Appending, n), s, i, v, x)
<1> DEFINE c == Call(s, i, v, x)
           V == Values[n]
<1>1. c \in Calls(n)
  <2>1. v \in V
    OBVIOUS
  <2> HIDE DEF V
  <2>2. c \in [s : Strings, i : Nat, v : V, x : Contexts]
    BY <2>1 DEF Call
  <2> QED
    BY <2>2 DEF Calls, V
<1>2. c.s = s /\ c.i = i /\ c.v = v /\ c.x = x
  BY DEF Call
<1> HIDE DEF c
<1>3. Appending[n] = [d \in Calls(n) |->
                        AppendComplete(Below(Appending, n), d.s, d.i, d.v, d.x)]
  BY AppendingIs
<1>4. Appending[n][c] = AppendComplete(Below(Appending, n), c.s, c.i, c.v, c.x)
  BY <1>1, <1>3, Zenon
<1> QED
  BY <1>2, <1>4, Zenon DEF c

--------------------------------------------------------------------------------
(* One of each *)

\* One of each is a sequence that takes each element from its set; there is none if
\* one of the sets is empty.
LEMMA OneOfEachIs ==
  ASSUME NEW n \in Nat, NEW B, DOMAIN B = 1..n
  PROVE  /\ \A ws : DOMAIN ws = 1..n /\ ws = [j \in 1..n |-> ws[j]] /\ (\A j \in 1..n : ws[j] \in B[j])
                      => ws \in OneOfEach(B)
         /\ \A b \in 1..n : B[b] = {} => OneOfEach(B) = {}
<1>1. OneOfEach(B) = {ws \in [1..n -> UNION {B[j] : j \in 1..n}] : \A j \in 1..n : ws[j] \in B[j]}
  BY Zenon DEF OneOfEach
<1>2. ASSUME NEW ws, DOMAIN ws = 1..n, ws = [j \in 1..n |-> ws[j]], \A j \in 1..n : ws[j] \in B[j]
      PROVE  ws \in OneOfEach(B)
  <2>1. \A j \in 1..n : ws[j] \in UNION {B[k] : k \in 1..n}
    BY <1>2, Zenon
  <2>2. ws \in [1..n -> UNION {B[j] : j \in 1..n}]
    BY <1>2, <2>1, Zenon
  <2> QED
    BY <1>1, <1>2, <2>2, Zenon
<1>3. ASSUME NEW b \in 1..n, B[b] = {}
      PROVE  OneOfEach(B) = {}
  BY <1>1, <1>3, Zenon
<1> QED
  BY <1>2, <1>3, Zenon

--------------------------------------------------------------------------------
(* What reading gives back, case by case *)

\* The reference, by cases on the type.
LEMMA BackIs ==
  ASSUME NEW back, NEW t \in Types, NEW v
  PROVE  /\ t[1] \in Basic => Back(back, t, v) = IF Accepts(t[1], v) THEN {v} ELSE {}
         /\ t[1] = "v" => Back(back, t, v) =
              IF v.kind = "tuple" /\ Len(v.items) = 2 /\ v.items[1].kind = "string"
                THEN {Tuple(<< Str(v.items[1].text), w >>) :
                        w \in back[<< v.items[1].text, v.items[2] >>]}
                ELSE {}
         /\ t[1] = "(" => Back(back, t, v) =
              IF v.kind = "tuple" /\ v.items # << >>
                THEN {Tuple(ws) : ws \in AllBack(back, Inner(t), v.items)} ELSE {}
<1>1. /\ "v" \notin Basic /\ "(" \notin Basic /\ "a" \notin Basic
      /\ "v" # "(" /\ "a" # "v" /\ "a" # "("
  BY DEF Basic
<1>2. t[1] # "a" => ~ Bytes(t) /\ ~ Dictionary(t)
  BY DEF Bytes, Dictionary
<1> DEFINE Pack == {Tuple(ws) : ws \in AllBack(back, Inner(t), v.items)}
<1>3. ASSUME t[1] \in Basic
      PROVE  Back(back, t, v) = IF Accepts(t[1], v) THEN {v} ELSE {}
  BY <1>1, <1>2, <1>3 DEF Back
<1>4. ASSUME t[1] = "v"
      PROVE  Back(back, t, v) =
              IF v.kind = "tuple" /\ Len(v.items) = 2 /\ v.items[1].kind = "string"
                THEN {Tuple(<< Str(v.items[1].text), w >>) :
                        w \in back[<< v.items[1].text, v.items[2] >>]}
                ELSE {}
  BY <1>1, <1>2, <1>4 DEF Back
<1>5. ASSUME t[1] = "("
      PROVE  Back(back, t, v) = IF v.kind = "tuple" /\ v.items # << >> THEN Pack ELSE {}
  BY <1>1, <1>2, <1>5 DEF Back
<1> QED
  BY <1>3, <1>4, <1>5
\* A dictionary whose entries have the key type c, for which the values of an entry
\* of the argument read back like this.
PairBack(back, c, type, e) ==
  {Tuple(<< e[1], w >>) : w \in IF Accepts(c, e[1]) THEN back[<< type, e[2] >>] ELSE {}}

\* The reference for arrays: of bytes, dictionaries, and others.
LEMMA ArrayBackIs ==
  ASSUME NEW back, NEW t \in Types, t[1] = "a", NEW v
  PROVE  /\ t = << "a", "y" >> => Back(back, t, v) =
              IF v.kind = "string" THEN {Tuple([j \in 1..Len(v.text) |-> Num(1)])} ELSE {}
         /\ Len(t) > 1 /\ t[2] = EntryOpen => Back(back, t, v) =
              IF v.kind = "table"
                THEN {Table(ws) : ws \in OneOfEach([j \in 1..Len(v.items) |->
                        PairBack(back, t[3], SubSeq(t, 4, Len(t) - 1), v.items[j].items)])}
                ELSE {}
         /\ Len(t) > 1 /\ t[2] # EntryOpen /\ t # << "a", "y" >> => Back(back, t, v) =
              IF v.kind = "tuple"
                THEN {Tuple(ws) : ws \in OneOfEach([j \in 1..Len(v.items) |->
                                                      back[<< Tail(t), v.items[j] >>]])}
                ELSE {}
<1>1. "a" \notin Basic /\ t[1] # "v" /\ t[1] # "("
  BY DEF Basic
<1>2. "y" # EntryOpen
  BY Zenon DEF EntryOpen
<1>3. t = << "a", "y" >> => t[2] # EntryOpen
  BY <1>2
<1> DEFINE Each == 1..Len(v.items)
           Bits == IF v.kind = "string" THEN {Tuple([j \in 1..Len(v.text) |-> Num(1)])} ELSE {}
           Dict == IF v.kind = "table"
                     THEN {Table(ws) : ws \in OneOfEach([j \in Each |->
                             PairBack(back, t[3], SubSeq(t, 4, Len(t) - 1), v.items[j].items)])}
                     ELSE {}
           Arr == IF v.kind = "tuple"
                    THEN {Tuple(ws) : ws \in OneOfEach([j \in Each |->
                                                          back[<< Tail(t), v.items[j] >>]])}
                    ELSE {}
           Struct == IF v.kind = "tuple" /\ v.items # << >>
                       THEN {Tuple(ws) : ws \in AllBack(back, Inner(t), v.items)} ELSE {}
           Variant == IF v.kind = "tuple" /\ Len(v.items) = 2 /\ v.items[1].kind = "string"
                        THEN {Tuple(<< Str(v.items[1].text), w >>) :
                                w \in back[<< v.items[1].text, v.items[2] >>]}
                        ELSE {}
           Of == CASE t[1] \in Basic -> IF Accepts(t[1], v) THEN {v} ELSE {}
                   [] t[1] = "v" -> Variant
                   [] t[1] = "(" -> Struct
                   [] Bytes(t) -> Bits
                   [] Dictionary(t) -> Dict
                   [] OTHER -> Arr
<1>4. Back(back, t, v) = Of
  BY Zenon DEF Back, PairBack
<1> HIDE DEF Bits, Dict, Arr, Struct, Variant
<1>5. /\ Bytes(t) /\ ~ Dictionary(t) => Of = Bits
      /\ Dictionary(t) /\ ~ Bytes(t) => Of = Dict
      /\ ~ Dictionary(t) /\ ~ Bytes(t) => Of = Arr
  BY <1>1
<1> HIDE DEF Of
<1>6. /\ t = << "a", "y" >> => Bytes(t) /\ ~ Dictionary(t)
      /\ Len(t) > 1 /\ t[2] = EntryOpen => Dictionary(t) /\ ~ Bytes(t)
      /\ Len(t) > 1 /\ t[2] # EntryOpen /\ t # << "a", "y" >> => ~ Dictionary(t) /\ ~ Bytes(t)
  BY <1>3 DEF Bytes, Dictionary
<1>7. /\ t = << "a", "y" >> => Back(back, t, v) = Bits
      /\ Len(t) > 1 /\ t[2] = EntryOpen => Back(back, t, v) = Dict
      /\ Len(t) > 1 /\ t[2] # EntryOpen /\ t # << "a", "y" >> => Back(back, t, v) = Arr
  BY <1>4, <1>5, <1>6
<1> QED
  BY <1>7, Zenon DEF Bits, Dict, Arr

\* Nothing is written with what is no complete type.
LEMMA NoTypeNoBack ==
  ASSUME NEW back, NEW t, t \notin Types, NEW v
  PROVE  Back(back, t, v) = {}
  BY Zenon DEF Back

--------------------------------------------------------------------------------
(* What append_complete_type has to do                                          *)

\* Items of a message that nest n + 1 deep and read back as one of R.
For(n, R) == {item \in Items[n + 1] : Reading[n + 1][item] \in R}

\* The result r of writing v with the type at i of s: written is an item that reads
\* back as a value of that type does, and the cursor is at the end of the type; or
\* whatever complete type there is at i, v does not fit it.
Right(n, s, i, v, r) ==
  IF r.ok
  THEN /\ r.x \in Contexts /\ r.i \in Nat /\ i <= r.i /\ r.i <= Len(s)
       /\ SubSeq(s, i, r.i) \in Types
       /\ r.item \in For(n, ReadBack[n][<< SubSeq(s, i, r.i), v >>])
  ELSE /\ IsError(r.error) /\ r.open \in BOOLEAN
       /\ \A e \in Nat : i <= e /\ e <= Len(s) /\ SubSeq(s, i, e) \in Types
                           => ReadBack[n][<< SubSeq(s, i, e), v >>] = {}

\* It does, for values that nest n deep.
Rightly(n) ==
  \A s \in Strings, i \in Nat, v \in Values[n], x \in Contexts :
    i >= 1 => Right(n, s, i, v, Appending[n][Call(s, i, v, x)])

\* The two kinds of results.
LEMMA DoneIs ==
  ASSUME NEW i, NEW item, NEW x, NEW r, r = Done(i, item, x)
  PROVE  r.ok /\ r.i = i /\ r.item = item /\ r.x = x
  BY Zenon DEF Done

\* And the other of the two.
LEMMA FailIs ==
  ASSUME NEW left, NEW error, NEW r, r = Fail(left, error)
  PROVE  ~ r.ok /\ r.open = left /\ r.error = error
  BY Zenon DEF Fail

--------------------------------------------------------------------------------
(* One type for each value *)

\* The next type ends where the grammar says, or there is none.
LEMMA TypeEndNext ==
  ASSUME NEW s \in Strings, NEW k \in Nat, k # 0, TypeEnd(s, k - 1) \in 0..Len(s)
  PROVE  \/ /\ TypeEnd(s, k) = Len(s) + 1 /\ TypeAt(s, k) = << >>
            /\ \A e \in Nat : TypeEnd(s, k - 1) + 1 <= e /\ e <= Len(s)
                                => SubSeq(s, TypeEnd(s, k - 1) + 1, e) \notin Types
         \/ /\ TypeEnd(s, k) \in Nat /\ TypeEnd(s, k - 1) < TypeEnd(s, k)
            /\ TypeEnd(s, k) <= Len(s)
            /\ SubSeq(s, TypeEnd(s, k - 1) + 1, TypeEnd(s, k)) \in Types
            /\ TypeAt(s, k) = SubSeq(s, TypeEnd(s, k - 1) + 1, TypeEnd(s, k))
<1> DEFINE p == TypeEnd(s, k - 1)
<1>1. p \in Nat /\ p <= Len(s) /\ Len(s) \in Nat
  BY StringsAre
<1>2. TypeEnd(s, k) = EndAfter(s, p)
  BY TypeEndIs
<1> HIDE DEF p
<1>3. CASE Ends(s, p) = {}
  <2>1. TypeEnd(s, k) = Len(s) + 1
    BY <1>2, <1>3 DEF EndAfter
  <2>2. TypeAt(s, k) = << >>
    BY <1>1, <2>1 DEF TypeAt
  <2>3. \A e \in Nat : p + 1 <= e /\ e <= Len(s) => SubSeq(s, p + 1, e) \notin Types
    <3>1. \A e \in (p + 1)..Len(s) : SubSeq(s, p + 1, e) \notin Types
      BY <1>3 DEF Ends
    <3> QED
      BY <1>1, <3>1
  <2> QED
    BY <2>1, <2>2, <2>3 DEF p
<1>4. CASE Ends(s, p) # {}
  <2>1. EndAfter(s, p) \in Ends(s, p)
    BY <1>4, Zenon DEF EndAfter
  <2>2. /\ TypeEnd(s, k) \in (p + 1)..Len(s)
        /\ SubSeq(s, p + 1, TypeEnd(s, k)) \in Types
    BY <1>2, <2>1, Zenon DEF Ends
  <2>3. TypeEnd(s, k) \in Nat /\ p < TypeEnd(s, k) /\ TypeEnd(s, k) <= Len(s)
    BY <1>1, <2>2
  <2>4. TypeAt(s, k) = SubSeq(s, p + 1, TypeEnd(s, k))
    <3>1. ~ (TypeEnd(s, k) > Len(s))
      BY <1>1, <2>3
    <3> QED
      BY <3>1, Zenon DEF TypeAt, p
  <2> QED
    BY <2>2, <2>3, <2>4 DEF p
<1> QED
  BY <1>3, <1>4

\* No value reads back if the type is none.
LEMMA NoTypeReadsBack ==
  ASSUME NEW n \in Nat, NEW t \in Strings, t \notin Types, NEW v \in Values[n]
  PROVE  ReadBack[n][<< t, v >>] = {}
  BY BackOf, NoTypeNoBack, Zenon

\* The items that are right for values of which each has its set in B.
Each(n, B) == [j \in DOMAIN B |-> For(n, B[j])]

\* What reading gives of values that are written with the types in s, one for each.
TypeBacks(n, s, vals) == [j \in 1..Len(vals) |-> ReadBack[n][<< TypeAt(s, j), vals[j] >>]]

\* The loop of append_struct_type and that of append_data are right for each value, if
\* append_complete_type is for values that nest n deep.
LEMMA TypesRight ==
  ASSUME NEW n \in Nat, Rightly(n), NEW s \in Strings, NEW vals \in Seq(Values[n]),
         NEW loop \in {"struct", "arguments"}
  PROVE  EachRight(Appending[n], loop, s, vals,
                   Each(n, TypeBacks(n, s, vals)), TypeBacks(n, s, vals))
<1> DEFINE B == TypeBacks(n, s, vals)
           W == Each(n, B)
           V == Values[n]
<1> SUFFICES ASSUME NEW j \in 1..Len(vals), NEW to,
                    to.x \in Contexts, to.i \in Nat, Cursor(loop, s, to.i, j - 1)
             PROVE  OneRight(loop, s, W, B, j, AppendOne(Appending[n], loop, s, to, vals[j]))
  BY Zenon DEF EachRight
<1>1. /\ vals[j] \in Values[n] /\ j \in Nat /\ j # 0 /\ j - 1 \in Nat /\ Len(s) \in Nat
      /\ Len(vals) \in Nat
  <2>1. vals \in Seq(V)
    OBVIOUS
  <2> HIDE DEF V
  <2>2. vals[j] \in V /\ j \in Nat /\ j # 0 /\ j - 1 \in Nat /\ Len(vals) \in Nat
    BY <2>1
  <2> QED
    BY <2>2, StringsAre DEF V
<1> HIDE DEF V
<1> DEFINE p == TypeEnd(s, j - 1)
           one == AppendOne(Appending[n], loop, s, to, vals[j])
<1>2. p \in Nat /\ p <= Len(s) /\ to.i = p + 1 /\ p \in 0..Len(s)
  BY <1>1 DEF Cursor
<1>3. /\ B[j] = ReadBack[n][<< TypeAt(s, j), vals[j] >>]
      /\ W[j] = For(n, ReadBack[n][<< TypeAt(s, j), vals[j] >>])
  BY Zenon DEF Each, TypeBacks
<1>4. \/ /\ TypeEnd(s, j) = Len(s) + 1 /\ TypeAt(s, j) = << >>
         /\ \A e \in Nat : p + 1 <= e /\ e <= Len(s) => SubSeq(s, p + 1, e) \notin Types
      \/ /\ TypeEnd(s, j) \in Nat /\ p < TypeEnd(s, j)
         /\ TypeEnd(s, j) <= Len(s)
         /\ SubSeq(s, p + 1, TypeEnd(s, j)) \in Types
         /\ TypeAt(s, j) = SubSeq(s, p + 1, TypeEnd(s, j))
  BY <1>1, <1>2, TypeEndNext
<1> HIDE DEF B, W, p
<1>5. ASSUME TypeAt(s, j) = << >>
      PROVE  B[j] = {}
  <2>1. << >> \in Strings /\ << >> \notin Types
    <3>1. << >> \in Strings
      BY Substrings DEF HasSubstrings
    <3>2. ASSUME << >> \in Types
          PROVE  FALSE
      <4>1. Len(<< >>) >= 1
        BY <3>2, TypesAre
      <4> QED
        BY <4>1
    <3> QED
      BY <3>1, <3>2
  <2> QED
    BY <1>1, <1>3, <1>5, <2>1, NoTypeReadsBack
<1>6. CASE to.i > Len(s)
  <2>1. one = Fail(FALSE, OtherError)
    <3>1. loop # "array" /\ loop # "dict"
      OBVIOUS
    <3> QED
      BY <1>6, <3>1 DEF AppendOne
  <2>2. B[j] = {}
    <3>1. TypeAt(s, j) = << >>
      BY <1>1, <1>2, <1>4, <1>6
    <3> QED
      BY <1>5, <3>1
  <2> HIDE DEF one
  <2>3. ~ one.ok /\ IsError(one.error) /\ one.open \in BOOLEAN
    <3>1. ~ one.ok /\ one.open = FALSE /\ one.error = OtherError
      BY <2>1, FailIs, Zenon
    <3> QED
      BY <3>1, ErrorsAre, Zenon
  <2>4. OneRight(loop, s, W, B, j, one)
    BY <2>2, <2>3, Zenon DEF OneRight
  <2> QED
    BY <2>4 DEF one
<1>7. CASE ~ (to.i > Len(s))
  <2> DEFINE x == IF loop = "arguments" THEN Inc(to.x) ELSE to.x
  <2>1. one = Appending[n][Call(s, to.i, vals[j], x)]
    <3>1. loop # "array" /\ loop # "dict"
      OBVIOUS
    <3> QED
      BY <1>7, <3>1 DEF AppendOne
  <2>2. x \in Contexts
    BY ContextsStay
  <2> HIDE DEF x, one
  <2>3. Right(n, s, p + 1, vals[j], one)
    <3>1. p + 1 \in Nat /\ p + 1 >= 1
      BY <1>2
    <3> QED
      BY <1>1, <1>2, <2>1, <2>2, <3>1, Zenon DEF Rightly
  <2>4. CASE one.ok
    <3>1. /\ one.x \in Contexts /\ one.i \in Nat /\ p + 1 <= one.i /\ one.i <= Len(s)
          /\ SubSeq(s, p + 1, one.i) \in Types
          /\ one.item \in For(n, ReadBack[n][<< SubSeq(s, p + 1, one.i), vals[j] >>])
      BY <2>3, <2>4, Zenon DEF Right
    <3>2. TypeEnd(s, j) = one.i /\ TypeAt(s, j) = SubSeq(s, p + 1, one.i)
      <4>1. /\ TypeEnd(s, j) \in Nat /\ p < TypeEnd(s, j) /\ TypeEnd(s, j) <= Len(s)
            /\ SubSeq(s, p + 1, TypeEnd(s, j)) \in Types
            /\ TypeAt(s, j) = SubSeq(s, p + 1, TypeEnd(s, j))
        BY <1>4, <3>1, Zenon
      <4> DEFINE i == p + 1
                 d == TypeEnd(s, j)
                 e == one.i
      <4>2. i \in Nat /\ i >= 1 /\ d \in Nat /\ i <= d /\ d <= Len(s) /\ e \in Nat /\ i <= e /\ e <= Len(s)
        BY <1>2, <3>1, <4>1
      <4>3. SubSeq(s, i, d) \in Types /\ SubSeq(s, i, e) \in Types
        BY <3>1, <4>1
      <4> HIDE DEF i, d, e
      <4>4. d = e
        BY <4>2, <4>3, OneTypeStarts
      <4> QED
        BY <4>1, <4>4 DEF d, e
    <3>3. one.item \in W[j]
      BY <1>3, <3>1, <3>2
    <3>4. Cursor(loop, s, one.i + 1, j)
      BY <1>1, <3>1, <3>2 DEF Cursor
    <3>5. OneRight(loop, s, W, B, j, one)
      BY <2>4, <3>1, <3>3, <3>4, Zenon DEF OneRight
    <3> QED
      BY <3>5 DEF one
  <2>5. CASE ~ one.ok
    <3>1. /\ IsError(one.error) /\ one.open \in BOOLEAN
          /\ \A e \in Nat : p + 1 <= e /\ e <= Len(s) /\ SubSeq(s, p + 1, e) \in Types
                              => ReadBack[n][<< SubSeq(s, p + 1, e), vals[j] >>] = {}
      BY <2>3, <2>5, Zenon DEF Right
    <3>2. B[j] = {}
      <4>1. CASE TypeAt(s, j) = << >>
        BY <1>5, <4>1
      <4>2. CASE TypeAt(s, j) # << >>
        <5>1. /\ TypeEnd(s, j) \in Nat /\ p < TypeEnd(s, j) /\ TypeEnd(s, j) <= Len(s)
              /\ SubSeq(s, p + 1, TypeEnd(s, j)) \in Types
              /\ TypeAt(s, j) = SubSeq(s, p + 1, TypeEnd(s, j))
          BY <1>4, <4>2
        <5>2. p + 1 <= TypeEnd(s, j)
          BY <1>2, <5>1
        <5> QED
          BY <1>3, <3>1, <5>1, <5>2, Zenon
      <4> QED
        BY <4>1, <4>2
    <3>3. OneRight(loop, s, W, B, j, one)
      BY <2>5, <3>1, <3>2, Zenon DEF OneRight
    <3> QED
      BY <3>3 DEF one
  <2> QED
    BY <2>4, <2>5
<1> QED
  BY <1>6, <1>7

--------------------------------------------------------------------------------
(* One type for all values *)

\* What writing a value with a whole type s comes to.
LEMMA WholeRight ==
  ASSUME NEW n \in Nat, Rightly(n), NEW s \in Types, NEW v \in Values[n], NEW x \in Contexts,
         NEW r, r = Appending[n][Call(s, 1, v, x)]
  PROVE  /\ r.ok => /\ r.x \in Contexts /\ r.i \in Nat
                    /\ r.item \in For(n, ReadBack[n][<< s, v >>])
         /\ ~ r.ok => /\ IsError(r.error) /\ r.open \in BOOLEAN
                      /\ ReadBack[n][<< s, v >>] = {}
<1>1. s \in Strings /\ Len(s) \in Nat /\ Len(s) >= 1 /\ SubSeq(s, 1, Len(s)) = s
  BY TypesAre, WholeIs
<1>2. Right(n, s, 1, v, r)
  <2>1. 1 \in Nat /\ 1 >= 1
    OBVIOUS
  <2> QED
    BY <1>1, <2>1, Zenon DEF Rightly
<1>3. CASE r.ok
  <2>1. /\ r.x \in Contexts /\ r.i \in Nat /\ 1 <= r.i /\ r.i <= Len(s)
        /\ SubSeq(s, 1, r.i) \in Types
        /\ r.item \in For(n, ReadBack[n][<< SubSeq(s, 1, r.i), v >>])
    BY <1>2, <1>3, Zenon DEF Right
  <2>2. r.i = Len(s)
    <3> DEFINE i == 1
               d == r.i
               e == Len(s)
    <3>1. i \in Nat /\ i >= 1 /\ d \in Nat /\ i <= d /\ d <= Len(s) /\ e \in Nat /\ i <= e /\ e <= Len(s)
      BY <1>1, <2>1
    <3>2. SubSeq(s, i, d) \in Types /\ SubSeq(s, i, e) \in Types
      BY <1>1, <2>1
    <3> HIDE DEF i, d, e
    <3>3. d = e
      BY <1>1, <3>1, <3>2, OneTypeStarts
    <3> QED
      BY <3>3 DEF d, e
  <2> QED
    BY <1>1, <1>3, <2>1, <2>2, Zenon
<1>4. CASE ~ r.ok
  <2>1. /\ IsError(r.error) /\ r.open \in BOOLEAN
        /\ \A e \in Nat : 1 <= e /\ e <= Len(s) /\ SubSeq(s, 1, e) \in Types
                            => ReadBack[n][<< SubSeq(s, 1, e), v >>] = {}
    BY <1>2, <1>4, Zenon DEF Right
  <2>2. 1 <= Len(s) /\ Len(s) <= Len(s)
    BY <1>1
  <2> QED
    BY <1>1, <1>4, <2>1, <2>2, Zenon
<1> QED
  BY <1>3, <1>4

\* In the loops over the elements of an array the cursor says nothing.
LEMMA CursorElsewhere ==
  ASSUME NEW loop, loop \notin {"struct", "arguments"}, NEW s, NEW i, NEW k
  PROVE  Cursor(loop, s, i, k)
  BY Zenon DEF Cursor

\* What reading gives of values that are all written with the type s.
WholeBacks(n, s, vals) == [j \in 1..Len(vals) |-> ReadBack[n][<< s, vals[j] >>]]

\* The loop of append_array_type is right for each element.
LEMMA ElementsRight ==
  ASSUME NEW n \in Nat, Rightly(n), NEW s \in Types, NEW vals \in Seq(Values[n])
  PROVE  EachRight(Appending[n], "array", s, vals,
                   Each(n, WholeBacks(n, s, vals)), WholeBacks(n, s, vals))
<1> DEFINE B == WholeBacks(n, s, vals)
           W == Each(n, B)
           V == Values[n]
<1> SUFFICES ASSUME NEW j \in 1..Len(vals), NEW to,
                    to.x \in Contexts
             PROVE  OneRight("array", s, W, B, j, AppendOne(Appending[n], "array", s, to, vals[j]))
  BY Zenon DEF EachRight
<1>1. vals[j] \in Values[n]
  <2>1. vals \in Seq(V)
    OBVIOUS
  <2> HIDE DEF V
  <2>2. vals[j] \in V
    BY <2>1
  <2> QED
    BY <2>2 DEF V
<1> HIDE DEF V
<1>2. /\ B[j] = ReadBack[n][<< s, vals[j] >>]
      /\ W[j] = For(n, ReadBack[n][<< s, vals[j] >>])
  BY Zenon DEF Each, WholeBacks
<1> DEFINE one == AppendOne(Appending[n], "array", s, to, vals[j])
<1>3. one = Appending[n][Call(s, 1, vals[j], to.x)]
  BY DEF AppendOne
<1> HIDE DEF B, W, one
<1>4. /\ one.ok => /\ one.x \in Contexts /\ one.i \in Nat
                   /\ one.item \in For(n, ReadBack[n][<< s, vals[j] >>])
      /\ ~ one.ok => /\ IsError(one.error) /\ one.open \in BOOLEAN
                     /\ ReadBack[n][<< s, vals[j] >>] = {}
  BY <1>1, <1>3, WholeRight
<1>5. \A i, k : Cursor("array", s, i, k)
  BY CursorElsewhere
<1>6. OneRight("array", s, W, B, j, one)
  BY <1>2, <1>4, <1>5, Zenon DEF OneRight
<1> QED
  BY <1>6 DEF one

--------------------------------------------------------------------------------
(* Basic values *)

\* The result r of writing v with the basic type at i of s.
BasicResult(s, i, v, x, r) ==
  IF Accepts(s[i], v)
  THEN /\ r.ok /\ r.i = i /\ r.x = x
       /\ r.item = Item(s[i], << >>, << v >>) /\ r.item \in Leaves
       /\ \A k \in Nat : Reading[k][r.item] = v
  ELSE ~ r.ok /\ IsError(r.error) /\ r.open = FALSE

\* append_basic_type is right.
LEMMA BasicRight ==
  ASSUME NEW n \in Nat, NEW s, NEW i, NEW v \in Values[n], NEW x, s[i] \in Basic
  PROVE  BasicResult(s, i, v, x, AppendBasic(s, i, v, x))
<1>1. CASE Accepts(s[i], v)
  <2>1. AppendBasic(s, i, v, x) = Done(i, Item(s[i], << >>, << v >>), x)
    BY <1>1, Zenon DEF AppendBasic
  <2>2. v \in Atoms
    BY <1>1, AtomsAre
  <2> DEFINE item == Item(s[i], << >>, << v >>)
  <2>3. item \in Leaves /\ item.items[1] = v
    <3> HIDE DEF Atoms
    <3>1. << v >> \in Seq(Atoms) /\ << v >>[1] = v
      BY <2>2
    <3> QED
      BY <3>1 DEF Item, Leaves
  <2> HIDE DEF item
  <2>4. \A k \in Nat : Reading[k][item] = v
    BY <2>3, ReadingOf
  <2> DEFINE r == AppendBasic(s, i, v, x)
  <2>5. r = Done(i, item, x)
    BY <2>1 DEF item
  <2> HIDE DEF r
  <2>6. r.ok /\ r.i = i /\ r.item = item /\ r.x = x
    BY <2>5, Zenon DEF Done
  <2> QED
    BY <1>1, <2>3, <2>4, <2>6, Zenon DEF item, r, BasicResult
<1>2. CASE ~ Accepts(s[i], v)
  <2>1. AppendBasic(s, i, v, x) = Fail(FALSE, TypeError(x, v))
    BY <1>2, Zenon DEF AppendBasic
  <2> DEFINE r == AppendBasic(s, i, v, x)
             e == TypeError(x, v)
  <2>2. r = Fail(FALSE, e)
    BY <2>1
  <2> HIDE DEF r, e
  <2>3. ~ r.ok /\ r.open = FALSE /\ r.error = e
    BY <2>2 DEF Fail
  <2>4. IsError(e)
    BY ErrorsAre, Zenon DEF e
  <2> QED
    BY <1>2, <2>3, <2>4, Zenon DEF r, BasicResult
<1> QED
  BY <1>1, <1>2

--------------------------------------------------------------------------------
(* The entries of a dictionary *)

\* Entries that read back as one of R.
ForEntry(n, R) ==
  {item \in EntriesOf(Items[n + 1]) : Tuple(Contents(Reading[n + 1], item)) \in R}

\* The entries that read back as the pairs in B, for each.
EachEntry(n, B) == [j \in DOMAIN B |-> ForEntry(n, B[j])]

\* What reading gives of the entries of a dictionary.
EntryBacks(n, c, type, vals) ==
  [j \in 1..Len(vals) |-> PairBack(ReadBack[n], c, type, vals[j].items)]

\* The value of an entry follows its key, and ends with it.
LEMMA EntryValueRight ==
  ASSUME NEW n \in Nat, Rightly(n), NEW s \in Strings, NEW v \in Values[n],
         NEW x \in Contexts, Len(s) >= 2, SubSeq(s, 2, Len(s)) \in Types,
         NEW r, r = Appending[n][Call(s, 2, v, x)]
  PROVE  /\ r.ok => /\ r.x \in Contexts /\ r.i \in Nat
                    /\ r.item \in For(n, ReadBack[n][<< SubSeq(s, 2, Len(s)), v >>])
         /\ ~ r.ok => /\ IsError(r.error) /\ r.open \in BOOLEAN
                      /\ ReadBack[n][<< SubSeq(s, 2, Len(s)), v >>] = {}
<1>1. Len(s) \in Nat
  BY StringsAre
<1> DEFINE i == 2
           e == Len(s)
<1>2. i \in Nat /\ i >= 1 /\ e \in Nat /\ i <= e /\ e <= Len(s) /\ SubSeq(s, i, e) \in Types
  BY <1>1
<1>3. Right(n, s, i, v, r)
  <2>1. r = Appending[n][Call(s, i, v, x)]
    OBVIOUS
  <2> HIDE DEF i
  <2> QED
    BY <1>2, <2>1, Zenon DEF Rightly
<1> HIDE DEF i, e
<1>4. CASE r.ok
  <2>1. /\ r.x \in Contexts /\ r.i \in Nat /\ i <= r.i /\ r.i <= Len(s)
        /\ SubSeq(s, i, r.i) \in Types
        /\ r.item \in For(n, ReadBack[n][<< SubSeq(s, i, r.i), v >>])
    BY <1>3, <1>4, Zenon DEF Right
  <2>2. r.i = e
    BY <1>2, <2>1, OneTypeStarts
  <2> QED
    BY <1>4, <2>1, <2>2, Zenon DEF i, e
<1>5. CASE ~ r.ok
  <2>1. /\ IsError(r.error) /\ r.open \in BOOLEAN
        /\ \A d \in Nat : i <= d /\ d <= Len(s) /\ SubSeq(s, i, d) \in Types
                            => ReadBack[n][<< SubSeq(s, i, d), v >>] = {}
    BY <1>3, <1>5, Zenon DEF Right
  <2>2. ReadBack[n][<< SubSeq(s, i, e), v >>] = {}
    BY <1>2, <2>1, Zenon
  <2> QED
    BY <1>5, <2>1, <2>2, Zenon DEF i, e
<1> QED
  BY <1>4, <1>5

\* The result of one entry is right for the set R of what it may read back as.
EntryResult(n, R, one) ==
  IF one.ok THEN one.x \in Contexts /\ one.i \in Nat /\ one.item \in ForEntry(n, R)
            ELSE IsError(one.error) /\ one.open \in BOOLEAN /\ R = {}

\* An entry is right if its value is: append_dict_type writes the key with the first
\* character and the value with the rest.
LEMMA OneEntryRight ==
  ASSUME NEW n \in Nat, Rightly(n), NEW s \in Strings, Len(s) >= 2, s[1] \in Basic,
         SubSeq(s, 2, Len(s)) \in Types,
         NEW kv, kv.items[1] \in Values[n], kv.items[2] \in Values[n], NEW x \in Contexts,
         NEW one, one = AppendEntry(Appending[n], s, kv, x),
         NEW R, R = PairBack(ReadBack[n], s[1], SubSeq(s, 2, Len(s)), kv.items)
  PROVE  EntryResult(n, R, one)
<1> DEFINE k == kv.items[1]
           w == kv.items[2]
           type == SubSeq(s, 2, Len(s))
           key == AppendBasic(s, 1, k, x)
           value == Appending[n][Call(s, 2, w, key.x)]
<1>1. one = IF ~ key.ok THEN key
            ELSE IF ~ value.ok THEN value
            ELSE Done(1, Item(EntryOpen, s, << key.item, value.item >>), value.x)
  BY Zenon DEF AppendEntry
<1>2. /\ R = {Tuple(<< k, u >>) : u \in IF Accepts(s[1], k) THEN ReadBack[n][<< type, w >>] ELSE {}}
      /\ k \in Values[n] /\ w \in Values[n]
  BY Zenon DEF PairBack
<1> HIDE DEF k, w
<1>3. BasicResult(s, 1, k, x, key)
  BY <1>2, BasicRight, Zenon
<1>4. CASE ~ Accepts(s[1], k)
  <2>1. R = {}
    BY <1>2, <1>4, Zenon
  <2> HIDE DEF key, value
  <2>2. one = key
    BY <1>1, <1>3, <1>4, Zenon DEF BasicResult
  <2>3. ~ one.ok /\ IsError(one.error) /\ one.open \in BOOLEAN
    <3>1. FALSE \in BOOLEAN
      OBVIOUS
    <3> QED
      BY <1>3, <1>4, <2>2, <3>1, Zenon DEF BasicResult
  <2> QED
    BY <2>1, <2>3, Zenon DEF EntryResult
<1>5. CASE Accepts(s[1], k)
  <2>1. /\ key.ok /\ key.x = x /\ key.item \in Leaves
        /\ Reading[n + 1][key.item] = k
    <3>1. n + 1 \in Nat
      OBVIOUS
    <3> QED
      BY <1>3, <1>5, <3>1, Zenon DEF BasicResult
  <2> HIDE DEF key
  <2>2. /\ value.ok => /\ value.x \in Contexts /\ value.i \in Nat
                       /\ value.item \in For(n, ReadBack[n][<< type, w >>])
        /\ ~ value.ok => /\ IsError(value.error) /\ value.open \in BOOLEAN
                         /\ ReadBack[n][<< type, w >>] = {}
    <3>1. key.x \in Contexts
      BY <2>1
    <3> QED
      BY <1>2, <3>1, EntryValueRight
  <2> HIDE DEF value, type
  <2>3. CASE ~ value.ok
    <3>1. one = value
      BY <1>1, <2>1, <2>3, Zenon
    <3>2. R = {}
      BY <1>2, <2>2, <2>3, Zenon
    <3> QED
      BY <2>2, <2>3, <3>1, <3>2, Zenon DEF EntryResult
  <2>4. CASE value.ok
    <3> DEFINE item == Item(EntryOpen, s, << key.item, value.item >>)
    <3>1. one = Done(1, item, value.x)
      BY <1>1, <2>1, <2>4, Zenon
    <3>2. /\ value.item \in Items[n + 1] /\ key.item \in Items[n + 1]
          /\ Reading[n + 1][value.item] \in ReadBack[n][<< type, w >>]
      <4>1. value.item \in For(n, ReadBack[n][<< type, w >>])
        BY <2>2, <2>4
      <4>2. n + 1 \in Nat
        OBVIOUS
      <4>3. key.item \in Items[n + 1]
        BY <2>1, <4>2, ItemsAre
      <4> QED
        BY <4>1, <4>3, Zenon DEF For
    <3>3. Tuple(Contents(Reading[n + 1], item)) \in R
      <4> DEFINE u == Reading[n + 1][value.item]
      <4>1. item.items = << key.item, value.item >>
        BY DEF Item
      <4>2. Contents(Reading[n + 1], item) = << k, u >>
        <5> HIDE DEF item
        <5>1. Contents(Reading[n + 1], item) = [j \in 1..2 |-> Reading[n + 1][<< key.item, value.item >>[j]]]
          BY <4>1 DEF Contents
        <5>2. << key.item, value.item >>[1] = key.item /\ << key.item, value.item >>[2] = value.item
          OBVIOUS
        <5> QED
          BY <2>1, <5>1, <5>2
      <4>3. u \in IF Accepts(s[1], k) THEN ReadBack[n][<< type, w >>] ELSE {}
        BY <1>5, <3>2
      <4> HIDE DEF item, u
      <4> QED
        BY <1>2, <4>2, <4>3, Zenon
    <3>4. item \in EntriesOf(Items[n + 1])
      <4> DEFINE I == Items[n + 1]
      <4>1. value.item \in I /\ key.item \in I
        BY <3>2
      <4> HIDE DEF I
      <4>2. << key.item, value.item >> \in Seq(I)
        BY <4>1
      <4>3. item \in EntriesOf(I)
        BY <4>2 DEF Item, EntriesOf
      <4> QED
        BY <4>3 DEF I
    <3>5. item \in ForEntry(n, R)
      BY <3>3, <3>4, Zenon DEF ForEntry
    <3> HIDE DEF item
    <3>6. one.ok /\ one.i = 1 /\ one.item = item /\ one.x = value.x
      BY <3>1 DEF Done
    <3>7. 1 \in Nat
      OBVIOUS
    <3> QED
      BY <2>2, <2>4, <3>5, <3>6, <3>7, Zenon DEF EntryResult
  <2> QED
    BY <2>3, <2>4
<1> QED
  BY <1>4, <1>5

\* The loop of append_dict_type is right for each entry.
LEMMA EntriesRight ==
  ASSUME NEW n \in Nat, Rightly(n), NEW s \in Strings, Len(s) >= 2, s[1] \in Basic,
         NEW type, type = SubSeq(s, 2, Len(s)), type \in Types,
         NEW vals, Len(vals) \in Nat,
         \A j \in 1..Len(vals) : /\ vals[j].items[1] \in Values[n]
                                 /\ vals[j].items[2] \in Values[n]
  PROVE  EachRight(Appending[n], "dict", s, vals,
                   EachEntry(n, EntryBacks(n, s[1], type, vals)), EntryBacks(n, s[1], type, vals))
<1> DEFINE B == EntryBacks(n, s[1], type, vals)
           W == EachEntry(n, B)
<1> SUFFICES ASSUME NEW j \in 1..Len(vals), NEW to,
                    to.x \in Contexts
             PROVE  OneRight("dict", s, W, B, j, AppendOne(Appending[n], "dict", s, to, vals[j]))
  BY Zenon DEF EachRight
<1> DEFINE R == PairBack(ReadBack[n], s[1], type, vals[j].items)
           one == AppendOne(Appending[n], "dict", s, to, vals[j])
<1>1. B[j] = R /\ W[j] = ForEntry(n, R)
  BY Zenon DEF EachEntry, EntryBacks
<1>2. one = AppendEntry(Appending[n], s, vals[j], to.x)
  BY DEF AppendOne
<1> HIDE DEF B, W, one, R
<1>3. EntryResult(n, R, one)
  <2> DEFINE kv == vals[j]
             x == to.x
  <2>1. R = PairBack(ReadBack[n], s[1], SubSeq(s, 2, Len(s)), kv.items)
    BY DEF R
  <2>2. /\ one = AppendEntry(Appending[n], s, kv, x) /\ x \in Contexts
        /\ kv.items[1] \in Values[n] /\ kv.items[2] \in Values[n]
        /\ SubSeq(s, 2, Len(s)) \in Types
    BY <1>2
  <2> HIDE DEF kv, x
  <2> QED
    BY <2>1, <2>2, OneEntryRight
<1>4. \A i, k : Cursor("dict", s, i, k)
  BY CursorElsewhere
<1>5. OneRight("dict", s, W, B, j, one)
  BY <1>1, <1>3, <1>4, Zenon DEF OneRight, EntryResult
<1> QED
  BY <1>5 DEF one

--------------------------------------------------------------------------------
(* Results *)

\* What reading gives back for a value of type t that nests n deep.
Backs(n, t, v) == Back(Below(ReadBack, n), t, v)

\* An error is right if no type at the cursor fits the value.
LEMMA FailRight ==
  ASSUME NEW n \in Nat, NEW s \in Strings, NEW i \in Nat, i >= 1, NEW v \in Values[n],
         NEW left \in BOOLEAN, NEW error, IsError(error), NEW r, r = Fail(left, error),
         \A e \in Nat : i <= e /\ e <= Len(s) /\ SubSeq(s, i, e) \in Types
                          => Backs(n, SubSeq(s, i, e), v) = {}
  PROVE  Right(n, s, i, v, r)
<1>1. ~ r.ok /\ r.open = left /\ r.error = error
  BY DEF Fail
<1>2. ASSUME NEW e \in Nat, i <= e, e <= Len(s), SubSeq(s, i, e) \in Types
      PROVE  ReadBack[n][<< SubSeq(s, i, e), v >>] = {}
  <2>1. SubSeq(s, i, e) \in Strings
    BY <1>2, PartIs
  <2>2. ReadBack[n][<< SubSeq(s, i, e), v >>] = Backs(n, SubSeq(s, i, e), v)
    BY <2>1, BackOf, Zenon DEF Backs
  <2> QED
    BY <1>2, <2>2, Zenon
<1> QED
  BY <1>1, <1>2, Zenon DEF Right

\* If the type at i is known, v only has to misfit that one.
LEMMA FailAtRight ==
  ASSUME NEW n \in Nat, NEW s \in Strings, NEW i \in Nat, i >= 1, NEW v \in Values[n],
         NEW left \in BOOLEAN, NEW error, IsError(error), NEW r, r = Fail(left, error),
         NEW e \in Nat, i <= e, e <= Len(s), SubSeq(s, i, e) \in Types,
         Backs(n, SubSeq(s, i, e), v) = {}
  PROVE  Right(n, s, i, v, r)
<1>1. ASSUME NEW d \in Nat, i <= d, d <= Len(s), SubSeq(s, i, d) \in Types
      PROVE  Backs(n, SubSeq(s, i, d), v) = {}
  <2>1. d = e
    BY <1>1, OneTypeStarts
  <2> QED
    BY <2>1, Zenon
<1> QED
  BY <1>1, FailRight, Zenon

\* A success is right if what was written reads back as a value of the type there.
LEMMA DoneRight ==
  ASSUME NEW n \in Nat, NEW s \in Strings, NEW i \in Nat, i >= 1, NEW v \in Values[n],
         NEW e \in Nat, i <= e, e <= Len(s), SubSeq(s, i, e) \in Types,
         NEW item \in Items[n + 1], NEW x \in Contexts, NEW r, r = Done(e, item, x),
         Reading[n + 1][item] \in Backs(n, SubSeq(s, i, e), v)
  PROVE  Right(n, s, i, v, r)
<1>1. r.ok /\ r.i = e /\ r.item = item /\ r.x = x
  BY DEF Done
<1>2. SubSeq(s, i, e) \in Strings
  BY PartIs
<1>3. ReadBack[n][<< SubSeq(s, i, e), v >>] = Backs(n, SubSeq(s, i, e), v)
  BY <1>2, BackOf, Zenon DEF Backs
<1>4. item \in For(n, ReadBack[n][<< SubSeq(s, i, e), v >>])
  BY <1>3, Zenon DEF For
<1> QED
  BY <1>1, <1>4, Zenon DEF Right

\* The type at i, and its first character.
LEMMA TypeStarts ==
  ASSUME NEW s \in Strings, NEW i \in Nat, i >= 1, NEW e \in Nat, i <= e, e <= Len(s),
         SubSeq(s, i, e) \in Types
  PROVE  /\ SubSeq(s, i, e)[1] = s[i] /\ Len(SubSeq(s, i, e)) = e - i + 1
         /\ s[i] = "(" => e > i + 1
         /\ s[i] = "a" => e > i
<1> DEFINE t == SubSeq(s, i, e)
<1>1. t \in Strings /\ Len(t) = e - i + 1 /\ t[1] = s[i]
  <2>1. 1 \in 1..(e - i + 1) /\ i + 1 - 1 = i
    OBVIOUS
  <2> QED
    BY <2>1, PartIs
<1> HIDE DEF t
<1>2. \/ Len(t) = 1 /\ t[1] \in Basic \cup {"v"}
      \/ Len(t) > 1 /\ t[1] = "a"
      \/ Len(t) > 2 /\ t[1] = "("
  BY Grammar DEF IsGrammar, t
<1>3. "a" \notin Basic \cup {"v"} /\ "(" \notin Basic \cup {"v"}
  BY DEF Basic
<1>4. (s[i] = "(" => e > i + 1) /\ (s[i] = "a" => e > i)
  BY <1>1, <1>2, <1>3
<1> QED
  BY <1>1, <1>4 DEF t

--------------------------------------------------------------------------------
(* Basic values and variants *)

\* append_complete_type is right for the level below n.
Under(n) == n # 0 => Rightly(n - 1)

\* A basic type is written right.
LEMMA BasicCase ==
  ASSUME NEW n \in Nat, NEW s \in Strings, NEW i \in Nat, i >= 1, i <= Len(s),
         s[i] \in Basic, NEW v \in Values[n], NEW x \in Contexts
  PROVE  Right(n, s, i, v, AppendBasic(s, i, v, x))
<1> DEFINE t == SubSeq(s, i, i)
           r == AppendBasic(s, i, v, x)
<1>1. t \in Types /\ t[1] = s[i] /\ i <= i
  <2>1. t \in Types /\ i <= i
    BY TypeOfOne
  <2> QED
    BY <2>1, TypeStarts
<1>2. Backs(n, t, v) = IF Accepts(s[i], v) THEN {v} ELSE {}
  <2> HIDE DEF t
  <2>1. t[1] \in Basic
    BY <1>1
  <2>2. Back(Below(ReadBack, n), t, v) = IF Accepts(t[1], v) THEN {v} ELSE {}
    BY <1>1, <2>1, BackIs
  <2> QED
    BY <1>1, <2>2, Zenon DEF Backs
<1>3. CASE Accepts(s[i], v)
  <2> DEFINE item == Item(s[i], << >>, << v >>)
  <2>1. r = Done(i, item, x)
    BY <1>3, Zenon DEF AppendBasic
  <2> HIDE DEF r, t
  <2>2. item \in Leaves /\ \A k \in Nat : Reading[k][item] = v
    <3>1. BasicResult(s, i, v, x, AppendBasic(s, i, v, x))
      BY BasicRight
    <3> QED
      BY <1>3, <3>1, Zenon DEF BasicResult
  <2> HIDE DEF item
  <2>3. n + 1 \in Nat
    OBVIOUS
  <2>4. item \in Items[n + 1] /\ Reading[n + 1][item] = v
    BY <2>2, <2>3, ItemsAre
  <2>5. v \in Backs(n, t, v)
    BY <1>2, <1>3
  <2>6. SubSeq(s, i, i) \in Types /\ Reading[n + 1][item] \in Backs(n, SubSeq(s, i, i), v)
    BY <1>1, <2>4, <2>5 DEF t
  <2>7. Right(n, s, i, v, r)
    BY <1>1, <2>1, <2>4, <2>6, DoneRight
  <2> QED
    BY <2>7 DEF r
<1>4. CASE ~ Accepts(s[i], v)
  <2>1. r = Fail(FALSE, TypeError(x, v))
    BY <1>4, Zenon DEF AppendBasic
  <2> DEFINE error == TypeError(x, v)
  <2>2. IsError(error)
    BY ErrorsAre
  <2>3. Backs(n, t, v) = {}
    BY <1>2, <1>4, Zenon
  <2> HIDE DEF r, error
  <2>4. Right(n, s, i, v, r)
    BY <1>1, <2>1, <2>2, <2>3, FailAtRight DEF error
  <2> QED
    BY <2>4 DEF r
<1> QED
  BY <1>3, <1>4

\* A variant is written right, if what is in it is.
LEMMA VariantCase ==
  ASSUME NEW n \in Nat, Under(n), NEW s \in Strings, NEW i \in Nat, i >= 1, i <= Len(s),
         s[i] = "v", NEW v \in Values[n], NEW x \in Contexts
  PROVE  Right(n, s, i, v, AppendVariant(Below(Appending, n), i, v, x))
<1> DEFINE t == SubSeq(s, i, i)
           f == Below(Appending, n)
           back == Below(ReadBack, n)
           u == AppendVariant(f, i, v, x)
           sig == v.items[1].text
           w == v.items[2]
           r == f[Call(sig, 1, w, x)]
           Fit == v.kind = "tuple" /\ Len(v.items) = 2 /\ v.items[1].kind = "string"
           m == n - 1
<1>1. t \in Types /\ t[1] = "v" /\ i <= i
  <2>1. t \in Types /\ i <= i
    BY TypeOfOne
  <2> QED
    BY <2>1, TypeStarts
<1>2. Backs(n, t, v) = IF Fit THEN {Tuple(<< Str(sig), z >>) : z \in back[<< sig, w >>]} ELSE {}
  <2> HIDE DEF t, back
  <2>1. Back(back, t, v) =
              IF v.kind = "tuple" /\ Len(v.items) = 2 /\ v.items[1].kind = "string"
                THEN {Tuple(<< Str(v.items[1].text), z >>) :
                        z \in back[<< v.items[1].text, v.items[2] >>]}
                ELSE {}
    BY <1>1, BackIs
  <2> QED
    BY <2>1, Zenon DEF Backs, back
<1>3. u = IF v.kind # "tuple" THEN Fail(FALSE, TypeError(x, v))
          ELSE IF Len(v.items) # 2 \/ v.items[1].kind # "string" THEN Fail(FALSE, OtherError)
          ELSE IF sig \notin Types THEN Fail(FALSE, OtherError)
          ELSE IF r.ok THEN Done(i, Item("v", sig, << r.item >>), r.x)
          ELSE Fail(TRUE, r.error)
  BY Zenon DEF AppendVariant
<1>4. IsError(TypeError(x, v)) /\ IsError(OtherError)
  BY ErrorsAre, Zenon
<1>5. ASSUME NEW left \in BOOLEAN, NEW error, IsError(error), u = Fail(left, error),
             Backs(n, t, v) = {}
      PROVE  Right(n, s, i, v, u)
  <2> HIDE DEF u, f
  <2> QED
    BY <1>1, <1>5, FailAtRight
<1> HIDE DEF u, t
<1>6. CASE ~ Fit
  <2>1. Backs(n, t, v) = {}
    BY <1>2, <1>6, Zenon
  <2>2. u = Fail(FALSE, TypeError(x, v)) \/ u = Fail(FALSE, OtherError)
    <3> HIDE DEF r, f
    <3> QED
      BY <1>3, <1>6, Zenon
  <2>3. FALSE \in BOOLEAN
    OBVIOUS
  <2>4. Right(n, s, i, v, u)
    BY <1>4, <1>5, <2>1, <2>2, <2>3, Zenon
  <2> QED
    BY <2>4 DEF u, f
<1>7. CASE Fit
  <2>1. n # 0 /\ m \in Nat /\ m + 1 = n /\ f = Appending[m] /\ back = ReadBack[m] /\ Rightly(m)
    <3>1. n # 0
      BY <1>7, ValuesAre
    <3> QED
      BY <3>1, BelowIs DEF Under
  <2>2. v.items[1] \in Values[m] /\ w \in Values[m] /\ sig \in Strings
    <3> DEFINE V == Values[m]
    <3>1. v.items \in Seq(V)
      BY <1>7, ValuesAre
    <3> HIDE DEF V, m
    <3>2. v.items[1] \in V /\ w \in V
      BY <1>7, <3>1
    <3> QED
      BY <1>7, <2>1, <3>2, ValuesAre DEF V
  <2> HIDE DEF f, back, m
  <2>3. r = Appending[m][Call(sig, 1, w, x)]
    BY <2>1
  <2>4. Backs(n, t, v) = {Tuple(<< Str(sig), z >>) : z \in ReadBack[m][<< sig, w >>]}
    BY <1>2, <1>7, <2>1, Zenon
  <2> HIDE DEF r, w, sig
  <2>5. CASE sig \notin Types
    <3>1. ReadBack[m][<< sig, w >>] = {}
      BY <2>1, <2>2, <2>5, NoTypeReadsBack
    <3>2. Backs(n, t, v) = {}
      BY <2>4, <3>1, Zenon
    <3>3. u = Fail(FALSE, OtherError)
      BY <1>3, <1>7, <2>5, Zenon
    <3>4. FALSE \in BOOLEAN
      OBVIOUS
    <3>5. Right(n, s, i, v, u)
      BY <1>4, <1>5, <3>2, <3>3, <3>4, Zenon
    <3> QED
      BY <3>5 DEF u, f
  <2>6. CASE sig \in Types /\ ~ r.ok
    <3>1. IsError(r.error) /\ ReadBack[m][<< sig, w >>] = {}
      BY <2>1, <2>2, <2>3, <2>6, WholeRight
    <3>2. Backs(n, t, v) = {}
      BY <2>4, <3>1, Zenon
    <3>3. u = Fail(TRUE, r.error)
      BY <1>3, <1>7, <2>6, Zenon
    <3>4. TRUE \in BOOLEAN
      OBVIOUS
    <3>5. Right(n, s, i, v, u)
      BY <1>5, <3>1, <3>2, <3>3, <3>4, Zenon
    <3> QED
      BY <3>5 DEF u, f
  <2>7. CASE sig \in Types /\ r.ok
    <3>1. r.x \in Contexts /\ r.item \in For(m, ReadBack[m][<< sig, w >>])
      BY <2>1, <2>2, <2>3, <2>7, WholeRight
    <3> DEFINE item == Item("v", sig, << r.item >>)
               z == Reading[n][r.item]
               I == Items[n]
               all == << r.item >>
    <3>2. u = Done(i, item, r.x)
      BY <1>3, <1>7, <2>7, Zenon
    <3>3. r.item \in I /\ z \in ReadBack[m][<< sig, w >>]
      BY <2>1, <3>1, Zenon DEF For
    <3> HIDE DEF z, I
    <3>4. item \in Items[n + 1]
      <4>1. all \in Seq(I \cup EntriesOf(I)) /\ "v" \in {"v", "(", "a"}
        BY <3>3
      <4> HIDE DEF all
      <4>2. Item("v", sig, all) \in Items[n + 1]
        BY <2>2, <4>1, ItemsAre, Zenon DEF I
      <4> QED
        BY <4>2 DEF all
    <3>5. Reading[n + 1][item] = Tuple(<< Str(sig), z >>)
      <4>1. Reading[n + 1][item] = ReadComplete(Reading[n], item)
        BY <3>4, ReadingOf
      <4>2. item.type = "v" /\ item.sig = sig /\ item.items = all
        BY DEF Item
      <4> HIDE DEF item
      <4>3. ReadComplete(Reading[n], item) = Tuple(<< Str(sig) >> \o Contents(Reading[n], item))
        BY <4>2, ReadCompleteIs
      <4>4. Contents(Reading[n], item) = << z >>
        <5>1. Contents(Reading[n], item) = [j \in 1..Len(all) |-> Reading[n][all[j]]]
          BY <4>2, Zenon DEF Contents
        <5>2. Len(all) = 1 /\ all[1] = r.item
          OBVIOUS
        <5> HIDE DEF all
        <5>3. [j \in 1..Len(all) |-> Reading[n][all[j]]] = << z >>
          BY <5>2 DEF z
        <5> QED
          BY <5>1, <5>3
      <4>5. << Str(sig) >> \o << z >> = << Str(sig), z >>
        <5> DEFINE a == Str(sig)
        <5> HIDE DEF a
        <5>1. << a >> \o << z >> = << a, z >>
          <6> DEFINE C == {a, z}
                     p == << a >> \o << z >>
                     q == << a, z >>
          <6>1. << a >> \in Seq(C) /\ << z >> \in Seq(C) /\ q \in Seq(C)
            OBVIOUS
          <6>2. p \in Seq(C) /\ Len(p) = 2 /\ p[1] = a /\ p[2] = z
            BY <6>1, ConcatProperties
          <6>3. q[1] = a /\ q[2] = z /\ Len(q) = 2
            OBVIOUS
          <6> HIDE DEF p, q, C
          <6>4. p = q
            BY <6>1, <6>2, <6>3
          <6> QED
            BY <6>4 DEF p, q
        <5> QED
          BY <5>1 DEF a
      <4> QED
        BY <4>1, <4>3, <4>4, <4>5
    <3> HIDE DEF item
    <3>6. Reading[n + 1][item] \in Backs(n, SubSeq(s, i, i), v) /\ SubSeq(s, i, i) \in Types
      <4>1. Tuple(<< Str(sig), z >>) \in Backs(n, t, v)
        BY <2>4, <3>3, Zenon
      <4> QED
        BY <1>1, <3>5, <4>1 DEF t
    <3>7. Right(n, s, i, v, u)
      BY <1>1, <3>1, <3>2, <3>4, <3>6, DoneRight
    <3> QED
      BY <3>7 DEF u, f
  <2> QED
    BY <2>5, <2>6, <2>7
<1> QED
  BY <1>6, <1>7

--------------------------------------------------------------------------------
(* What the loops leave *)

\* A sequence of n elements of S.
LEMMA SeqOf ==
  ASSUME NEW T, NEW vals \in Seq(T), NEW S, \A j \in 1..Len(vals) : vals[j] \in S
  PROVE  vals \in Seq(S)
  OBVIOUS

\* Items that read back right, one by one, make right contents of a container,
LEMMA ItemsBack ==
  ASSUME NEW n \in Nat, NEW B, NEW k \in Nat, DOMAIN B = 1..k,
         NEW T, NEW vals \in Seq(T), Len(vals) = k,
         \A j \in 1..k : vals[j] \in Each(n, B)[j]
  PROVE  /\ vals \in Seq(Items[n + 1])
         /\ [j \in 1..k |-> Reading[n + 1][vals[j]]] \in OneOfEach(B)
<1>1. \A j \in 1..k : vals[j] \in Items[n + 1] /\ Reading[n + 1][vals[j]] \in B[j]
  <2>1. \A j \in 1..k : Each(n, B)[j] = For(n, B[j])
    BY Zenon DEF Each
  <2> QED
    BY <2>1, Zenon DEF For
<1> DEFINE I == Items[n + 1]
           ws == [j \in 1..k |-> Reading[n + 1][vals[j]]]
<1>2. vals \in Seq(I)
  <2>1. \A j \in 1..Len(vals) : vals[j] \in I
    BY <1>1, Zenon
  <2> HIDE DEF I
  <2> QED
    BY <2>1, SeqOf
<1>3. DOMAIN ws = 1..k /\ ws = [j \in 1..k |-> ws[j]] /\ \A j \in 1..k : ws[j] \in B[j]
  BY <1>1, Zenon
<1> HIDE DEF ws
<1>4. ws \in OneOfEach(B)
  BY <1>3, OneOfEachIs, Zenon
<1> QED
  BY <1>2, <1>4 DEF ws

\* and so do entries of a dictionary.
LEMMA EntriesBack ==
  ASSUME NEW n \in Nat, NEW B, NEW k \in Nat, DOMAIN B = 1..k,
         NEW T, NEW vals \in Seq(T), Len(vals) = k,
         \A j \in 1..k : vals[j] \in EachEntry(n, B)[j]
  PROVE  /\ vals \in Seq(EntriesOf(Items[n + 1]))
         /\ [j \in 1..k |-> Tuple(Contents(Reading[n + 1], vals[j]))] \in OneOfEach(B)
<1>1. \A j \in 1..k : /\ vals[j] \in EntriesOf(Items[n + 1])
                      /\ Tuple(Contents(Reading[n + 1], vals[j])) \in B[j]
  <2>1. \A j \in 1..k : EachEntry(n, B)[j] = ForEntry(n, B[j])
    BY Zenon DEF EachEntry
  <2> QED
    BY <2>1, Zenon DEF ForEntry
<1> DEFINE I == EntriesOf(Items[n + 1])
           ws == [j \in 1..k |-> Tuple(Contents(Reading[n + 1], vals[j]))]
<1>2. vals \in Seq(I)
  <2>1. \A j \in 1..Len(vals) : vals[j] \in I
    BY <1>1, Zenon
  <2> HIDE DEF I
  <2> QED
    BY <2>1, SeqOf
<1>3. DOMAIN ws = 1..k /\ ws = [j \in 1..k |-> ws[j]] /\ \A j \in 1..k : ws[j] \in B[j]
  BY <1>1, Zenon
<1> HIDE DEF ws
<1>4. ws \in OneOfEach(B)
  BY <1>3, OneOfEachIs, Zenon
<1> QED
  BY <1>2, <1>4 DEF ws

\* A loop over all values: it got through, or one of them did not fit.
LoopEnd(loop, s, W, B, run, k) ==
  IF run.error = NoError
  THEN /\ run.x \in Contexts /\ Cursor(loop, s, run.i, k) /\ run.i \in Nat
       /\ Len(run.items) = k /\ run.items \in Seq(UNION {W[j] : j \in 1..k})
       /\ \A j \in 1..k : run.items[j] \in W[j]
  ELSE IsError(run.error) /\ OneOfEach(B) = {}

\* What a loop that was right for all values has left.
LEMMA LoopDone ==
  ASSUME NEW loop, NEW s, NEW W, NEW B, NEW k \in Nat, DOMAIN B = 1..k,
         NEW run, LoopRight(loop, s, W, B, run, k)
  PROVE  LoopEnd(loop, s, W, B, run, k)
<1>1. CASE run.error = NoError
  BY <1>1, Zenon DEF LoopRight, LoopEnd
<1>2. CASE run.error # NoError
  <2>1. IsError(run.error) /\ \E b \in 1..k : B[b] = {}
    BY <1>2, Zenon DEF LoopRight
  <2> QED
    BY <1>2, <2>1, OneOfEachIs, Zenon DEF LoopEnd
<1> QED
  BY <1>1, <1>2

\* The end of a container, of a type that is there from i to e.
LEMMA CloseRight ==
  ASSUME NEW n \in Nat, NEW s \in Strings, NEW i \in Nat, i >= 1, NEW v \in Values[n],
         NEW e \in Nat, i <= e, e <= Len(s), SubSeq(s, i, e) \in Types,
         NEW type \in {"(", "a"}, NEW sig \in Strings, NEW run,
         run.error = NoError =>
           /\ run.x \in Contexts /\ run.items \in Seq(Items[n] \cup EntriesOf(Items[n]))
           /\ ReadComplete(Reading[n], Item(type, sig, run.items))
                \in Backs(n, SubSeq(s, i, e), v),
         run.error # NoError => IsError(run.error) /\ Backs(n, SubSeq(s, i, e), v) = {}
  PROVE  Right(n, s, i, v, Close(e, type, sig, run))
<1> DEFINE r == Close(e, type, sig, run)
<1>1. CASE run.error = NoError
  <2> DEFINE item == Item(type, sig, run.items)
             x == Free(run.x, run.items)
  <2>1. r = Done(e, item, x)
    BY <1>1, Zenon DEF Close
  <2>2. x \in Contexts
    BY <1>1, ContextsStay
  <2>3. item \in Items[n + 1]
    <3>1. type \in {"v", "(", "a"}
      OBVIOUS
    <3> QED
      BY <1>1, <3>1, ItemsAre, Zenon
  <2>4. Reading[n + 1][item] \in Backs(n, SubSeq(s, i, e), v)
    <3>1. Reading[n + 1][item] = ReadComplete(Reading[n], item)
      BY <2>3, ReadingOf, Zenon
    <3> QED
      BY <1>1, <3>1, Zenon
  <2> HIDE DEF r, item, x
  <2>5. Right(n, s, i, v, r)
    BY <2>1, <2>2, <2>3, <2>4, DoneRight
  <2> QED
    BY <2>5 DEF r
<1>2. CASE run.error # NoError
  <2> DEFINE error == run.error
  <2>1. r = Fail(TRUE, error)
    BY <1>2, Zenon DEF Close
  <2>2. TRUE \in BOOLEAN /\ IsError(error) /\ Backs(n, SubSeq(s, i, e), v) = {}
    BY <1>2
  <2> HIDE DEF r, error
  <2>3. Right(n, s, i, v, r)
    BY <2>1, <2>2, FailAtRight
  <2> QED
    BY <2>3 DEF r
<1> QED
  BY <1>1, <1>2

--------------------------------------------------------------------------------
(* Structures *)

\* The arguments of a call, or the members of a structure: all of the signature is
\* used up, or they do not fit it.
PackEnd(n, s, vals, run) ==
  IF run.error = NoError
  THEN /\ run.x \in Contexts /\ run.items \in Seq(Items[n + 1])
       /\ Contents(Reading[n + 1], run) \in AllBack(ReadBack[n], s, vals)
  ELSE IsError(run.error) /\ AllBack(ReadBack[n], s, vals) = {}

\* With the test that the signature ends with the values, it has written what fits
\* and nothing else: the ends of types are all the cursor has seen.
LEMMA PackDone ==
  ASSUME NEW n \in Nat, Rightly(n), NEW s \in Strings, NEW vals \in Seq(Values[n]),
         NEW loop \in {"struct", "arguments"}, NEW x \in Contexts,
         NEW run, run = AllTaken(s, AppendEach(Appending[n], loop, s, vals, x))
  PROVE  PackEnd(n, s, vals, run)
<1> SUFFICES
      /\ run.error = NoError =>
              /\ run.x \in Contexts /\ run.items \in Seq(Items[n + 1])
              /\ Contents(Reading[n + 1], run) \in AllBack(ReadBack[n], s, vals)
      /\ run.error # NoError => IsError(run.error) /\ AllBack(ReadBack[n], s, vals) = {}
  BY Zenon DEF PackEnd
<1> DEFINE B == TypeBacks(n, s, vals)
           W == Each(n, B)
           k == Len(vals)
           end == AppendEach(Appending[n], loop, s, vals, x)
           V == Values[n]
<1>1. Len(s) \in Nat /\ k \in Nat
  <2>1. vals \in Seq(V)
    OBVIOUS
  <2> HIDE DEF V
  <2> QED
    BY <2>1, StringsAre
<1>2. EachRight(Appending[n], loop, s, vals, W, B)
  BY TypesRight
<1>3. DOMAIN B = 1..k /\ EachBack(ReadBack[n], s, vals) = OneOfEach(B)
  BY Zenon DEF TypeBacks, EachBack
<1> HIDE DEF V, B, W, k
<1>4. IsRun(end) /\ LoopRight(loop, s, W, B, end, k)
  BY <1>1, <1>2, LoopsRight DEF k
<1>10. LoopEnd(loop, s, W, B, end, k)
  <2> HIDE DEF end
  <2> QED
    BY <1>1, <1>3, <1>4, LoopDone
<1>5. /\ end.error = NoError =>
              /\ end.x \in Contexts /\ Cursor(loop, s, end.i, k) /\ end.i \in Nat
              /\ Len(end.items) = k /\ end.items \in Seq(UNION {W[j] : j \in 1..k})
              /\ \A j \in 1..k : end.items[j] \in W[j]
      /\ end.error # NoError => IsError(end.error) /\ OneOfEach(B) = {}
  <2> HIDE DEF end
  <2> QED
    BY <1>10, Zenon DEF LoopEnd
<1>6. AllBack(ReadBack[n], s, vals) = IF TypeEnd(s, k) = Len(s) THEN OneOfEach(B) ELSE {}
  BY <1>3, Zenon DEF AllBack, k
<1> HIDE DEF end
<1>7. CASE end.error # NoError
  <2>1. run = end
    BY <1>7, Zenon DEF AllTaken, end
  <2>2. AllBack(ReadBack[n], s, vals) = {}
    BY <1>5, <1>6, <1>7
  <2> QED
    BY <1>5, <1>7, <2>1, <2>2
<1>8. CASE end.error = NoError /\ end.i <= Len(s)
  <2>1. run = [end EXCEPT !.error = OtherError]
    BY <1>8, Zenon DEF AllTaken, end
  <2>2. run.error = OtherError
    BY <1>4, <2>1 DEF IsRun
  <2>3. TypeEnd(s, k) # Len(s)
    BY <1>1, <1>5, <1>8 DEF Cursor
  <2> QED
    BY <1>6, <2>2, <2>3, ErrorsAre, Zenon DEF IsError
<1>9. CASE end.error = NoError /\ ~ (end.i <= Len(s))
  <2>1. run = end
    BY <1>9, Zenon DEF AllTaken, end
  <2>2. TypeEnd(s, k) = Len(s)
    BY <1>1, <1>5, <1>9 DEF Cursor
  <2> DEFINE vs == end.items
             T == UNION {W[j] : j \in 1..k}
  <2>3. vs \in Seq(T) /\ Len(vs) = k /\ \A j \in 1..k : vs[j] \in Each(n, B)[j]
    BY <1>5, <1>9 DEF W
  <2> HIDE DEF vs, T
  <2>4. /\ vs \in Seq(Items[n + 1])
        /\ [j \in 1..k |-> Reading[n + 1][vs[j]]] \in OneOfEach(B)
    BY <1>1, <1>3, <2>3, ItemsBack
  <2>5. Contents(Reading[n + 1], end) = [j \in 1..k |-> Reading[n + 1][vs[j]]]
    BY <2>3, Zenon DEF Contents, vs
  <2> QED
    BY <1>5, <1>6, <1>9, <2>1, <2>2, <2>4, <2>5 DEF vs
<1> QED
  BY <1>7, <1>8, <1>9

\* What the values in a container are, and the level they are at.
LEMMA LevelBelow ==
  ASSUME NEW n \in Nat, n # 0, Under(n)
  PROVE  \E m \in Nat : /\ m + 1 = n /\ Rightly(m) /\ Values[n - 1] = Values[m]
                        /\ Below(Appending, n) = Appending[m]
                        /\ Below(ReadBack, n) = ReadBack[m]
<1> DEFINE m == n - 1
<1>1. m \in Nat /\ m + 1 = n
  OBVIOUS
<1>2. Below(Appending, n) = Appending[m] /\ Below(ReadBack, n) = ReadBack[m]
  BY BelowIs
<1> QED
  BY <1>1, <1>2, Zenon DEF Under

\* The structure that starts at i, if a complete type does.
LEMMA StructStarts ==
  ASSUME NEW s \in Strings, NEW i \in Nat, i >= 1, NEW e \in Nat, i <= e, e <= Len(s),
         SubSeq(s, i, e) \in Types, s[i] = "("
  PROVE  /\ Match(s, i, "(", ")") = e - i /\ e - i >= 2
         /\ SubSeq(s, i + 1, i + (e - i) - 1) \in Packs
<1> DEFINE n == e - i
<1>1. s \in Seq(STRING) /\ Len(s) \in Nat
  BY StringsAre
<1>2. n \in Nat /\ i + n = e /\ i \in 1..Len(s) /\ i + n <= Len(s)
  BY <1>1
<1>3. n >= 2
  BY TypeStarts
<1> HIDE DEF n
<1>4. SubSeq(s, i, i + n) \in Types
  BY <1>2
<1>5. Match(s, i, "(", ")") = n /\ SubSeq(s, i + 1, i + n - 1) \in Packs
  BY <1>1, <1>2, <1>4, OffsetsFindTypes
<1> QED
  BY <1>3, <1>5 DEF n

\* A part of a part of a signature.
LEMMA PartOfPart ==
  ASSUME NEW s \in Strings, NEW i \in Nat, i >= 1, NEW e \in Nat, i <= e, e <= Len(s),
         NEW j \in Nat, NEW k \in Nat, 1 <= j, j <= k + 1, k <= e - i + 1,
         NEW a, a = i + j - 1, NEW b, b = i + k - 1
  PROVE  SubSeq(SubSeq(s, i, e), j, k) = SubSeq(s, a, b)
<1>1. \A p, q \in Nat : 1 <= p /\ p <= q + 1 /\ q <= e - i + 1 =>
        SubSeq(SubSeq(s, i, e), p, q) = SubSeq(s, i + p - 1, i + q - 1)
  BY PartIs, SMTT(40)
<1> QED
  BY <1>1, Zenon

\* A structure is written right, if what is in it is.
LEMMA StructCase ==
  ASSUME NEW n \in Nat, Under(n), NEW s \in Strings, NEW i \in Nat, i >= 1, i <= Len(s),
         s[i] = "(", NEW v \in Values[n], NEW x \in Contexts
  PROVE  Right(n, s, i, v, AppendStruct(Below(Appending, n), s, i, v, x))
<1> DEFINE f == Below(Appending, n)
           back == Below(ReadBack, n)
           u == AppendStruct(f, s, i, v, x)
           end == Match(s, i, "(", ")")
           e == i + end
           sig == SubSeq(s, i + 1, i + end - 1)
           t == SubSeq(s, i, e)
           run == AllTaken(sig, AppendEach(f, "struct", sig, v.items, x))
<1>1. Len(s) \in Nat /\ i \in Int
  BY StringsAre
<1>2. u = IF end < 2 \/ sig \notin Packs THEN Fail(FALSE, OtherError)
          ELSE IF v.kind # "tuple" THEN Fail(TRUE, TypeError(x, v))
          ELSE IF v.items = << >> THEN Fail(TRUE, OtherError)
          ELSE Close(e, "(", sig, run)
  BY Zenon DEF AppendStruct
<1>3. IsError(TypeError(x, v)) /\ IsError(OtherError) /\ TRUE \in BOOLEAN /\ FALSE \in BOOLEAN
  BY ErrorsAre, Zenon
<1>4. end = Panic \/ end \in 1..(Len(s) - i)
  BY <1>1, MatchInside
<1>5. end # Panic => end \in 1..(Len(s) - i) /\ s[i + end] = ")"
  <2>1. Match(s, i, "(", ")") # Panic => /\ Match(s, i, "(", ")") \in 1..(Len(s) - i)
                                         /\ s[i + Match(s, i, "(", ")")] = ")"
    BY <1>1, MatchCloses
  <2> QED
    BY <2>1
<1> HIDE DEF u, run
<1>6. CASE end < 2 \/ sig \notin Packs
  <2>1. ASSUME NEW d \in Nat, i <= d, d <= Len(s), SubSeq(s, i, d) \in Types
        PROVE  FALSE
    <3>1. end = d - i /\ d - i >= 2 /\ SubSeq(s, i + 1, i + (d - i) - 1) \in Packs
      BY <2>1, StructStarts
    <3> HIDE DEF end
    <3> QED
      BY <1>6, <3>1
  <2> DEFINE error == OtherError
  <2>2. u = Fail(FALSE, error)
    BY <1>2, <1>6, Zenon
  <2> HIDE DEF error
  <2>3. Right(n, s, i, v, u)
    BY <1>3, <2>1, <2>2, FailRight DEF error
  <2> QED
    BY <2>3 DEF u
<1>7. CASE ~ (end < 2 \/ sig \notin Packs)
  <2>1. end \in Nat /\ end >= 2 /\ e \in Nat /\ i + 1 < e /\ i <= e /\ e <= Len(s) /\ s[e] = ")"
        /\ i + end - 1 = e - 1
    <3> HIDE DEF end
    <3>1. end # Panic
      BY <1>7 DEF Panic
    <3> QED
      BY <1>1, <1>5, <1>7, <3>1
  <2>2. sig = SubSeq(s, i + 1, e - 1) /\ sig \in Packs
    <3> HIDE DEF end
    <3> QED
      BY <1>7, <2>1
  <2> HIDE DEF end, sig, e
  <2>3. t \in Types
    BY <2>1, <2>2, TypeOfStruct
  <2>4. t[1] = "(" /\ Inner(t) = sig /\ sig \in Strings
    <3>1. t[1] = "(" /\ Len(t) = e - i + 1
      BY <2>1, <2>3, TypeStarts
    <3> DEFINE l == e - i
               two == 2
               c == i + 1
               d == e - 1
    <3>3. /\ l \in Nat /\ two \in Nat /\ 1 <= two /\ two <= l + 1 /\ l <= e - i + 1
          /\ c = i + two - 1 /\ d = i + l - 1 /\ (e - i + 1) - 1 = l
      BY <2>1
    <3> HIDE DEF l, two, c, d
    <3>4. SubSeq(SubSeq(s, i, e), two, l) = SubSeq(s, c, d)
      BY <2>1, <3>3, PartOfPart
    <3>5. Inner(t) = sig
      BY <2>2, <3>1, <3>3, <3>4 DEF Inner, two, c, d
    <3>6. sig \in Strings
      <4> DEFINE a == i + 1
                 b == e - 1
      <4>1. a \in Nat /\ a >= 1 /\ b \in Nat /\ a <= b /\ b <= Len(s)
        BY <1>1, <2>1
      <4> HIDE DEF a, b
      <4>2. SubSeq(s, a, b) \in Strings
        BY <4>1, PartIs
      <4> QED
        BY <2>2, <4>2 DEF a, b
    <3> QED
      BY <3>1, <3>5, <3>6
  <2>5. Backs(n, t, v) = IF v.kind = "tuple" /\ v.items # << >>
                           THEN {Tuple(ws) : ws \in AllBack(back, sig, v.items)} ELSE {}
    <3> HIDE DEF t, back
    <3>1. Back(back, t, v) = IF v.kind = "tuple" /\ v.items # << >>
                THEN {Tuple(ws) : ws \in AllBack(back, Inner(t), v.items)} ELSE {}
      BY <2>3, <2>4, BackIs
    <3> QED
      BY <2>4, <3>1, Zenon DEF Backs, back
  <2> HIDE DEF t
  <2>6. CASE ~ (v.kind = "tuple" /\ v.items # << >>)
    <3>1. Backs(n, SubSeq(s, i, e), v) = {} /\ SubSeq(s, i, e) \in Types
      BY <2>3, <2>5, <2>6 DEF t
    <3>2. PICK error : u = Fail(TRUE, error) /\ IsError(error)
      BY <1>2, <1>3, <1>7, <2>6, Zenon
    <3>3. Right(n, s, i, v, u)
      BY <1>3, <2>1, <3>1, <3>2, FailAtRight
    <3> QED
      BY <3>3 DEF u
  <2>7. CASE v.kind = "tuple" /\ v.items # << >>
    <3>1. n # 0 /\ v.items \in Seq(Values[n - 1])
      BY <2>7, ValuesAre
    <3>2. PICK m \in Nat : /\ m + 1 = n /\ Rightly(m) /\ Values[n - 1] = Values[m]
                           /\ f = Appending[m] /\ back = ReadBack[m]
      BY <3>1, LevelBelow
    <3> DEFINE vals == v.items
    <3>3. vals \in Seq(Values[m])
      BY <3>1, <3>2
    <3>4. run = AllTaken(sig, AppendEach(Appending[m], "struct", sig, vals, x))
      BY <3>2 DEF run
    <3> HIDE DEF vals, f, back
    <3>5. PackEnd(m, sig, vals, run)
      <4> DEFINE loop == "struct"
      <4>2. loop \in {"struct", "arguments"} /\ run = AllTaken(sig, AppendEach(Appending[m], loop, sig, vals, x))
        BY <3>4
      <4> HIDE DEF loop
      <4> QED
        BY <2>4, <3>2, <3>3, <4>2, PackDone
    <3>11. /\ run.error = NoError =>
                /\ run.x \in Contexts /\ run.items \in Seq(Items[m + 1])
                /\ Contents(Reading[m + 1], run) \in AllBack(ReadBack[m], sig, vals)
           /\ run.error # NoError => IsError(run.error) /\ AllBack(ReadBack[m], sig, vals) = {}
      BY <3>5, Zenon DEF PackEnd
    <3>6. Backs(n, t, v) = {Tuple(ws) : ws \in AllBack(ReadBack[m], sig, vals)}
      BY <2>5, <2>7, <3>2, Zenon DEF vals
    <3>7. ASSUME run.error = NoError
          PROVE  /\ run.x \in Contexts /\ run.items \in Seq(Items[n] \cup EntriesOf(Items[n]))
                 /\ ReadComplete(Reading[n], Item("(", sig, run.items)) \in Backs(n, t, v)
      <4> DEFINE item == Item("(", sig, run.items)
                 vs == run.items
                 I == Items[n]
      <4>1. vs \in Seq(I)
        BY <3>2, <3>11, <3>7
      <4>2. item.type = "(" /\ item.items = run.items
        BY DEF Item
      <4> HIDE DEF item, vs, I
      <4>3. vs \in Seq(I \cup EntriesOf(I))
        BY <4>1
      <4>4. ReadComplete(Reading[n], item) = Tuple(Contents(Reading[n], item))
        BY <4>2, ReadCompleteIs
      <4>5. Contents(Reading[n], item) = Contents(Reading[m + 1], run)
        BY <3>2, <4>2, Zenon DEF Contents
      <4>6. ReadComplete(Reading[n], item) \in Backs(n, t, v)
        BY <3>11, <3>6, <3>7, <4>4, <4>5, Zenon
      <4> QED
        BY <3>11, <3>7, <4>3, <4>6, Zenon DEF item, vs, I
    <3>8. run.error # NoError => IsError(run.error) /\ Backs(n, t, v) = {}
      BY <3>11, <3>6, Zenon
    <3>9. u = Close(e, "(", sig, run)
      BY <1>2, <1>7, <2>7, Zenon
    <3>10. Right(n, s, i, v, Close(e, "(", sig, run))
      <4>1. "(" \in {"(", "a"}
        OBVIOUS
      <4> QED
        BY <2>1, <2>3, <2>4, <3>7, <3>8, <4>1, CloseRight DEF t
    <3> QED
      BY <3>9, <3>10 DEF u, f
  <2> QED
    BY <2>6, <2>7
<1> QED
  BY <1>6, <1>7

--------------------------------------------------------------------------------
(* Arrays                                                                       *)

\* The array from i to e, of elements or of dictionary entries.
ArrayParts(s, i, e) ==
  IF s[i + 1] = EntryOpen
  THEN /\ Match(s, i + 1, EntryOpen, EntryClose) = e - i - 1 /\ e > i + 3
       /\ SubSeq(s, i + 1, e) \in Entries
       /\ s[i + 2] \in Basic /\ SubSeq(s, i + 3, e - 1) \in Types
  ELSE SubSeq(s, i + 1, e) \in Types

\* Where an array starts, find_subtype leads to its end.
LEMMA ArrayStarts ==
  ASSUME NEW s \in Strings, NEW i \in Nat, i >= 1, NEW e \in Nat, i <= e, e <= Len(s),
         SubSeq(s, i, e) \in Types, s[i] = "a"
  PROVE  FindSubtype(s, i) = e - i /\ e > i /\ ArrayParts(s, i, e)
<1> DEFINE n == e - i
<1>1. s \in Seq(STRING) /\ Len(s) \in Nat
  BY StringsAre
<1>2. n \in Nat /\ i + n = e /\ i \in 1..Len(s) /\ i + n <= Len(s) /\ i + n - 1 = e - 1
      /\ n - 1 = e - i - 1
  BY <1>1
<1>3. e > i
  BY TypeStarts
<1> HIDE DEF n
<1>4. SubSeq(s, i, i + n) \in Types
  BY <1>2
<1>5. /\ FindSubtype(s, i) = n
      /\ s[i] = "a" /\ s[i + 1] = EntryOpen =>
              /\ Match(s, i + 1, EntryOpen, EntryClose) = n - 1
              /\ SubSeq(s, i + 1, i + n) \in Entries
              /\ s[i + 2] \in Basic /\ SubSeq(s, i + 3, i + n - 1) \in Types
      /\ s[i] = "a" /\ s[i + 1] # EntryOpen => SubSeq(s, i + 1, i + n) \in Types
  BY <1>1, <1>2, <1>4, OffsetsFindTypes
<1>6. CASE s[i + 1] = EntryOpen
  <2>1. e > i + 3
    <3> DEFINE a == i + 1
    <3>1. a \in Nat /\ a >= 1 /\ a <= e
      BY <1>3
    <3>2. SubSeq(s, a, e) \in Entries
      BY <1>2, <1>5, <1>6
    <3> HIDE DEF a
    <3>3. Len(SubSeq(s, a, e)) = e - a + 1
      BY <3>1, PartIs
    <3>4. Len(SubSeq(s, a, e)) > 3
      BY <3>2, EntriesAre
    <3> QED
      BY <3>1, <3>3, <3>4 DEF a
  <2>2. ArrayParts(s, i, e)
    BY <1>2, <1>5, <1>6, <2>1, Zenon DEF ArrayParts
  <2> QED
    BY <1>2, <1>3, <1>5, <2>2
<1>7. CASE s[i + 1] # EntryOpen
  <2>1. ArrayParts(s, i, e)
    BY <1>2, <1>5, <1>7, Zenon DEF ArrayParts
  <2> QED
    BY <1>2, <1>3, <1>5, <2>1
<1> QED
  BY <1>6, <1>7

\* A loop over elements: it got through, or one of them did not fit.
ElementsEnd(n, B, run) ==
  IF run.error = NoError
  THEN /\ run.x \in Contexts /\ run.items \in Seq(Items[n + 1])
       /\ Contents(Reading[n + 1], run) \in OneOfEach(B)
  ELSE IsError(run.error) /\ OneOfEach(B) = {}

\* What the loop over the elements of an array has left,
LEMMA ElementsDone ==
  ASSUME NEW n \in Nat, NEW f, NEW loop, NEW s, Len(s) \in Nat, NEW vals, Len(vals) \in Nat,
         NEW x \in Contexts, NEW B, DOMAIN B = 1..Len(vals),
         EachRight(f, loop, s, vals, Each(n, B), B),
         NEW run, run = AppendEach(f, loop, s, vals, x)
  PROVE  ElementsEnd(n, B, run)
<1> DEFINE k == Len(vals)
           W == Each(n, B)
<1> HIDE DEF W
<1>1. LoopRight(loop, s, W, B, run, k)
  BY LoopsRight DEF W
<1>2. LoopEnd(loop, s, W, B, run, k)
  <2> HIDE DEF k
  <2>1. k \in Nat /\ DOMAIN B = 1..k
    BY DEF k
  <2> QED
    BY <1>1, <2>1, LoopDone
<1>3. CASE run.error = NoError
  <2> DEFINE vs == run.items
             T == UNION {W[j] : j \in 1..k}
  <2>1. /\ run.x \in Contexts /\ Len(vs) = k /\ vs \in Seq(T)
        /\ \A j \in 1..k : vs[j] \in Each(n, B)[j]
    BY <1>2, <1>3, Zenon DEF LoopEnd, W
  <2> HIDE DEF T, vs, k
  <2>2. /\ vs \in Seq(Items[n + 1])
        /\ [j \in 1..k |-> Reading[n + 1][vs[j]]] \in OneOfEach(B)
    BY <2>1, ItemsBack DEF k
  <2>3. Contents(Reading[n + 1], run) = [j \in 1..k |-> Reading[n + 1][vs[j]]]
    BY <2>1, Zenon DEF Contents, vs
  <2> QED
    BY <1>3, <2>1, <2>2, <2>3, Zenon DEF ElementsEnd, vs
<1>4. CASE run.error # NoError
  BY <1>2, <1>4, Zenon DEF LoopEnd, ElementsEnd
<1> QED
  BY <1>3, <1>4

\* A loop over dictionary entries.
EntriesEnd(n, B, run) ==
  IF run.error = NoError
  THEN /\ run.x \in Contexts /\ run.items \in Seq(EntriesOf(Items[n + 1]))
       /\ [j \in 1..Len(run.items) |-> Tuple(Contents(Reading[n + 1], run.items[j]))]
            \in OneOfEach(B)
  ELSE IsError(run.error) /\ OneOfEach(B) = {}

\* and that over the entries of a dictionary.
LEMMA EntriesDone ==
  ASSUME NEW n \in Nat, NEW f, NEW loop, NEW s, Len(s) \in Nat, NEW vals, Len(vals) \in Nat,
         NEW x \in Contexts, NEW B, DOMAIN B = 1..Len(vals),
         EachRight(f, loop, s, vals, EachEntry(n, B), B),
         NEW run, run = AppendEach(f, loop, s, vals, x)
  PROVE  EntriesEnd(n, B, run)
<1> DEFINE k == Len(vals)
           W == EachEntry(n, B)
<1> HIDE DEF W
<1>1. LoopRight(loop, s, W, B, run, k)
  BY LoopsRight DEF W
<1>2. LoopEnd(loop, s, W, B, run, k)
  <2> HIDE DEF k
  <2>1. k \in Nat /\ DOMAIN B = 1..k
    BY DEF k
  <2> QED
    BY <1>1, <2>1, LoopDone
<1>3. CASE run.error = NoError
  <2> DEFINE vs == run.items
             T == UNION {W[j] : j \in 1..k}
  <2>1. /\ run.x \in Contexts /\ Len(vs) = k /\ vs \in Seq(T)
        /\ \A j \in 1..k : vs[j] \in EachEntry(n, B)[j]
    BY <1>2, <1>3, Zenon DEF LoopEnd, W
  <2> HIDE DEF T, vs, k
  <2>2. /\ vs \in Seq(EntriesOf(Items[n + 1]))
        /\ [j \in 1..k |-> Tuple(Contents(Reading[n + 1], vs[j]))] \in OneOfEach(B)
    BY <2>1, EntriesBack DEF k
  <2> QED
    BY <1>3, <2>1, <2>2, Zenon DEF EntriesEnd, vs
<1>4. CASE run.error # NoError
  BY <1>2, <1>4, Zenon DEF LoopEnd, EntriesEnd
<1> QED
  BY <1>3, <1>4

\* A sequence with a length has elements.
LEMMA NotEmpty ==
  ASSUME NEW t, NEW n, Len(t) = n, n # 0
  PROVE  t # << >>
  OBVIOUS

\* An array's type, and what is in it.
IsArray(s, i, e, t) ==
  /\ t \in Types /\ t[1] = "a" /\ t[2] = s[i + 1] /\ Len(t) > 1 /\ Len(t) = e - i + 1
  /\ Tail(t) = SubSeq(s, i + 1, e)
  /\ SubSeq(s, i + 1, e) \in Strings
  /\ SubSeq(s, i + 1, e)[1] = s[i + 1]

\* The type of the elements is the rest of the type.
LEMMA ArrayIs ==
  ASSUME NEW s \in Strings, NEW i \in Nat, i >= 1, NEW e \in Nat, i < e, e <= Len(s),
         s[i] = "a", SubSeq(s, i + 1, e) \in Types \cup Entries,
         NEW t, t = SubSeq(s, i, e)
  PROVE  IsArray(s, i, e, t)
<1> DEFINE n == e - i + 1
           two == 2
           a == i + 1
<1>1. /\ n \in Nat /\ n > 1 /\ n # 0 /\ 1 \in 1..n /\ i + 1 - 1 = i /\ i <= e
      /\ two \in 1..n /\ i + two - 1 = a /\ two \in Nat /\ 1 <= two /\ two <= n + 1
      /\ n <= e - i + 1 /\ e = i + n - 1 /\ a \in Nat /\ a >= 1 /\ a <= e /\ 1 \in 1..(e - a + 1)
      /\ a + 1 - 1 = a
  OBVIOUS
<1>2. t \in Strings /\ t \in Seq(STRING) /\ Len(t) = n /\ t[1] = s[i] /\ t[two] = s[a]
  <2> HIDE DEF two, a
  <2> QED
    BY <1>1, PartIs
<1>3. t \in Types
  BY TypeOfArray
<1> HIDE DEF n, two, a
<1>4. SubSeq(t, two, n) = SubSeq(s, a, e)
  BY <1>1, PartOfPart
<1>5. t # << >>
  BY <1>1, <1>2, NotEmpty, Zenon
<1>6. Tail(t) = SubSeq(t, two, n)
  BY <1>2, <1>5, TailIsSubSeq DEF two
<1>7. SubSeq(s, a, e) \in Strings /\ SubSeq(s, a, e)[1] = s[a]
  BY <1>1, PartIs
<1> QED
  BY <1>1, <1>2, <1>3, <1>4, <1>6, <1>7 DEF n, two, a, IsArray

\* The string of one character.
LEMMA OneByte ==
  ASSUME NEW z \in Seq(STRING), Len(z) = 1, z[1] = "y"
  PROVE  z = << "y" >>
  OBVIOUS

\* An array of bytes is written right.
LEMMA BytesCase ==
  ASSUME NEW n \in Nat, NEW s \in Strings, NEW i \in Nat, i >= 1, i + 1 <= Len(s),
         s[i] = "a", s[i + 1] = "y", NEW v \in Values[n], NEW x \in Contexts
  PROVE  Right(n, s, i, v, AppendBytes(i, v, x))
<1> DEFINE e == i + 1
           t == SubSeq(s, i, e)
           u == AppendBytes(i, v, x)
<1>1. e \in Nat /\ i < e /\ i <= e /\ e <= Len(s) /\ e >= 1 /\ Len(s) \in Nat
  BY StringsAre
<1>2. t \in Types /\ t[1] = "a" /\ t = << "a", "y" >>
  <2>1. SubSeq(s, e, e) \in Types
    <3>1. s[e] \in Basic
      BY DEF Basic
    <3> HIDE DEF e
    <3> QED
      BY <1>1, <3>1, TypeOfOne
  <2>2. t \in Types /\ t[1] = "a" /\ t[2] = "y" /\ Len(t) = 2
    <3>2. SubSeq(s, i + 1, e) \in Types \cup Entries /\ t = SubSeq(s, i, e)
      BY <2>1
    <3> HIDE DEF t, e
    <3>3. IsArray(s, i, e, t)
      BY <1>1, <3>2, ArrayIs
    <3>1. /\ t \in Types /\ t[1] = "a" /\ t[2] = s[i + 1] /\ Len(t) = e - i + 1
      BY <3>3, Zenon DEF IsArray
    <3> USE DEF e
    <3> HIDE DEF t
    <3> QED
      BY <1>1, <3>1
  <2>3. t \in Seq(STRING)
    BY <2>2, TypesAre
  <2> HIDE DEF t
  <2>4. t = << "a", "y" >>
    BY <2>2, <2>3
  <2> QED
    BY <2>2, <2>4
<1> DEFINE vals == [j \in 1..Len(v.text) |-> Item("y", << >>, << Num(1) >>)]
           bits == [j \in 1..Len(v.text) |-> Num(1)]
           item == Item("a", << "y" >>, vals)
<1>3. Backs(n, t, v) = IF v.kind = "string" THEN {Tuple(bits)} ELSE {}
  <2> HIDE DEF t
  <2> QED
    BY <1>2, ArrayBackIs, Zenon DEF Backs
<1>4. u = IF v.kind # "string" THEN Fail(FALSE, TypeError(x, v)) ELSE Done(e, item, x)
  BY Zenon DEF AppendBytes
<1> HIDE DEF u, t, bits
<1>5. CASE v.kind # "string"
  <2> DEFINE error == TypeError(x, v)
             left == FALSE
  <2>1. u = Fail(left, error)
    BY <1>4, <1>5, Zenon
  <2>2. IsError(error) /\ left \in BOOLEAN
    BY ErrorsAre
  <2>3. SubSeq(s, i, e) \in Types /\ Backs(n, SubSeq(s, i, e), v) = {}
    BY <1>2, <1>3, <1>5 DEF t
  <2> HIDE DEF error, left, e
  <2>4. Right(n, s, i, v, u)
    BY <1>1, <2>1, <2>2, <2>3, FailAtRight
  <2> QED
    BY <2>4 DEF u
<1>6. CASE v.kind = "string"
  <2> DEFINE byte == Item("y", << >>, << Num(1) >>)
             k == Len(v.text)
             I == Items[n]
             y == << "y" >>
  <2>1. k \in Nat
    BY <1>6, ValuesAre, StringsAre
  <2>2. byte \in Leaves
    <3>1. << >> \in Strings
      BY Substrings DEF HasSubstrings
    <3>2. Num(1) \in Atoms
      BY <3>1 DEF Num, Value, Atoms
    <3> DEFINE one == Num(1)
    <3> HIDE DEF one, Atoms
    <3>3. << one >> \in Seq(Atoms) /\ "y" \in Basic
      BY <3>2 DEF one, Basic
    <3>4. Item("y", << >>, << one >>) \in Leaves
      BY <3>3 DEF Item, Leaves
    <3> QED
      BY <3>4 DEF one
  <2>3. byte \in I /\ Reading[n][byte] = Num(1)
    <3>1. byte.items[1] = Num(1)
      BY DEF Item
    <3> HIDE DEF byte
    <3> QED
      BY <2>2, <3>1, ItemsAre, ReadingOf
  <2>4. y \in Strings /\ y[1] # EntryOpen
    <3>1. "y" # EntryOpen
      BY Zenon DEF EntryOpen
    <3>2. SubSeq(s, e, e) \in Strings /\ SubSeq(s, e, e) \in Seq(STRING)
          /\ Len(SubSeq(s, e, e)) = 1 /\ SubSeq(s, e, e)[1] = "y"
      <4>1. e - e + 1 = 1 /\ 1 \in 1..1 /\ e + 1 - 1 = e /\ s[e] = "y" /\ e <= e
        BY <1>1
      <4> HIDE DEF e
      <4>2. Len(SubSeq(s, e, e)) = e - e + 1 /\ SubSeq(s, e, e) \in Strings
            /\ SubSeq(s, e, e) \in Seq(STRING)
            /\ \A j \in 1..(e - e + 1) : SubSeq(s, e, e)[j] = s[e + j - 1]
        BY <1>1, <4>1, PartIs
      <4> QED
        BY <4>1, <4>2
    <3> DEFINE z == SubSeq(s, e, e)
    <3>4. z \in Seq(STRING) /\ Len(z) = 1 /\ z[1] = "y"
      BY <3>2
    <3> HIDE DEF z
    <3>3. z = y
      BY <3>4, OneByte
    <3> QED
      BY <3>1, <3>2, <3>3 DEF z
  <2> HIDE DEF byte, k, I, y
  <2>5. vals = [j \in 1..k |-> byte] /\ bits = [j \in 1..k |-> Num(1)] /\ item = Item("a", y, vals)
    BY DEF byte, k, bits, y
  <2> HIDE DEF vals
  <2>6. vals \in Seq(I \cup EntriesOf(I)) /\ Len(vals) = k /\ \A j \in 1..k : vals[j] = byte
    BY <2>1, <2>3, <2>5
  <2>7. item \in Items[n + 1]
    <3>1. "a" \in {"v", "(", "a"}
      OBVIOUS
    <3> HIDE DEF item
    <3>2. Item("a", y, vals) \in Items[n + 1]
      BY <2>4, <2>6, <3>1, ItemsAre, Zenon DEF I
    <3> QED
      BY <2>5, <3>2
  <2>8. Reading[n + 1][item] = Tuple(bits)
    <3>1. Reading[n + 1][item] = ReadComplete(Reading[n], item)
      BY <2>7, ReadingOf
    <3>2. item.type = "a" /\ item.sig = y /\ item.items = vals
      BY <2>5 DEF Item
    <3> HIDE DEF item
    <3>3. ReadComplete(Reading[n], item) = Tuple(Contents(Reading[n], item))
      BY <2>4, <3>2, ReadCompleteIs
    <3>4. Contents(Reading[n], item) = bits
      <4>1. Contents(Reading[n], item) = [j \in 1..k |-> Reading[n][vals[j]]]
        BY <2>6, <3>2, Zenon DEF Contents
      <4> QED
        BY <2>3, <2>5, <2>6, <4>1
    <3> QED
      BY <3>1, <3>3, <3>4
  <2>9. u = Done(e, item, x)
    BY <1>4, <1>6, Zenon DEF vals
  <2>10. Reading[n + 1][item] \in Backs(n, SubSeq(s, i, e), v) /\ SubSeq(s, i, e) \in Types
    BY <1>2, <1>3, <1>6, <2>8 DEF t
  <2> HIDE DEF item, e
  <2>11. Right(n, s, i, v, u)
    BY <1>1, <2>7, <2>9, <2>10, DoneRight
  <2> QED
    BY <2>11 DEF u
<1> QED
  BY <1>5, <1>6

\* An array of neither bytes nor entries is written right, if its elements are.
LEMMA ElementsCase ==
  ASSUME NEW n \in Nat, Under(n), NEW s \in Strings, NEW i \in Nat, i >= 1, i <= Len(s),
         s[i] = "a", At(s, i + 1) # EntryOpen, At(s, i + 1) # "y",
         NEW v \in Values[n], NEW x \in Contexts
  PROVE  Right(n, s, i, v, AppendArray(Below(Appending, n), s, i, v, x))
<1> DEFINE f == Below(Appending, n)
           back == Below(ReadBack, n)
           u == AppendArray(f, s, i, v, x)
           end == FindSubtype(s, i)
           e == i + end
           sig == SubSeq(s, i + 1, e)
           t == SubSeq(s, i, e)
           run == AppendEach(f, "array", sig, v.items, x)
<1>1. Len(s) \in Nat /\ i \in Int
  BY StringsAre
<1>2. u = IF end = Panic \/ sig \notin Types THEN Fail(FALSE, OtherError)
          ELSE IF v.kind # "tuple" THEN Fail(TRUE, TypeError(x, v))
          ELSE Close(e, "a", sig, run)
  BY Zenon DEF AppendArray
<1>3. IsError(TypeError(x, v)) /\ IsError(OtherError) /\ TRUE \in BOOLEAN /\ FALSE \in BOOLEAN
  BY ErrorsAre, Zenon
<1>4. \A d \in Nat : i <= d /\ d <= Len(s) /\ SubSeq(s, i, d) \in Types =>
        end # Panic /\ sig \in Types
  <2> SUFFICES ASSUME NEW d \in Nat, i <= d, d <= Len(s), SubSeq(s, i, d) \in Types
               PROVE  end # Panic /\ sig \in Types
    OBVIOUS
  <2>1. end = d - i /\ d > i /\ ArrayParts(s, i, d)
    BY ArrayStarts
  <2>2. i + 1 \in 1..Len(s) /\ e = d /\ end # Panic
    <3>1. end = d - i /\ d > i
      BY <2>1
    <3> HIDE DEF end
    <3>2. e = d
      BY <1>1, <3>1
    <3>3. end # Panic
      BY <1>1, <3>1 DEF Panic
    <3>4. i + 1 \in 1..Len(s)
      BY <1>1, <3>1
    <3> QED
      BY <3>2, <3>3, <3>4
  <2>3. s[i + 1] # EntryOpen
    BY <2>2 DEF At
  <2>4. SubSeq(s, i + 1, d) \in Types
    BY <2>1, <2>3, Zenon DEF ArrayParts
  <2> HIDE DEF end, e
  <2> QED
    BY <2>2, <2>4
<1> HIDE DEF u, run
<1>5. CASE end = Panic \/ sig \notin Types
  <2> DEFINE error == OtherError
             left == FALSE
  <2>1. u = Fail(left, error)
    BY <1>2, <1>5, Zenon
  <2>2. \A d \in Nat : i <= d /\ d <= Len(s) /\ SubSeq(s, i, d) \in Types
                          => Backs(n, SubSeq(s, i, d), v) = {}
    BY <1>4, <1>5, Zenon
  <2>3. IsError(error) /\ left \in BOOLEAN
    BY <1>3
  <2> HIDE DEF error, left
  <2>4. Right(n, s, i, v, u)
    BY <2>1, <2>2, <2>3, FailRight
  <2> QED
    BY <2>4 DEF u
<1>6. CASE ~ (end = Panic \/ sig \notin Types)
  <2>1. end \in Nat /\ e \in Nat /\ i < e /\ i <= e /\ e <= Len(s)
    <3>1. end \in 0..(Len(s) - i)
      BY <1>6, SubtypeInside
    <3>2. end # 0
      <4> SUFFICES ASSUME end = 0 PROVE FALSE
        OBVIOUS
      <4>1. Len(sig) >= 1
        BY <1>6, TypesAre
      <4>2. sig = << >>
        <5> HIDE DEF end
        <5> QED
          BY <1>1
      <4> QED
        BY <4>1, <4>2
    <3> HIDE DEF end
    <3> QED
      BY <1>1, <3>1, <3>2
  <2>2. sig \in Types
    BY <1>6
  <2>3. IsArray(s, i, e, t)
    <3>1. SubSeq(s, i + 1, e) \in Types \cup Entries /\ t = SubSeq(s, i, e)
      BY <2>2
    <3> HIDE DEF e, t
    <3> QED
      BY <2>1, <3>1, ArrayIs
  <2>4. /\ t \in Types /\ t[1] = "a" /\ t[2] = s[i + 1] /\ Len(t) > 1
        /\ Tail(t) = sig /\ sig \in Strings /\ sig[1] = s[i + 1]
    <3> HIDE DEF e, t
    <3> QED
      BY <2>3, Zenon DEF IsArray
  <2>5. s[i + 1] # EntryOpen /\ s[i + 1] # "y"
    <3>1. i + 1 \in 1..Len(s)
      <4> HIDE DEF e
      <4> QED
        BY <1>1, <2>1
    <3> QED
      BY <3>1 DEF At
  <2> HIDE DEF e, t, sig, end
  <2>6. Backs(n, t, v) =
          IF v.kind = "tuple"
            THEN {Tuple(ws) : ws \in OneOfEach([j \in 1..Len(v.items) |-> back[<< sig, v.items[j] >>]])}
            ELSE {}
    <3> HIDE DEF back
    <3>1. t # << "a", "y" >>
      BY <2>4, <2>5
    <3>2. Back(back, t, v) =
              IF v.kind = "tuple"
                THEN {Tuple(ws) : ws \in OneOfEach([j \in 1..Len(v.items) |->
                                                      back[<< Tail(t), v.items[j] >>]])}
                ELSE {}
      BY <2>4, <2>5, <3>1, ArrayBackIs
    <3> QED
      BY <2>4, <3>2, Zenon DEF Backs, back
  <2>7. CASE v.kind # "tuple"
    <3> DEFINE error == TypeError(x, v)
               left == TRUE
    <3>1. u = Fail(left, error)
      BY <1>2, <1>6, <2>7, Zenon
    <3>2. SubSeq(s, i, e) \in Types /\ Backs(n, SubSeq(s, i, e), v) = {}
      BY <2>4, <2>6, <2>7, Zenon DEF t
    <3>3. IsError(error) /\ left \in BOOLEAN
      BY <1>3
    <3> HIDE DEF error, left
    <3>4. Right(n, s, i, v, u)
      BY <2>1, <3>1, <3>2, <3>3, FailAtRight
    <3> QED
      BY <3>4 DEF u
  <2>8. CASE v.kind = "tuple"
    <3>1. n # 0 /\ v.items \in Seq(Values[n - 1])
      BY <2>8, ValuesAre
    <3>2. PICK m \in Nat : /\ m + 1 = n /\ Rightly(m) /\ Values[n - 1] = Values[m]
                           /\ f = Appending[m] /\ back = ReadBack[m]
      BY <3>1, LevelBelow
    <3> DEFINE vals == v.items
               V == Values[m]
               B == WholeBacks(m, sig, vals)
    <3>3. vals \in Seq(V) /\ Len(vals) \in Nat
      <4>1. vals \in Seq(V)
        BY <3>1, <3>2
      <4> HIDE DEF V, vals
      <4> QED
        BY <4>1
    <3>4. run = AppendEach(Appending[m], "array", sig, vals, x)
      BY <3>2 DEF run
    <3>5. Len(sig) \in Nat
      BY <2>4, StringsAre
    <3> HIDE DEF vals, f, back, V
    <3>6. EachRight(Appending[m], "array", sig, vals, Each(m, B), B)
      BY <1>6, <3>2, <3>3, ElementsRight DEF V
    <3>7. DOMAIN B = 1..Len(vals) /\ B = [j \in 1..Len(vals) |-> ReadBack[m][<< sig, vals[j] >>]]
      BY Zenon DEF WholeBacks
    <3> DEFINE loop == "array"
    <3>8. ElementsEnd(m, B, run)
      <4>1. /\ EachRight(Appending[m], loop, sig, vals, Each(m, B), B)
            /\ run = AppendEach(Appending[m], loop, sig, vals, x)
        BY <3>4, <3>6
      <4> HIDE DEF loop, B
      <4> QED
        BY <3>2, <3>3, <3>5, <3>7, <4>1, ElementsDone
    <3>9. Backs(n, t, v) = {Tuple(ws) : ws \in OneOfEach(B)}
      BY <2>6, <2>8, <3>2, <3>7, Zenon DEF vals
    <3> HIDE DEF B
    <3>10. ASSUME run.error = NoError
           PROVE  /\ run.x \in Contexts /\ run.items \in Seq(Items[n] \cup EntriesOf(Items[n]))
                  /\ ReadComplete(Reading[n], Item("a", sig, run.items)) \in Backs(n, t, v)
      <4> DEFINE item == Item("a", sig, run.items)
                 vs == run.items
                 I == Items[n]
      <4>7. run.x \in Contexts /\ run.items \in Seq(Items[m + 1])
             /\ Contents(Reading[m + 1], run) \in OneOfEach(B)
        BY <3>8, <3>10, Zenon DEF ElementsEnd
      <4>1. vs \in Seq(I)
        BY <3>2, <4>7
      <4>2. item.type = "a" /\ item.items = run.items /\ item.sig = sig
        BY DEF Item
      <4>8. sig[1] # EntryOpen
        BY <2>4, <2>5
      <4> HIDE DEF item, vs, I
      <4>3. vs \in Seq(I \cup EntriesOf(I))
        BY <4>1
      <4>4. ReadComplete(Reading[n], item) = Tuple(Contents(Reading[n], item))
        BY <4>2, <4>8, ReadCompleteIs
      <4>5. Contents(Reading[n], item) = Contents(Reading[m + 1], run)
        BY <3>2, <4>2, Zenon DEF Contents
      <4>6. ReadComplete(Reading[n], item) \in Backs(n, t, v)
        BY <3>9, <4>4, <4>5, <4>7, Zenon
      <4> QED
        BY <4>7, <4>3, <4>6, Zenon DEF item, vs, I
    <3>11. run.error # NoError => IsError(run.error) /\ Backs(n, t, v) = {}
      BY <3>8, <3>9, Zenon DEF ElementsEnd
    <3>12. u = Close(e, "a", sig, run)
      BY <1>2, <1>6, <2>8, Zenon
    <3>13. Right(n, s, i, v, Close(e, "a", sig, run))
      <4>1. "a" \in {"(", "a"}
        OBVIOUS
      <4> QED
        BY <2>1, <2>4, <3>10, <3>11, <4>1, CloseRight DEF t
    <3> QED
      BY <3>12, <3>13 DEF u, f
  <2> QED
    BY <2>7, <2>8
<1> QED
  BY <1>5, <1>6

\* The type t of a dictionary from i to e: contents of an entry are sig, the type of
\* a key and type, that of a value.
IsDict(s, i, e, t, sig, type) ==
  /\ sig \in Strings /\ Len(sig) \in Nat /\ Len(sig) >= 2 /\ sig[1] \in Basic
  /\ type = SubSeq(sig, 2, Len(sig)) /\ type \in Types
  /\ t \in Types /\ t[1] = "a" /\ t[2] = EntryOpen /\ Len(t) > 1
  /\ t[3] = sig[1] /\ SubSeq(t, 4, Len(t) - 1) = type
  /\ SubSeq(s, i + 1, e) \in Strings /\ SubSeq(s, i + 1, e)[1] = EntryOpen

\* The parts of the type of a dictionary.
LEMMA DictIs ==
  ASSUME NEW s \in Strings, NEW i \in Nat, i >= 1, NEW e \in Nat, i < e, e <= Len(s),
         s[i] = "a", s[i + 1] = EntryOpen, SubSeq(s, i + 1, e) \in Entries,
         NEW t, t = SubSeq(s, i, e), NEW sig, sig = SubSeq(s, i + 2, e - 1),
         NEW type, type = SubSeq(s, i + 3, e - 1)
  PROVE  IsDict(s, i, e, t, sig, type)
<1>1. IsArray(s, i, e, t)
  BY ArrayIs
<1>2. /\ t \in Types /\ t[1] = "a" /\ t[2] = EntryOpen /\ Len(t) > 1 /\ Len(t) = e - i + 1
      /\ SubSeq(s, i + 1, e) \in Strings /\ SubSeq(s, i + 1, e)[1] = EntryOpen
  BY <1>1, Zenon DEF IsArray
<1>3. e > i + 3 /\ ArrayParts(s, i, e)
  <2>1. SubSeq(s, i, e) \in Types /\ i <= e
    BY <1>2
  <2>2. ArrayParts(s, i, e)
    BY <2>1, ArrayStarts
  <2>3. e > i + 3
    BY <2>2, Zenon DEF ArrayParts
  <2> QED
    BY <2>2, <2>3
<1>4. s[i + 2] \in Basic /\ type \in Types
  BY <1>3, Zenon DEF ArrayParts
<1> DEFINE a == i + 2
           b == e - 1
           c == i + 3
           n == e - i + 1
           m == e - i
           l == e - i - 2
           two == 2
           three == 3
           four == 4
<1>5. /\ a \in Nat /\ a >= 1 /\ b \in Nat /\ a <= b /\ b <= Len(s) /\ l = b - a + 1 /\ l \in Nat /\ l >= 2
      /\ 1 \in 1..(b - a + 1) /\ a + 1 - 1 = a
      /\ two \in Nat /\ 1 <= two /\ two <= l + 1 /\ l <= b - a + 1 /\ c = a + two - 1 /\ b = a + l - 1
      /\ four \in Nat /\ 1 <= four /\ four <= m + 1 /\ m <= e - i + 1 /\ m \in Nat
      /\ c = i + four - 1 /\ b = i + m - 1
      /\ three \in 1..(e - i + 1) /\ i + three - 1 = a /\ i <= e
      /\ Len(t) - 1 = m
  <2>1. Len(s) \in Nat
    BY StringsAre
  <2> QED
    BY <1>2, <1>3, <2>1
<1>6. sig = SubSeq(s, a, b) /\ type = SubSeq(s, c, b)
  OBVIOUS
<1>7. SubSeq(t, three, three) = SubSeq(t, three, three) /\ t[three] = s[a]
  <2> HIDE DEF three, a
  <2>1. \A j \in 1..(e - i + 1) : SubSeq(s, i, e)[j] = s[i + j - 1]
    BY <1>5, PartIs
  <2> QED
    BY <1>5, <2>1
<1>8. s[a] \in Basic
  BY <1>4
<1> HIDE DEF a, b, c, n, m, l, two, three, four
<1>9. sig \in Strings /\ Len(sig) = l /\ sig[1] = s[a]
  <2>1. /\ SubSeq(s, a, b) \in Strings /\ Len(SubSeq(s, a, b)) = b - a + 1
        /\ \A j \in 1..(b - a + 1) : SubSeq(s, a, b)[j] = s[a + j - 1]
    BY <1>5, PartIs
  <2> QED
    BY <1>5, <1>6, <2>1
<1>10. SubSeq(sig, two, l) = type
  <2>1. /\ a \in Nat /\ a >= 1 /\ b \in Nat /\ a <= b /\ b <= Len(s)
        /\ two \in Nat /\ l \in Nat /\ 1 <= two /\ two <= l + 1 /\ l <= b - a + 1
        /\ c = a + two - 1 /\ b = a + l - 1
    BY <1>5
  <2>2. SubSeq(SubSeq(s, a, b), two, l) = SubSeq(s, c, b)
    BY <2>1, PartOfPart
  <2> QED
    BY <1>6, <2>2
<1>11. SubSeq(t, four, m) = type
  <2>1. /\ i <= e /\ e \in Nat /\ e <= Len(s)
        /\ four \in Nat /\ m \in Nat /\ 1 <= four /\ four <= m + 1 /\ m <= e - i + 1
        /\ c = i + four - 1 /\ b = i + m - 1
    BY <1>5
  <2>2. SubSeq(SubSeq(s, i, e), four, m) = SubSeq(s, c, b)
    BY <2>1, PartOfPart
  <2> QED
    BY <1>6, <2>2
<1>12. /\ Len(sig) \in Nat /\ Len(sig) >= 2 /\ sig[1] \in Basic
       /\ type = SubSeq(sig, 2, Len(sig))
       /\ t[3] = sig[1] /\ SubSeq(t, 4, Len(t) - 1) = type
  BY <1>5, <1>7, <1>8, <1>9, <1>10, <1>11 DEF two, three, four
<1> QED
  BY <1>2, <1>4, <1>9, <1>12, Zenon DEF IsDict

\* The result of append_dict_type, with its parts named.
DictResult(f, e, end, sig, entry, v, x, r) ==
  r = IF end < 3 \/ At(sig, 1) \notin Basic \/ entry \notin Entries
        THEN Fail(FALSE, OtherError)
      ELSE IF v.kind # "table" THEN Fail(TRUE, TypeError(x, v))
      ELSE Close(e, "a", entry, AppendEach(f, "dict", sig, v.items, x))

\* So it is.
LEMMA AppendDictIs ==
  ASSUME NEW f, NEW s, NEW j, NEW v, NEW x,
         NEW end, end = Match(s, j, EntryOpen, EntryClose), NEW e, e = j + end,
         NEW sig, sig = SubSeq(s, j + 1, j + end - 1),
         NEW entry, entry = SubSeq(s, j, j + end)
  PROVE  DictResult(f, e, end, sig, entry, v, x, AppendDict(f, s, j, v, x))
<1>1. AppendDict(f, s, j, v, x) =
           IF \/ Match(s, j, EntryOpen, EntryClose) < 3
              \/ At(SubSeq(s, j + 1, j + Match(s, j, EntryOpen, EntryClose) - 1), 1) \notin Basic
              \/ SubSeq(s, j, j + Match(s, j, EntryOpen, EntryClose)) \notin Entries
             THEN Fail(FALSE, OtherError)
           ELSE IF v.kind # "table" THEN Fail(TRUE, TypeError(x, v))
           ELSE Close(j + Match(s, j, EntryOpen, EntryClose), "a",
                      SubSeq(s, j, j + Match(s, j, EntryOpen, EntryClose)),
                      AppendEach(f, "dict", SubSeq(s, j + 1, j + Match(s, j, EntryOpen, EntryClose) - 1), v.items, x))
  BY DEF AppendDict
<1> QED
  BY <1>1 DEF DictResult

\* A dictionary is written right, if its values are.
LEMMA DictCase ==
  ASSUME NEW n \in Nat, Under(n), NEW s \in Strings, NEW i \in Nat, i >= 1, i + 1 <= Len(s),
         s[i] = "a", s[i + 1] = EntryOpen, NEW j, j = i + 1,
         NEW v \in Values[n], NEW x \in Contexts
  PROVE  Right(n, s, i, v, AppendDict(Below(Appending, n), s, j, v, x))
<1> DEFINE f == Below(Appending, n)
           back == Below(ReadBack, n)
           u == AppendDict(f, s, j, v, x)
           end == Match(s, j, EntryOpen, EntryClose)
           e == j + end
           entry == SubSeq(s, j, e)
           sig == SubSeq(s, j + 1, j + end - 1)
           t == SubSeq(s, i, e)
           run == AppendEach(f, "dict", sig, v.items, x)
           Off == end < 3 \/ At(sig, 1) \notin Basic \/ entry \notin Entries
<1>1. Len(s) \in Nat /\ j \in Nat /\ j \in Int /\ j <= Len(s)
  BY StringsAre
<1>2. u = IF Off THEN Fail(FALSE, OtherError)
          ELSE IF v.kind # "table" THEN Fail(TRUE, TypeError(x, v))
          ELSE Close(e, "a", entry, run)
  <2> HIDE DEF f, end, sig, entry, u, run
  <2>1. end = Match(s, j, EntryOpen, EntryClose)
    BY Zenon DEF end
  <2>3. sig = SubSeq(s, j + 1, j + end - 1)
    BY Zenon DEF sig
  <2>4. entry = SubSeq(s, j, j + end)
    BY Zenon DEF entry
  <2>5. u = AppendDict(f, s, j, v, x) /\ run = AppendEach(f, "dict", sig, v.items, x)
    BY Zenon DEF u, run
  <2>6. e = j + end
    BY Zenon DEF e
  <2> HIDE DEF e, Off
  <2>7. DictResult(f, e, end, sig, entry, v, x, AppendDict(f, s, j, v, x))
    BY <2>1, <2>3, <2>4, <2>6, AppendDictIs
  <2>2. u = IF end < 3 \/ At(sig, 1) \notin Basic \/ entry \notin Entries
             THEN Fail(FALSE, OtherError)
           ELSE IF v.kind # "table" THEN Fail(TRUE, TypeError(x, v))
           ELSE Close(e, "a", entry, run)
    BY <2>5, <2>7, Zenon DEF DictResult
  <2> QED
    BY <2>2, Zenon DEF Off
<1>3. IsError(TypeError(x, v)) /\ IsError(OtherError) /\ TRUE \in BOOLEAN /\ FALSE \in BOOLEAN
  BY ErrorsAre, Zenon
<1>4. \A d \in Nat : i <= d /\ d <= Len(s) /\ SubSeq(s, i, d) \in Types => ~ Off
  <2> SUFFICES ASSUME NEW d \in Nat, i <= d, d <= Len(s), SubSeq(s, i, d) \in Types
               PROVE  ~ Off
    OBVIOUS
  <2>1. d > i /\ ArrayParts(s, i, d)
    BY ArrayStarts
  <2>2. /\ end = d - i - 1 /\ d > i + 3
        /\ SubSeq(s, i + 1, d) \in Entries
    BY <2>1, Zenon DEF ArrayParts
  <2> DEFINE t2 == SubSeq(s, i, d)
             sig2 == SubSeq(s, i + 2, d - 1)
             type2 == SubSeq(s, i + 3, d - 1)
  <2>3. IsDict(s, i, d, t2, sig2, type2)
    <3> HIDE DEF t2, sig2, type2
    <3> QED
      BY <2>1, <2>2, DictIs DEF t2, sig2, type2
  <2>4. Len(sig2) \in Nat /\ Len(sig2) >= 2 /\ sig2[1] \in Basic
    BY <2>3, Zenon DEF IsDict
  <2>5. e = d /\ end >= 3
    <3> HIDE DEF end
    <3> QED
      BY <2>2
  <2>6. sig = sig2 /\ entry = SubSeq(s, i + 1, d)
    <3>1. j + 1 = i + 2 /\ j + end - 1 = d - 1 /\ e = d
      <4>1. end = d - i - 1
        BY <2>2
      <4> HIDE DEF end
      <4> QED
        BY <4>1
    <3> HIDE DEF e, end
    <3> QED
      BY <3>1
  <2> HIDE DEF sig2, sig, entry, end
  <2>7. At(sig, 1) \in Basic
    BY <2>4, <2>6 DEF At
  <2>8. ~ (end < 3)
    BY <2>2, <2>5
  <2> QED
    BY <2>2, <2>6, <2>7, <2>8
<1> HIDE DEF u, run
<1>5. CASE Off
  <2> DEFINE error == OtherError
             left == FALSE
  <2>1. u = Fail(left, error)
    BY <1>2, <1>5, Zenon
  <2>2. \A d \in Nat : i <= d /\ d <= Len(s) /\ SubSeq(s, i, d) \in Types
                          => Backs(n, SubSeq(s, i, d), v) = {}
    BY <1>4, <1>5, Zenon
  <2>3. IsError(error) /\ left \in BOOLEAN
    BY <1>3
  <2> HIDE DEF error, left, Off
  <2>4. Right(n, s, i, v, u)
    BY <2>1, <2>2, <2>3, FailRight
  <2> QED
    BY <2>4 DEF u
<1>6. CASE ~ Off
  <2>1. end \in Nat /\ e \in Nat /\ i < e /\ i <= e /\ e <= Len(s)
    <3>1. end = Panic \/ end \in 1..(Len(s) - j)
      BY <1>1, MatchInside
    <3>2. ~ (end < 3)
      BY <1>6
    <3> HIDE DEF end
    <3>3. end # Panic
      BY <3>2 DEF Panic
    <3> QED
      BY <1>1, <3>1, <3>3
  <2> DEFINE type == SubSeq(s, i + 3, e - 1)
  <2>2. entry \in Entries
    BY <1>6
  <2>3. IsDict(s, i, e, t, sig, type) /\ entry = SubSeq(s, i + 1, e)
    <3>1. SubSeq(s, i + 1, e) \in Entries /\ t = SubSeq(s, i, e) /\ sig = SubSeq(s, i + 2, e - 1)
          /\ entry = SubSeq(s, i + 1, e) /\ type = SubSeq(s, i + 3, e - 1)
      <4>1. j + 1 = i + 2 /\ j + end - 1 = e - 1
        <5>1. end \in Nat
          BY <2>1
        <5> HIDE DEF end
        <5> QED
          BY <1>1, <5>1
      <4> HIDE DEF e, end
      <4> QED
        BY <2>2, <4>1
    <3> HIDE DEF e, t, sig, entry, type
    <3> QED
      BY <2>1, <3>1, DictIs
  <2>4. /\ sig \in Strings /\ Len(sig) \in Nat /\ Len(sig) >= 2 /\ sig[1] \in Basic
        /\ type = SubSeq(sig, 2, Len(sig)) /\ type \in Types
        /\ t \in Types /\ t[1] = "a" /\ t[2] = EntryOpen /\ Len(t) > 1
        /\ t[3] = sig[1] /\ SubSeq(t, 4, Len(t) - 1) = type
        /\ entry \in Strings /\ entry[1] = EntryOpen
    <3> HIDE DEF e, t, sig, entry, type
    <3> QED
      BY <2>3, Zenon DEF IsDict
  <2> HIDE DEF e, t, sig, end, entry, type, Off
  <2>5. Backs(n, t, v) =
          IF v.kind = "table"
            THEN {Table(ws) : ws \in OneOfEach([k \in 1..Len(v.items) |->
                     PairBack(back, sig[1], type, v.items[k].items)])}
            ELSE {}
    <3> HIDE DEF back
    <3>1. Back(back, t, v) =
              IF v.kind = "table"
                THEN {Table(ws) : ws \in OneOfEach([k \in 1..Len(v.items) |->
                        PairBack(back, t[3], SubSeq(t, 4, Len(t) - 1), v.items[k].items)])}
                ELSE {}
      BY <2>4, ArrayBackIs
    <3> QED
      BY <2>4, <3>1, Zenon DEF Backs, back
  <2>6. CASE v.kind # "table"
    <3> DEFINE error == TypeError(x, v)
               left == TRUE
    <3>1. u = Fail(left, error)
      BY <1>2, <1>6, <2>6, Zenon
    <3>2. SubSeq(s, i, e) \in Types /\ Backs(n, SubSeq(s, i, e), v) = {}
      BY <2>4, <2>5, <2>6, Zenon DEF t
    <3>3. IsError(error) /\ left \in BOOLEAN
      BY <1>3
    <3> HIDE DEF error, left
    <3>4. Right(n, s, i, v, u)
      BY <2>1, <3>1, <3>2, <3>3, FailAtRight
    <3> QED
      BY <3>4 DEF u
  <2>7. CASE v.kind = "table"
    <3>1. /\ n # 0 /\ Len(v.items) \in Nat
          /\ \A k \in 1..Len(v.items) : /\ v.items[k].items[1] \in Values[n - 1]
                                        /\ v.items[k].items[2] \in Values[n - 1]
      BY <2>7, ValuesAre
    <3>2. PICK m \in Nat : /\ m + 1 = n /\ Rightly(m) /\ Values[n - 1] = Values[m]
                           /\ f = Appending[m] /\ back = ReadBack[m]
      BY <3>1, LevelBelow
    <3> DEFINE vals == v.items
               B == EntryBacks(m, sig[1], type, vals)
               loop == "dict"
    <3>3. Len(vals) \in Nat /\ \A k \in 1..Len(vals) : /\ vals[k].items[1] \in Values[m]
                                                       /\ vals[k].items[2] \in Values[m]
      BY <3>1, <3>2, Zenon
    <3>4. run = AppendEach(Appending[m], "dict", sig, vals, x)
      BY <3>2 DEF run
    <3> HIDE DEF vals, f, back
    <3>5. EachRight(Appending[m], "dict", sig, vals, EachEntry(m, B), B)
      BY <2>4, <3>2, <3>3, EntriesRight
    <3>6. /\ DOMAIN B = 1..Len(vals)
          /\ B = [k \in 1..Len(vals) |-> PairBack(ReadBack[m], sig[1], type, vals[k].items)]
      BY Zenon DEF EntryBacks
    <3>7. EntriesEnd(m, B, run)
      <4>1. /\ EachRight(Appending[m], loop, sig, vals, EachEntry(m, B), B)
            /\ run = AppendEach(Appending[m], loop, sig, vals, x)
        BY <3>4, <3>5
      <4> HIDE DEF loop, B
      <4> QED
        BY <2>4, <3>2, <3>3, <3>6, <4>1, EntriesDone
    <3>8. Backs(n, t, v) = {Table(ws) : ws \in OneOfEach(B)}
      BY <2>5, <2>7, <3>2, <3>6, Zenon DEF vals
    <3> HIDE DEF B
    <3>9. ASSUME run.error = NoError
          PROVE  /\ run.x \in Contexts /\ run.items \in Seq(Items[n] \cup EntriesOf(Items[n]))
                 /\ ReadComplete(Reading[n], Item("a", entry, run.items)) \in Backs(n, t, v)
      <4> DEFINE item == Item("a", entry, run.items)
                 vs == run.items
                 I == Items[n]
                 ws == [k \in 1..Len(vs) |-> Tuple(Contents(Reading[n], vs[k]))]
      <4>1. /\ run.x \in Contexts /\ run.items \in Seq(EntriesOf(Items[m + 1]))
            /\ [k \in 1..Len(run.items) |-> Tuple(Contents(Reading[m + 1], run.items[k]))]
                  \in OneOfEach(B)
        BY <3>7, <3>9, Zenon DEF EntriesEnd
      <4>2. vs \in Seq(EntriesOf(I)) /\ ws \in OneOfEach(B)
        BY <3>2, <4>1, Zenon
      <4>3. item.type = "a" /\ item.items = vs /\ item.sig = entry
        BY DEF Item
      <4> HIDE DEF item, I, ws
      <4>4. vs \in Seq(I \cup EntriesOf(I))
        <5> DEFINE E == EntriesOf(I)
        <5>1. vs \in Seq(E)
          BY <4>2
        <5> HIDE DEF E, vs
        <5>2. vs \in Seq(I \cup E)
          BY <5>1
        <5> QED
          BY <5>2 DEF E
      <4>5. ReadComplete(Reading[n], item) = Table(ws)
        <5> HIDE DEF vs
        <5>1. ReadComplete(Reading[n], item)
                = Table([k \in 1..Len(item.items) |-> Tuple(Contents(Reading[n], item.items[k]))])
          BY <2>4, <4>3, ReadCompleteIs
        <5> QED
          BY <4>3, <5>1, Zenon DEF ws
      <4>6. ReadComplete(Reading[n], item) \in Backs(n, t, v)
        BY <3>8, <4>2, <4>5, Zenon
      <4> QED
        BY <4>1, <4>4, <4>6, Zenon DEF item, vs, I
    <3>10. run.error # NoError => IsError(run.error) /\ Backs(n, t, v) = {}
      BY <3>7, <3>8, Zenon DEF EntriesEnd
    <3>11. u = Close(e, "a", entry, run)
      BY <1>2, <1>6, <2>7, Zenon
    <3>12. Right(n, s, i, v, Close(e, "a", entry, run))
      <4>1. "a" \in {"(", "a"}
        OBVIOUS
      <4> QED
        BY <2>1, <2>4, <3>9, <3>10, <4>1, CloseRight DEF t
    <3> QED
      BY <3>11, <3>12 DEF u, f
  <2> QED
    BY <2>6, <2>7
<1> QED
  BY <1>5, <1>6

--------------------------------------------------------------------------------
(* append_complete_type                                                         *)

\* A result that is a success.
IsDone(r) == \E i, item, x : r = Done(i, item, x)
IsResult(r) == r.ok => IsDone(r)

\* The append functions succeed with such a result.
LEMMA ResultsAre ==
  ASSUME NEW f, NEW s, NEW i, NEW v, NEW x
  PROVE  /\ IsResult(AppendBasic(s, i, v, x)) /\ IsResult(AppendVariant(f, i, v, x))
         /\ IsResult(AppendStruct(f, s, i, v, x)) /\ IsResult(AppendArray(f, s, i, v, x))
<1>1. \A left, error : IsResult(Fail(left, error))
  BY FailIs, Zenon DEF IsResult
<1>2. \A e, item, y : IsResult(Done(e, item, y))
  BY Zenon DEF IsResult, IsDone
<1>3. \A e, type, sig, r : IsResult(Close(e, type, sig, r))
  BY <1>1, <1>2, Zenon DEF Close
<1>4. IsResult(AppendBasic(s, i, v, x))
  BY <1>1, <1>2, Zenon DEF AppendBasic
<1>5. IsResult(AppendVariant(f, i, v, x))
  BY <1>1, <1>2, Zenon DEF AppendVariant
<1>6. IsResult(AppendStruct(f, s, i, v, x))
  BY <1>1, <1>3, Zenon DEF AppendStruct
<1>7. ASSUME NEW j
      PROVE  IsResult(AppendDict(f, s, j, v, x))
  BY <1>1, <1>3, Zenon DEF AppendDict
<1>8. IsResult(AppendBytes(i, v, x))
  BY <1>1, <1>2, Zenon DEF AppendBytes
<1>9. IsResult(AppendArray(f, s, i, v, x))
  BY <1>1, <1>3, <1>7, <1>8, Zenon DEF AppendArray
<1> QED
  BY <1>4, <1>5, <1>6, <1>9

\* Leaving the context of the type changes nothing else.
LEMMA ExitRight ==
  ASSUME NEW n \in Nat, NEW s, NEW i, NEW v, NEW r, IsResult(r), Right(n, s, i, v, r)
  PROVE  Right(n, s, i, v, IF r.ok THEN [r EXCEPT !.x = Exit(@)] ELSE r)
<1>1. CASE ~ r.ok
  BY <1>1, Zenon
<1>2. CASE r.ok
  <2> DEFINE u == [r EXCEPT !.x = Exit(@)]
  <2>1. PICK e, item, x : r = Done(e, item, x)
    BY <1>2, Zenon DEF IsResult, IsDone
  <2>2. r = [ok |-> TRUE, i |-> e, item |-> item, x |-> x]
    BY <2>1, Zenon DEF Done
  <2>3. u = [r EXCEPT !.x = Exit(r.x)]
    OBVIOUS
  <2> DEFINE y == Exit(r.x)
  <2>4. u = [r EXCEPT !.x = y]
    BY <2>3
  <2> HIDE DEF u, y
  <2>5. u.ok /\ u.i = r.i /\ u.item = r.item /\ u.x = y
    BY <2>2, <2>4
  <2>6. r.x \in Contexts
    BY <1>2, Zenon DEF Right
  <2>7. u.x \in Contexts
    BY <2>5, <2>6, ContextsStay DEF y
  <2>8. Right(n, s, i, v, u)
    BY <1>2, <2>5, <2>7, Zenon DEF Right
  <2> QED
    BY <1>2, <2>8, Zenon DEF u
<1> QED
  BY <1>1, <1>2

\* An array is written right, if what is in it is.
LEMMA ArrayCase ==
  ASSUME NEW n \in Nat, Under(n), NEW s \in Strings, NEW i \in Nat, i >= 1, i <= Len(s),
         s[i] = "a", NEW v \in Values[n], NEW x \in Contexts
  PROVE  Right(n, s, i, v, AppendArray(Below(Appending, n), s, i, v, x))
<1> DEFINE f == Below(Appending, n)
           j == i + 1
           u == AppendArray(f, s, i, v, x)
<1>1. Len(s) \in Nat /\ j \in Nat /\ j >= 1
  BY StringsAre
<1>2. EntryOpen # "end" /\ EntryOpen # "y"
  BY Zenon DEF EntryOpen
<1> HIDE DEF j
<1>3. At(s, j) = EntryOpen \/ At(s, j) = "y" => j <= Len(s) /\ At(s, j) = s[j]
  BY <1>1, <1>2 DEF At
<1>4. CASE At(s, j) = EntryOpen
  <2>1. u = AppendDict(f, s, j, v, x)
    BY <1>4, Zenon DEF AppendArray, j
  <2>2. i + 1 <= Len(s) /\ s[i + 1] = EntryOpen
    BY <1>3, <1>4 DEF j
  <2> HIDE DEF u
  <2>3. Right(n, s, i, v, AppendDict(Below(Appending, n), s, j, v, x))
    BY <2>2, DictCase DEF j
  <2> QED
    BY <2>1, <2>3 DEF u
<1>5. CASE At(s, j) # EntryOpen /\ At(s, j) = "y"
  <2>1. u = AppendBytes(i, v, x)
    BY <1>5, Zenon DEF AppendArray, j
  <2>2. i + 1 <= Len(s) /\ s[i + 1] = "y"
    BY <1>3, <1>5 DEF j
  <2> HIDE DEF u
  <2>3. Right(n, s, i, v, AppendBytes(i, v, x))
    BY <2>2, BytesCase
  <2> QED
    BY <2>1, <2>3 DEF u
<1>6. CASE At(s, j) # EntryOpen /\ At(s, j) # "y"
  <2>1. At(s, i + 1) # EntryOpen /\ At(s, i + 1) # "y"
    BY <1>6 DEF j
  <2> QED
    BY <2>1, ElementsCase
<1> QED
  BY <1>4, <1>5, <1>6

\* append_complete_type is right if it is for the level below: the cases are the types.
LEMMA CompleteRight ==
  ASSUME NEW n \in Nat, Under(n), NEW s \in Strings, NEW i \in Nat, i >= 1,
         NEW v \in Values[n], NEW x \in Contexts
  PROVE  Right(n, s, i, v, AppendComplete(Below(Appending, n), s, i, v, x))
<1> DEFINE f == Below(Appending, n)
           l == Span(s, i)
           in == Enter(x, SubSeq(s, i, i + l - 1))
           r == CASE At(s, i) \in Basic -> AppendBasic(s, i, v, in)
                  [] At(s, i) = "v" -> AppendVariant(f, i, v, in)
                  [] At(s, i) = "(" -> AppendStruct(f, s, i, v, in)
                  [] OTHER -> AppendArray(f, s, i, v, in)
           u == AppendComplete(f, s, i, v, x)
<1>1. u = IF l = Panic THEN Fail(FALSE, OtherError)
          ELSE IF r.ok THEN [r EXCEPT !.x = Exit(@)] ELSE r
  BY Zenon DEF AppendComplete
<1>2. CASE l = Panic
  <2> DEFINE error == OtherError
             left == FALSE
  <2>1. ASSUME NEW d \in Nat, i <= d, d <= Len(s), SubSeq(s, i, d) \in Types
        PROVE  FALSE
    <3> DEFINE k == d - i
    <3>1. s \in Seq(STRING) /\ Len(s) \in Nat
      BY StringsAre
    <3>2. k \in Nat /\ i + k = d /\ i \in 1..Len(s) /\ i + k <= Len(s)
      BY <2>1, <3>1
    <3> HIDE DEF k
    <3>3. SubSeq(s, i, i + k) \in Types
      BY <2>1, <3>2
    <3>4. Span(s, i) = IF s[i] = "(" THEN k ELSE k + 1
      BY <3>1, <3>2, <3>3, OffsetsFindTypes
    <3>5. Span(s, i) = k \/ Span(s, i) = k + 1
      BY <3>4
    <3> QED
      BY <1>2, <3>2, <3>5 DEF Panic
  <2>2. u = Fail(left, error)
    BY <1>1, <1>2, Zenon
  <2>3. IsError(error) /\ left \in BOOLEAN
    BY ErrorsAre
  <2> HIDE DEF u, error, left
  <2>4. Right(n, s, i, v, u)
    BY <2>1, <2>2, <2>3, FailRight
  <2> QED
    BY <2>4 DEF u
<1>3. CASE l # Panic
  <2>1. /\ i <= Len(s) /\ s[i] \in Basic \cup {"v", "a", "("} /\ At(s, i) = s[i]
        /\ SubSeq(s, i, i + l - 1) \in Strings
    BY <1>3, SpanInside
  <2>2. in \in Contexts
    BY <2>1, ContextsStay
  <2> HIDE DEF in, l
  <2>3. /\ "v" \notin Basic /\ "(" \notin Basic /\ "a" \notin Basic
        /\ "v" # "(" /\ "a" # "v" /\ "a" # "("
    BY DEF Basic
  <2> DEFINE basic == AppendBasic(s, i, v, in)
             variant == AppendVariant(f, i, v, in)
             struct == AppendStruct(f, s, i, v, in)
             array == AppendArray(f, s, i, v, in)
             c == At(s, i)
             z == CASE c \in Basic -> basic [] c = "v" -> variant
                    [] c = "(" -> struct [] OTHER -> array
  <2>4. r = z
    OBVIOUS
  <2>5. /\ IsResult(basic) /\ IsResult(variant) /\ IsResult(struct) /\ IsResult(array)
    BY ResultsAre
  <2>6. /\ s[i] \in Basic => Right(n, s, i, v, basic)
        /\ s[i] = "v" => Right(n, s, i, v, variant)
        /\ s[i] = "(" => Right(n, s, i, v, struct)
        /\ s[i] = "a" => Right(n, s, i, v, array)
    <3>1. s[i] \in Basic => Right(n, s, i, v, AppendBasic(s, i, v, in))
      BY <2>1, <2>2, BasicCase
    <3>2. s[i] = "v" => Right(n, s, i, v, AppendVariant(Below(Appending, n), i, v, in))
      BY <2>1, <2>2, VariantCase
    <3>3. s[i] = "(" => Right(n, s, i, v, AppendStruct(Below(Appending, n), s, i, v, in))
      BY <2>1, <2>2, StructCase
    <3>4. s[i] = "a" => Right(n, s, i, v, AppendArray(Below(Appending, n), s, i, v, in))
      BY <2>1, <2>2, ArrayCase
    <3> QED
      BY <3>1, <3>2, <3>3, <3>4
  <2> HIDE DEF basic, variant, struct, array
  <2>7. c = s[i] /\ (c \in Basic \/ c = "v" \/ c = "(" \/ c = "a")
    BY <2>1
  <2> HIDE DEF c
  <2>8. /\ c \in Basic => z = basic
        /\ c = "v" => z = variant
        /\ c = "(" => z = struct
        /\ c = "a" => z = array
    BY <2>3
  <2> HIDE DEF z, r, u
  <2>9. Right(n, s, i, v, r) /\ IsResult(r)
    BY <2>4, <2>5, <2>6, <2>7, <2>8, Zenon
  <2>10. u = IF r.ok THEN [r EXCEPT !.x = Exit(@)] ELSE r
    BY <1>1, <1>3, Zenon DEF l
  <2>11. Right(n, s, i, v, u)
    BY <2>9, <2>10, ExitRight, Zenon
  <2> QED
    BY <2>11 DEF u, f
<1> QED
  BY <1>2, <1>3

\* Whatever the arguments and however deep they nest, append_complete_type writes
\* what reads back as the argument, or fails and is right to.
LEMMA AllRight == \A n \in Nat : Rightly(n)
<1> DEFINE Off == {n \in Nat : ~ Rightly(n)}
<1> SUFFICES ASSUME Off # {}
             PROVE  FALSE
  OBVIOUS
<1>1. PICK n \in Off : \A m \in Off : n <= m
  <2> HIDE DEF Off
  <2>1. Off \in SUBSET Nat
    BY DEF Off
  <2> QED
    BY <2>1, HasLeast
<1>2. n \in Nat /\ ~ Rightly(n)
  BY <1>1
<1>3. Under(n)
  <2> SUFFICES ASSUME n # 0
               PROVE  Rightly(n - 1)
    BY Zenon DEF Under
  <2>1. n - 1 \in Nat /\ ~ (n <= n - 1)
    BY <1>2
  <2> QED
    BY <1>1, <2>1
<1>4. Rightly(n)
  <2> SUFFICES ASSUME NEW s \in Strings, NEW i \in Nat, NEW v \in Values[n], NEW x \in Contexts,
                      i >= 1
               PROVE  Right(n, s, i, v, Appending[n][Call(s, i, v, x)])
    BY Zenon DEF Rightly
  <2>1. Appending[n][Call(s, i, v, x)] = AppendComplete(Below(Appending, n), s, i, v, x)
    BY <1>2, AppendOf
  <2>2. Right(n, s, i, v, AppendComplete(Below(Appending, n), s, i, v, x))
    BY <1>2, <1>3, CompleteRight
  <2> QED
    BY <2>1, <2>2, Zenon
<1> QED
  BY <1>2, <1>4

--------------------------------------------------------------------------------
(* sdbus/message-append                                                         *)

\* What the first n of the values vals read back as, written with the types in s.
Reads(s, vals, n) ==
  IF n = 0 THEN {<< >>} ELSE EachBack(ReadBack[Depth], s, SubSeq(vals, 1, n))

\* The result of append_data is right: an error exactly if the arguments do not fit, and
\* what was written reads back as the arguments before.
DataIs(s, vals, r) ==
  /\ r.error.kind \in {"none", "type", "other"} /\ r.open \in BOOLEAN
  /\ r.error = NoError <=> AllBack(ReadBack[Depth], s, vals) # {}
  /\ Len(r.items) \in Nat
  /\ [j \in 1..Len(r.items) |-> ItemValue(r.items[j])] \in Reads(s, vals, Len(r.items))

\* What a loop over the arguments wrote, also if it failed.
LEMMA WrittenPrefix ==
  ASSUME NEW n \in Nat, NEW s, NEW vals \in Seq(Values[n]), NEW k \in 0..Len(vals),
         NEW T, NEW its \in Seq(T), Len(its) = k,
         \A j \in 1..k : its[j] \in Each(n, TypeBacks(n, s, vals))[j]
  PROVE  k # 0 => [j \in 1..k |-> Reading[n + 1][its[j]]]
                    \in EachBack(ReadBack[n], s, SubSeq(vals, 1, k))
<1> SUFFICES ASSUME k # 0
             PROVE  [j \in 1..k |-> Reading[n + 1][its[j]]]
                      \in EachBack(ReadBack[n], s, SubSeq(vals, 1, k))
  OBVIOUS
<1> DEFINE V == Values[n]
           part == SubSeq(vals, 1, k)
           B == TypeBacks(n, s, part)
<1>1. k \in Nat /\ Len(part) = k /\ \A j \in 1..k : part[j] = vals[j] /\ j \in 1..Len(vals)
  <2>1. vals \in Seq(V)
    OBVIOUS
  <2> HIDE DEF V
  <2> QED
    BY <2>1
<1> HIDE DEF part
<1>2. DOMAIN B = 1..k /\ EachBack(ReadBack[n], s, part) = OneOfEach(B)
      /\ \A j \in 1..k : B[j] = ReadBack[n][<< TypeAt(s, j), vals[j] >>]
  BY <1>1, Zenon DEF TypeBacks, EachBack
<1>3. \A j \in 1..k : its[j] \in Each(n, B)[j]
  <2>1. \A j \in 1..k : Each(n, TypeBacks(n, s, vals))[j]
                           = For(n, ReadBack[n][<< TypeAt(s, j), vals[j] >>])
    BY <1>1, Zenon DEF Each, TypeBacks
  <2>2. \A j \in 1..k : Each(n, B)[j] = For(n, B[j])
    BY <1>2, Zenon DEF Each
  <2> QED
    BY <1>2, <2>1, <2>2, Zenon
<1> HIDE DEF B
<1>4. [j \in 1..k |-> Reading[n + 1][its[j]]] \in OneOfEach(B)
  BY <1>1, <1>2, <1>3, ItemsBack
<1> QED
  BY <1>2, <1>4 DEF part

\* append_data is right, for any signature and any arguments.
LEMMA DataRight ==
  ASSUME NEW s \in Strings, NEW vals \in Seq(Values[Depth])
  PROVE  DataIs(s, vals, AppendData(s, vals))
<1> DEFINE n == Depth
           r == AppendData(s, vals)
           B == TypeBacks(n, s, vals)
           W == Each(n, B)
           k == Len(vals)
           loop == "arguments"
           end == AppendEach(Appending[n], loop, s, vals, Reset)
           V == Values[n]
<1>1. n \in Nat /\ Rightly(n) /\ Len(s) \in Nat /\ k \in Nat /\ Reset \in Contexts
      /\ loop \in {"struct", "arguments"}
  <2>1. vals \in Seq(V)
    OBVIOUS
  <2>2. n \in Nat
    BY Parameters
  <2> HIDE DEF V
  <2>3. k \in Nat
    BY <2>1
  <2> QED
    BY <2>2, <2>3, AllRight, ResetIs, StringsAre
<1>2. r = AllTaken(s, end)
  BY Zenon DEF AppendData
<1> HIDE DEF loop, r
<1>3. PackEnd(n, s, vals, r)
  BY <1>1, <1>2, PackDone
<1>4. EachRight(Appending[n], loop, s, vals, W, B)
  BY <1>1, TypesRight
<1> HIDE DEF V, B, W, n
<1>5. IsRun(end) /\ LoopRight(loop, s, W, B, end, k)
  BY <1>1, <1>4, LoopsRight
<1> HIDE DEF end
<1>6. /\ r.open = end.open /\ r.items = end.items
      /\ r.error = NoError => end.error = NoError
  <2>1. CASE end.error = NoError /\ end.i <= Len(s)
    <3>1. r = [end EXCEPT !.error = OtherError]
      BY <1>2, <2>1, Zenon DEF AllTaken
    <3>2. r.open = end.open /\ r.items = end.items
      BY <1>5, <3>1 DEF IsRun
    <3> QED
      BY <2>1, <3>2
  <2>2. CASE ~ (end.error = NoError /\ end.i <= Len(s))
    BY <1>2, <2>2, Zenon DEF AllTaken
  <2> QED
    BY <2>1, <2>2
<1>7. \E m \in 0..k : /\ Len(end.items) = m /\ end.items \in Seq(UNION {W[j] : j \in 1..m})
                      /\ \A j \in 1..m : end.items[j] \in W[j]
  <2>1. CASE end.error = NoError
    <3>1. k \in 0..k
      BY <1>1
    <3> QED
      BY <1>5, <2>1, <3>1, Zenon DEF LoopRight
  <2>2. CASE end.error # NoError
    <3>1. PICK b \in 1..k : /\ Len(end.items) = b - 1
                            /\ end.items \in Seq(UNION {W[j] : j \in 1..(b - 1)})
                            /\ \A j \in 1..(b - 1) : end.items[j] \in W[j]
      BY <1>5, <2>2, Zenon DEF LoopRight
    <3>2. b - 1 \in 0..k
      BY <1>1
    <3> QED
      BY <3>1, <3>2, Zenon
  <2> QED
    BY <2>1, <2>2
<1>8. end.open \in BOOLEAN
  <2>1. FALSE \in BOOLEAN
    OBVIOUS
  <2> QED
    BY <1>5, <2>1, Zenon DEF LoopRight
<1>9. r.error.kind \in {"none", "type", "other"}
      /\ (r.error = NoError <=> AllBack(ReadBack[n], s, vals) # {})
  <2>1. NoError.kind = "none"
    BY DEF NoError
  <2>2. CASE r.error = NoError
    BY <1>3, <2>1, <2>2, Zenon DEF PackEnd
  <2>3. CASE r.error # NoError
    BY <1>3, <2>3, Zenon DEF PackEnd, IsError
  <2> QED
    BY <2>2, <2>3
<1>10. PICK m \in 0..k : /\ Len(r.items) = m /\ r.items \in Seq(UNION {W[j] : j \in 1..m})
                         /\ \A j \in 1..m : r.items[j] \in Each(n, B)[j]
  BY <1>6, <1>7, Zenon DEF W
<1> DEFINE its == r.items
           T == UNION {W[j] : j \in 1..m}
<1>11. m \in Nat /\ its \in Seq(T) /\ m \in 0..Len(vals)
  BY <1>1, <1>10
<1> HIDE DEF its, T, k
<1>12. m # 0 => [j \in 1..m |-> Reading[n + 1][its[j]]]
                   \in EachBack(ReadBack[n], s, SubSeq(vals, 1, m))
  BY <1>1, <1>10, <1>11, WrittenPrefix DEF its, B, n
<1>13. [j \in 1..m |-> ItemValue(its[j])] = [j \in 1..m |-> Reading[n + 1][its[j]]]
  BY Zenon DEF ItemValue, n
<1>14. [j \in 1..m |-> ItemValue(its[j])] \in Reads(s, vals, m)
  <2>1. CASE m = 0
    <3>1. [j \in 1..0 |-> ItemValue(its[j])] = << >>
      OBVIOUS
    <3> QED
      BY <2>1, <3>1 DEF Reads
  <2>2. CASE m # 0
    BY <1>12, <1>13, <2>2, Zenon DEF Reads, n
  <2> QED
    BY <2>1, <2>2
<1>15. DataIs(s, vals, r)
  BY <1>6, <1>8, <1>9, <1>10, <1>11, <1>14, Zenon DEF DataIs, n, its
<1> QED
  BY <1>15 DEF r

--------------------------------------------------------------------------------
(* The operations on a message                                                  *)

\* Nothing is read before the message is sealed, and nothing written afterwards: the
\* message holds what reads back as the arguments that were written.
BodyInv ==
  /\ TypeOK /\ ReadsInOrder /\ AppendsWhatFits
  /\ Len(items) \in Nat
  /\ ~sealed => cursor = 0
  /\ [j \in 1..Len(items) |-> ItemValue(items[j])] \in Written(Len(items))

\* Reading on from c keeps the order, if what was read before c is in order.
LEMMA ReadFromKeeps ==
  ASSUME BodyInv, NEW c \in 0..Len(items), NEW n \in Nat, sealed,
         NEW before, before = [j \in 1..c |-> ItemValue(items[j])],
         ReadFrom(c, before, n)
  PROVE  BodyInv'
<1> DEFINE last == IF c + n <= Len(items) THEN c + n ELSE Len(items)
           more == [j \in 1..(last - c) |-> ItemValue(items[c + j])]
<1>1. last \in c..Len(items) /\ last \in Nat /\ c \in Nat /\ last - c \in Nat
  BY DEF BodyInv
<1>2. cursor' = last /\ got' = before \o more
      /\ UNCHANGED <<call, items, open, sealed>>
  BY DEF ReadFrom
<1> HIDE DEF last
<1>3. before \o more = [j \in 1..last |-> ItemValue(items[j])]
  <2>1. /\ Len(before) = c /\ Len(more) = last - c
        /\ \A j \in 1..c : before[j] = ItemValue(items[j])
        /\ \A j \in 1..(last - c) : more[j] = ItemValue(items[c + j])
    BY <1>1
  <2>2. before \o more = [j \in 1..(c + (last - c)) |->
                             IF j <= c THEN before[j] ELSE more[j - c]]
    BY <2>1, <1>1
  <2>3. \A j \in 1..last : (IF j <= c THEN before[j] ELSE more[j - c])
                             = ItemValue(items[j])
    BY <2>1, <1>1
  <2> QED
    BY <2>2, <2>3, <1>1
<1>4. TypeOK' /\ ReadsInOrder' /\ (~sealed => cursor = 0)' /\ (Len(items) \in Nat)'
  BY <1>1, <1>2, <1>3 DEF BodyInv, TypeOK, ReadsInOrder
<1>5. /\ AppendsWhatFits'
      /\ [j \in 1..Len(items') |-> ItemValue(items'[j])] \in Written(Len(items))'
  BY <1>2, Zenon DEF BodyInv, AppendsWhatFits, Written
<1> QED
  BY <1>4, <1>5, Zenon DEF BodyInv

\* A new message satisfies the invariant.
LEMMA InitBody == Init => BodyInv
<1> SUFFICES ASSUME Init PROVE BodyInv
  OBVIOUS
<1>1. << >> = [j \in 1..0 |-> ItemValue(items[j])]
  OBVIOUS
<1>2. Len(items) = 0 /\ items = << >>
  BY DEF Init
<1>3. cursor \in 0..Len(items) /\ Len(items) \in Nat /\ (~sealed => cursor = 0)
  BY <1>2 DEF Init
<1>4. call = NoCall /\ open \in BOOLEAN /\ sealed \in BOOLEAN
  BY Zenon DEF Init
<1>5. ReadsInOrder
  BY <1>1 DEF Init, ReadsInOrder
<1>6. [j \in 1..Len(items) |-> ItemValue(items[j])] \in Written(Len(items))
  BY <1>1, <1>2 DEF Written
<1>7. AppendsWhatFits
  BY <1>4, Zenon DEF AppendsWhatFits
<1> QED
  BY <1>3, <1>4, <1>5, <1>6, <1>7 DEF BodyInv, TypeOK

\* message-append.
LEMMA AppendBody == BodyInv /\ MessageAppend => BodyInv'
<1> SUFFICES ASSUME BodyInv, MessageAppend
             PROVE  BodyInv'
  OBVIOUS
<1>1. PICK s \in Signatures, vals \in Arguments :
        /\ call' = [sig |-> s, args |-> vals, error |-> AppendData(s, vals).error]
        /\ items' = AppendData(s, vals).items /\ open' = AppendData(s, vals).open
  BY Zenon DEF MessageAppend
<1>2. ~ sealed /\ sealed' = sealed /\ cursor' = cursor /\ got' = got
  BY DEF MessageAppend
<1> DEFINE r == AppendData(s, vals)
<1>3. DataIs(s, vals, r)
  BY Parameters, DataRight
<1> HIDE DEF r
<1>4. /\ call'.sig = s /\ call'.args = vals /\ call'.error = r.error
      /\ items' = r.items /\ open' = r.open
  BY <1>1 DEF r
<1>5. cursor = 0 /\ got = << >>
  <2>1. cursor = 0 /\ ReadsInOrder
    BY <1>2 DEF BodyInv
  <2> QED
    BY <2>1 DEF ReadsInOrder
<1>6. AppendsWhatFits'
  BY <1>3, <1>4, Zenon DEF DataIs, AppendsWhatFits
<1>7. [j \in 1..Len(items') |-> ItemValue(items'[j])] \in Written(Len(items))'
  BY <1>3, <1>4, Zenon DEF DataIs, Written, Reads
<1>8. Len(items') \in Nat /\ open' \in BOOLEAN /\ call'.error.kind \in {"none", "type", "other"}
  BY <1>3, <1>4, Zenon DEF DataIs
<1>9. cursor' \in 0..Len(items') /\ cursor' = 0 /\ sealed' \in BOOLEAN
  BY <1>2, <1>5, <1>8 DEF BodyInv, TypeOK
<1>10. TypeOK'
  BY <1>8, <1>9, Zenon DEF TypeOK
<1>11. ReadsInOrder'
  <2>1. << >> = [j \in 1..0 |-> ItemValue(items'[j])]
    OBVIOUS
  <2> QED
    BY <1>2, <1>5, <2>1 DEF ReadsInOrder
<1> QED
  BY <1>6, <1>7, <1>8, <1>9, <1>10, <1>11 DEF BodyInv

\* Every operation keeps the order, and what can be read.
LEMMA NextBody == BodyInv /\ [Next]_vars => BodyInv'
<1> SUFFICES ASSUME BodyInv, [Next]_vars
             PROVE  BodyInv'
  OBVIOUS
<1>1. CASE MessageAppend
  BY <1>1, AppendBody
<1>2. CASE MessageSeal
  <2>1. /\ sealed' = TRUE /\ call' = call /\ items' = items /\ open' = open
        /\ cursor' = cursor /\ got' = got
    BY <1>2 DEF MessageSeal
  <2>2. TRUE \in BOOLEAN
    OBVIOUS
  <2>3. TypeOK' /\ ReadsInOrder' /\ AppendsWhatFits'
    BY <2>1, <2>2, Zenon DEF BodyInv, TypeOK, ReadsInOrder, AppendsWhatFits
  <2>4. [j \in 1..Len(items') |-> ItemValue(items'[j])] \in Written(Len(items))'
    BY <2>1, Zenon DEF BodyInv, Written
  <2> QED
    BY <2>1, <2>3, <2>4 DEF BodyInv
<1>3. CASE MessageRead
  BY <1>3, Parameters, ReadFromKeeps DEF MessageRead, BodyInv, TypeOK, ReadsInOrder
<1>4. CASE MessageReadRest
  BY <1>4, ReadFromKeeps DEF MessageReadRest, BodyInv, TypeOK, ReadsInOrder
<1>5. CASE MessageReadAll
  <2>1. << >> = [j \in 1..0 |-> ItemValue(items[j])]
    OBVIOUS
  <2>2. sealed /\ ReadFrom(0, << >>, Len(items)) /\ 0 \in 0..Len(items)
    BY <1>5 DEF MessageReadAll, BodyInv
  <2> QED
    BY <2>1, <2>2, ReadFromKeeps DEF BodyInv
<1>6. CASE MessageRewind
  <2>1. << >> = [j \in 1..0 |-> ItemValue(items[j])]
    OBVIOUS
  <2>2. /\ cursor' = 0 /\ got' = << >> /\ call' = call /\ items' = items /\ open' = open
        /\ sealed' = sealed
    BY <1>6 DEF MessageRewind
  <2>3. AppendsWhatFits'
    BY <2>2, Zenon DEF BodyInv, AppendsWhatFits
  <2>4. [j \in 1..Len(items') |-> ItemValue(items'[j])] \in Written(Len(items))'
    BY <2>2, Zenon DEF BodyInv, Written
  <2>5. TypeOK' /\ ReadsInOrder' /\ (Len(items) \in Nat)' /\ (~sealed => cursor = 0)'
    BY <2>1, <2>2 DEF BodyInv, TypeOK, ReadsInOrder
  <2> QED
    BY <2>3, <2>4, <2>5 DEF BodyInv
<1>7. CASE UNCHANGED vars
  <2>1. /\ cursor' = cursor /\ got' = got /\ call' = call /\ items' = items /\ open' = open
        /\ sealed' = sealed
    BY <1>7 DEF vars
  <2> QED
    BY <2>1, Zenon DEF BodyInv, TypeOK, ReadsInOrder, AppendsWhatFits, Written
<1> QED
  BY <1>1, <1>2, <1>3, <1>4, <1>5, <1>6, <1>7 DEF Next

\* What was read is the start of what can be read.
LEMMA BodyReadsBack == BodyInv => ReadsBackWhatWasWritten
<1> SUFFICES ASSUME BodyInv
             PROVE  \E ws \in Written(Len(items)) : got = SubSeq(ws, 1, cursor)
  BY Zenon DEF ReadsBackWhatWasWritten
<1> DEFINE n == Len(items)
           ws == [j \in 1..n |-> ItemValue(items[j])]
<1>1. ws \in Written(n) /\ n \in Nat /\ cursor \in 0..n /\ got = [j \in 1..cursor |-> ItemValue(items[j])]
  BY DEF BodyInv, TypeOK, ReadsInOrder
<1> HIDE DEF n
<1>2. SubSeq(ws, 1, cursor) = [j \in 1..cursor |-> ItemValue(items[j])]
  <2>1. ws = [j \in 1..n |-> ws[j]] /\ \A j \in 1..cursor : ws[j] = ItemValue(items[j])
    BY <1>1
  <2>2. ws \in Seq({ws[j] : j \in 1..n}) /\ Len(ws) = n
    BY <1>1
  <2> HIDE DEF ws
  <2>3. SubSeq(ws, 1, cursor) = [j \in 1..cursor |-> ws[j]]
    BY <1>1, <2>2
  <2> QED
    BY <2>1, <2>3, Zenon
<1> HIDE DEF ws
<1> QED
  BY <1>1, <1>2, Zenon DEF n

\* The cursor stays within the message, for every signature, every argument list, and
\* any number of reads (cfun_message_read and the others that move it, message.c:669-736).
THEOREM MessageTypeCorrect == Spec => []TypeOK
<1>1. BodyInv => TypeOK
  BY DEF BodyInv
<1> QED
  BY <1>1, InitBody, NextBody, PTL DEF Spec

\* Any portions, :rest, :all, rewinds and dumps read the items of a message each once
\* and in order (cfun_message_read, message.c:669-690).
THEOREM ReadsAreInOrder == Spec => []ReadsInOrder
<1>1. BodyInv => ReadsInOrder
  BY DEF BodyInv
<1> QED
  BY <1>1, InitBody, NextBody, PTL DEF Spec

\* message-append succeeds exactly for a sequence of complete types with arguments that
\* fit them, for every signature and arguments nested to any depth (append_data and the
\* functions below it, message.c:65-338).
THEOREM AppendTakesWhatFits == Spec => []AppendsWhatFits
<1>1. BodyInv => AppendsWhatFits
  BY DEF BodyInv
<1> QED
  BY <1>1, InitBody, NextBody, PTL DEF Spec

\* Whatever message-append has written, message-read gives back, in any portions:
\* the arguments, or those before the first that did not fit (message.c:126-438 and 655).
THEOREM MessagesReadBack == Spec => []ReadsBackWhatWasWritten
<1> QED
  BY BodyReadsBack, InitBody, NextBody, PTL DEF Spec

--------------------------------------------------------------------------------
(* The components of a value                                                    *)

\* A value of a basic type has no parts.
LEMMA NoParts ==
  ASSUME NEW t, NEW v \in Atoms
  PROVE  Parts(t, v) = {}
<1>1. v.kind \in {"number", "string"}
  BY DEF Atoms
<1>2. "tuple" \notin {"number", "string"} /\ "table" \notin {"number", "string"}
  OBVIOUS
<1>3. CASE t[1] \in Basic
  BY <1>3, Zenon DEF Parts
<1>4. CASE Bytes(t)
  BY <1>4, Zenon DEF Parts
<1>5. CASE t[1] \notin Basic /\ ~ Bytes(t)
  <2>1. ~ Fits(t, v)
    BY <1>1, <1>2, <1>5, Zenon DEF Fits
  <2> QED
    BY <2>1, Zenon DEF Parts
<1> QED
  BY <1>3, <1>4, <1>5

\* Parts nest one less deep than the value they are of.
LEMMA PartsAre ==
  ASSUME NEW n \in Nat, NEW t, NEW v \in Values[n], NEW q \in Parts(t, v)
  PROVE  n # 0 /\ q = << q[1], q[2] >> /\ q[2] \in Values[n - 1]
<1> DEFINE V == Values[n - 1]
<1>1. /\ v.kind = "tuple" => n # 0 /\ v.items \in Seq(V)
      /\ v.kind = "table" =>
           /\ n # 0 /\ Len(v.items) \in Nat
           /\ \A j \in 1..Len(v.items) : v.items[j].items[2] \in V
  BY ValuesAre
<1>2. Fits(t, v) /\ t[1] \notin Basic /\ ~ Bytes(t)
  BY Zenon DEF Parts
<1>3. v.kind = IF Dictionary(t) THEN "table" ELSE "tuple"
  BY <1>2, Zenon DEF Fits
<1> DEFINE each == 1..Len(v.items)
           variant == IF Len(v.items) = 2 THEN {<< v.items[1].text, v.items[2] >>} ELSE {}
           struct == {<< TypeAt(Inner(t), j), v.items[j] >> : j \in each}
           dict == {<< SubSeq(t, 4, Len(t) - 1), v.items[j].items[2] >> : j \in each}
           array == {<< Tail(t), v.items[j] >> : j \in each}
<1>4. Parts(t, v) = CASE t[1] = "v" -> variant [] t[1] = "(" -> struct
                      [] Dictionary(t) -> dict [] OTHER -> array
  BY <1>2, Zenon DEF Parts
<1>5. Dictionary(t) => t[1] # "v" /\ t[1] # "("
  BY DEF Dictionary
<1>6. "v" # "("
  OBVIOUS
<1> HIDE DEF variant, struct, dict, array
<1>7. \/ t[1] = "v" /\ ~ Dictionary(t) /\ q \in variant
      \/ t[1] # "v" /\ ~ Dictionary(t) /\ (q \in struct \/ q \in array)
      \/ Dictionary(t) /\ q \in dict
  BY <1>4, <1>5, <1>6
<1> HIDE DEF V
<1>8. CASE t[1] = "v" /\ ~ Dictionary(t) /\ q \in variant
  <2>1. n # 0 /\ v.items \in Seq(V)
    BY <1>1, <1>3, <1>8
  <2>2. Len(v.items) = 2 /\ q = << v.items[1].text, v.items[2] >>
    BY <1>8, Zenon DEF variant
  <2>3. v.items[2] \in V
    BY <2>1, <2>2
  <2> QED
    BY <2>1, <2>2, <2>3 DEF V
<1>9. CASE t[1] # "v" /\ ~ Dictionary(t) /\ (q \in struct \/ q \in array)
  <2>1. n # 0 /\ v.items \in Seq(V)
    BY <1>1, <1>3, <1>9
  <2>2. PICK j \in 1..Len(v.items) : \E u : q = << u, v.items[j] >>
    BY <1>9, Zenon DEF struct, array
  <2>3. v.items[j] \in V
    BY <2>1
  <2> QED
    BY <2>1, <2>2, <2>3 DEF V
<1>10. CASE Dictionary(t) /\ q \in dict
  <2>1. n # 0 /\ \A j \in 1..Len(v.items) : v.items[j].items[2] \in V
    BY <1>1, <1>3, <1>10
  <2>2. PICK j \in 1..Len(v.items) : \E u : q = << u, v.items[j].items[2] >>
    BY <1>10, Zenon DEF dict
  <2> QED
    BY <2>1, <2>2 DEF V
<1> QED
  BY <1>7, <1>8, <1>9, <1>10

\* The components of a value, if those below it are C.
ComponentsOf(C, p) ==
  {p} \cup UNION {C[q] : q \in {q \in Parts(p[1], p[2]) : q[1] \in Types}}
ComponentsStep(p, C, n) == [q \in Strings \X Values[n] |-> ComponentsOf(C, q)]
ComponentsRec == INSTANCE Recursion WITH Step <- ComponentsStep

\* Components of a value are the value and those of its parts.
LEMMA ComponentsIs ==
  \A n \in Nat : Components[n] = [p \in Strings \X Values[n] |->
                                    ComponentsOf(Below(Components, n), p)]
<1> DEFINE Is(C) == C = [n \in Nat |->
  [p \in Strings \X Values[n] |->
     {p} \cup UNION {C[n - 1][q] : q \in {q \in Parts(p[1], p[2]) : q[1] \in Types}}]]
<1>1. PICK C : C = [n \in Nat |-> ComponentsStep(0, ComponentsRec!Before(C, n), n)]
  BY ComponentsRec!Recursion, Zenon
<1>2. ASSUME NEW D, NEW n \in Nat
      PROVE  ComponentsStep(0, ComponentsRec!Before(D, n), n)
               = [p \in Strings \X Values[n] |-> ComponentsOf(D[n - 1], p)]
  <2>1. CASE n # 0
    BY <2>1, Zenon DEF ComponentsStep, ComponentsRec!Before
  <2>2. CASE n = 0
    <3>1. \A p \in Strings \X Values[n] : Parts(p[1], p[2]) = {}
      <4>1. Values[n] = Atoms
        BY <2>2, ValuesIs
      <4>2. \A p \in Strings \X Values[n] : p[2] \in Atoms
        BY <4>1
      <4> QED
        BY <4>2, NoParts
    <3>2. \A E, p : Parts(p[1], p[2]) = {} => ComponentsOf(E, p) = {p}
      <4> TAKE E, p
      <4> HAVE Parts(p[1], p[2]) = {}
      <4>1. {q \in Parts(p[1], p[2]) : q[1] \in Types} = {}
        OBVIOUS
      <4>2. UNION {E[q] : q \in {}} = {}
        OBVIOUS
      <4> QED
        BY <4>1, <4>2 DEF ComponentsOf
    <3>3. \A E : [p \in Strings \X Values[n] |-> ComponentsOf(E, p)]
                   = [p \in Strings \X Values[n] |-> {p}]
      BY <3>1, <3>2, Zenon
    <3> QED
      BY <3>3, Zenon DEF ComponentsStep
  <2> QED
    BY <2>1, <2>2
<1>3. C = [n \in Nat |-> [p \in Strings \X Values[n] |-> ComponentsOf(C[n - 1], p)]]
  <2>1. \A n \in Nat : ComponentsStep(0, ComponentsRec!Before(C, n), n)
               = [p \in Strings \X Values[n] |-> ComponentsOf(C[n - 1], p)]
    BY <1>2
  <2> QED
    BY <1>1, <2>1, Zenon
<1>4. Is(C)
  BY <1>3, Zenon DEF ComponentsOf
<1>5. Is(Components)
  <2> HIDE DEF Is
  <2>1. Components = CHOOSE D : Is(D)
    BY Zenon DEF Components, Is
  <2> QED
    BY <1>4, <2>1, Zenon
<1>6. Components = [n \in Nat |-> [p \in Strings \X Values[n] |->
                                      ComponentsOf(Components[n - 1], p)]]
  BY <1>5, Zenon DEF ComponentsOf
<1>7. ASSUME NEW n \in Nat
      PROVE  Components[n] = [p \in Strings \X Values[n] |->
                                    ComponentsOf(Below(Components, n), p)]
  <2>1. Components[n] = [p \in Strings \X Values[n] |-> ComponentsOf(Components[n - 1], p)]
    BY <1>6, Zenon
  <2>2. /\ Components[n] = ComponentsStep(0, ComponentsRec!Before(Components, n), n)
    BY <1>2, <2>1
  <2> QED
    BY <2>2, Zenon DEF ComponentsStep, ComponentsRec!Before, Below
<1> QED
  BY <1>7

\* A value with its type is a component of itself, and what is one of a part is one
\* of the value.
LEMMA ComponentsAre ==
  ASSUME NEW n \in Nat, NEW p \in Strings \X Values[n]
  PROVE  /\ p \in Components[n][p]
         /\ \A q \in Parts(p[1], p[2]) : q[1] \in Types /\ n # 0
              => Components[n - 1][q] \subseteq Components[n][p]
         /\ \A c \in Components[n][p] :
              \/ c = p
              \/ n # 0 /\ \E q \in Parts(p[1], p[2]) :
                            q[1] \in Types /\ c \in Components[n - 1][q]
<1>1. Components[n][p] = ComponentsOf(Below(Components, n), p)
  BY ComponentsIs, Zenon
<1>2. n # 0 => Components[n][p] = ComponentsOf(Components[n - 1], p)
  BY <1>1, Zenon DEF Below
<1>3. n = 0 => Parts(p[1], p[2]) = {}
  <2> SUFFICES ASSUME n = 0
               PROVE  Parts(p[1], p[2]) = {}
    OBVIOUS
  <2>1. p[2] \in Atoms
    BY ValuesIs
  <2> QED
    BY <2>1, NoParts
<1>4. p \in Components[n][p]
  BY <1>1, Zenon DEF ComponentsOf
<1>5. ASSUME NEW q \in Parts(p[1], p[2]), q[1] \in Types, n # 0
      PROVE  Components[n - 1][q] \subseteq Components[n][p]
  BY <1>2, <1>5, Zenon DEF ComponentsOf
<1>6. ASSUME NEW c \in Components[n][p], c # p
      PROVE  n # 0 /\ \E q \in Parts(p[1], p[2]) : q[1] \in Types /\ c \in Components[n - 1][q]
  <2>1. PICK q \in Parts(p[1], p[2]) : q[1] \in Types /\ c \in Below(Components, n)[q]
    BY <1>1, <1>6, Zenon DEF ComponentsOf
  <2>2. n # 0
    BY <1>3
  <2> QED
    BY <2>1, <2>2, Zenon DEF Below
<1> QED
  BY <1>4, <1>5, <1>6

\* A component nests no deeper than the value it is in.
LEMMA ComponentsInside ==
  \A n \in Nat : \A q \in Strings \X Values[n], j \in Nat :
    q[2] \in Values[j] => \A c \in Components[n][q] : \E k \in 0..j : c[2] \in Values[k]
<1> DEFINE Good(n) == \A q \in Strings \X Values[n], j \in Nat :
             q[2] \in Values[j] => \A c \in Components[n][q] : \E k \in 0..j : c[2] \in Values[k]
           Off == {n \in Nat : ~ Good(n)}
<1>1. SUFFICES ASSUME Off # {}
               PROVE  FALSE
  <2> HIDE DEF Good
  <2>1. \A n \in Nat : Good(n)
    BY <1>1
  <2> QED
    BY <2>1 DEF Good
<1>2. PICK n \in Off : \A m \in Off : n <= m
  <2> HIDE DEF Off
  <2>1. Off \in SUBSET Nat
    BY DEF Off
  <2> QED
    BY <1>1, <2>1, HasLeast
<1>3. n \in Nat /\ ~ Good(n)
  <2> HIDE DEF Good
  <2> QED
    BY <1>2
<1>4. n # 0 => Good(n - 1)
  <2> HIDE DEF Good
  <2> SUFFICES ASSUME n # 0
               PROVE  Good(n - 1)
    OBVIOUS
  <2>1. n - 1 \in Nat /\ ~ (n <= n - 1)
    BY <1>3
  <2> QED
    BY <1>2, <2>1
<1> HIDE DEF Off
<1>5. ASSUME NEW q \in Strings \X Values[n], NEW j \in Nat, q[2] \in Values[j],
             NEW c \in Components[n][q]
      PROVE  \E k \in 0..j : c[2] \in Values[k]
  <2>1. CASE c = q
    <3>1. j \in 0..j
      OBVIOUS
    <3> QED
      BY <1>5, <2>1, <3>1, Zenon
  <2>2. CASE c # q
    <3>1. n # 0 /\ \E p \in Parts(q[1], q[2]) : p[1] \in Types /\ c \in Components[n - 1][p]
      BY <1>3, <2>2, ComponentsAre
    <3>2. PICK p \in Parts(q[1], q[2]) : p[1] \in Types /\ c \in Components[n - 1][p]
      BY <3>1
    <3> DEFINE t == q[1]
               v == q[2]
    <3>3. v \in Values[n] /\ v \in Values[j] /\ p \in Parts(t, v)
      BY <1>5, <3>2
    <3> HIDE DEF t, v
    <3>4. p = << p[1], p[2] >> /\ p[2] \in Values[n - 1]
      BY <1>3, <3>3, PartsAre
    <3>5. j # 0 /\ p[2] \in Values[j - 1]
      BY <3>3, PartsAre
    <3>6. p \in Strings \X Values[n - 1]
      <4>1. p[1] \in Strings
        BY <3>2, TypesAre
      <4> DEFINE V == Values[n - 1]
      <4>2. p[2] \in V
        BY <3>4
      <4> HIDE DEF V
      <4>3. p \in Strings \X V
        BY <3>4, <4>1, <4>2
      <4> QED
        BY <4>3 DEF V
    <3>7. j - 1 \in Nat /\ \A k \in 0..(j - 1) : k \in 0..j
      BY <3>5
    <3>8. \E k \in 0..(j - 1) : c[2] \in Values[k]
      BY <1>4, <3>1, <3>2, <3>5, <3>6, <3>7, Zenon
    <3> QED
      BY <3>7, <3>8, Zenon
  <2> QED
    BY <2>1, <2>2
<1>6. Good(n)
  BY <1>5, Zenon
<1> QED
  BY <1>3, <1>6, Zenon

\* No component of a part of a value is the value itself.
LEMMA NotItself ==
  ASSUME NEW n \in Nat, n # 0, NEW t, NEW v \in Values[n], NEW q \in Parts(t, v),
         q[1] \in Types, NEW c \in Components[n - 1][q]
  PROVE  c[2] # v
<1> DEFINE Has == {k \in Nat : v \in Values[k]}
<1>1. PICK k \in Has : \A m \in Has : k <= m
  <2>1. Has # {} /\ Has \in SUBSET Nat
    OBVIOUS
  <2> HIDE DEF Has
  <2> QED
    BY <2>1, HasLeast
<1>2. k \in Nat /\ v \in Values[k] /\ \A m \in Nat : v \in Values[m] => k <= m
  BY <1>1
<1>3. k # 0 /\ q = << q[1], q[2] >> /\ q[2] \in Values[k - 1]
  BY <1>2, PartsAre
<1>4. q[2] \in Values[n - 1]
  BY PartsAre
<1>5. q \in Strings \X Values[n - 1]
  <2>1. q[1] \in Strings
    BY TypesAre
  <2> DEFINE V == Values[n - 1]
  <2>2. q[2] \in V
    BY <1>4
  <2> HIDE DEF V
  <2>3. q \in Strings \X V
    BY <1>3, <2>1, <2>2
  <2> QED
    BY <2>3 DEF V
<1>6. n - 1 \in Nat /\ k - 1 \in Nat /\ \A m \in 0..(k - 1) : m \in Nat /\ ~ (k <= m)
  BY <1>2, <1>3
<1>7. \E m \in 0..(k - 1) : c[2] \in Values[m]
  BY <1>3, <1>5, <1>6, ComponentsInside, Zenon
<1> QED
  BY <1>2, <1>6, <1>7, Zenon

--------------------------------------------------------------------------------
(* Blame                                                                        *)

\* How append_complete_type shows a type: a structure without its closing bracket.
Cut(t) == IF t[1] = "(" THEN SubSeq(t, 1, Len(t) - 1) ELSE t

\* Component c of v : t shows what is wrong with value w, if deep or c is not v itself.
ByComponent(c, deep, t, v, shown, w) ==
  \/ c[2] = w /\ ~Fits(c[1], w) /\ shown = Cut(c[1])
  \/ /\ Dictionary(c[1]) /\ Fits(c[1], c[2])
     /\ \E j \in 1..Len(c[2].items) :
          /\ c[2].items[j].items[1] = w /\ ~Accepts(c[1][3], w)
          /\ shown = c[1] \/ (j # 1 /\ (deep \/ c # << t, v >>))

Blaming(n, deep, t, v, shown, w) ==
  \E c \in Components[n][<< t, v >>] : ByComponent(c, deep, t, v, shown, w)

\* It is the value itself that does not fit.
LEMMA BlamesItself ==
  ASSUME NEW n \in Nat, NEW t \in Types, NEW v \in Values[n], NEW deep, ~ Fits(t, v)
  PROVE  Blaming(n, deep, t, v, Cut(t), v)
<1> DEFINE p == << t, v >>
           V == Values[n]
<1>1. t \in Strings /\ v \in V
  BY TypesAre
<1> HIDE DEF V
<1>2. p \in Strings \X V /\ p[1] = t /\ p[2] = v
  BY <1>1
<1> HIDE DEF p
<1>3. p \in Components[n][p]
  BY <1>2, ComponentsAre DEF V
<1>4. ByComponent(p, deep, t, v, Cut(t), v)
  BY <1>2, Zenon DEF ByComponent
<1> QED
  BY <1>3, <1>4, Zenon DEF Blaming, p

\* It is the key of one of its entries, and the value is a dictionary.
LEMMA BlamesKey ==
  ASSUME NEW n \in Nat, NEW t \in Types, NEW v \in Values[n], NEW deep, NEW shown, NEW w,
         Dictionary(t), Fits(t, v), NEW j \in 1..Len(v.items), v.items[j].items[1] = w,
         ~ Accepts(t[3], w), shown = t \/ (j # 1 /\ deep)
  PROVE  Blaming(n, deep, t, v, shown, w)
<1> DEFINE p == << t, v >>
           V == Values[n]
<1>1. t \in Strings /\ v \in V
  BY TypesAre
<1> HIDE DEF V
<1>2. p \in Strings \X V /\ p[1] = t /\ p[2] = v
  BY <1>1
<1> HIDE DEF p
<1>3. p \in Components[n][p]
  BY <1>2, ComponentsAre DEF V
<1>4. ByComponent(p, deep, t, v, shown, w)
  BY <1>2, Zenon DEF ByComponent
<1> QED
  BY <1>3, <1>4, Zenon DEF Blaming, p

\* It is a component of a part of the value.
LEMMA BlamesPart ==
  ASSUME NEW n \in Nat, n # 0, NEW t \in Types, NEW v \in Values[n],
         NEW pt \in Types, NEW pv, << pt, pv >> \in Parts(t, v), NEW deep, NEW shown, NEW w,
         Blaming(n - 1, TRUE, pt, pv, shown, w)
  PROVE  Blaming(n, deep, t, v, shown, w)
<1> DEFINE p == << t, v >>
           q == << pt, pv >>
           V == Values[n]
<1>1. t \in Strings /\ v \in V
  BY TypesAre
<1> HIDE DEF V
<1>2. p \in Strings \X V /\ p[1] = t /\ p[2] = v /\ q[1] = pt
  BY <1>1
<1>3. q \in Parts(t, v) /\ q[1] \in Types
  BY <1>2
<1>4. PICK c \in Components[n - 1][q] : ByComponent(c, TRUE, pt, pv, shown, w)
  BY Zenon DEF Blaming
<1>5. c # p
  <2> HIDE DEF q
  <2>1. c[2] # v
    BY <1>3, NotItself
  <2> QED
    BY <1>2, <2>1
<1> HIDE DEF p, q
<1>6. c \in Components[n][p]
  <2>1. Components[n - 1][q] \subseteq Components[n][p]
    <3>1. q \in Parts(p[1], p[2]) /\ p \in Strings \X Values[n]
      BY <1>2, <1>3 DEF V
    <3> QED
      BY <1>3, <3>1, ComponentsAre
  <2> QED
    BY <2>1
<1>7. ByComponent(c, deep, t, v, shown, w)
  BY <1>4, <1>5, Zenon DEF ByComponent, p
<1> QED
  BY <1>6, <1>7, Zenon DEF Blaming, p

--------------------------------------------------------------------------------
(* What the context says                                                        *)

\* What entering a type changes,
LEMMA EnterIs ==
  ASSUME NEW x \in Contexts, NEW t
  PROVE  /\ Enter(x, t).argc = x.argc /\ Enter(x, t).depth = x.depth + 1
         /\ Enter(x, t).outer = IF x.depth = 0 THEN t ELSE x.outer
         /\ x.depth # 0 => Enter(x, t).inner = t
<1>1. CASE x.depth = 0
  <2>1. Enter(x, t) = [x EXCEPT !.depth = @ + 1, !.outer = t]
    BY <1>1, Zenon DEF Enter
  <2>2. Enter(x, t) = [argc |-> x.argc, depth |-> x.depth + 1, outer |-> t, inner |-> x.inner]
    BY <2>1, ContextIs
  <2> QED
    BY <1>1, <2>2
<1>2. CASE x.depth # 0
  <2>1. Enter(x, t) = [x EXCEPT !.depth = @ + 1, !.inner = t]
    BY <1>2, Zenon DEF Enter
  <2>2. Enter(x, t) = [argc |-> x.argc, depth |-> x.depth + 1, outer |-> x.outer, inner |-> t]
    BY <2>1, ContextIs
  <2> QED
    BY <1>2, <2>2
<1> QED
  BY <1>1, <1>2

\* and what leaving one, counting an argument and closing a container change.
LEMMA OthersKeep ==
  ASSUME NEW x \in Contexts
  PROVE  /\ Exit(x).argc = x.argc /\ Exit(x).outer = x.outer
         /\ Exit(x).depth = IF x.depth > 0 THEN x.depth - 1 ELSE 0
         /\ Inc(x).argc = x.argc + 1 /\ Inc(x).depth = x.depth /\ Inc(x).outer = x.outer
         /\ \A vals : /\ Free(x, vals).argc = x.argc /\ Free(x, vals).depth = x.depth
                      /\ Free(x, vals).outer = x.outer
<1>1. x = [argc |-> x.argc, depth |-> x.depth, outer |-> x.outer, inner |-> x.inner]
  BY ContextIs
<1>2. /\ Exit(x).argc = x.argc /\ Exit(x).outer = x.outer
      /\ Exit(x).depth = IF x.depth > 0 THEN x.depth - 1 ELSE 0
  BY <1>1 DEF Exit
<1>3. Inc(x).argc = x.argc + 1 /\ Inc(x).depth = x.depth /\ Inc(x).outer = x.outer
  BY <1>1 DEF Inc
<1>4. ASSUME NEW vals
      PROVE  /\ Free(x, vals).argc = x.argc /\ Free(x, vals).depth = x.depth
             /\ Free(x, vals).outer = x.outer
  <2>1. PICK z : Free(x, vals) = [x EXCEPT !.inner = z]
    BY Zenon DEF Free
  <2> QED
    BY <1>1, <2>1
<1> QED
  BY <1>2, <1>3, <1>4

\* The type last entered, that an error would show.
Cur(x) == IF x.depth > 1 THEN x.inner ELSE x.outer
\* A type error has the context in it.
LEMMA TypeErrorIs ==
  ASSUME NEW x \in Contexts, NEW v, NEW e, e = TypeError(x, v)
  PROVE  /\ e.kind = "type" /\ e.argc = x.argc /\ e.outer = x.outer /\ e.value = v
         /\ Cur(x) # << >> => TypeShown(e) = Cur(x)
         /\ ~ (x.depth > 1) => TypeShown(e) = x.outer
<1>1. /\ e.kind = "type" /\ e.argc = x.argc /\ e.outer = x.outer /\ e.value = v
      /\ e.inner = IF x.depth > 1 THEN x.inner ELSE << >>
  BY Zenon DEF TypeError
<1>2. CASE x.depth > 1
  BY <1>1, <1>2, Zenon DEF TypeShown, Cur
<1>3. CASE ~ (x.depth > 1)
  BY <1>1, <1>3, Zenon DEF TypeShown, Cur
<1> QED
  BY <1>1, <1>2, <1>3

\* The other errors are no type errors.
LEMMA OtherErrorIs == OtherError.kind # "type" /\ NoError.kind # "type"
<1>1. NoError.kind = "none" /\ OtherError.kind = "other"
  BY DEF NoError, OtherError, TypeError
<1> QED
  BY <1>1

\* A type as it is shown is not empty, and is the type unless it is a structure.
LEMMA ShownIs ==
  ASSUME NEW t \in Types
  PROVE  Cut(t) # << >> /\ (t[1] # "(" => Cut(t) = t)
<1>1. t \in Seq(STRING) /\ Len(t) \in Nat /\ Len(t) >= 1
  BY TypesAre
<1>2. CASE t[1] # "("
  <2>1. t # << >>
    BY <1>1
  <2> QED
    BY <1>2, <2>1, Zenon DEF Cut
<1>3. CASE t[1] = "("
  <2>1. Len(t) > 2
    <3>1. "(" \notin Basic \cup {"v"} /\ "(" # "a"
      BY DEF Basic
    <3>2. \/ Len(t) = 1 /\ t[1] \in Basic \cup {"v"}
          \/ Len(t) > 1 /\ t[1] = "a"
          \/ Len(t) > 2 /\ t[1] = "("
      BY Grammar DEF IsGrammar
    <3> QED
      BY <1>3, <3>1, <3>2
  <2> DEFINE l == Len(t) - 1
  <2>2. l \in Nat /\ l >= 1 /\ l <= Len(t)
    BY <1>1, <2>1
  <2> HIDE DEF l
  <2>3. Len(SubSeq(t, 1, l)) = l
    BY <1>1, <2>2
  <2>4. SubSeq(t, 1, l) # << >>
    BY <2>2, <2>3
  <2>5. Cut(t) = SubSeq(t, 1, l)
    BY <1>3, Zenon DEF Cut, l
  <2> QED
    BY <1>3, <2>4, <2>5
<1> QED
  BY <1>2, <1>3

\* What append_complete_type leaves of a context when it succeeds.
Keeps(x, y) ==
  /\ y \in Contexts /\ y.argc = x.argc /\ y.depth = x.depth
  /\ x.depth # 0 => y.outer = x.outer

\* An error in context x, while value v : t is written, says what is wrong with it.
Naming(n, x, t, v, e) ==
  /\ e.argc = x.argc /\ e.outer = x.outer
  /\ Blaming(n, x.depth > 1, t, v, TypeShown(e), e.value)

\* The result of writing v : t within context x, entered for it.
Inside(n, x, t, v, r) ==
  IF r.ok THEN Keeps(x, r.x)
          ELSE r.error.kind = "type" => Naming(n, x, t, v, r.error)

\* The context was entered for type t.
Entered(x, t) == x \in Contexts /\ x.depth >= 1 /\ Cur(x) = Cut(t)

\* The error of append_complete_type, which was called in context x.
Blamed(n, x, t, v, e) ==
  /\ e.argc = x.argc
  /\ e.outer = IF x.depth = 0 THEN Cut(t) ELSE x.outer
  /\ Blaming(n, x.depth > 0, t, v, TypeShown(e), e.value)

Named(n, s, i, v, x, r) ==
  IF r.ok THEN Keeps(x, r.x)
  ELSE r.error.kind = "type" =>
         \E e \in Nat : /\ i <= e /\ e <= Len(s) /\ SubSeq(s, i, e) \in Types
                        /\ Blamed(n, x, SubSeq(s, i, e), v, r.error)

\* It does what Named says, for values that nest n deep.
Namely(n) ==
  \A s \in Strings, i \in Nat, v \in Values[n], x \in Contexts :
    i >= 1 => Named(n, s, i, v, x, Appending[n][Call(s, i, v, x)])

--------------------------------------------------------------------------------
(* The values in a container                                                    *)

\* Two calls that keep a context keep it together,
LEMMA KeepsOn ==
  ASSUME NEW x, NEW y, Keeps(x, y), NEW z, Keeps(y, z)
  PROVE  Keeps(x, z)
  BY Zenon DEF Keeps

\* and so does what closes a container.
LEMMA FreeKeeps ==
  ASSUME NEW x, NEW y, Keeps(x, y), NEW vals
  PROVE  Keeps(x, Free(y, vals))
<1>1. y \in Contexts
  BY Zenon DEF Keeps
<1>2. Free(y, vals) \in Contexts
  BY <1>1, ContextsStay
<1>3. /\ Free(y, vals).argc = y.argc /\ Free(y, vals).depth = y.depth
      /\ Free(y, vals).outer = y.outer
  BY <1>1, OthersKeep
<1> QED
  BY <1>2, <1>3, Zenon DEF Keeps

\* v does not fit t.
LEMMA MisfitNamed ==
  ASSUME NEW n \in Nat, NEW t \in Types, NEW v \in Values[n], NEW x, Entered(x, t),
         ~ Fits(t, v), NEW left, NEW r, r = Fail(left, TypeError(x, v))
  PROVE  Inside(n, x, t, v, r)
<1> DEFINE e == TypeError(x, v)
<1>1. ~ r.ok /\ r.error = e
  BY FailIs
<1>2. x \in Contexts /\ Cur(x) = Cut(t) /\ Cut(t) # << >>
  BY ShownIs DEF Entered
<1> HIDE DEF e
<1>3. e.argc = x.argc /\ e.outer = x.outer /\ e.value = v /\ TypeShown(e) = Cut(t)
  BY <1>2, TypeErrorIs DEF e
<1>4. Blaming(n, x.depth > 1, t, v, Cut(t), v)
  BY BlamesItself
<1> QED
  BY <1>1, <1>3, <1>4, Zenon DEF Inside, Naming

\* Any other error.
LEMMA OtherNamed ==
  ASSUME NEW n, NEW t, NEW v, NEW x, NEW left, NEW error, error.kind # "type",
         NEW r, r = Fail(left, error)
  PROVE  Inside(n, x, t, v, r)
<1>1. ~ r.ok /\ r.error = error
  BY FailIs
<1> QED
  BY <1>1, Zenon DEF Inside

\* The result z of append_complete_type, called within v : t for a part of it.
LEMMA PartNamed ==
  ASSUME NEW n \in Nat, n # 0, NEW m \in Nat, m + 1 = n, Namely(m),
         NEW t \in Types, NEW v \in Values[n], NEW x \in Contexts, x.depth >= 1,
         NEW y, Keeps(x, y),
         NEW s \in Strings, NEW i \in Nat, i >= 1, NEW pv \in Values[m],
         NEW d \in Nat, i <= d, d <= Len(s), SubSeq(s, i, d) \in Types,
         << SubSeq(s, i, d), pv >> \in Parts(t, v),
         NEW z, z = Appending[m][Call(s, i, pv, y)]
  PROVE  Inside(n, x, t, v, z)
<1>1. y \in Contexts /\ y.argc = x.argc /\ y.depth = x.depth /\ y.outer = x.outer /\ y.depth # 0
      /\ y.depth > 0
  <2>1. x.depth \in Nat
    BY ContextIs
  <2>2. x.depth # 0 /\ x.depth > 0
    BY <2>1
  <2> QED
    BY <2>2, Zenon DEF Keeps
<1>2. Named(m, s, i, pv, y, z)
  BY <1>1, Zenon DEF Namely
<1>3. CASE z.ok
  <2>1. Keeps(y, z.x)
    BY <1>2, <1>3, Zenon DEF Named
  <2>2. Keeps(x, z.x)
    BY <2>1, KeepsOn
  <2> QED
    BY <1>3, <2>2, Zenon DEF Inside
<1>4. CASE ~ z.ok /\ z.error.kind = "type"
  <2>1. PICK e \in Nat : /\ i <= e /\ e <= Len(s) /\ SubSeq(s, i, e) \in Types
                         /\ Blamed(m, y, SubSeq(s, i, e), pv, z.error)
    BY <1>2, <1>4, Zenon DEF Named
  <2>2. d = e
    BY <2>1, OneTypeStarts
  <2> DEFINE pt == SubSeq(s, i, d)
             error == z.error
             shown == TypeShown(error)
             w == error.value
             deep == x.depth > 1
  <2>3. /\ error.argc = x.argc /\ error.outer = x.outer
        /\ Blaming(m, y.depth > 0, pt, pv, shown, w)
    BY <1>1, <2>1, <2>2, Zenon DEF Blamed
  <2>4. (y.depth > 0) = TRUE
    BY <1>1
  <2>5. Blaming(m, TRUE, pt, pv, shown, w)
    BY <2>3, <2>4, Zenon
  <2>6. m = n - 1
    OBVIOUS
  <2>7. pt \in Types /\ << pt, pv >> \in Parts(t, v)
    OBVIOUS
  <2> HIDE DEF pt, shown, w, deep
  <2>8. Blaming(n - 1, TRUE, pt, pv, shown, w)
    BY <2>5, <2>6, Zenon
  <2>9. Blaming(n, deep, t, v, shown, w)
    BY <2>7, <2>8, BlamesPart
  <2> QED
    BY <1>4, <2>3, <2>9, Zenon DEF Inside, Naming, shown, w, deep
<1>5. CASE ~ z.ok /\ z.error.kind # "type"
  BY <1>5, Zenon DEF Inside
<1> QED
  BY <1>3, <1>4, <1>5

--------------------------------------------------------------------------------
(* Loops over the values in a container                                         *)

\* A loop over values in v : t that started in context x and got to `to'.
LoopNamed(n, t, v, x, to, k) ==
  IF to.error = NoError
  THEN Keeps(x, to.x) /\ (k = 0 => to.x = x)
  ELSE to.error.kind = "type" => Naming(n, x, t, v, to.error)

\* Each value, wherever the loop over the others got to.
EachNamed(n, t, v, x, f, loop, s, vals) ==
  \A j \in 1..Len(vals) : \A to :
    (/\ to.x \in Contexts /\ to.i \in Nat /\ Cursor(loop, s, to.i, j - 1)
     /\ Keeps(x, to.x) /\ (j = 1 => to.x = x))
      => Inside(n, x, t, v, AppendOne(f, loop, s, to, vals[j]))

\* One more value leaves a loop right,
LEMMA NextNamed ==
  ASSUME NEW n, NEW t, NEW v, NEW x, NEW f, NEW loop, NEW s, NEW vals, NEW W, NEW B,
         EachNamed(n, t, v, x, f, loop, s, vals),
         NEW k \in 1..Len(vals), Len(vals) \in Nat, NEW to, IsRun(to),
         LoopRight(loop, s, W, B, to, k - 1), LoopNamed(n, t, v, x, to, k - 1)
  PROVE  LoopNamed(n, t, v, x, LoopNext(f, loop, s, to, vals[k]), k)
<1>1. k \in Nat /\ k # 0 /\ (k = 1 => k - 1 = 0)
  OBVIOUS
<1>2. CASE to.error # NoError
  <2>1. LoopNext(f, loop, s, to, vals[k]) = to
    BY <1>2, Zenon DEF LoopNext
  <2>2. LoopNamed(n, t, v, x, to, k)
    BY <1>2, Zenon DEF LoopNamed
  <2> QED
    BY <2>1, <2>2
<1>3. CASE to.error = NoError
  <2> DEFINE one == AppendOne(f, loop, s, to, vals[k])
             new == Proceed(to, one)
  <2>1. LoopNext(f, loop, s, to, vals[k]) = new
    BY <1>3, Zenon DEF LoopNext
  <2>2. /\ to.x \in Contexts /\ to.i \in Nat /\ Cursor(loop, s, to.i, k - 1)
        /\ Keeps(x, to.x) /\ (k = 1 => to.x = x)
    BY <1>1, <1>3, Zenon DEF LoopRight, LoopNamed
  <2>3. Inside(n, x, t, v, one)
    BY <2>2, Zenon DEF EachNamed
  <2> HIDE DEF one
  <2>4. /\ one.ok => new.x = one.x /\ new.error = to.error
        /\ ~ one.ok => new.x = to.x /\ new.error = one.error
    BY ProceedIs
  <2> HIDE DEF new
  <2>5. CASE one.ok
    <3>1. LoopNamed(n, t, v, x, new, k)
      BY <1>1, <1>3, <2>3, <2>4, <2>5, Zenon DEF LoopNamed, Inside
    <3> QED
      BY <2>1, <3>1
  <2>6. CASE ~ one.ok
    <3>1. CASE one.error = NoError
      <4>1. LoopNamed(n, t, v, x, new, k)
        BY <1>1, <2>2, <2>4, <2>6, <3>1, Zenon DEF LoopNamed
      <4> QED
        BY <2>1, <4>1
    <3>2. CASE one.error # NoError
      <4>1. LoopNamed(n, t, v, x, new, k)
        BY <2>3, <2>4, <2>6, <3>2, Zenon DEF LoopNamed, Inside
      <4> QED
        BY <2>1, <4>1
    <3> QED
      BY <3>1, <3>2
  <2> QED
    BY <2>5, <2>6
<1> QED
  BY <1>2, <1>3

\* and so does the loop over all of them.
LEMMA LoopsNamed ==
  ASSUME NEW n, NEW t, NEW v, NEW x \in Contexts, NEW f, NEW loop, NEW s, Len(s) \in Nat,
         NEW vals, Len(vals) \in Nat, NEW W, NEW B, EachRight(f, loop, s, vals, W, B),
         EachNamed(n, t, v, x, f, loop, s, vals)
  PROVE  LoopNamed(n, t, v, x, AppendEach(f, loop, s, vals, x), Len(vals))
<1>1. PICK r : /\ Runs(r, f, loop, s, vals, x)
               /\ AppendEach(f, loop, s, vals, x) = r[Len(vals)]
  BY EachRuns
<1> DEFINE Good(k) == /\ IsRun(r[k]) /\ LoopRight(loop, s, W, B, r[k], k)
                      /\ LoopNamed(n, t, v, x, r[k], k)
           Off == {k \in Nat : k <= Len(vals) /\ ~ Good(k)}
<1>2. SUFFICES ASSUME Off # {}
               PROVE  FALSE
  <2>1. Len(vals) \notin Off
    BY <1>2
  <2>2. Good(Len(vals))
    <3> HIDE DEF Good
    <3> QED
      BY <2>1
  <2> QED
    BY <1>1, <2>2
<1>3. PICK k \in Off : \A p \in Off : k <= p
  <2> HIDE DEF Off
  <2>1. Off \in SUBSET Nat
    BY DEF Off
  <2> QED
    BY <1>2, <2>1, HasLeast
<1>4. k \in Nat /\ k <= Len(vals) /\ ~ Good(k)
  <2> HIDE DEF Good
  <2> QED
    BY <1>3
<1>5. CASE k = 0
  <2>1. r[0] = Start(x)
    BY <1>1, Zenon DEF Runs
  <2>2. IsRun(r[0]) /\ LoopRight(loop, s, W, B, r[0], 0)
    BY <2>1, StartIs, StartRight, Zenon
  <2>3. LoopNamed(n, t, v, x, r[0], 0)
    <3>1. r[0].error = NoError /\ r[0].x = x
      BY <2>1, StartIs
    <3>2. Keeps(x, x)
      BY Zenon DEF Keeps
    <3> QED
      BY <3>1, <3>2, Zenon DEF LoopNamed
  <2>4. Good(0)
    BY <2>2, <2>3, Zenon
  <2> QED
    BY <1>4, <1>5, <2>4, Zenon
<1>6. CASE k # 0
  <2>1. k - 1 \in Nat /\ k - 1 <= Len(vals) /\ ~ (k <= k - 1) /\ k \in 1..Len(vals)
    BY <1>4, <1>6
  <2>2. Good(k - 1)
    <3> HIDE DEF Good
    <3> QED
      BY <1>3, <2>1
  <2>3. r[k] = LoopNext(f, loop, s, r[k - 1], vals[k])
    BY <1>1, <1>4, <1>6, Zenon DEF Runs
  <2>4. IsRun(r[k]) /\ LoopRight(loop, s, W, B, r[k], k)
    BY <2>1, <2>2, <2>3, NextRight, Zenon
  <2>5. LoopNamed(n, t, v, x, r[k], k)
    BY <2>1, <2>2, <2>3, NextNamed, Zenon
  <2>6. Good(k)
    BY <2>4, <2>5, Zenon
  <2> QED
    BY <1>4, <2>6, Zenon
<1> QED
  BY <1>5, <1>6

\* The end of a container.
LEMMA CloseNamed ==
  ASSUME NEW n, NEW t, NEW v, NEW x, NEW k, NEW run, LoopNamed(n, t, v, x, run, k),
         NEW i, NEW type, NEW sig
  PROVE  Inside(n, x, t, v, Close(i, type, sig, run))
<1> DEFINE r == Close(i, type, sig, run)
<1>1. CASE run.error = NoError
  <2> DEFINE item == Item(type, sig, run.items)
             y == Free(run.x, run.items)
  <2>1. r = Done(i, item, y)
    BY <1>1, Zenon DEF Close
  <2>2. Keeps(x, run.x)
    BY <1>1, Zenon DEF LoopNamed
  <2>3. Keeps(x, y)
    BY <2>2, FreeKeeps
  <2> HIDE DEF r, item, y
  <2>4. r.ok /\ r.x = y
    BY <2>1, DoneIs
  <2>5. Inside(n, x, t, v, r)
    BY <2>3, <2>4, Zenon DEF Inside
  <2> QED
    BY <2>5 DEF r
<1>2. CASE run.error # NoError
  <2> DEFINE error == run.error
             left == TRUE
  <2>1. r = Fail(left, error)
    BY <1>2, Zenon DEF Close
  <2> HIDE DEF r, error, left
  <2>2. ~ r.ok /\ r.error = error
    BY <2>1, FailIs
  <2>3. Inside(n, x, t, v, r)
    BY <1>2, <2>2, Zenon DEF Inside, LoopNamed, error
  <2> QED
    BY <2>3 DEF r
<1> QED
  BY <1>1, <1>2

\* The signature has to end with the values; that is no type error.
LEMMA TakenNamed ==
  ASSUME NEW n, NEW t, NEW v, NEW x, NEW k, NEW end, IsRun(end),
         LoopNamed(n, t, v, x, end, k), NEW s
  PROVE  LoopNamed(n, t, v, x, AllTaken(s, end), k)
<1> DEFINE run == AllTaken(s, end)
<1>1. CASE end.error = NoError /\ end.i <= Len(s)
  <2>1. run = [end EXCEPT !.error = OtherError]
    BY <1>1, Zenon DEF AllTaken
  <2> DEFINE other == OtherError
  <2>2. other # NoError /\ other.kind # "type"
    BY ErrorsAre, OtherErrorIs, Zenon DEF IsError
  <2> HIDE DEF other
  <2>3. run.error = other
    BY <2>1 DEF IsRun, other
  <2> HIDE DEF run
  <2>4. LoopNamed(n, t, v, x, run, k)
    BY <2>2, <2>3, Zenon DEF LoopNamed
  <2> QED
    BY <2>4 DEF run
<1>2. CASE ~ (end.error = NoError /\ end.i <= Len(s))
  <2>1. run = end
    BY <1>2, Zenon DEF AllTaken
  <2> QED
    BY <2>1
<1> QED
  BY <1>1, <1>2

--------------------------------------------------------------------------------
(* The parts of a value, by its type                                            *)

\* The parts of a value that fits its type, one container at a time.
LEMMA PartsHere ==
  ASSUME NEW t, NEW v, Fits(t, v), t[1] \notin Basic, ~ Bytes(t)
  PROVE  /\ t[1] = "v" /\ Len(v.items) = 2
              => << v.items[1].text, v.items[2] >> \in Parts(t, v)
         /\ t[1] = "(" => \A j \in 1..Len(v.items) :
                            << TypeAt(Inner(t), j), v.items[j] >> \in Parts(t, v)
         /\ Dictionary(t) => \A j \in 1..Len(v.items) :
                               << SubSeq(t, 4, Len(t) - 1), v.items[j].items[2] >> \in Parts(t, v)
         /\ t[1] = "a" /\ ~ Dictionary(t) => \A j \in 1..Len(v.items) :
                               << Tail(t), v.items[j] >> \in Parts(t, v)
<1> DEFINE each == 1..Len(v.items)
           variant == IF Len(v.items) = 2 THEN {<< v.items[1].text, v.items[2] >>} ELSE {}
           struct == {<< TypeAt(Inner(t), j), v.items[j] >> : j \in each}
           dict == {<< SubSeq(t, 4, Len(t) - 1), v.items[j].items[2] >> : j \in each}
           array == {<< Tail(t), v.items[j] >> : j \in each}
<1>1. Parts(t, v) = CASE t[1] = "v" -> variant [] t[1] = "(" -> struct
                      [] Dictionary(t) -> dict [] OTHER -> array
  BY Zenon DEF Parts
<1>2. Dictionary(t) => t[1] = "a"
  BY Zenon DEF Dictionary
<1>3. "v" # "(" /\ "a" # "v" /\ "a" # "("
  OBVIOUS
<1> HIDE DEF each, variant, struct, dict, array
<1>4. /\ t[1] = "v" => Parts(t, v) = variant
      /\ t[1] = "(" => Parts(t, v) = struct
      /\ Dictionary(t) => Parts(t, v) = dict
      /\ t[1] = "a" /\ ~ Dictionary(t) => Parts(t, v) = array
  BY <1>1, <1>2, <1>3
<1> QED
  BY <1>4, Zenon DEF each, variant, struct, dict, array

\* What t itself wants of v, by its first character.
LEMMA FitsIs ==
  ASSUME NEW t \in Types, NEW v
  PROVE  /\ t[1] \in Basic => (Fits(t, v) <=> Accepts(t[1], v))
         /\ t[1] \in {"v", "("} => /\ t[1] \notin Basic /\ ~ Bytes(t) /\ ~ Dictionary(t)
                                   /\ Fits(t, v) <=> v.kind = "tuple"
         /\ t[1] = "a" => /\ t[1] \notin Basic
                          /\ Bytes(t) => (Fits(t, v) <=> v.kind = "string")
                          /\ Dictionary(t) => ~ Bytes(t) /\ (Fits(t, v) <=> v.kind = "table")
                          /\ ~ Bytes(t) /\ ~ Dictionary(t) => (Fits(t, v) <=> v.kind = "tuple")
<1>1. "v" \notin Basic /\ "(" \notin Basic /\ "a" \notin Basic /\ "a" # "v" /\ "a" # "("
  BY DEF Basic
<1>2. Bytes(t) => t[1] = "a" /\ t[2] = "y"
  BY DEF Bytes
<1>3. Dictionary(t) => t[1] = "a" /\ t[2] = EntryOpen
  BY Zenon DEF Dictionary
<1>4. "y" # EntryOpen
  BY DEF EntryOpen
<1>5. t[1] \in Basic => (Fits(t, v) <=> Accepts(t[1], v))
  BY Zenon DEF Fits
<1>6. t[1] \notin Basic =>
        /\ Bytes(t) => (Fits(t, v) <=> v.kind = "string")
        /\ ~ Bytes(t) /\ Dictionary(t) => (Fits(t, v) <=> v.kind = "table")
        /\ ~ Bytes(t) /\ ~ Dictionary(t) => (Fits(t, v) <=> v.kind = "tuple")
  BY Zenon DEF Fits
<1> QED
  BY <1>1, <1>2, <1>3, <1>4, <1>5, <1>6

--------------------------------------------------------------------------------
(* Type errors, by the type of the value                                        *)

\* For values one level below, if there is one.
UnderNamed(n) == n # 0 => Namely(n - 1)

\* A success that keeps the context.
LEMMA DoneNamed ==
  ASSUME NEW n, NEW t, NEW v, NEW x, NEW y, Keeps(x, y), NEW i, NEW item,
         NEW r, r = Done(i, item, y)
  PROVE  Inside(n, x, t, v, r)
<1>1. r.ok /\ r.x = y
  BY DoneIs
<1> QED
  BY <1>1, Zenon DEF Inside

\* The error of a part, passed on.
LEMMA ErrorNamed ==
  ASSUME NEW n, NEW t, NEW v, NEW x, NEW z, Inside(n, x, t, v, z), ~ z.ok, NEW left,
         NEW r, r = Fail(left, z.error)
  PROVE  Inside(n, x, t, v, r)
<1> DEFINE error == z.error
<1> HIDE DEF error
<1>1. r = Fail(left, error)
  BY DEF error
<1>2. ~ r.ok /\ r.error = error
  BY <1>1, FailIs
<1> QED
  BY <1>2, Zenon DEF Inside, error

\* A part that is written with the whole of a signature.
LEMMA WholeNamed ==
  ASSUME NEW n \in Nat, n # 0, NEW m \in Nat, m + 1 = n, Namely(m),
         NEW t \in Types, NEW v \in Values[n], NEW x \in Contexts, x.depth >= 1,
         NEW y, Keeps(x, y), NEW pt \in Types, NEW pv \in Values[m],
         << pt, pv >> \in Parts(t, v), NEW z, z = Appending[m][Call(pt, 1, pv, y)]
  PROVE  Inside(n, x, t, v, z)
<1> DEFINE i == 1
           d == Len(pt)
<1>1. /\ pt \in Strings /\ d \in Nat /\ i \in Nat /\ i >= 1 /\ i <= d /\ d <= Len(pt)
      /\ SubSeq(pt, i, d) = pt
  BY TypesAre, WholeIs
<1>2. /\ SubSeq(pt, i, d) \in Types /\ << SubSeq(pt, i, d), pv >> \in Parts(t, v)
      /\ z = Appending[m][Call(pt, i, pv, y)]
  BY <1>1
<1> HIDE DEF i, d
<1> QED
  BY <1>1, <1>2, PartNamed

\* The error of a basic type says what is wrong.
LEMMA BasicNames ==
  ASSUME NEW n \in Nat, NEW s \in Strings, NEW i \in Nat, i >= 1, NEW e \in Nat, i <= e,
         e <= Len(s), NEW t \in Types, t = SubSeq(s, i, e), s[i] \in Basic,
         NEW v \in Values[n], NEW x, Entered(x, t)
  PROVE  Inside(n, x, t, v, AppendBasic(s, i, v, x))
<1>1. t[1] = s[i]
  BY TypeStarts
<1>2. Fits(t, v) <=> Accepts(s[i], v)
  BY <1>1, FitsIs
<1> DEFINE r == AppendBasic(s, i, v, x)
           error == TypeError(x, v)
           item == Item(s[i], << >>, << v >>)
<1>3. r = IF Accepts(s[i], v) THEN Done(i, item, x) ELSE Fail(FALSE, error)
  BY Zenon DEF AppendBasic
<1>4. CASE Accepts(s[i], v)
  <2>1. r = Done(i, item, x)
    BY <1>3, <1>4, Zenon
  <2>2. Keeps(x, x)
    BY Zenon DEF Keeps, Entered
  <2> HIDE DEF r, item
  <2>3. Inside(n, x, t, v, r)
    BY <2>1, <2>2, DoneNamed
  <2> QED
    BY <2>3 DEF r
<1>5. CASE ~ Accepts(s[i], v)
  <2>1. r = Fail(FALSE, TypeError(x, v)) /\ ~ Fits(t, v)
    BY <1>2, <1>3, <1>5, Zenon
  <2> HIDE DEF r
  <2>2. Inside(n, x, t, v, r)
    BY <2>1, MisfitNamed
  <2> QED
    BY <2>2 DEF r
<1> QED
  BY <1>4, <1>5

\* That of a variant, or of what is in it.
LEMMA VariantNames ==
  ASSUME NEW n \in Nat, UnderNamed(n), NEW t \in Types, t[1] = "v",
         NEW v \in Values[n], NEW x, Entered(x, t), NEW i
  PROVE  Inside(n, x, t, v, AppendVariant(Below(Appending, n), i, v, x))
<1> DEFINE f == Below(Appending, n)
           u == AppendVariant(f, i, v, x)
           sig == v.items[1].text
           w == v.items[2]
           r == f[Call(sig, 1, w, x)]
           m == n - 1
           other == OtherError
<1>1. u = IF v.kind # "tuple" THEN Fail(FALSE, TypeError(x, v))
          ELSE IF Len(v.items) # 2 \/ v.items[1].kind # "string" THEN Fail(FALSE, other)
          ELSE IF sig \notin Types THEN Fail(FALSE, other)
          ELSE IF r.ok THEN Done(i, Item("v", sig, << r.item >>), r.x)
          ELSE Fail(TRUE, r.error)
  BY Zenon DEF AppendVariant
<1>2. /\ t[1] \notin Basic /\ ~ Bytes(t) /\ (Fits(t, v) <=> v.kind = "tuple")
  <2>1. t[1] \in {"v", "("}
    OBVIOUS
  <2> QED
    BY <2>1, FitsIs
<1>3. other.kind # "type"
  BY OtherErrorIs
<1>4. x \in Contexts /\ x.depth >= 1 /\ Keeps(x, x)
  BY Zenon DEF Entered, Keeps
<1> HIDE DEF u, other
<1>5. CASE v.kind # "tuple"
  <2>1. u = Fail(FALSE, TypeError(x, v)) /\ ~ Fits(t, v)
    BY <1>1, <1>2, <1>5, Zenon
  <2>2. Inside(n, x, t, v, u)
    BY <2>1, MisfitNamed
  <2> QED
    BY <2>2 DEF u
<1>6. CASE v.kind = "tuple" /\ (Len(v.items) # 2 \/ v.items[1].kind # "string" \/ sig \notin Types)
  <2>1. u = Fail(FALSE, other)
    <3> HIDE DEF r, sig
    <3> QED
      BY <1>1, <1>6, Zenon
  <2>2. Inside(n, x, t, v, u)
    BY <1>3, <2>1, OtherNamed
  <2> QED
    BY <2>2 DEF u
<1>7. CASE v.kind = "tuple" /\ Len(v.items) = 2 /\ v.items[1].kind = "string" /\ sig \in Types
  <2>1. n # 0 /\ m \in Nat /\ m + 1 = n /\ f = Appending[m] /\ Namely(m)
    <3>1. n # 0
      BY <1>7, ValuesAre
    <3> QED
      BY <3>1, BelowIs DEF UnderNamed
  <2>2. w \in Values[m]
    <3> DEFINE V == Values[m]
    <3>1. v.items \in Seq(V)
      BY <1>7, ValuesAre
    <3> HIDE DEF V, m
    <3>2. w \in V
      BY <1>7, <3>1
    <3> QED
      BY <3>2 DEF V
  <2>3. << sig, w >> \in Parts(t, v)
    BY <1>2, <1>7, PartsHere
  <2> HIDE DEF f, m
  <2>4. r = Appending[m][Call(sig, 1, w, x)] /\ sig \in Types
    BY <1>7, <2>1
  <2> HIDE DEF r, w, sig
  <2>5. Inside(n, x, t, v, r)
    BY <1>4, <2>1, <2>2, <2>3, <2>4, WholeNamed
  <2>6. CASE r.ok
    <3> DEFINE item == Item("v", sig, << r.item >>)
               y == r.x
    <3>1. u = Done(i, item, y)
      BY <1>1, <1>7, <2>6, Zenon
    <3>2. Keeps(x, y)
      BY <2>5, <2>6, Zenon DEF Inside
    <3> HIDE DEF item, y
    <3>3. Inside(n, x, t, v, u)
      BY <3>1, <3>2, DoneNamed
    <3> QED
      BY <3>3 DEF u, f
  <2>7. CASE ~ r.ok
    <3>1. u = Fail(TRUE, r.error)
      BY <1>1, <1>7, <2>7, Zenon
    <3>2. Inside(n, x, t, v, u)
      BY <2>5, <2>7, <3>1, ErrorNamed
    <3> QED
      BY <3>2 DEF u, f
  <2> QED
    BY <2>6, <2>7
<1> QED
  BY <1>5, <1>6, <1>7

--------------------------------------------------------------------------------
(* Structures *)

\* That of a member of a structure.
LEMMA MembersNamed ==
  ASSUME NEW n \in Nat, n # 0, NEW m \in Nat, m + 1 = n, Namely(m),
         NEW t \in Types, t[1] = "(", NEW v \in Values[n], Fits(t, v),
         NEW x \in Contexts, x.depth >= 1,
         NEW sig \in Strings, sig = Inner(t), NEW vals \in Seq(Values[m]), vals = v.items,
         NEW loop, loop = "struct"
  PROVE  EachNamed(n, t, v, x, Appending[m], loop, sig, vals)
<1> SUFFICES ASSUME NEW j \in 1..Len(vals), NEW to,
                    to.x \in Contexts, to.i \in Nat, Cursor(loop, sig, to.i, j - 1), Keeps(x, to.x)
             PROVE  Inside(n, x, t, v, AppendOne(Appending[m], loop, sig, to, vals[j]))
  BY Zenon DEF EachNamed
<1> DEFINE V == Values[m]
<1>1. /\ vals[j] \in Values[m] /\ j \in Nat /\ j # 0 /\ j - 1 \in Nat /\ Len(sig) \in Nat
  <2>1. vals \in Seq(V)
    OBVIOUS
  <2> HIDE DEF V
  <2>2. vals[j] \in V /\ j \in Nat /\ j # 0 /\ j - 1 \in Nat /\ Len(vals) \in Nat
    BY <2>1
  <2> QED
    BY <2>2, StringsAre DEF V
<1> HIDE DEF V
<1> DEFINE p == TypeEnd(sig, j - 1)
           one == AppendOne(Appending[m], loop, sig, to, vals[j])
           other == OtherError
           i == p + 1
           pv == vals[j]
<1>2. p \in Nat /\ p <= Len(sig) /\ to.i = i /\ p \in 0..Len(sig) /\ i \in Nat /\ i >= 1
  BY <1>1 DEF Cursor
<1>3. << TypeAt(sig, j), pv >> \in Parts(t, v)
  <2>1. t[1] \in {"v", "("}
    OBVIOUS
  <2>2. t[1] \notin Basic /\ ~ Bytes(t)
    BY <2>1, FitsIs
  <2> QED
    BY <2>2, PartsHere
<1>4. \/ \A e \in Nat : p + 1 <= e /\ e <= Len(sig) => SubSeq(sig, p + 1, e) \notin Types
      \/ /\ TypeEnd(sig, j) \in Nat /\ p < TypeEnd(sig, j)
         /\ TypeEnd(sig, j) <= Len(sig)
         /\ SubSeq(sig, p + 1, TypeEnd(sig, j)) \in Types
         /\ TypeAt(sig, j) = SubSeq(sig, p + 1, TypeEnd(sig, j))
  BY <1>1, <1>2, TypeEndNext
<1>5. CASE to.i > Len(sig)
  <2>1. one = Fail(FALSE, other)
    BY <1>5 DEF AppendOne
  <2>2. other.kind # "type"
    BY OtherErrorIs
  <2> HIDE DEF one, other
  <2>3. Inside(n, x, t, v, one)
    BY <2>1, <2>2, OtherNamed
  <2> QED
    BY <2>3 DEF one
<1>6. CASE ~ (to.i > Len(sig))
  <2>1. one = Appending[m][Call(sig, i, pv, to.x)]
    BY <1>2, <1>6 DEF AppendOne
  <2> DEFINE d == TypeEnd(sig, j)
             y == to.x
  <2> HIDE DEF one, pv
  <2>2. pv \in Values[m] /\ y \in Contexts /\ Keeps(x, y) /\ one = Appending[m][Call(sig, i, pv, y)]
    BY <1>1, <2>1 DEF pv
  <2>3. CASE \A e \in Nat : i <= e /\ e <= Len(sig) => SubSeq(sig, i, e) \notin Types
    <3> HIDE DEF i, y
    <3>1. Named(m, sig, i, pv, y, one)
      BY <1>2, <2>2, Zenon DEF Namely
    <3>2. CASE one.ok
      <4> DEFINE z == one.x
      <4>1. Keeps(y, z)
        BY <3>1, <3>2, Zenon DEF Named
      <4> HIDE DEF z
      <4>2. Keeps(x, z)
        BY <2>2, <4>1, KeepsOn
      <4>3. Inside(n, x, t, v, one)
        BY <3>2, <4>2, Zenon DEF Inside, z
      <4> QED
        BY <4>3 DEF one, pv
    <3>3. CASE ~ one.ok
      <4>1. one.error.kind # "type"
        BY <2>3, <3>1, <3>3, Zenon DEF Named
      <4>2. Inside(n, x, t, v, one)
        BY <3>3, <4>1, Zenon DEF Inside
      <4> QED
        BY <4>2 DEF one, pv
    <3> QED
      BY <3>2, <3>3
  <2>4. CASE /\ d \in Nat /\ p < d /\ d <= Len(sig) /\ SubSeq(sig, i, d) \in Types
             /\ TypeAt(sig, j) = SubSeq(sig, i, d)
    <3>1. i <= d
      <4> HIDE DEF d, p
      <4> QED
        BY <1>2, <2>4
    <3>2. << SubSeq(sig, i, d), pv >> \in Parts(t, v)
      BY <1>3, <2>4 DEF pv
    <3> HIDE DEF i, d, y
    <3>3. Inside(n, x, t, v, one)
      BY <1>2, <2>2, <2>4, <3>1, <3>2, PartNamed
    <3> QED
      BY <3>3 DEF one, pv
  <2> QED
    BY <1>4, <2>3, <2>4
<1> QED
  BY <1>5, <1>6

\* The structure from i to e, and its contents.
LEMMA StructInner ==
  ASSUME NEW s \in Strings, NEW i \in Nat, i >= 1, NEW e \in Nat, i + 1 < e, e <= Len(s),
         NEW t, t = SubSeq(s, i, e), t \in Types, s[i] = "(",
         NEW sig, sig = SubSeq(s, i + 1, e - 1)
  PROVE  t[1] = "(" /\ Inner(t) = sig /\ sig \in Strings
<1>1. t[1] = "(" /\ Len(t) = e - i + 1
  <2>1. i <= e
    OBVIOUS
  <2> QED
    BY <2>1, TypeStarts
<1> DEFINE l == e - i
           two == 2
           c == i + 1
           d == e - 1
<1>2. /\ l \in Nat /\ two \in Nat /\ 1 <= two /\ two <= l + 1 /\ l <= e - i + 1
      /\ c = i + two - 1 /\ d = i + l - 1 /\ Len(t) - 1 = l /\ i <= e
      /\ c \in Nat /\ c >= 1 /\ d \in Nat /\ c <= d /\ d <= Len(s)
  <2>1. Len(s) \in Nat
    BY StringsAre
  <2> QED
    BY <1>1, <2>1
<1> HIDE DEF l, two, c, d
<1>3. SubSeq(SubSeq(s, i, e), two, l) = SubSeq(s, c, d)
  BY <1>2, PartOfPart
<1>4. Inner(t) = sig
  BY <1>2, <1>3 DEF Inner, two, c, d
<1>5. SubSeq(s, c, d) \in Strings
  BY <1>2, PartIs
<1> QED
  BY <1>1, <1>4, <1>5 DEF c, d

\* The result of append_struct, with its parts named.
StructResult(f, e, end, sig, v, x, u) ==
  u = IF end < 2 \/ sig \notin Packs THEN Fail(FALSE, OtherError)
      ELSE IF v.kind # "tuple" THEN Fail(TRUE, TypeError(x, v))
      ELSE IF v.items = << >> THEN Fail(TRUE, OtherError)
      ELSE Close(e, "(", sig, AllTaken(sig, AppendEach(f, "struct", sig, v.items, x)))

\* So it is.
LEMMA AppendStructIs ==
  ASSUME NEW f, NEW s, NEW i, NEW v, NEW x, NEW end, end = Match(s, i, "(", ")"),
         NEW e, e = i + end, NEW sig, sig = SubSeq(s, i + 1, i + end - 1)
  PROVE  StructResult(f, e, end, sig, v, x, AppendStruct(f, s, i, v, x))
  BY DEF AppendStruct, StructResult

\* The error of a structure, or of a member, says what is wrong.
LEMMA StructNames ==
  ASSUME NEW n \in Nat, Under(n), UnderNamed(n), NEW s \in Strings, NEW i \in Nat, i >= 1,
         NEW e \in Nat, i <= e, e <= Len(s), NEW t \in Types, t = SubSeq(s, i, e), s[i] = "(",
         NEW v \in Values[n], NEW x, Entered(x, t)
  PROVE  Inside(n, x, t, v, AppendStruct(Below(Appending, n), s, i, v, x))
<1> DEFINE f == Below(Appending, n)
           u == AppendStruct(f, s, i, v, x)
           end == Match(s, i, "(", ")")
           sig == SubSeq(s, i + 1, e - 1)
           loop == "struct"
           run == AllTaken(sig, AppendEach(f, loop, sig, v.items, x))
           other == OtherError
<1>1. end = e - i /\ e - i >= 2 /\ SubSeq(s, i + 1, i + (e - i) - 1) \in Packs
  BY StructStarts
<1> HIDE DEF end
<1>2. end >= 2 /\ ~ (end < 2) /\ e = i + end /\ i + end - 1 = e - 1 /\ i + (e - i) - 1 = e - 1
      /\ i + 1 < e
  BY <1>1
<1>3. sig \in Packs /\ sig = SubSeq(s, i + 1, i + end - 1)
  BY <1>1, <1>2
<1> HIDE DEF sig
<1>4. t[1] = "(" /\ Inner(t) = sig /\ sig \in Strings
  <2>1. sig = SubSeq(s, i + 1, e - 1) /\ i + 1 < e
    BY <1>2 DEF sig
  <2> QED
    BY <2>1, StructInner, Zenon
<1> HIDE DEF u
<1>5. StructResult(f, e, end, sig, v, x, AppendStruct(f, s, i, v, x))
  <2> HIDE DEF f
  <2> QED
    BY <1>2, <1>3, AppendStructIs DEF end
<1>6. u = IF v.kind # "tuple" THEN Fail(TRUE, TypeError(x, v))
          ELSE IF v.items = << >> THEN Fail(TRUE, other)
          ELSE Close(e, "(", sig, run)
  <2> HIDE DEF f
  <2> QED
    BY <1>2, <1>3, <1>5 DEF u, StructResult
<1>7. Fits(t, v) <=> v.kind = "tuple"
  <2>1. t[1] \in {"v", "("}
    BY <1>4
  <2> QED
    BY <2>1, FitsIs
<1>8. other.kind # "type"
  BY OtherErrorIs
<1>9. x \in Contexts /\ x.depth >= 1 /\ Len(sig) \in Nat /\ loop \in {"struct", "arguments"}
  BY <1>4, StringsAre DEF Entered
<1> HIDE DEF other, run
<1>10. CASE v.kind # "tuple"
  <2>1. u = Fail(TRUE, TypeError(x, v)) /\ ~ Fits(t, v)
    BY <1>6, <1>7, <1>10, Zenon
  <2>2. Inside(n, x, t, v, u)
    BY <2>1, MisfitNamed
  <2> QED
    BY <2>2 DEF u
<1>11. CASE v.kind = "tuple" /\ v.items = << >>
  <2>1. u = Fail(TRUE, other)
    BY <1>6, <1>11, Zenon
  <2>2. Inside(n, x, t, v, u)
    BY <1>8, <2>1, OtherNamed
  <2> QED
    BY <2>2 DEF u
<1>12. CASE v.kind = "tuple" /\ v.items # << >>
  <2>1. n # 0 /\ v.items \in Seq(Values[n - 1])
    BY <1>12, ValuesAre
  <2>2. PICK m \in Nat : /\ m + 1 = n /\ Rightly(m) /\ Values[n - 1] = Values[m]
                         /\ f = Appending[m]
    BY <2>1, LevelBelow
  <2>3. Namely(m)
    <3>1. n - 1 = m
      BY <2>2
    <3> QED
      BY <2>1, <3>1, Zenon DEF UnderNamed
  <2> DEFINE vals == v.items
             V == Values[m]
  <2>4. vals \in Seq(V) /\ Len(vals) \in Nat
    <3>1. vals \in Seq(V)
      BY <2>1, <2>2
    <3> HIDE DEF V, vals
    <3> QED
      BY <3>1
  <2> HIDE DEF vals, f
  <2> DEFINE B == TypeBacks(m, sig, vals)
             W == Each(m, B)
             all == AppendEach(Appending[m], loop, sig, vals, x)
  <2>5. vals \in Seq(Values[m])
    BY <2>4
  <2> HIDE DEF V
  <2>6. run = AllTaken(sig, all)
    BY <2>2 DEF run, vals
  <2>13. EachNamed(n, t, v, x, Appending[m], loop, sig, vals)
    BY <1>4, <1>7, <1>9, <1>12, <2>1, <2>2, <2>3, <2>5, MembersNamed DEF vals
  <2> HIDE DEF loop
  <2>7. EachRight(Appending[m], loop, sig, vals, W, B)
    BY <1>4, <1>9, <2>2, <2>5, TypesRight
  <2> HIDE DEF W, B
  <2>8. IsRun(all)
    BY <1>9, <2>4, <2>7, LoopsRight
  <2>9. LoopNamed(n, t, v, x, all, Len(vals))
    BY <1>9, <2>4, <2>7, <2>13, LoopsNamed
  <2> HIDE DEF all
  <2>10. LoopNamed(n, t, v, x, run, Len(vals))
    BY <2>6, <2>8, <2>9, TakenNamed
  <2>11. u = Close(e, "(", sig, run)
    BY <1>6, <1>12, Zenon
  <2>12. Inside(n, x, t, v, u)
    BY <2>10, <2>11, CloseNamed
  <2> QED
    BY <2>12 DEF u, f
<1> QED
  BY <1>10, <1>11, <1>12

--------------------------------------------------------------------------------
(* Arrays                                                                       *)

\* The elements of an array that is no dictionary and no string of bytes.
LEMMA ElementsNamed ==
  ASSUME NEW n \in Nat, n # 0, NEW m \in Nat, m + 1 = n, Namely(m),
         NEW t \in Types, t[1] = "a", ~ Bytes(t), ~ Dictionary(t), NEW v \in Values[n], Fits(t, v),
         NEW x \in Contexts, x.depth >= 1,
         NEW sig \in Types, sig = Tail(t), NEW vals \in Seq(Values[m]), vals = v.items,
         NEW loop, loop = "array"
  PROVE  EachNamed(n, t, v, x, Appending[m], loop, sig, vals)
<1> SUFFICES ASSUME NEW j \in 1..Len(vals), NEW to,
                    to.x \in Contexts, to.i \in Nat, Cursor(loop, sig, to.i, j - 1), Keeps(x, to.x)
             PROVE  Inside(n, x, t, v, AppendOne(Appending[m], loop, sig, to, vals[j]))
  BY Zenon DEF EachNamed
<1> DEFINE V == Values[m]
           one == AppendOne(Appending[m], loop, sig, to, vals[j])
           pv == vals[j]
           y == to.x
<1>1. pv \in Values[m]
  <2>1. vals \in Seq(V)
    OBVIOUS
  <2> HIDE DEF V
  <2>2. pv \in V
    BY <2>1
  <2> QED
    BY <2>2 DEF V
<1> HIDE DEF V
<1>2. << sig, pv >> \in Parts(t, v)
  <2>1. t[1] \notin Basic
    BY FitsIs
  <2> QED
    BY <2>1, PartsHere
<1>3. one = Appending[m][Call(sig, 1, pv, y)]
  BY DEF AppendOne
<1> HIDE DEF one, pv, y
<1>4. y \in Contexts /\ Keeps(x, y)
  BY DEF y
<1>5. Inside(n, x, t, v, one)
  BY <1>1, <1>2, <1>3, <1>4, WholeNamed
<1> QED
  BY <1>5 DEF one

\* The error of an array of bytes.
LEMMA BytesNames ==
  ASSUME NEW n \in Nat, NEW t \in Types, Bytes(t), NEW i,
         NEW v \in Values[n], NEW x, Entered(x, t)
  PROVE  Inside(n, x, t, v, AppendBytes(i, v, x))
<1> DEFINE u == AppendBytes(i, v, x)
           vals == [j \in 1..Len(v.text) |-> Item("y", << >>, << Num(1) >>)]
           item == Item("a", << "y" >>, vals)
           d == i + 1
<1>1. u = IF v.kind # "string" THEN Fail(FALSE, TypeError(x, v)) ELSE Done(d, item, x)
  BY Zenon DEF AppendBytes
<1>2. Fits(t, v) <=> v.kind = "string"
  <2>1. t[1] = "a"
    BY DEF Bytes
  <2> QED
    BY <2>1, FitsIs
<1> HIDE DEF u, item, d
<1>3. CASE v.kind # "string"
  <2>1. u = Fail(FALSE, TypeError(x, v)) /\ ~ Fits(t, v)
    BY <1>1, <1>2, <1>3, Zenon
  <2>2. Inside(n, x, t, v, u)
    BY <2>1, MisfitNamed
  <2> QED
    BY <2>2 DEF u
<1>4. CASE v.kind = "string"
  <2>1. u = Done(d, item, x)
    BY <1>1, <1>4, Zenon
  <2>2. Keeps(x, x)
    BY Zenon DEF Keeps, Entered
  <2>3. Inside(n, x, t, v, u)
    BY <2>1, <2>2, DoneNamed
  <2> QED
    BY <2>3 DEF u
<1> QED
  BY <1>3, <1>4

\* The result of append_array for elements, with its parts named.
ElementsResult(f, e, end, sig, v, x, u) ==
  u = IF end = Panic \/ sig \notin Types THEN Fail(FALSE, OtherError)
      ELSE IF v.kind # "tuple" THEN Fail(TRUE, TypeError(x, v))
      ELSE Close(e, "a", sig, AppendEach(f, "array", sig, v.items, x))

\* So it is.
LEMMA AppendElementsIs ==
  ASSUME NEW f, NEW s, NEW i, NEW v, NEW x, At(s, i + 1) # EntryOpen, At(s, i + 1) # "y",
         NEW end, end = FindSubtype(s, i), NEW e, e = i + end, NEW sig, sig = SubSeq(s, i + 1, e)
  PROVE  ElementsResult(f, e, end, sig, v, x, AppendArray(f, s, i, v, x))
  BY DEF AppendArray, ElementsResult

\* The error of an array of elements, or of an element.
LEMMA ElementsNames ==
  ASSUME NEW n \in Nat, Under(n), UnderNamed(n), NEW s \in Strings, NEW i \in Nat, i >= 1,
         NEW e \in Nat, i <= e, e <= Len(s), NEW t \in Types, t = SubSeq(s, i, e), s[i] = "a",
         s[i + 1] # EntryOpen, s[i + 1] # "y",
         NEW v \in Values[n], NEW x, Entered(x, t)
  PROVE  Inside(n, x, t, v, AppendArray(Below(Appending, n), s, i, v, x))
<1> DEFINE f == Below(Appending, n)
           u == AppendArray(f, s, i, v, x)
           end == FindSubtype(s, i)
           sig == SubSeq(s, i + 1, e)
           loop == "array"
           run == AppendEach(f, loop, sig, v.items, x)
<1>1. end = e - i /\ e > i /\ ArrayParts(s, i, e) /\ Len(s) \in Nat
  BY ArrayStarts, StringsAre
<1>2. sig \in Types
  BY <1>1, Zenon DEF ArrayParts
<1> HIDE DEF end
<1>3. end # Panic /\ e = i + end /\ i < e /\ i + 1 \in 1..Len(s)
  BY <1>1 DEF Panic
<1>4. t[1] = "a" /\ t[2] = s[i + 1] /\ Tail(t) = sig /\ Len(t) > 1
  <2>1. SubSeq(s, i + 1, e) \in Types \cup Entries
    BY <1>2
  <2>2. IsArray(s, i, e, t)
    BY <1>3, <2>1, ArrayIs
  <2> QED
    BY <2>2, Zenon DEF IsArray
<1> HIDE DEF sig, u
<1>5. ElementsResult(f, e, end, sig, v, x, AppendArray(f, s, i, v, x))
  <2> HIDE DEF f
  <2>1. At(s, i + 1) # EntryOpen /\ At(s, i + 1) # "y"
    BY <1>3 DEF At
  <2>2. sig = SubSeq(s, i + 1, e) /\ end = FindSubtype(s, i)
    BY DEF sig, end
  <2> QED
    BY <1>3, <2>1, <2>2, AppendElementsIs
<1>6. u = IF v.kind # "tuple" THEN Fail(TRUE, TypeError(x, v)) ELSE Close(e, "a", sig, run)
  <2> HIDE DEF f
  <2> QED
    BY <1>2, <1>3, <1>5 DEF u, ElementsResult
<1>7. ~ Bytes(t) /\ ~ Dictionary(t) /\ (Fits(t, v) <=> v.kind = "tuple")
  <2>1. ~ Bytes(t)
    <3>1. << "a", "y" >>[2] = "y"
      OBVIOUS
    <3>2. t[2] # "y"
      BY <1>4
    <3> QED
      BY <3>1, <3>2, Zenon DEF Bytes
  <2>2. ~ Dictionary(t)
    BY <1>4, Zenon DEF Dictionary
  <2> QED
    BY <1>4, <2>1, <2>2, FitsIs
<1>8. x \in Contexts /\ x.depth >= 1 /\ Len(sig) \in Nat /\ sig \in Strings
  BY <1>2, TypesAre DEF Entered
<1> HIDE DEF run
<1>9. CASE v.kind # "tuple"
  <2>1. u = Fail(TRUE, TypeError(x, v)) /\ ~ Fits(t, v)
    BY <1>6, <1>7, <1>9, Zenon
  <2>2. Inside(n, x, t, v, u)
    BY <2>1, MisfitNamed
  <2> QED
    BY <2>2 DEF u
<1>10. CASE v.kind = "tuple"
  <2>1. n # 0 /\ v.items \in Seq(Values[n - 1])
    BY <1>10, ValuesAre
  <2>2. PICK m \in Nat : /\ m + 1 = n /\ Rightly(m) /\ Values[n - 1] = Values[m]
                         /\ f = Appending[m]
    BY <2>1, LevelBelow
  <2>3. Namely(m)
    <3>1. n - 1 = m
      BY <2>2
    <3> QED
      BY <2>1, <3>1, Zenon DEF UnderNamed
  <2> DEFINE vals == v.items
             V == Values[m]
  <2>4. vals \in Seq(V) /\ Len(vals) \in Nat
    <3>1. vals \in Seq(V)
      BY <2>1, <2>2
    <3> HIDE DEF V, vals
    <3> QED
      BY <3>1
  <2> HIDE DEF vals, f
  <2> DEFINE B == WholeBacks(m, sig, vals)
             W == Each(m, B)
  <2>5. vals \in Seq(Values[m])
    BY <2>4
  <2> HIDE DEF V
  <2>6. run = AppendEach(Appending[m], loop, sig, vals, x)
    BY <2>2 DEF run, vals
  <2>7. EachNamed(n, t, v, x, Appending[m], loop, sig, vals)
    <3>1. Fits(t, v) /\ sig = Tail(t) /\ vals = v.items
      BY <1>4, <1>7, <1>10 DEF vals
    <3> QED
      BY <1>2, <1>4, <1>7, <1>8, <2>1, <2>2, <2>3, <2>5, <3>1, ElementsNamed
  <2>8. EachRight(Appending[m], loop, sig, vals, W, B)
    BY <1>2, <2>2, <2>5, ElementsRight
  <2> HIDE DEF W, B, loop
  <2>9. LoopNamed(n, t, v, x, run, Len(vals))
    BY <1>8, <2>4, <2>6, <2>7, <2>8, LoopsNamed
  <2>10. u = Close(e, "a", sig, run)
    BY <1>6, <1>10, Zenon
  <2>11. Inside(n, x, t, v, u)
    BY <2>9, <2>10, CloseNamed
  <2> QED
    BY <2>11 DEF u, f
<1> QED
  BY <1>9, <1>10

\* The j-th key of a dictionary does not fit: its type is shown, or that of a value
\* before, if the dictionary is within another value.
LEMMA KeyNamed ==
  ASSUME NEW n \in Nat, NEW t \in Types, Dictionary(t), NEW v \in Values[n], Fits(t, v),
         NEW x, Entered(x, t), NEW j \in 1..Len(v.items), NEW w, v.items[j].items[1] = w,
         ~ Accepts(t[3], w), NEW y, Keeps(x, y), j = 1 => y = x,
         NEW left, NEW r, r = Fail(left, TypeError(y, w))
  PROVE  Inside(n, x, t, v, r)
<1> DEFINE e == TypeError(y, w)
           shown == TypeShown(e)
           deep == x.depth > 1
<1>1. ~ r.ok /\ r.error = e
  BY FailIs
<1>2. x \in Contexts /\ x.depth >= 1 /\ Cur(x) = Cut(t) /\ Cut(t) # << >>
  BY ShownIs DEF Entered
<1>3. Cut(t) = t
  <2>1. t[1] = "a" /\ "a" # "("
    BY DEF Dictionary
  <2> QED
    BY <2>1, ShownIs
<1>4. x.depth # 0 /\ x.depth \in Nat
  BY <1>2, ContextIs
<1>5. y \in Contexts /\ y.argc = x.argc /\ y.depth = x.depth /\ y.outer = x.outer
  BY <1>4, Zenon DEF Keeps
<1> HIDE DEF e
<1>6. /\ e.argc = y.argc /\ e.outer = y.outer /\ e.value = w
      /\ Cur(y) # << >> => shown = Cur(y)
      /\ ~ (y.depth > 1) => shown = y.outer
  BY <1>5, TypeErrorIs DEF e
<1>7. shown = t \/ (j # 1 /\ deep)
  <2>1. CASE j = 1
    <3>1. Cur(y) = t /\ t # << >>
      BY <1>2, <1>3, <2>1
    <3> HIDE DEF shown
    <3> QED
      BY <1>6, <3>1
  <2>2. CASE ~ deep
    <3>1. x.outer = t
      BY <1>2, <1>3, <2>2, Zenon DEF Cur
    <3> HIDE DEF shown
    <3> QED
      BY <1>5, <1>6, <2>2, <3>1
  <2>3. CASE j # 1 /\ deep
    BY <2>3
  <2> QED
    BY <2>1, <2>2, <2>3
<1> HIDE DEF shown, deep
<1>8. Blaming(n, deep, t, v, shown, w)
  BY <1>7, BlamesKey
<1> QED
  BY <1>1, <1>5, <1>6, <1>8, Zenon DEF Inside, Naming, shown, deep

\* The result of append_dict_entry: that of its key if it failed, or of its value.
EntryIs(f, s, kv, x, one) ==
  LET w == kv.items[1]
      item == Item(s[1], << >>, << w >>)
      value == f[Call(s, 2, kv.items[2], x)]
  IN one = IF ~ Accepts(s[1], w) THEN Fail(FALSE, TypeError(x, w))
           ELSE IF ~ value.ok THEN value
           ELSE Done(1, Item(EntryOpen, s, << item, value.item >>), value.x)

\* So it is.
LEMMA AppendEntryIs ==
  ASSUME NEW f, NEW s, NEW kv, NEW x
  PROVE  EntryIs(f, s, kv, x, AppendEntry(f, s, kv, x))
<1> DEFINE w == kv.items[1]
           item == Item(s[1], << >>, << w >>)
           value == f[Call(s, 2, kv.items[2], x)]
           one == AppendEntry(f, s, kv, x)
<1> SUFFICES one = IF ~ Accepts(s[1], w) THEN Fail(FALSE, TypeError(x, w))
                   ELSE IF ~ value.ok THEN value
                   ELSE Done(1, Item(EntryOpen, s, << item, value.item >>), value.x)
  BY Zenon DEF EntryIs
<1> DEFINE key == AppendBasic(s, 1, w, x)
           of == f[Call(s, 2, kv.items[2], key.x)]
           misfit == Fail(FALSE, TypeError(x, w))
<1>1. AppendEntry(f, s, kv, x) =
        IF ~ key.ok THEN key ELSE IF ~ of.ok THEN of
        ELSE Done(1, Item(EntryOpen, s, << key.item, of.item >>), of.x)
  BY Zenon DEF AppendEntry
<1>2. key = IF Accepts(s[1], w) THEN Done(1, item, x) ELSE misfit
  BY Zenon DEF AppendBasic
<1> HIDE DEF key, misfit
<1>3. CASE Accepts(s[1], w)
  <2>1. key = Done(1, item, x)
    BY <1>2, <1>3, Zenon
  <2>2. key.ok /\ key.item = item /\ key.x = x
    BY <2>1, DoneIs
  <2>3. of = value
    BY <2>2
  <2> HIDE DEF of
  <2> QED
    BY <1>1, <1>3, <2>2, <2>3, Zenon
<1>4. CASE ~ Accepts(s[1], w)
  <2>1. key = misfit
    BY <1>2, <1>4, Zenon
  <2>2. ~ key.ok
    <3> DEFINE error == TypeError(x, w)
               left == FALSE
    <3>1. key = Fail(left, error)
      BY <2>1 DEF misfit
    <3> HIDE DEF error, left
    <3> QED
      BY <3>1, FailIs
  <2> HIDE DEF of
  <2> QED
    BY <1>1, <1>4, <2>1, <2>2, Zenon DEF misfit
<1> QED
  BY <1>3, <1>4

\* The entries of a dictionary.
LEMMA EntriesNamed ==
  ASSUME NEW n \in Nat, n # 0, NEW m \in Nat, m + 1 = n, Namely(m),
         NEW t \in Types, Dictionary(t), NEW v \in Values[n], Fits(t, v),
         NEW x, Entered(x, t),
         NEW sig \in Strings, Len(sig) \in Nat, Len(sig) >= 2, sig[1] = t[3],
         NEW type \in Types, type = SubSeq(sig, 2, Len(sig)), type = SubSeq(t, 4, Len(t) - 1),
         NEW vals, vals = v.items, Len(vals) \in Nat,
         \A k \in 1..Len(vals) : vals[k].items[2] \in Values[m],
         NEW loop, loop = "dict"
  PROVE  EachNamed(n, t, v, x, Appending[m], loop, sig, vals)
<1> SUFFICES ASSUME NEW j \in 1..Len(vals), NEW to,
                    to.x \in Contexts, to.i \in Nat, Cursor(loop, sig, to.i, j - 1),
                    Keeps(x, to.x), j = 1 => to.x = x
             PROVE  Inside(n, x, t, v, AppendOne(Appending[m], loop, sig, to, vals[j]))
  BY Zenon DEF EachNamed
<1> DEFINE one == AppendOne(Appending[m], loop, sig, to, vals[j])
           kv == vals[j]
           y == to.x
           w == kv.items[1]
           pv == kv.items[2]
           item == Item(sig[1], << >>, << w >>)
           value == Appending[m][Call(sig, 2, pv, y)]
           both == Item(EntryOpen, sig, << item, value.item >>)
<1>1. one = AppendEntry(Appending[m], sig, kv, y)
  BY DEF AppendOne
<1>2. one = IF ~ Accepts(sig[1], w) THEN Fail(FALSE, TypeError(y, w))
            ELSE IF ~ value.ok THEN value ELSE Done(1, both, value.x)
  <2>1. EntryIs(Appending[m], sig, kv, y, one)
    BY <1>1, AppendEntryIs
  <2> HIDE DEF one
  <2> QED
    BY <2>1, Zenon DEF EntryIs
<1>3. /\ y \in Contexts /\ Keeps(x, y) /\ (j = 1 => y = x)
      /\ j \in 1..Len(v.items) /\ v.items[j].items[1] = w
      /\ x \in Contexts /\ x.depth >= 1
  BY Zenon DEF Entered
<1>4. << type, pv >> \in Parts(t, v) /\ pv \in Values[m]
  <2>1. t[1] = "a"
    BY Zenon DEF Dictionary
  <2>2. t[1] \notin Basic /\ ~ Bytes(t)
    BY <2>1, FitsIs
  <2> QED
    BY <2>2, PartsHere
<1> HIDE DEF one, y, w, item, both
<1>5. CASE ~ Accepts(sig[1], w)
  <2>1. one = Fail(FALSE, TypeError(y, w)) /\ ~ Accepts(t[3], w)
    BY <1>2, <1>5
  <2>2. Inside(n, x, t, v, one)
    BY <1>3, <2>1, KeyNamed
  <2> QED
    BY <2>2 DEF one
<1>6. CASE Accepts(sig[1], w)
  <2> DEFINE i == 2
             d == Len(sig)
  <2>1. /\ i \in Nat /\ i >= 1 /\ d \in Nat /\ i <= d /\ d <= Len(sig)
        /\ SubSeq(sig, i, d) \in Types /\ << SubSeq(sig, i, d), pv >> \in Parts(t, v)
        /\ value = Appending[m][Call(sig, i, pv, y)]
    BY <1>4
  <2> HIDE DEF i, d, value, pv
  <2>2. Inside(n, x, t, v, value)
    BY <1>3, <1>4, <2>1, PartNamed
  <2>3. CASE ~ value.ok
    <3>1. one = value
      BY <1>2, <1>6, <2>3, Zenon
    <3>2. Inside(n, x, t, v, one)
      BY <2>2, <3>1
    <3> QED
      BY <3>2 DEF one
  <2>4. CASE value.ok
    <3> DEFINE z == value.x
               k == 1
    <3>1. one = Done(k, both, z)
      BY <1>2, <1>6, <2>4, Zenon
    <3>2. Keeps(x, z)
      BY <2>2, <2>4, Zenon DEF Inside
    <3> HIDE DEF z, k
    <3>3. Inside(n, x, t, v, one)
      BY <3>1, <3>2, DoneNamed
    <3> QED
      BY <3>3 DEF one
  <2> QED
    BY <2>3, <2>4
<1> QED
  BY <1>5, <1>6

\* The error of a dictionary, or of a key or value in it.
LEMMA DictNames ==
  ASSUME NEW n \in Nat, Under(n), UnderNamed(n), NEW s \in Strings, NEW i \in Nat, i >= 1,
         NEW e \in Nat, i <= e, e <= Len(s), NEW t \in Types, t = SubSeq(s, i, e), s[i] = "a",
         s[i + 1] = EntryOpen, NEW j, j = i + 1, NEW v \in Values[n], NEW x, Entered(x, t)
  PROVE  Inside(n, x, t, v, AppendDict(Below(Appending, n), s, j, v, x))
<1> DEFINE f == Below(Appending, n)
           u == AppendDict(f, s, j, v, x)
           end == Match(s, j, EntryOpen, EntryClose)
           sig == SubSeq(s, j + 1, j + end - 1)
           entry == SubSeq(s, j, j + end)
           type == SubSeq(s, i + 3, e - 1)
           loop == "dict"
           run == AppendEach(f, loop, sig, v.items, x)
<1>1. e > i /\ ArrayParts(s, i, e)
  BY ArrayStarts
<1>2. end = e - i - 1 /\ e > i + 3 /\ SubSeq(s, i + 1, e) \in Entries
  BY <1>1, Zenon DEF ArrayParts
<1> HIDE DEF end
<1>3. /\ end \in Nat /\ ~ (end < 3) /\ e = j + end /\ i < e /\ j + 1 = i + 2 /\ j + end - 1 = e - 1
      /\ j \in Nat
  BY <1>2
<1>4. sig = SubSeq(s, i + 2, e - 1) /\ entry = SubSeq(s, i + 1, e) /\ entry \in Entries
  BY <1>2, <1>3
<1>5. sig = SubSeq(s, j + 1, j + end - 1) /\ entry = SubSeq(s, j, j + end)
      /\ type = SubSeq(s, i + 3, e - 1)
  OBVIOUS
<1> HIDE DEF sig, entry, u, type
<1>6. IsDict(s, i, e, t, sig, type)
  BY <1>2, <1>3, <1>4, <1>5, DictIs, Zenon
<1>7. /\ sig \in Strings /\ Len(sig) \in Nat /\ Len(sig) >= 2 /\ sig[1] \in Basic
      /\ type = SubSeq(sig, 2, Len(sig)) /\ type \in Types
      /\ t[1] = "a" /\ t[2] = EntryOpen /\ Len(t) > 1
      /\ t[3] = sig[1] /\ type = SubSeq(t, 4, Len(t) - 1)
  BY <1>6, Zenon DEF IsDict
<1>8. DictResult(f, e, end, sig, entry, v, x, AppendDict(f, s, j, v, x))
  <2> HIDE DEF f
  <2>1. end = Match(s, j, EntryOpen, EntryClose)
    BY Zenon DEF end
  <2> QED
    BY <1>3, <1>5, <2>1, AppendDictIs, Zenon
<1>9. u = IF v.kind # "table" THEN Fail(TRUE, TypeError(x, v)) ELSE Close(e, "a", entry, run)
  <2>1. At(sig, 1) \in Basic
    BY <1>7 DEF At
  <2> HIDE DEF f
  <2> QED
    BY <1>3, <1>4, <1>8, <2>1 DEF u, DictResult
<1>10. Dictionary(t) /\ (Fits(t, v) <=> v.kind = "table")
  <2>1. Dictionary(t)
    BY <1>7, Zenon DEF Dictionary
  <2> QED
    BY <1>7, <2>1, FitsIs
<1>11. x \in Contexts /\ x.depth >= 1
  BY Zenon DEF Entered
<1> HIDE DEF run
<1>12. CASE v.kind # "table"
  <2>1. u = Fail(TRUE, TypeError(x, v)) /\ ~ Fits(t, v)
    BY <1>9, <1>10, <1>12, Zenon
  <2>2. Inside(n, x, t, v, u)
    BY <2>1, MisfitNamed
  <2> QED
    BY <2>2 DEF u
<1>13. CASE v.kind = "table"
  <2>1. /\ n # 0 /\ Len(v.items) \in Nat
        /\ \A k \in 1..Len(v.items) : /\ v.items[k].items[1] \in Values[n - 1]
                                      /\ v.items[k].items[2] \in Values[n - 1]
    BY <1>13, ValuesAre
  <2>2. PICK m \in Nat : /\ m + 1 = n /\ Rightly(m) /\ Values[n - 1] = Values[m]
                         /\ f = Appending[m]
    BY <2>1, LevelBelow
  <2>3. Namely(m)
    <3>1. n - 1 = m
      BY <2>2
    <3> QED
      BY <2>1, <3>1, Zenon DEF UnderNamed
  <2> DEFINE vals == v.items
             B == EntryBacks(m, sig[1], type, vals)
             W == EachEntry(m, B)
  <2>4. Len(vals) \in Nat /\ \A k \in 1..Len(vals) : /\ vals[k].items[1] \in Values[m]
                                                     /\ vals[k].items[2] \in Values[m]
    BY <2>1, <2>2, Zenon
  <2>5. run = AppendEach(Appending[m], loop, sig, vals, x)
    BY <2>2 DEF run
  <2>6. vals = v.items
    OBVIOUS
  <2> HIDE DEF vals, f
  <2>7. EachRight(Appending[m], loop, sig, vals, W, B)
    BY <1>7, <2>2, <2>4, EntriesRight
  <2>8. EachNamed(n, t, v, x, Appending[m], loop, sig, vals)
    <3>1. /\ Fits(t, v) /\ Dictionary(t) /\ sig[1] = t[3] /\ loop = "dict"
          /\ \A k \in 1..Len(vals) : vals[k].items[2] \in Values[m]
      BY <1>7, <1>10, <1>13, <2>4
    <3> HIDE DEF loop
    <3> QED
      BY <1>7, <2>1, <2>2, <2>3, <2>4, <2>6, <3>1, EntriesNamed
  <2> HIDE DEF W, B, loop
  <2>9. LoopNamed(n, t, v, x, run, Len(vals))
    BY <1>7, <1>11, <2>4, <2>5, <2>7, <2>8, LoopsNamed
  <2>10. u = Close(e, "a", entry, run)
    BY <1>9, <1>13, Zenon
  <2>11. Inside(n, x, t, v, u)
    BY <2>9, <2>10, CloseNamed
  <2> QED
    BY <2>11 DEF u, f
<1> QED
  BY <1>12, <1>13

\* The string of an array of bytes.
LEMMA TwoBytes ==
  ASSUME NEW z \in Seq(STRING), Len(z) = 2, z[1] = "a", z[2] = "y"
  PROVE  z = << "a", "y" >>
  OBVIOUS

\* The error of an array of any kind.
LEMMA ArrayNames ==
  ASSUME NEW n \in Nat, Under(n), UnderNamed(n), NEW s \in Strings, NEW i \in Nat, i >= 1,
         NEW e \in Nat, i <= e, e <= Len(s), NEW t \in Types, t = SubSeq(s, i, e), s[i] = "a",
         NEW v \in Values[n], NEW x, Entered(x, t)
  PROVE  Inside(n, x, t, v, AppendArray(Below(Appending, n), s, i, v, x))
<1> DEFINE f == Below(Appending, n)
           j == i + 1
           u == AppendArray(f, s, i, v, x)
<1>1. Len(s) \in Nat /\ j \in Nat /\ j >= 1 /\ e > i /\ j <= Len(s) /\ ArrayParts(s, i, e)
  BY StringsAre, ArrayStarts
<1>2. EntryOpen # "y"
  BY Zenon DEF EntryOpen
<1>3. At(s, j) = s[j]
  <2> HIDE DEF j
  <2> QED
    BY <1>1 DEF At
<1> HIDE DEF j
<1>4. CASE s[j] = EntryOpen
  <2>1. u = AppendDict(f, s, j, v, x)
    BY <1>3, <1>4, Zenon DEF AppendArray, j
  <2>2. s[i + 1] = EntryOpen /\ j = i + 1
    BY <1>4 DEF j
  <2> HIDE DEF u
  <2>3. Inside(n, x, t, v, AppendDict(Below(Appending, n), s, j, v, x))
    BY <2>2, DictNames
  <2> QED
    BY <2>1, <2>3 DEF u
<1>5. CASE s[j] # EntryOpen /\ s[j] = "y"
  <2>1. u = AppendBytes(i, v, x)
    BY <1>3, <1>5, Zenon DEF AppendArray, j
  <2>2. Bytes(t)
    <3>1. SubSeq(s, i + 1, e) \in Types /\ i < e
      BY <1>1, <1>5, Zenon DEF ArrayParts, j
    <3>2. IsArray(s, i, e, t)
      BY <3>1, ArrayIs
    <3>3. /\ t[1] = "a" /\ t[2] = s[i + 1] /\ Len(t) = e - i + 1
      BY <3>2, Zenon DEF IsArray
    <3>4. e = i + 1
      <4> DEFINE a == i + 1
      <4>1. a \in Nat /\ a >= 1 /\ a <= a /\ a <= e
        BY <1>1
      <4>2. SubSeq(s, a, a) \in Types
        <5>1. s[a] \in Basic /\ a <= Len(s)
          BY <1>1, <1>5 DEF Basic, j
        <5> HIDE DEF a
        <5> QED
          BY <4>1, <5>1, TypeOfOne
      <4>3. SubSeq(s, a, e) \in Types
        BY <3>1
      <4>5. a <= Len(s)
        BY <1>1 DEF j
      <4> HIDE DEF a
      <4>4. a = e
        BY <4>1, <4>2, <4>3, <4>5, OneTypeStarts
      <4> QED
        BY <4>4 DEF a
    <3>5. Len(t) = 2 /\ t[2] = "y"
      BY <1>5, <3>3, <3>4 DEF j
    <3>6. t \in Seq(STRING)
      BY TypesAre
    <3>7. t = << "a", "y" >>
      BY <3>3, <3>5, <3>6, TwoBytes
    <3> QED
      BY <3>7, Zenon DEF Bytes
  <2> HIDE DEF u
  <2>3. Inside(n, x, t, v, AppendBytes(i, v, x))
    BY <2>2, BytesNames
  <2> QED
    BY <2>1, <2>3 DEF u
<1>6. CASE s[j] # EntryOpen /\ s[j] # "y"
  <2>1. s[i + 1] # EntryOpen /\ s[i + 1] # "y"
    BY <1>6 DEF j
  <2> QED
    BY <2>1, ElementsNames
<1> QED
  BY <1>4, <1>5, <1>6

--------------------------------------------------------------------------------
(* Without a complete type at the cursor there is no type error.                *)

\* A complete type starts at i.
Starts(s, i) == \E e \in Nat : i <= e /\ e <= Len(s) /\ SubSeq(s, i, e) \in Types
\* The error if none does.
NoType == Fail(FALSE, OtherError)

\* A structure that is no complete type is refused,
LEMMA StructTyped ==
  ASSUME NEW s \in Strings, NEW i \in Nat, i >= 1, i <= Len(s), s[i] = "(",
         NEW f, NEW v, NEW x
  PROVE  AppendStruct(f, s, i, v, x) = NoType \/ Starts(s, i)
<1> DEFINE end == Match(s, i, "(", ")")
           e == i + end
           sig == SubSeq(s, i + 1, i + end - 1)
<1>1. StructResult(f, e, end, sig, v, x, AppendStruct(f, s, i, v, x))
  BY AppendStructIs
<1>2. Len(s) \in Nat /\ i \in Int
  BY StringsAre
<1>3. end # Panic => end \in 1..(Len(s) - i) /\ s[i + end] = ")"
  <2>1. Match(s, i, "(", ")") # Panic => /\ Match(s, i, "(", ")") \in 1..(Len(s) - i)
                                         /\ s[i + Match(s, i, "(", ")")] = ")"
    BY <1>2, MatchCloses
  <2> QED
    BY <2>1
<1>4. CASE end < 2 \/ sig \notin Packs
  <2> HIDE DEF end, sig, e
  <2> QED
    BY <1>1, <1>4, Zenon DEF StructResult, NoType
<1>5. CASE ~ (end < 2 \/ sig \notin Packs)
  <2>1. e \in Nat /\ i + 1 < e /\ i <= e /\ e <= Len(s) /\ s[e] = ")" /\ i + end - 1 = e - 1
    <3> HIDE DEF end
    <3>1. end # Panic
      BY <1>5 DEF Panic
    <3> QED
      BY <1>2, <1>3, <1>5, <3>1
  <2>2. SubSeq(s, i + 1, e - 1) \in Packs
    <3> HIDE DEF end, e
    <3> QED
      BY <1>5, <2>1
  <2> HIDE DEF e
  <2>3. SubSeq(s, i, e) \in Types
    BY <2>1, <2>2, TypeOfStruct
  <2> QED
    BY <2>1, <2>3, Zenon DEF Starts
<1> QED
  BY <1>4, <1>5

\* and so is an array.
LEMMA ArrayTyped ==
  ASSUME NEW s \in Strings, NEW i \in Nat, i >= 1, i <= Len(s), s[i] = "a",
         NEW f, NEW v, NEW x
  PROVE  AppendArray(f, s, i, v, x) = NoType \/ Starts(s, i)
<1> DEFINE j == i + 1
           u == AppendArray(f, s, i, v, x)
<1>1. Len(s) \in Nat /\ i \in Int /\ j \in Nat /\ j \in Int /\ j >= 1 /\ i < j
  BY StringsAre
<1>2. ASSUME NEW e \in Nat, i < e, e <= Len(s), SubSeq(s, j, e) \in Types \cup Entries
      PROVE  Starts(s, i)
  <2>1. SubSeq(s, i, e) \in Types
    BY <1>2, TypeOfArray
  <2>2. i <= e
    BY <1>2
  <2> QED
    BY <1>2, <2>1, <2>2, Zenon DEF Starts
<1>3. EntryOpen # "end" /\ EntryOpen # "y"
  BY Zenon DEF EntryOpen
<1> HIDE DEF j
<1>4. At(s, j) = EntryOpen \/ At(s, j) = "y" => j <= Len(s) /\ At(s, j) = s[j]
  BY <1>1, <1>3 DEF At
<1>5. CASE At(s, j) = EntryOpen
  <2> DEFINE end == Match(s, j, EntryOpen, EntryClose)
             e == j + end
             sig == SubSeq(s, j + 1, j + end - 1)
             entry == SubSeq(s, j, j + end)
             Off == end < 3 \/ At(sig, 1) \notin Basic \/ entry \notin Entries
  <2>1. u = AppendDict(f, s, j, v, x)
    BY <1>5, Zenon DEF AppendArray, j
  <2>2. DictResult(f, e, end, sig, entry, v, x, AppendDict(f, s, j, v, x))
    BY AppendDictIs
  <2>3. CASE Off
    <3> HIDE DEF end, sig, e, entry
    <3> QED
      BY <2>1, <2>2, <2>3, Zenon DEF DictResult, NoType
  <2>4. CASE ~ Off
    <3>1. end = Panic \/ end \in 1..(Len(s) - j)
      BY <1>1, <1>4, <1>5, MatchInside
    <3>2. ~ (end < 3) /\ SubSeq(s, j, e) \in Entries
      BY <2>4
    <3>3. e \in Nat /\ i < e /\ e <= Len(s)
      <4> HIDE DEF end
      <4>1. end # Panic
        BY <3>2 DEF Panic
      <4> QED
        BY <1>1, <3>1, <4>1
    <3> HIDE DEF e
    <3> QED
      BY <1>2, <3>2, <3>3
  <2> QED
    BY <2>3, <2>4
<1>6. CASE At(s, j) # EntryOpen /\ At(s, j) = "y"
  <2>1. j <= Len(s) /\ s[j] \in Basic
    BY <1>4, <1>6 DEF Basic
  <2>2. SubSeq(s, j, j) \in Types
    BY <1>1, <2>1, TypeOfOne
  <2> QED
    BY <1>1, <1>2, <2>1, <2>2
<1>7. CASE At(s, j) # EntryOpen /\ At(s, j) # "y"
  <2> DEFINE end == FindSubtype(s, i)
             e == i + end
             sig == SubSeq(s, i + 1, e)
  <2>1. ElementsResult(f, e, end, sig, v, x, AppendArray(f, s, i, v, x))
    <3>1. At(s, i + 1) # EntryOpen /\ At(s, i + 1) # "y"
      BY <1>7 DEF j
    <3> QED
      BY <3>1, AppendElementsIs
  <2>2. CASE end = Panic \/ sig \notin Types
    <3> HIDE DEF end, e, sig
    <3> QED
      BY <2>1, <2>2, Zenon DEF ElementsResult, NoType
  <2>3. CASE ~ (end = Panic \/ sig \notin Types)
    <3>1. end \in 0..(Len(s) - i)
      BY <2>3, SubtypeInside
    <3>2. end # 0
      <4> SUFFICES ASSUME end = 0 PROVE FALSE
        OBVIOUS
      <4>1. Len(sig) >= 1
        BY <2>3, TypesAre
      <4>2. sig = << >>
        <5> HIDE DEF end
        <5> QED
          BY <1>1
      <4> QED
        BY <4>1, <4>2
    <3>3. e \in Nat /\ i < e /\ e <= Len(s)
      <4> HIDE DEF end
      <4> QED
        BY <1>1, <3>1, <3>2
    <3>4. SubSeq(s, j, e) \in Types
      BY <2>3 DEF j
    <3> HIDE DEF e
    <3> QED
      BY <1>2, <3>3, <3>4
  <2> QED
    BY <2>2, <2>3
<1> QED
  BY <1>5, <1>6, <1>7

--------------------------------------------------------------------------------
(* Type errors of append_complete_type                                          *)

\* The type that is entered is shown without the closing bracket of a structure.
LEMMA SpanShows ==
  ASSUME NEW s \in Strings, NEW i \in Nat, i >= 1, NEW e \in Nat, i <= e, e <= Len(s),
         NEW t \in Types, t = SubSeq(s, i, e)
  PROVE  Span(s, i) # Panic /\ SubSeq(s, i, i + Span(s, i) - 1) = Cut(t)
<1> DEFINE k == e - i
           l == Span(s, i)
<1>1. s \in Seq(STRING) /\ Len(s) \in Nat
  BY StringsAre
<1>2. k \in Nat /\ i + k = e /\ i \in 1..Len(s) /\ i + k <= Len(s)
  BY <1>1
<1>3. t[1] = s[i] /\ Len(t) = e - i + 1 /\ (s[i] = "(" => e > i + 1)
  BY TypeStarts
<1> HIDE DEF k
<1>4. SubSeq(s, i, i + k) \in Types
  BY <1>2
<1>5. l = IF s[i] = "(" THEN k ELSE k + 1
  BY <1>1, <1>2, <1>4, OffsetsFindTypes
<1> HIDE DEF l
<1>6. l # Panic
  BY <1>2, <1>5 DEF Panic
<1>7. CASE s[i] = "("
  <2>1. l = k /\ i + l - 1 = e - 1 /\ Cut(t) = SubSeq(t, 1, Len(t) - 1)
    BY <1>2, <1>3, <1>5, <1>7 DEF Cut
  <2> DEFINE j == 1
             a == i + j - 1
             q == Len(t) - 1
             b == i + q - 1
  <2>2. /\ j \in Nat /\ q \in Nat /\ 1 <= j /\ j <= q + 1 /\ q <= e - i + 1
        /\ a = i /\ b = e - 1
    BY <1>1, <1>3, <1>7
  <2>3. SubSeq(s, i, e - 1) = SubSeq(SubSeq(s, i, e), j, q)
    <3> HIDE DEF j, q
    <3>1. a = i + j - 1 /\ b = i + q - 1
      OBVIOUS
    <3> HIDE DEF a, b
    <3>2. SubSeq(SubSeq(s, i, e), j, q) = SubSeq(s, a, b)
      BY <2>2, <3>1, PartOfPart
    <3> QED
      BY <2>2, <3>2
  <2> QED
    BY <1>6, <2>1, <2>3 DEF l
<1>8. CASE s[i] # "("
  <2>1. i + l - 1 = e /\ Cut(t) = t
    BY <1>2, <1>3, <1>5, <1>8 DEF Cut
  <2> QED
    BY <1>6, <2>1 DEF l
<1> QED
  BY <1>7, <1>8

\* A context that entered a type shows it.
LEMMA EnteredFor ==
  ASSUME NEW t, Cut(t) \in Strings, NEW x \in Contexts
  PROVE  Entered(Enter(x, Cut(t)), t)
<1> DEFINE in == Enter(x, Cut(t))
<1>1. in \in Contexts
  BY ContextsStay
<1>2. /\ in.depth = x.depth + 1 /\ in.outer = IF x.depth = 0 THEN Cut(t) ELSE x.outer
      /\ x.depth # 0 => in.inner = Cut(t)
  BY EnterIs
<1>3. x.depth \in Nat
  BY ContextIs
<1> HIDE DEF in
<1>4. in.depth >= 1 /\ Cur(in) = Cut(t)
  BY <1>2, <1>3 DEF Cur
<1>5. Entered(in, t)
  BY <1>1, <1>4, Zenon DEF Entered
<1> QED
  BY <1>5 DEF in

\* An error of another kind has nothing to say about types.
LEMMA OtherwiseNamed ==
  ASSUME NEW n, NEW s, NEW i, NEW v, NEW x, NEW left, NEW error, error.kind # "type",
         NEW r, r = Fail(left, error)
  PROVE  Named(n, s, i, v, x, r)
<1>1. ~ r.ok /\ r.error = error
  BY FailIs
<1> QED
  BY <1>1, Zenon DEF Named

\* The type was entered before, and is left after.
LEMMA ExitNamed ==
  ASSUME NEW n \in Nat, NEW s, NEW i \in Nat, NEW e \in Nat, i <= e, e <= Len(s),
         NEW t \in Types, t = SubSeq(s, i, e), NEW v, NEW x \in Contexts,
         NEW r, IsResult(r), Inside(n, Enter(x, Cut(t)), t, v, r)
  PROVE  Named(n, s, i, v, x, IF r.ok THEN [r EXCEPT !.x = Exit(@)] ELSE r)
<1> DEFINE in == Enter(x, Cut(t))
<1>1. /\ in.argc = x.argc /\ in.depth = x.depth + 1
      /\ in.outer = IF x.depth = 0 THEN Cut(t) ELSE x.outer
      /\ x.depth \in Nat
  BY EnterIs, ContextIs
<1>2. Inside(n, in, t, v, r)
  OBVIOUS
<1> HIDE DEF in
<1>3. CASE ~ r.ok /\ r.error.kind = "type"
  <2> DEFINE error == r.error
  <2>1. Naming(n, in, t, v, error)
    BY <1>2, <1>3, Zenon DEF Inside
  <2> HIDE DEF error
  <2>2. (in.depth > 1) = (x.depth > 0)
    BY <1>1
  <2>3. Blamed(n, x, t, v, error)
    BY <1>1, <2>1, <2>2, Zenon DEF Naming, Blamed
  <2> QED
    BY <1>3, <2>3, Zenon DEF Named, error
<1>4. CASE ~ r.ok /\ r.error.kind # "type"
  BY <1>4, Zenon DEF Named
<1>5. CASE r.ok
  <2> DEFINE u == [r EXCEPT !.x = Exit(@)]
  <2>1. PICK d, item, z : r = Done(d, item, z)
    BY <1>5, Zenon DEF IsResult, IsDone
  <2>2. r = [ok |-> TRUE, i |-> d, item |-> item, x |-> z]
    BY <2>1, Zenon DEF Done
  <2>3. u = [r EXCEPT !.x = Exit(r.x)]
    OBVIOUS
  <2> DEFINE y == Exit(r.x)
  <2>4. u = [r EXCEPT !.x = y]
    BY <2>3
  <2> HIDE DEF u, y
  <2>5. u.ok /\ u.x = y
    BY <2>2, <2>4
  <2>6. /\ r.x \in Contexts /\ r.x.argc = in.argc /\ r.x.depth = in.depth
        /\ in.depth # 0 => r.x.outer = in.outer
    BY <1>2, <1>5, Zenon DEF Inside, Keeps
  <2>7. /\ y \in Contexts /\ y.argc = r.x.argc /\ y.outer = r.x.outer
        /\ y.depth = IF r.x.depth > 0 THEN r.x.depth - 1 ELSE 0
    BY <2>6, ContextsStay, OthersKeep DEF y
  <2>8. y.argc = x.argc /\ y.depth = x.depth /\ (x.depth # 0 => y.outer = x.outer)
    BY <1>1, <2>6, <2>7
  <2>9. Keeps(x, y)
    BY <2>7, <2>8, Zenon DEF Keeps
  <2>10. Named(n, s, i, v, x, u)
    BY <2>5, <2>9, Zenon DEF Named
  <2> QED
    BY <1>5, <2>10, Zenon DEF u
<1> QED
  BY <1>3, <1>4, <1>5

\* append_complete_type says what is wrong, if it does for the level below.
LEMMA CompleteNames ==
  ASSUME NEW n \in Nat, Under(n), UnderNamed(n), NEW s \in Strings, NEW i \in Nat, i >= 1,
         NEW v \in Values[n], NEW x \in Contexts
  PROVE  Named(n, s, i, v, x, AppendComplete(Below(Appending, n), s, i, v, x))
<1> DEFINE f == Below(Appending, n)
           l == Span(s, i)
           in == Enter(x, SubSeq(s, i, i + l - 1))
           r == CASE At(s, i) \in Basic -> AppendBasic(s, i, v, in)
                  [] At(s, i) = "v" -> AppendVariant(f, i, v, in)
                  [] At(s, i) = "(" -> AppendStruct(f, s, i, v, in)
                  [] OTHER -> AppendArray(f, s, i, v, in)
           u == AppendComplete(f, s, i, v, x)
           basic == AppendBasic(s, i, v, in)
           variant == AppendVariant(f, i, v, in)
           struct == AppendStruct(f, s, i, v, in)
           array == AppendArray(f, s, i, v, in)
<1>1. u = IF l = Panic THEN Fail(FALSE, OtherError)
          ELSE IF r.ok THEN [r EXCEPT !.x = Exit(@)] ELSE r
  BY Zenon DEF AppendComplete
<1>2. CASE l = Panic
  <2> DEFINE error == OtherError
             left == FALSE
  <2>1. u = Fail(left, error) /\ error.kind # "type"
    BY <1>1, <1>2, OtherErrorIs, Zenon
  <2> HIDE DEF u, error, left
  <2>2. Named(n, s, i, v, x, u)
    BY <2>1, OtherwiseNamed
  <2> QED
    BY <2>2 DEF u
<1>3. CASE l # Panic
  <2>1. /\ i <= Len(s) /\ s[i] \in Basic \cup {"v", "a", "("} /\ At(s, i) = s[i]
        /\ SubSeq(s, i, i + l - 1) \in Strings
    BY <1>3, SpanInside
  <2>2. /\ "v" \notin Basic /\ "(" \notin Basic /\ "a" \notin Basic
        /\ "v" # "(" /\ "a" # "v" /\ "a" # "("
    BY DEF Basic
  <2> DEFINE c == At(s, i)
             z == CASE c \in Basic -> basic [] c = "v" -> variant
                    [] c = "(" -> struct [] OTHER -> array
  <2>3. r = z
    OBVIOUS
  <2>4. /\ IsResult(basic) /\ IsResult(variant) /\ IsResult(struct) /\ IsResult(array)
    BY ResultsAre
  <2>5. c = s[i] /\ (c \in Basic \/ c = "v" \/ c = "(" \/ c = "a")
    BY <2>1
  <2>6. u = IF z.ok THEN [z EXCEPT !.x = Exit(@)] ELSE z
    <3> HIDE DEF r, z, u, l
    <3> QED
      BY <1>1, <1>3, <2>3, Zenon
  <2>7. CASE ~ Starts(s, i)
    <3>1. s[i] = "(" \/ s[i] = "a"
      <4> SUFFICES ASSUME s[i] \in Basic \cup {"v"} PROVE FALSE
        BY <2>1
      <4>1. SubSeq(s, i, i) \in Types /\ i <= i
        BY <2>1, TypeOfOne
      <4> QED
        BY <2>1, <2>7, <4>1, Zenon DEF Starts
    <3>2. (s[i] = "(" => struct = NoType) /\ (s[i] = "a" => array = NoType)
      BY <2>1, <2>7, StructTyped, ArrayTyped, Zenon
    <3> DEFINE error == OtherError
               left == FALSE
    <3>3. z = NoType
      <4> HIDE DEF basic, variant, struct, array, c
      <4> QED
        BY <2>2, <2>5, <3>1, <3>2
    <3>4. z = Fail(left, error) /\ error.kind # "type"
      BY <3>3, OtherErrorIs, Zenon DEF NoType
    <3> HIDE DEF u, z, error, left
    <3>5. ~ z.ok
      BY <3>4, FailIs
    <3>6. u = Fail(left, error)
      BY <2>6, <3>4, <3>5, Zenon
    <3>7. Named(n, s, i, v, x, u)
      BY <3>4, <3>6, OtherwiseNamed
    <3> QED
      BY <3>7 DEF u, f
  <2>8. CASE Starts(s, i)
    <3>1. PICK e \in Nat : i <= e /\ e <= Len(s) /\ SubSeq(s, i, e) \in Types
      BY <2>8, Zenon DEF Starts
    <3> DEFINE t == SubSeq(s, i, e)
    <3>2. t \in Types /\ t = SubSeq(s, i, e) /\ t[1] = s[i]
      BY <3>1, TypeStarts
    <3> HIDE DEF t
    <3>3. SubSeq(s, i, i + l - 1) = Cut(t)
      BY <3>1, <3>2, SpanShows
    <3>4. in = Enter(x, Cut(t)) /\ Cut(t) \in Strings
      BY <2>1, <3>3
    <3>5. Entered(in, t)
      BY <3>4, EnteredFor
    <3> DEFINE cx == in
    <3> HIDE DEF in, l
    <3>6. s[i] \in Basic => Inside(n, in, t, v, AppendBasic(s, i, v, in))
      BY <3>1, <3>2, <3>5, BasicNames
    <3>7. s[i] = "v" => Inside(n, in, t, v, AppendVariant(Below(Appending, n), i, v, in))
      BY <3>2, <3>5, VariantNames
    <3>8. s[i] = "(" => Inside(n, in, t, v, AppendStruct(Below(Appending, n), s, i, v, in))
      BY <3>1, <3>2, <3>5, StructNames
    <3>9. s[i] = "a" => Inside(n, in, t, v, AppendArray(Below(Appending, n), s, i, v, in))
      BY <3>1, <3>2, <3>5, ArrayNames
    <3>10. /\ s[i] \in Basic => Inside(n, in, t, v, basic)
           /\ s[i] = "v" => Inside(n, in, t, v, variant)
           /\ s[i] = "(" => Inside(n, in, t, v, struct)
           /\ s[i] = "a" => Inside(n, in, t, v, array)
      BY <3>6, <3>7, <3>8, <3>9
    <3> HIDE DEF basic, variant, struct, array, c
    <3>11. /\ c \in Basic => z = basic
           /\ c = "v" => z = variant
           /\ c = "(" => z = struct
           /\ c = "a" => z = array
      BY <2>2
    <3> HIDE DEF z, u
    <3>12. Inside(n, in, t, v, z) /\ IsResult(z)
      BY <2>4, <2>5, <3>10, <3>11, Zenon
    <3>13. Inside(n, Enter(x, Cut(t)), t, v, z)
      BY <3>4, <3>12
    <3>14. Named(n, s, i, v, x, IF z.ok THEN [z EXCEPT !.x = Exit(@)] ELSE z)
      BY <3>1, <3>2, <3>12, <3>13, ExitNamed
    <3>15. Named(n, s, i, v, x, u)
      BY <2>6, <3>14, Zenon
    <3> QED
      BY <3>15 DEF u, f
  <2> QED
    BY <2>7, <2>8
<1> QED
  BY <1>2, <1>3

\* Whatever the arguments and however deep they nest, a type error of
\* append_complete_type is about what does not fit.
LEMMA AllNamed == \A n \in Nat : Namely(n)
<1> DEFINE Off == {n \in Nat : ~ Namely(n)}
<1> SUFFICES ASSUME Off # {}
             PROVE  FALSE
  OBVIOUS
<1>1. PICK n \in Off : \A m \in Off : n <= m
  <2> HIDE DEF Off
  <2>1. Off \in SUBSET Nat
    BY DEF Off
  <2> QED
    BY <2>1, HasLeast
<1>2. n \in Nat /\ ~ Namely(n)
  BY <1>1
<1>3. Under(n) /\ UnderNamed(n)
  <2> SUFFICES ASSUME n # 0
               PROVE  Rightly(n - 1) /\ Namely(n - 1)
    BY Zenon DEF Under, UnderNamed
  <2>1. n - 1 \in Nat /\ ~ (n <= n - 1)
    BY <1>2
  <2> QED
    BY <1>1, <2>1, AllRight
<1>4. Namely(n)
  <2> SUFFICES ASSUME NEW s \in Strings, NEW i \in Nat, NEW v \in Values[n], NEW x \in Contexts,
                      i >= 1
               PROVE  Named(n, s, i, v, x, Appending[n][Call(s, i, v, x)])
    BY Zenon DEF Namely
  <2>1. Appending[n][Call(s, i, v, x)] = AppendComplete(Below(Appending, n), s, i, v, x)
    BY <1>2, AppendOf
  <2>2. Named(n, s, i, v, x, AppendComplete(Below(Appending, n), s, i, v, x))
    BY <1>2, <1>3, CompleteNames
  <2> QED
    BY <2>1, <2>2, Zenon
<1> QED
  BY <1>2, <1>4

--------------------------------------------------------------------------------
(* The arguments                                                                *)

\* Error e is about argument b.
ArgBlamed(n, s, vals, b, e) ==
  /\ e.argc = b /\ TypeAt(s, b) \in Types /\ e.outer = Cut(TypeAt(s, b))
  /\ Blaming(n, FALSE, TypeAt(s, b), vals[b], TypeShown(e), e.value)

\* The loop over the arguments, after k of them.
ArgsNamed(n, s, vals, to, k) ==
  IF to.error = NoError THEN to.x.argc = k /\ to.x.depth = 0
  ELSE to.error.kind = "type" =>
         \E b \in 1..k : Len(to.items) = b - 1 /\ ArgBlamed(n, s, vals, b, to.error)

\* The result for argument j.
ArgNamed(n, s, vals, j, one) ==
  IF one.ok THEN one.x.argc = j /\ one.x.depth = 0
  ELSE one.error.kind = "type" => ArgBlamed(n, s, vals, j, one.error)

\* An argument is counted, and its error says which one it is and what is wrong.
LEMMA ArgumentNamed ==
  ASSUME NEW n \in Nat, Namely(n), NEW s \in Strings, NEW vals \in Seq(Values[n]),
         NEW j \in 1..Len(vals), NEW loop, loop = "arguments",
         NEW to, to.x \in Contexts, to.i \in Nat, Cursor(loop, s, to.i, j - 1),
         to.x.argc = j - 1, to.x.depth = 0
  PROVE  ArgNamed(n, s, vals, j, AppendOne(Appending[n], loop, s, to, vals[j]))
<1> DEFINE V == Values[n]
           p == TypeEnd(s, j - 1)
           one == AppendOne(Appending[n], loop, s, to, vals[j])
           other == OtherError
           left == FALSE
           i == p + 1
           d == TypeEnd(s, j)
           pv == vals[j]
           y == Inc(to.x)
<1>1. pv \in Values[n] /\ j \in Nat /\ j # 0 /\ j - 1 \in Nat /\ Len(s) \in Nat
  <2>1. vals \in Seq(V)
    OBVIOUS
  <2> HIDE DEF V
  <2>2. vals[j] \in V /\ j \in Nat /\ j # 0 /\ j - 1 \in Nat
    BY <2>1
  <2> QED
    BY <2>2, StringsAre DEF V
<1> HIDE DEF V
<1>2. p \in Nat /\ p <= Len(s) /\ to.i = i /\ p \in 0..Len(s) /\ i \in Nat /\ i >= 1
  BY <1>1 DEF Cursor
<1>3. \/ \A e \in Nat : p + 1 <= e /\ e <= Len(s) => SubSeq(s, p + 1, e) \notin Types
      \/ /\ d \in Nat /\ p < d /\ d <= Len(s) /\ SubSeq(s, p + 1, d) \in Types
         /\ TypeAt(s, j) = SubSeq(s, p + 1, d)
  BY <1>1, <1>2, TypeEndNext
<1>4. y \in Contexts /\ y.argc = j /\ y.depth = 0
  <2>1. y \in Contexts /\ y.argc = to.x.argc + 1 /\ y.depth = to.x.depth
    BY ContextsStay, OthersKeep
  <2> HIDE DEF y
  <2> QED
    BY <2>1, <1>1
<1>5. CASE to.i > Len(s)
  <2>1. one = Fail(left, other)
    BY <1>5 DEF AppendOne
  <2>2. other.kind # "type"
    BY OtherErrorIs
  <2> HIDE DEF one, other, left
  <2>3. ~ one.ok /\ one.error = other
    BY <2>1, FailIs
  <2>4. ArgNamed(n, s, vals, j, one)
    BY <2>2, <2>3, Zenon DEF ArgNamed
  <2> QED
    BY <2>4 DEF one
<1>6. CASE ~ (to.i > Len(s))
  <2>1. one = Appending[n][Call(s, i, pv, y)]
    BY <1>2, <1>6 DEF AppendOne
  <2> HIDE DEF one, pv, y, i, d
  <2>2. Named(n, s, i, pv, y, one)
    BY <1>1, <1>2, <1>4, <2>1, Zenon DEF Namely, pv
  <2>3. CASE one.ok
    <3>1. ArgNamed(n, s, vals, j, one)
      BY <1>4, <2>2, <2>3, Zenon DEF Named, Keeps, ArgNamed
    <3> QED
      BY <3>1 DEF one
  <2>4. CASE ~ one.ok /\ one.error.kind # "type"
    <3>1. ArgNamed(n, s, vals, j, one)
      BY <2>4, Zenon DEF ArgNamed
    <3> QED
      BY <3>1 DEF one
  <2>5. CASE ~ one.ok /\ one.error.kind = "type"
    <3>1. PICK e \in Nat : /\ i <= e /\ e <= Len(s) /\ SubSeq(s, i, e) \in Types
                           /\ Blamed(n, y, SubSeq(s, i, e), pv, one.error)
      BY <2>2, <2>5, Zenon DEF Named
    <3>2. d \in Nat /\ i <= d /\ d <= Len(s) /\ SubSeq(s, i, d) \in Types
          /\ TypeAt(s, j) = SubSeq(s, i, d)
      <4>1. d \in Nat /\ p < d /\ d <= Len(s) /\ SubSeq(s, p + 1, d) \in Types
            /\ TypeAt(s, j) = SubSeq(s, p + 1, d)
        BY <1>3, <3>1 DEF i
      <4> HIDE DEF p
      <4> QED
        BY <1>2, <4>1 DEF i
    <3>3. d = e
      BY <1>2, <3>1, <3>2, OneTypeStarts
    <3>4. Blamed(n, y, TypeAt(s, j), vals[j], one.error) /\ TypeAt(s, j) \in Types
      BY <3>1, <3>2, <3>3, Zenon DEF pv
    <3>5. (y.depth > 0) = FALSE
      BY <1>4
    <3>6. ArgBlamed(n, s, vals, j, one.error)
      BY <1>4, <3>4, <3>5, Zenon DEF Blamed, ArgBlamed
    <3>7. ArgNamed(n, s, vals, j, one)
      BY <2>5, <3>6, Zenon DEF ArgNamed
    <3> QED
      BY <3>7 DEF one
  <2> QED
    BY <2>3, <2>4, <2>5
<1> QED
  BY <1>5, <1>6

\* One more argument leaves the loop right,
LEMMA NextArgument ==
  ASSUME NEW n \in Nat, Namely(n), NEW s \in Strings, NEW vals \in Seq(Values[n]),
         NEW k \in 1..Len(vals), NEW loop, loop = "arguments", NEW W, NEW B,
         EachRight(Appending[n], loop, s, vals, W, B),
         NEW to, IsRun(to), LoopRight(loop, s, W, B, to, k - 1),
         ArgsNamed(n, s, vals, to, k - 1)
  PROVE  ArgsNamed(n, s, vals, LoopNext(Appending[n], loop, s, to, vals[k]), k)
<1> DEFINE f == Appending[n]
           next == LoopNext(f, loop, s, to, vals[k])
<1>1. k \in Nat /\ k \in 1..k /\ \A b \in 1..(k - 1) : b \in 1..k
  OBVIOUS
<1>2. CASE to.error # NoError
  <2>1. next = to
    BY <1>2, Zenon DEF LoopNext
  <2>2. ArgsNamed(n, s, vals, to, k)
    BY <1>1, <1>2, Zenon DEF ArgsNamed
  <2> QED
    BY <2>1, <2>2
<1>3. CASE to.error = NoError
  <2> DEFINE one == AppendOne(f, loop, s, to, vals[k])
             new == Proceed(to, one)
  <2>1. next = new
    BY <1>3, Zenon DEF LoopNext
  <2>2. /\ to.x \in Contexts /\ to.i \in Nat /\ Cursor(loop, s, to.i, k - 1)
        /\ Len(to.items) = k - 1 /\ to.x.argc = k - 1 /\ to.x.depth = 0
    BY <1>3, Zenon DEF LoopRight, ArgsNamed
  <2>3. OneRight(loop, s, W, B, k, one)
    BY <2>2, Zenon DEF EachRight
  <2>4. ArgNamed(n, s, vals, k, one)
    BY <2>2, ArgumentNamed
  <2> HIDE DEF one
  <2>5. /\ one.ok => new.x = one.x /\ new.error = to.error
        /\ ~ one.ok => new.items = to.items /\ new.error = one.error
    BY ProceedIs
  <2> HIDE DEF new, next
  <2>6. CASE one.ok
    <3>1. ArgsNamed(n, s, vals, new, k)
      BY <1>3, <2>4, <2>5, <2>6, Zenon DEF ArgsNamed, ArgNamed
    <3> QED
      BY <2>1, <3>1 DEF next
  <2>7. CASE ~ one.ok
    <3>1. one.error # NoError
      BY <2>3, <2>7, Zenon DEF OneRight, IsError
    <3>2. new.error # NoError /\ Len(new.items) = k - 1
      BY <2>2, <2>5, <2>7, <3>1, Zenon
    <3>3. new.error.kind = "type" => ArgBlamed(n, s, vals, k, new.error)
      BY <2>4, <2>5, <2>7, Zenon DEF ArgNamed
    <3>4. ArgsNamed(n, s, vals, new, k)
      BY <1>1, <3>2, <3>3, Zenon DEF ArgsNamed
    <3> QED
      BY <2>1, <3>4 DEF next
  <2> QED
    BY <2>6, <2>7
<1> QED
  BY <1>2, <1>3

\* and so does the loop over all of them.
LEMMA ArgumentsNamed ==
  ASSUME NEW n \in Nat, Namely(n), NEW s \in Strings, NEW vals \in Seq(Values[n]),
         NEW loop, loop = "arguments", NEW W, NEW B,
         EachRight(Appending[n], loop, s, vals, W, B)
  PROVE  /\ IsRun(AppendEach(Appending[n], loop, s, vals, Reset))
         /\ ArgsNamed(n, s, vals, AppendEach(Appending[n], loop, s, vals, Reset), Len(vals))
<1> DEFINE f == Appending[n]
           V == Values[n]
<1>1. PICK r : /\ Runs(r, f, loop, s, vals, Reset)
               /\ AppendEach(f, loop, s, vals, Reset) = r[Len(vals)]
  BY EachRuns
<1>2. Len(vals) \in Nat /\ Len(s) \in Nat /\ Reset \in Contexts
  <2>1. vals \in Seq(V)
    OBVIOUS
  <2> HIDE DEF V
  <2> QED
    BY <2>1, StringsAre, ResetIs
<1> DEFINE Good(k) == /\ IsRun(r[k]) /\ LoopRight(loop, s, W, B, r[k], k)
                      /\ ArgsNamed(n, s, vals, r[k], k)
           Off == {k \in Nat : k <= Len(vals) /\ ~ Good(k)}
<1> HIDE DEF V
<1>3. SUFFICES ASSUME Off # {}
               PROVE  FALSE
  <2>1. Len(vals) \notin Off
    BY <1>3
  <2>2. Good(Len(vals))
    <3> HIDE DEF Good
    <3> QED
      BY <1>2, <2>1
  <2> QED
    BY <1>1, <2>2
<1>4. PICK k \in Off : \A p \in Off : k <= p
  <2> HIDE DEF Off
  <2>1. Off \in SUBSET Nat
    BY DEF Off
  <2> QED
    BY <1>3, <2>1, HasLeast
<1>5. k \in Nat /\ k <= Len(vals) /\ ~ Good(k)
  <2> HIDE DEF Good
  <2> QED
    BY <1>4
<1>6. CASE k = 0
  <2>1. r[0] = Start(Reset)
    BY <1>1, Zenon DEF Runs
  <2>2. IsRun(r[0]) /\ LoopRight(loop, s, W, B, r[0], 0)
    BY <1>2, <2>1, StartIs, StartRight, Zenon
  <2>3. ArgsNamed(n, s, vals, r[0], 0)
    <3>1. r[0].error = NoError /\ r[0].x = Reset
      BY <2>1, StartIs
    <3>2. Reset.argc = 0 /\ Reset.depth = 0
      BY DEF Reset
    <3> QED
      BY <3>1, <3>2, Zenon DEF ArgsNamed
  <2>4. Good(0)
    BY <2>2, <2>3, Zenon
  <2> QED
    BY <1>5, <1>6, <2>4, Zenon
<1>7. CASE k # 0
  <2>1. k - 1 \in Nat /\ k - 1 <= Len(vals) /\ ~ (k <= k - 1) /\ k \in 1..Len(vals)
    BY <1>2, <1>5, <1>7
  <2>2. Good(k - 1)
    <3> HIDE DEF Good
    <3> QED
      BY <1>4, <2>1
  <2>3. r[k] = LoopNext(f, loop, s, r[k - 1], vals[k])
    BY <1>1, <1>5, <1>7, Zenon DEF Runs
  <2>4. IsRun(r[k]) /\ LoopRight(loop, s, W, B, r[k], k)
    BY <1>2, <2>1, <2>2, <2>3, NextRight, Zenon
  <2>5. ArgsNamed(n, s, vals, r[k], k)
    BY <2>1, <2>2, <2>3, NextArgument, Zenon
  <2>6. Good(k)
    BY <2>4, <2>5, Zenon
  <2> QED
    BY <1>5, <2>6, Zenon
<1> QED
  BY <1>6, <1>7

--------------------------------------------------------------------------------
(* Type errors of sdbus/message-append                                          *)

\* Type error e, of message-append with signature s and arguments vals, is right.
MisfitIs(s, vals, e) ==
  LET t == TypeAt(s, e.argc)
  IN /\ t \in Types /\ e.outer \in Shown(t)
     /\ EachBack(ReadBack[Depth], s, SubSeq(vals, 1, e.argc - 1)) # {}
     /\ Blames(t, vals[e.argc], TypeShown(e), e.value)

\* That is one of the ways to show it.
LEMMA CutIsShown == ASSUME NEW t PROVE Cut(t) \in Shown(t)
  BY Zenon DEF Cut, Shown

\* Before the first argument nothing is in the way.
LEMMA NothingBack ==
  ASSUME NEW s, NEW vals, Len(vals) = 0
  PROVE  EachBack(ReadBack[Depth], s, vals) # {}
<1> DEFINE sets == [j \in 1..Len(vals) |-> ReadBack[Depth][<< TypeAt(s, j), vals[j] >>]]
           U == UNION {sets[j] : j \in DOMAIN sets}
           ws == [j \in DOMAIN sets |-> {}]
<1>1. DOMAIN sets = 1..Len(vals)
  OBVIOUS
<1>2. \A j : j \notin DOMAIN sets
  <2> HIDE DEF sets
  <2> QED
    BY <1>1
<1>3. EachBack(ReadBack[Depth], s, vals) = OneOfEach(sets)
  BY Zenon DEF EachBack
<1> HIDE DEF sets
<1>4. ws \in [DOMAIN sets -> U] /\ \A j \in DOMAIN sets : ws[j] \in sets[j]
  BY <1>2
<1> HIDE DEF ws
<1>5. ws \in OneOfEach(sets)
  BY <1>4, Zenon DEF OneOfEach
<1> QED
  BY <1>3, <1>5

\* A type error of append_data is right, for any signature and any arguments.
LEMMA DataNamed ==
  ASSUME NEW s \in Strings, NEW vals \in Seq(Values[Depth]),
         AppendData(s, vals).error.kind = "type"
  PROVE  MisfitIs(s, vals, AppendData(s, vals).error)
<1> DEFINE n == Depth
           r == AppendData(s, vals)
           B == TypeBacks(n, s, vals)
           W == Each(n, B)
           loop == "arguments"
           end == AppendEach(Appending[n], loop, s, vals, Reset)
           V == Values[n]
<1>1. n \in Nat /\ Rightly(n) /\ Namely(n) /\ loop \in {"struct", "arguments"} /\ Len(vals) \in Nat
  <2>1. vals \in Seq(V)
    OBVIOUS
  <2>2. n \in Nat
    BY Parameters
  <2> HIDE DEF V
  <2>3. Len(vals) \in Nat
    BY <2>1
  <2> QED
    BY <2>2, <2>3, AllRight, AllNamed
<1>2. r = AllTaken(s, end)
  BY Zenon DEF AppendData
<1>3. DataIs(s, vals, r)
  BY DataRight
<1>4. loop = "arguments"
  OBVIOUS
<1> HIDE DEF loop, r
<1>5. EachRight(Appending[n], loop, s, vals, W, B)
  BY <1>1, TypesRight
<1>6. vals \in Seq(Values[n]) /\ r.error.kind = "type"
  BY DEF r
<1> HIDE DEF W, B, V, n
<1>7. IsRun(end) /\ ArgsNamed(n, s, vals, end, Len(vals))
  BY <1>1, <1>4, <1>5, <1>6, ArgumentsNamed
<1> HIDE DEF end
<1>8. r = end
  <2> DEFINE other == OtherError
  <2>1. other.kind # "type"
    BY OtherErrorIs
  <2>2. CASE end.error = NoError /\ end.i <= Len(s)
    <3>1. r = [end EXCEPT !.error = other]
      BY <1>2, <2>2, Zenon DEF AllTaken
    <3> HIDE DEF other
    <3>2. r.error = other
      BY <1>7, <3>1 DEF IsRun
    <3> QED
      BY <1>6, <2>1, <3>2
  <2>3. CASE ~ (end.error = NoError /\ end.i <= Len(s))
    BY <1>2, <2>3, Zenon DEF AllTaken
  <2> QED
    BY <2>2, <2>3
<1>9. r.error # NoError
  BY <1>6, OtherErrorIs
<1> DEFINE e == r.error
<1>10. PICK b \in 1..Len(vals) : Len(r.items) = b - 1 /\ ArgBlamed(n, s, vals, b, e)
  BY <1>6, <1>7, <1>8, <1>9, Zenon DEF ArgsNamed
<1> HIDE DEF e
<1> DEFINE t == TypeAt(s, b)
<1>11. /\ e.argc = b /\ t \in Types /\ e.outer = Cut(t)
       /\ Blaming(n, FALSE, t, vals[b], TypeShown(e), e.value)
  BY <1>10, Zenon DEF ArgBlamed
<1>12. Blames(t, vals[b], TypeShown(e), e.value)
  <2> DEFINE shown == TypeShown(e)
             w == e.value
             v == vals[b]
  <2>1. Blaming(Depth, FALSE, t, v, shown, w)
    BY <1>11 DEF n
  <2> HIDE DEF t, shown, w, v
  <2>2. Blames(t, v, shown, w)
    <3>1. PICK c \in Components[Depth][<< t, v >>] : ByComponent(c, FALSE, t, v, shown, w)
      BY <2>1, Zenon DEF Blaming
    <3>2. \/ c[2] = w /\ ~Fits(c[1], w) /\ shown = Cut(c[1])
          \/ /\ Dictionary(c[1]) /\ Fits(c[1], c[2])
             /\ \E j \in 1..Len(c[2].items) :
                  /\ c[2].items[j].items[1] = w /\ ~Accepts(c[1][3], w)
                  /\ shown = c[1] \/ (j # 1 /\ (FALSE \/ c # << t, v >>))
      BY <3>1, Zenon DEF ByComponent
    <3>3. CASE c[2] = w /\ ~Fits(c[1], w) /\ shown = Cut(c[1])
      <4>1. BlamesValue(c, shown, w)
        BY <3>3, CutIsShown, Zenon DEF BlamesValue
      <4> QED
        BY <4>1, Zenon DEF Blames
    <3>4. ASSUME NEW j \in 1..Len(c[2].items), Dictionary(c[1]), Fits(c[1], c[2]),
                 c[2].items[j].items[1] = w, ~Accepts(c[1][3], w),
                 shown = c[1] \/ (j # 1 /\ c # << t, v >>)
          PROVE  Blames(t, v, shown, w)
      <4>1. BlamesKeyOf(c, j, w)
        BY <3>4, Zenon DEF BlamesKeyOf
      <4> QED
        BY <3>4, <4>1, Zenon DEF Blames
    <3> QED
      BY <3>2, <3>3, <3>4, Zenon
  <2> QED
    BY <2>2 DEF shown, w, v
<1>13. EachBack(ReadBack[Depth], s, SubSeq(vals, 1, b - 1)) # {}
  <2> DEFINE m == b - 1
  <2>1. Len(r.items) = m
    BY <1>10
  <2>2. CASE m = 0
    <3>1. Len(SubSeq(vals, 1, m)) = 0
      BY <2>2, <1>1, <1>6
    <3> QED
      BY <3>1, NothingBack
  <2>3. CASE m # 0
    <3> HIDE DEF m
    <3>1. EachBack(ReadBack[Depth], s, SubSeq(vals, 1, m)) # {}
      BY <1>3, <2>1, <2>3, Zenon DEF DataIs, Reads
    <3> QED
      BY <3>1 DEF m
  <2> QED
    BY <2>2, <2>3
<1>14. MisfitIs(s, vals, e)
  <2> DEFINE d == e.argc
  <2>1. d = b
    BY <1>11
  <2>2. /\ TypeAt(s, d) \in Types /\ e.outer \in Shown(TypeAt(s, d))
        /\ EachBack(ReadBack[Depth], s, SubSeq(vals, 1, d - 1)) # {}
        /\ Blames(TypeAt(s, d), vals[d], TypeShown(e), e.value)
    BY <1>11, <1>12, <1>13, <2>1, CutIsShown
  <2> QED
    BY <2>2, Zenon DEF MisfitIs, TypeShown
<1> QED
  BY <1>14 DEF e, r

\* Only message-append makes an error.
LEMMA NextMisfit == TypeErrorsNameTheMisfit /\ [Next]_vars => TypeErrorsNameTheMisfit'
<1> SUFFICES ASSUME TypeErrorsNameTheMisfit, [Next]_vars
             PROVE  TypeErrorsNameTheMisfit'
  OBVIOUS
<1>1. CASE MessageAppend
  <2>1. PICK s \in Signatures, vals \in Arguments :
          call' = [sig |-> s, args |-> vals, error |-> AppendData(s, vals).error]
    BY <1>1, Zenon DEF MessageAppend
  <2> DEFINE e == AppendData(s, vals).error
  <2>2. e.kind = "type" => MisfitIs(s, vals, e)
    BY Parameters, DataNamed
  <2> HIDE DEF e
  <2>3. call'.sig = s /\ call'.args = vals /\ call'.error = e
    BY <2>1 DEF e
  <2> QED
    BY <2>2, <2>3, Zenon DEF TypeErrorsNameTheMisfit, MisfitIs
<1>2. CASE call' = call
  BY <1>2, Zenon DEF TypeErrorsNameTheMisfit
<1>3. MessageAppend \/ call' = call
  BY DEF Next, vars, MessageSeal, MessageRead, MessageReadRest, MessageReadAll, MessageRewind,
         ReadFrom
<1> QED
  BY <1>1, <1>2, <1>3

\* The message of a type error names the first argument that does not fit, shows its
\* type up to a closing bracket, and quotes a value in it that does not fit where it
\* stands, for every signature and arguments nested to any depth; it shows, up to a
\* closing bracket, the type that this value does not fit, unless the value is a key after
\* the first of a dictionary within another type (append_complete_type and the append
\* functions, message.c:126-338, with dbus_errctx_set, dbus_errctx_exit and
\* dbus_type_error, unwrap.c:34-84).
THEOREM TypeErrorsAreRight == Spec => []TypeErrorsNameTheMisfit
<1>1. Init => TypeErrorsNameTheMisfit
  BY Zenon DEF Init, TypeErrorsNameTheMisfit
<1> QED
  BY <1>1, NextMisfit, PTL DEF Spec
================================================================================
