------------------------------ MODULE MessageBody ------------------------------
(* The body of a message: how sdbus/message-append walks a D-Bus signature and  *)
(* the program's arguments side by side, and how sdbus/message-read reads the   *)
(* contents back (src/src/message.c, with the checks of src/src/unwrap.c), over *)
(* what sd-bus checks when a container is opened.  The basic types differ only  *)
(* in the Janet values they accept.  The signature that the code cuts out for   *)
(* the contents of a container, and the cursor it keeps in it, are modelled as  *)
(* they are, and so is the context kept for error messages.                     *)
(*                                                                              *)
(* append_complete_type and read_complete_type call themselves for what is in a *)
(* container.  They are recursive functions of how deep the value nests: what   *)
(* one level needs of the level below it is passed as a function, f or read.    *)
EXTENDS SignatureOffsets

CONSTANTS
  MaxByte,   \* the largest number that fits "y"
  Depth      \* how deep the arguments nest, at most

(* Janet values.  A tuple stands for an array as well; a string holds the       *)
(* characters of a signature; a table is the sequence of its entries, tuples of *)
(* a key and a value.                                                           *)
Value(kind, n, text, vals) == [kind |-> kind, n |-> n, text |-> text, items |-> vals]
Num(n) == Value("number", n, << >>, << >>)
Str(text) == Value("string", 0, text, << >>)
Tuple(vals) == Value("tuple", 0, << >>, vals)
Table(vals) == Value("table", 0, << >>, vals)

Atoms == [kind : {"number", "string"}, n : Nat, text : Strings, items : {<< >>}]

\* The values that nest n deep, at most.
Values[n \in Nat] ==
  IF n = 0 THEN Atoms
  ELSE Atoms \cup [kind : {"tuple"}, n : {0}, text : {<< >>}, items : Seq(Values[n - 1])]
             \cup [kind : {"table"}, n : {0}, text : {<< >>},
                   items : Seq([kind : {"tuple"}, n : {0}, text : {<< >>},
                                items : Values[n - 1] \X Values[n - 1]])]

--------------------------------------------------------------------------------
(* What error messages say.  While arguments are appended, the context counts   *)
(* the arguments and keeps the types it is at: that of the argument, and the    *)
(* last one entered within it.  (Types are shown in full; the code cuts long    *)
(* ones.)                                                                       *)

Reset == [argc |-> 0, depth |-> 0, outer |-> << >>, inner |-> << >>]
Inc(x) == [x EXCEPT !.argc = @ + 1]
Enter(x, t) == [x EXCEPT !.depth = @ + 1, ![IF x.depth = 0 THEN "outer" ELSE "inner"] = t]

\* An append_complete_type that does not leave its context (for mutation).
Stay(x) == x

Exit(x) == [x EXCEPT !.depth = IF @ > 0 THEN @ - 1 ELSE 0]

\* The type kept is a pointer: freed with the signature of the container.
Freed == << "freed" >>
Free(x, vals) == [x EXCEPT !.inner = IF vals = << >> THEN @ ELSE Freed]

Contexts == [argc : Nat, depth : Nat, outer : Strings, inner : Strings \cup {Freed}]

\* An error that blames value v, any other, and none.
TypeError(x, v) ==
  [kind |-> "type", argc |-> x.argc, outer |-> x.outer, value |-> v,
   inner |-> IF x.depth > 1 THEN x.inner ELSE << >>]
NoError == [TypeError(Reset, Num(0)) EXCEPT !.kind = "none"]
OtherError == [NoError EXCEPT !.kind = "other"]

--------------------------------------------------------------------------------
(* Writing.  An item of the message is a basic value or a container, with its   *)
(* contents' signature.  The result of writing one: what was written, where the *)
(* cursor is, the last character of its type, and the context; or the error,    *)
(* and whether it left a container open.                                        *)

Item(type, sig, vals) == [type |-> type, sig |-> sig, items |-> vals]
Done(i, item, x) == [ok |-> TRUE, i |-> i, item |-> item, x |-> x]
Fail(left, error) == [ok |-> FALSE, open |-> left, error |-> error]

\* A call of append_complete_type: signature, cursor, value and context.
Call(s, i, v, x) == [s |-> s, i |-> i, v |-> v, x |-> x]

Accepts(c, v) ==
  \/ c = "i" /\ v.kind = "number"
  \/ c = "y" /\ v.kind = "number" /\ v.n <= MaxByte
  \/ c = "s" /\ v.kind = "string"

\* append_basic_type.  What fails for another reason than the kind of value or its
\* range is left out: a string, object path or signature that sd-bus refuses although
\* it is a string, and a file or stream that is closed.  Those errors are made without
\* the context, and name neither the argument nor a type.
AppendBasic(s, i, v, x) ==
  IF Accepts(s[i], v) THEN Done(i, Item(s[i], << >>, << v >>), x)
                      ELSE Fail(FALSE, TypeError(x, v))

\* The entry kv of a dictionary: the key is written with the cursor at the first
\* character of the entry, the value with the cursor at the second.
AppendEntry(f, s, kv, x) ==
  LET key == AppendBasic(s, 1, kv.items[1], x)
      value == f[Call(s, 2, kv.items[2], key.x)]
  IN IF ~key.ok THEN key
     ELSE IF ~value.ok THEN value
     ELSE Done(1, Item(EntryOpen, s, << key.item, value.item >>), value.x)

\* The next value v of a loop that got to `to': an argument and the member of a
\* structure have the type at the cursor; an element of an array has the whole
\* signature.
AppendOne(f, loop, s, to, v) ==
  CASE loop = "array" -> f[Call(s, 1, v, to.x)]
    [] loop = "dict" -> AppendEntry(f, s, v, to.x)
    [] OTHER ->
         IF to.i > Len(s) THEN Fail(FALSE, OtherError)
         ELSE f[Call(s, to.i, v, IF loop = "arguments" THEN Inc(to.x) ELSE to.x)]

\* Where a loop starts, in context x, and how it goes on from `to' with the result r of
\* the next value; after an error, what was written stays written.
Start(x) == [i |-> 1, items |-> << >>, open |-> FALSE, x |-> x, error |-> NoError]
Proceed(to, r) ==
  IF r.ok THEN [to EXCEPT !.i = r.i + 1, !.items = Append(@, r.item), !.x = r.x]
          ELSE [to EXCEPT !.open = r.open, !.error = r.error]

\* The loops of append_data and of the containers, over all of vals.
AppendEach(f, loop, s, vals, x) ==
  LET Step(to, v) == IF to.error # NoError THEN to ELSE Proceed(to, AppendOne(f, loop, s, to, v))
      run[k \in Nat] == IF k = 0 THEN Start(x) ELSE Step(run[k - 1], vals[k])
  IN run[Len(vals)]

\* The signature has to end with the values.
AllTaken(s, r) ==
  IF r.error = NoError /\ r.i <= Len(s) THEN [r EXCEPT !.error = OtherError] ELSE r

\* The end of a container that is open by now: r is the result of its loop.
Close(i, type, sig, r) ==
  IF r.error = NoError THEN Done(i, Item(type, sig, r.items), Free(r.x, r.items))
                       ELSE Fail(TRUE, r.error)

AppendStruct(f, s, i, v, x) ==
  LET end == Match(s, i, "(", ")")
      sig == SubSeq(s, i + 1, i + end - 1)
  IN IF end < 2 \/ sig \notin Packs THEN Fail(FALSE, OtherError)
     ELSE IF v.kind # "tuple" THEN Fail(TRUE, TypeError(x, v))
     ELSE IF v.items = << >> THEN Fail(TRUE, OtherError)
     ELSE Close(i + end, "(", sig, AllTaken(sig, AppendEach(f, "struct", sig, v.items, x)))

\* A dictionary: i is at its brace.
AppendDict(f, s, i, v, x) ==
  LET end == Match(s, i, EntryOpen, EntryClose)
      entry == SubSeq(s, i, i + end)
      sig == SubSeq(s, i + 1, i + end - 1)
  IN IF end < 3 \/ At(sig, 1) \notin Basic \/ entry \notin Entries THEN Fail(FALSE, OtherError)
     ELSE IF v.kind # "table" THEN Fail(TRUE, TypeError(x, v))
     ELSE Close(i + end, "a", entry, AppendEach(f, "dict", sig, v.items, x))

\* An array of bytes is written from a string: a character is the byte 1.
AppendBytes(i, v, x) ==
  IF v.kind # "string" THEN Fail(FALSE, TypeError(x, v))
  ELSE Done(i + 1, Item("a", << "y" >>,
                        [j \in 1..Len(v.text) |-> Item("y", << >>, << Num(1) >>)]), x)

AppendArray(f, s, i, v, x) ==
  IF At(s, i + 1) = EntryOpen THEN AppendDict(f, s, i + 1, v, x)
  ELSE IF At(s, i + 1) = "y" THEN AppendBytes(i, v, x)
  ELSE LET end == FindSubtype(s, i)
           sig == SubSeq(s, i + 1, i + end)
       IN IF end = Panic \/ sig \notin Types THEN Fail(FALSE, OtherError)
          ELSE IF v.kind # "tuple" THEN Fail(TRUE, TypeError(x, v))
          ELSE Close(i + end, "a", sig, AppendEach(f, "array", sig, v.items, x))

\* A variant: its signature is the argument's, and outlives the call.
AppendVariant(f, i, v, x) ==
  IF v.kind # "tuple" THEN Fail(FALSE, TypeError(x, v))
  ELSE IF Len(v.items) # 2 \/ v.items[1].kind # "string" THEN Fail(FALSE, OtherError)
  ELSE LET sig == v.items[1].text
           r == f[Call(sig, 1, v.items[2], x)]
       IN IF sig \notin Types THEN Fail(FALSE, OtherError)
          ELSE IF r.ok THEN Done(i, Item("v", sig, << r.item >>), r.x)
          ELSE Fail(TRUE, r.error)

AppendComplete(f, s, i, v, x) ==
  LET n == Span(s, i)
      in == Enter(x, SubSeq(s, i, i + n - 1))
      r == CASE At(s, i) \in Basic -> AppendBasic(s, i, v, in)
             [] At(s, i) = "v" -> AppendVariant(f, i, v, in)
             [] At(s, i) = "(" -> AppendStruct(f, s, i, v, in)
             [] OTHER -> AppendArray(f, s, i, v, in)
  IN IF n = Panic THEN Fail(FALSE, OtherError)
     ELSE IF r.ok THEN [r EXCEPT !.x = Exit(@)] ELSE r

\* append_complete_type for values that nest n deep, at most.
Appending[n \in Nat] ==
  [c \in [s : Strings, i : Nat, v : Values[n], x : Contexts] |->
     AppendComplete(IF n = 0 THEN << >> ELSE Appending[n - 1], c.s, c.i, c.v, c.x)]

AppendData(s, vals) ==
  AllTaken(s, AppendEach(Appending[Depth], "arguments", s, vals, Reset))

--------------------------------------------------------------------------------
(* Reading: the type of the next item, and of its contents, are the message's.  *)

Leaves == [type : Basic, sig : {<< >>}, items : Seq(Atoms)]

\* What a message holds, with containers nested n deep at most.
Items[n \in Nat] ==
  IF n = 0 THEN Leaves
  ELSE Leaves \cup [type : {"v", "(", "a"}, sig : Strings,
                    items : Seq(Items[n - 1] \cup [type : {EntryOpen}, sig : Strings,
                                                   items : Seq(Items[n - 1])])]

ReadComplete(read, item) ==
  LET Of(part) == [j \in 1..Len(part.items) |-> read[part.items[j]]] IN
  CASE item.type \in Basic -> item.items[1]
    [] item.type = "v" -> Tuple(<< Str(item.sig) >> \o Of(item))
    [] item.type = "(" -> Tuple(Of(item))
    [] OTHER -> IF item.sig[1] = EntryOpen
                  THEN Table([j \in 1..Len(item.items) |-> Tuple(Of(item.items[j]))])
                  ELSE Tuple(Of(item))

\* read_complete_type for what nests n deep, at most.
Reading[n \in Nat] ==
  [item \in Items[n] |-> ReadComplete(IF n = 0 THEN << >> ELSE Reading[n - 1], item)]

\* A container that is written from a string nests one deeper than the string.
ItemValue(item) == Reading[Depth + 1][item]
================================================================================
