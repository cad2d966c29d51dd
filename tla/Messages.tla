-------------------------------- MODULE Messages --------------------------------
(* The life of one message, as src/src/message.c gives it to programs: written, *)
(* sealed, then read in portions by one cursor.                                 *)
EXTENDS MessageBody

CONSTANTS
  Signatures,      \* signatures message-append is called with
  Arguments,       \* argument lists it is called with
  Portions,        \* numbers of items message-read is called with
  NoCall           \* message-append has not been called

ASSUME Parameters ==
  /\ Depth \in Nat /\ MaxByte \in Nat /\ Portions \subseteq Nat
  /\ Signatures \subseteq Strings
  /\ \A args \in Arguments : args \in Seq(Values[Depth])

VARIABLES
  call,     \* what message-append was called with, and the error if it failed
  items,    \* the contents of the message
  open,     \* a container was left open
  sealed,   \* the message can be read, and no more written
  cursor,   \* items before the read cursor
  got       \* what was read since the cursor was last at the start

vars == <<call, items, open, sealed, cursor, got>>

TypeOK ==
  /\ call # NoCall => call.error.kind \in {"none", "type", "other"}
  /\ open \in BOOLEAN /\ sealed \in BOOLEAN
  /\ cursor \in 0..Len(items)

Init ==
  /\ call = NoCall /\ items = << >> /\ open = FALSE
  /\ sealed = FALSE /\ cursor = 0 /\ got = << >>

\* message-append, once for each message (bound).
MessageAppend ==
  /\ call = NoCall /\ ~sealed
  /\ \E sig \in Signatures, args \in Arguments :
       LET r == AppendData(sig, args) IN
       /\ call' = [sig |-> sig, args |-> args, error |-> r.error]
       /\ items' = r.items /\ open' = r.open
  /\ UNCHANGED <<sealed, cursor, got>>

\* message-seal, or sending the message; sd-bus refuses with a container open.
MessageSeal ==
  /\ ~sealed /\ ~open
  /\ sealed' = TRUE
  /\ UNCHANGED <<call, items, open, cursor, got>>

\* A read that does not stop at the end of the message (for mutation).
ReadFromUnbounded(c, before, n) ==
  /\ cursor' = c + n
  /\ got' = before
  /\ UNCHANGED <<call, items, open, sealed>>

\* Read from the cursor on, at most n items.
ReadFrom(c, before, n) ==
  LET last == IF c + n <= Len(items) THEN c + n ELSE Len(items) IN
  /\ cursor' = last
  /\ got' = before \o [j \in 1..(last - c) |-> ItemValue(items[c + j])]
  /\ UNCHANGED <<call, items, open, sealed>>

MessageRead == sealed /\ \E n \in Portions : ReadFrom(cursor, got, n)
MessageReadRest == sealed /\ ReadFrom(cursor, got, Len(items))

\* A :all that reads on from where the cursor is (for mutation).
MessageReadAllOn == sealed /\ ReadFrom(cursor, << >>, Len(items))

MessageReadAll == sealed /\ ReadFrom(0, << >>, Len(items))

\* message-rewind; message-dump leaves the cursor at the start as well.
MessageRewind ==
  /\ sealed
  /\ cursor' = 0 /\ got' = << >>
  /\ UNCHANGED <<call, items, open, sealed>>

Next ==
  \/ MessageAppend \/ MessageSeal
  \/ MessageRead \/ MessageReadRest \/ MessageReadAll \/ MessageRewind

Spec == Init /\ [][Next]_vars

--------------------------------------------------------------------------------
(* Properties *)

\* Whatever is read, the values the program has since the cursor was last at the start
\* are those of the items before the cursor, each once and in order: no portion, :rest,
\* :all, rewind or dump skips an item or reads one twice (cfun_message_read,
\* cfun_message_rewind and cfun_message_dump, message.c:669-736).
ReadsInOrder == got = [j \in 1..cursor |-> ItemValue(items[j])]

\* One of each: the sequences that take their elements from the sets in sets.
OneOfEach(sets) ==
  {ws \in [DOMAIN sets -> UNION {sets[j] : j \in DOMAIN sets}] : \A j \in DOMAIN sets : ws[j] \in sets[j]}

\* Where the k-th complete type of s ends; past the end of s if there is none.
TypeEnd(s, k) ==
  LET End(e) == {n \in (e + 1)..Len(s) : SubSeq(s, e + 1, n) \in Types}
      ends[j \in Nat] == IF j = 0 THEN 0
                         ELSE IF End(ends[j - 1]) = {} THEN Len(s) + 1
                         ELSE CHOOSE n \in End(ends[j - 1]) : TRUE
  IN ends[k]

TypeAt(s, k) ==
  IF TypeEnd(s, k) > Len(s) THEN << >> ELSE SubSeq(s, TypeEnd(s, k - 1) + 1, TypeEnd(s, k))

\* What reading values gives that are written with the types in s, one for each, if
\* back is that for one value: nothing for a value that does not fit.
EachBack(back, s, vals) == OneOfEach([j \in 1..Len(vals) |-> back[<< TypeAt(s, j), vals[j] >>]])
AllBack(back, s, vals) == IF TypeEnd(s, Len(vals)) = Len(s) THEN EachBack(back, s, vals) ELSE {}

\* Two types for which message-append wants no tuple.
Dictionary(t) == Len(t) > 1 /\ t[1] = "a" /\ t[2] = EntryOpen
Bytes(t) == t = << "a", "y" >>

\* What reading a value written with type t gives, by cases on the type, without
\* offsets; back is that for the values in it.
Back(back, t, v) ==
  LET Each == 1..Len(v.items)
      Pairs(type, e) ==
        {Tuple(<< e[1], w >>) : w \in IF Accepts(t[3], e[1]) THEN back[<< type, e[2] >>] ELSE {}}
      Fitting ==
        CASE t[1] \in Basic -> IF Accepts(t[1], v) THEN {v} ELSE {}
          [] t[1] = "v" ->
               IF v.kind = "tuple" /\ Len(v.items) = 2 /\ v.items[1].kind = "string"
                 THEN {Tuple(<< Str(v.items[1].text), w >>) : w \in back[<< v.items[1].text, v.items[2] >>]}
                 ELSE {}
          [] t[1] = "(" ->
               IF v.kind = "tuple" /\ v.items # << >>
                 THEN {Tuple(ws) : ws \in AllBack(back, Inner(t), v.items)} ELSE {}
          [] Bytes(t) ->
               IF v.kind = "string" THEN {Tuple([j \in 1..Len(v.text) |-> Num(1)])} ELSE {}
          [] Dictionary(t) ->
               IF v.kind = "table"
                 THEN {Table(ws) : ws \in OneOfEach([j \in Each |->
                         Pairs(SubSeq(t, 4, Len(t) - 1), v.items[j].items)])} ELSE {}
          [] OTHER ->
               IF v.kind = "tuple"
                 THEN {Tuple(ws) : ws \in OneOfEach([j \in Each |-> back[<< Tail(t), v.items[j] >>]])} ELSE {}
  IN IF t \in Types THEN Fitting ELSE {}

ReadBack[n \in Nat] ==
  [p \in Strings \X Values[n] |-> Back(IF n = 0 THEN << >> ELSE ReadBack[n - 1], p[1], p[2])]

\* message-append succeeds exactly when the signature is a sequence of complete
\* types and the arguments fit them, one for each, whatever the nesting: the
\* offsets of match and find_subtype and the cursors of the append functions agree
\* with the grammar (message.c:65-338; message.janet:118-146).
AppendsWhatFits ==
  call # NoCall => (call.error = NoError <=> AllBack(ReadBack[Depth], call.sig, call.args) # {})

\* What the first n arguments of the call read back as.
Written(n) ==
  IF n = 0 THEN {<< >>} ELSE EachBack(ReadBack[Depth], call.sig, SubSeq(call.args, 1, n))

\* Read in any portions and with any rewinds, a message gives back the arguments
\* that were appended, in order; after a message-append that failed and left no
\* container open, those before the one that failed (read_complete_type and
\* cfun_message_read, message.c:346-438 and 655).
ReadsBackWhatWasWritten ==
  sealed => \E ws \in Written(Len(items)) : got = SubSeq(ws, 1, cursor)

\* What a type wants of a value itself, and of the values in it: the types of the
\* contents of t, with those of value v.
Fits(t, v) ==
  IF t[1] \in Basic THEN Accepts(t[1], v)
  ELSE v.kind = IF Bytes(t) THEN "string" ELSE IF Dictionary(t) THEN "table" ELSE "tuple"

Parts(t, v) ==
  LET Each == 1..Len(v.items) IN
  IF ~Fits(t, v) \/ t[1] \in Basic \/ Bytes(t) THEN {}
  ELSE CASE t[1] = "v" -> IF Len(v.items) = 2 THEN {<< v.items[1].text, v.items[2] >>} ELSE {}
         [] t[1] = "(" -> {<< TypeAt(Inner(t), j), v.items[j] >> : j \in Each}
         [] Dictionary(t) -> {<< SubSeq(t, 4, Len(t) - 1), v.items[j].items[2] >> : j \in Each}
         [] OTHER -> {<< Tail(t), v.items[j] >> : j \in Each}

Components[n \in Nat] ==
  [p \in Strings \X Values[n] |->
     {p} \cup UNION {Components[n - 1][q] : q \in {q \in Parts(p[1], p[2]) : q[1] \in Types}}]

\* How a type may be shown: in full, or a structure without its closing bracket (see
\* TypesAreShown).
Shown(t) == {t} \cup (IF t[1] = "(" THEN {SubSeq(t, 1, Len(t) - 1)} ELSE {})

\* Value w does not fit in c, a type and a value: it is that value, and shown is the
\* type; or, c being a dictionary, it is the key of entry j.
BlamesValue(c, shown, w) == c[2] = w /\ ~Fits(c[1], w) /\ shown \in Shown(c[1])
BlamesKeyOf(c, j, w) ==
  Dictionary(c[1]) /\ Fits(c[1], c[2]) /\ c[2].items[j].items[1] = w /\ ~Accepts(c[1][3], w)

\* Value w does not fit where it stands in v : t, and shown is the type it does not
\* fit; or, if it is a key, the dictionary it is in.  For a key after the first, of a
\* dictionary within another type, nothing is said of what is shown (see
\* TypesAreShown).
Blames(t, v, shown, w) ==
  \E c \in Components[Depth][<< t, v >>] :
    \/ BlamesValue(c, shown, w)
    \/ \E j \in 1..Len(c[2].items) :
         BlamesKeyOf(c, j, w) /\ (j = 1 \/ c = << t, v >> => shown = c[1])

TypeShown(e) == IF e.inner = << >> THEN e.outer ELSE e.inner

\* The message of a type error says which argument it is, the first that does not
\* fit, and quotes a value in it that does not fit where it stands; the types it shows
\* are, up to a closing bracket, those of the argument and of that value, however many
\* containers were entered and left on the way there.  What is shown for a key after
\* the first is left open (dbus_errctx_set and dbus_errctx_exit, unwrap.c:34-43;
\* append_complete_type, message.c:144-160; dbus_type_error, unwrap.c:64-84).
TypeErrorsNameTheMisfit ==
  call # NoCall /\ call.error.kind = "type" =>
    LET e == call.error
        t == TypeAt(call.sig, e.argc)
    IN /\ t \in Types /\ e.outer \in Shown(t)
       /\ EachBack(ReadBack[Depth], call.sig, SubSeq(call.args, 1, e.argc - 1)) # {}
       /\ Blames(t, call.args[e.argc], TypeShown(e), e.value)

\* The types that an error shows are complete, that of the argument and that of the value
\* it quotes, or of the dictionary of which that is a key ("Returns the length of the
\* next complete type", span_next_type, message.c:103; "bad argument #%d to D-Bus type
\* '%s' (within '%s')", dbus_type_error, unwrap.c:76).  Violated: span_next_type returns
\* one less for a structure, and append_dict_type writes a key without entering its
\* type, so that a later one shows what was last entered in the value before.
TypesAreShown ==
  call # NoCall /\ call.error.kind = "type" =>
    LET e == call.error
        t == TypeAt(call.sig, e.argc)
    IN /\ e.outer = t
       /\ \E c \in Components[Depth][<< t, call.args[e.argc] >>] :
            /\ TypeShown(e) = c[1]
            /\ \/ BlamesValue(c, c[1], e.value)
               \/ \E j \in 1..Len(c[2].items) : BlamesKeyOf(c, j, e.value)
================================================================================
