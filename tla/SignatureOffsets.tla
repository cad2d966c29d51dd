--------------------------- MODULE SignatureOffsets ----------------------------
(* Where the types of a D-Bus signature end: the offsets by which the append    *)
(* functions of src/src/message.c cut out the signature of a container's        *)
(* contents and move their cursor past it.  A signature is a sequence of        *)
(* characters; "i", "y" and "s" stand for the basic types.                      *)
EXTENDS Integers, Sequences, FiniteSets

CONSTANTS
  Strings,   \* strings that are used as signatures, and the strings within them
  Types,     \* of these, what sd-bus takes for a single complete type,
  Entries,   \* for a dictionary entry, which is one only as the element of an array,
  Packs      \* and for a sequence of complete types

Basic == {"i", "y", "s"}

\* The brackets of a dictionary entry.
EntryOpen == "{"
EntryClose == "}"

\* The character at a cursor, or the end of the string.
At(s, i) == IF i \in 1..Len(s) THEN s[i] ELSE "end"
Inner(t) == SubSeq(t, 2, Len(t) - 1)

Panic == -1

\* How often c is among the n characters after i.
Count(s, i, n, c) == Cardinality({j \in 1..n : s[i + j] = c})

\* A match that looks for the first closing bracket (for mutation).
MatchFirst(s, i, open, close) ==
  LET Ends == {n \in 1..(Len(s) - i) : s[i + n] = close}
  IN IF Ends = {} THEN Panic ELSE CHOOSE n \in Ends : \A m \in Ends : n <= m

\* match: from the opening character at i to the one that closes it, the first to
\* bring the depth, which starts at one, to zero.
Match(s, i, open, close) ==
  LET Ends == {n \in 1..(Len(s) - i) : Count(s, i, n, close) = Count(s, i, n, open) + 1}
  IN IF Ends = {} THEN Panic ELSE CHOOSE n \in Ends : \A m \in Ends : n <= m

\* The number of characters "a" from i on.
Arrays(s, i) ==
  CHOOSE n \in 0..Len(s) : At(s, i + n) # "a" /\ \A m \in 0..(n - 1) : At(s, i + m) = "a"

\* find_subtype: from i to the last character of the complete type that starts
\* there, or of the dictionary entry.  It calls itself for each "a".
FindSubtype(s, i) ==
  LET n == Arrays(s, i)
      end == CASE At(s, i + n) = "end" -> Panic
               [] At(s, i + n) = EntryOpen -> Match(s, i + n, EntryOpen, EntryClose)
               [] At(s, i + n) = "(" -> Match(s, i + n, "(", ")")
               [] OTHER -> 0
  IN IF end = Panic THEN Panic ELSE n + end

\* span_next_type: the length of the type at the cursor, as the code counts it.
Span(s, i) ==
  CASE At(s, i) \in Basic \cup {"v"} -> 1
    [] At(s, i) = "a" -> LET n == FindSubtype(s, i) IN IF n = Panic THEN n ELSE 1 + n
    [] At(s, i) = "(" -> Match(s, i, "(", ")")
    [] OTHER -> Panic

--------------------------------------------------------------------------------
(* The grammar                                                                  *)

\* Ts are the complete types among the strings in S, Es the dictionary entries and Ps
\* the sequences of complete types: each is put together from smaller ones.
IsGrammar(S, Ts, Es, Ps) ==
  /\ Ts = {t \in S :
             \/ Len(t) = 1 /\ t[1] \in Basic \cup {"v"}
             \/ Len(t) > 1 /\ t[1] = "a" /\ Tail(t) \in Ts \cup Es
             \/ Len(t) > 2 /\ t[1] = "(" /\ t[Len(t)] = ")" /\ Inner(t) \in Ps}
  /\ Es = {t \in S :
             /\ Len(t) > 3 /\ t[1] = EntryOpen /\ t[Len(t)] = EntryClose
             /\ t[2] \in Basic /\ Tail(Inner(t)) \in Ts}
  /\ Ps = {s \in S :
             s = << >> \/ \E n \in 1..Len(s) : /\ SubSeq(s, 1, n) \in Ts
                                              /\ SubSeq(s, n + 1, Len(s)) \in Ps}

\* sd-bus takes for a signature what the grammar makes one, and nothing else.
ASSUME Grammar == IsGrammar(Strings, Types, Entries, Packs)

HasSubstrings(S) ==
  /\ S \subseteq Seq(STRING) /\ << >> \in S
  /\ \A s \in S : \A i \in 1..(Len(s) + 1), j \in 0..Len(s) : SubSeq(s, i, j) \in S

ASSUME Substrings == HasSubstrings(Strings)
================================================================================
