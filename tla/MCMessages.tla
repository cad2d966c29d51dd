------------------------------- MODULE MCMessages -------------------------------
(* Bounded signatures and arguments for Messages: every complete type nested    *)
(* twice, some deeper ones, pairs of small ones, everything that is left when   *)
(* one character of these is removed, and values of the same depth.             *)
EXTENDS Messages

\* Types
T0 == {<< c >> : c \in Basic \cup {"v"}}
ArraysOf(S) == {<< "a" >> \o t : t \in S}
StructsOf(S) == {<< "(" >> \o t \o << ")" >> : t \in S}
DictsOf(S) == {<< "a", "{", "i" >> \o t \o << "}" >> : t \in S}
PairsOf(S, T) == {t \o u : t \in S, u \in T}

T1 == ArraysOf(T0) \cup StructsOf(T0 \cup PairsOf(T0, T0)) \cup DictsOf(T0)
T2 == ArraysOf(T1) \cup StructsOf(T1) \cup DictsOf(T1)
Paired == PairsOf(T0, T0) \cup PairsOf({<< "i" >>}, T1) \cup PairsOf(T1, {<< "i" >>})
ListOfTables == << "a", "a", "{", "i", "a", "i", "}" >>
Nested == StructsOf(Paired) \cup {<< "a", "a", "a", "i" >>, ListOfTables}

Good == T0 \cup T1 \cup T2 \cup Paired \cup Nested
Without(s, k) == SubSeq(s, 1, k - 1) \o SubSeq(s, k + 1, Len(s))
MCSignatures == Good \cup UNION {{Without(s, k) : k \in 1..Len(s)} : s \in Good}

AllStrings == UNION {{SubSeq(s, i, j) : i \in 1..(Len(s) + 1), j \in 0..Len(s)} : s \in MCSignatures}

\* sd-bus: what is a single complete type, and a sequence of them.
Is[kind \in {"type", "entry", "pack"}, t \in Seq(STRING)] ==
  CASE kind = "type" ->
         \/ Len(t) = 1 /\ t[1] \in Basic \cup {"v"}
         \/ Len(t) > 1 /\ t[1] = "a" /\ (Is["type", Tail(t)] \/ Is["entry", Tail(t)])
         \/ Len(t) > 2 /\ t[1] = "(" /\ t[Len(t)] = ")" /\ Is["pack", Inner(t)]
    [] kind = "entry" ->
         /\ Len(t) > 3 /\ t[1] = "{" /\ t[Len(t)] = "}"
         /\ t[2] \in Basic /\ Is["type", Tail(Inner(t))]
    [] kind = "pack" ->
         t = << >> \/ \E n \in 1..Len(t) : /\ Is["type", SubSeq(t, 1, n)]
                                           /\ Is["pack", SubSeq(t, n + 1, Len(t))]

CompleteTypes == {t \in AllStrings : Is["type", t]}
DictEntries == {t \in AllStrings : Is["entry", t]}
TypeSequences == {t \in AllStrings : Is["pack", t]}

\* (TLC evaluates what is put for a constant whenever the constant is used, other
\* definitions once.)
MCStrings == AllStrings
MCTypes == CompleteTypes
MCEntries == DictEntries
MCPacks == TypeSequences

\* Values
V0 == {Num(1), Num(2), Str(<< "i" >>), Str(<< "a", "i" >>)}
TuplesOf(S) == {Tuple(<< >>)} \cup {Tuple(<< v >>) : v \in S}
Pair(k, v) == Tuple(<< k, v >>)
TablesOf(S) == {Table(<< Pair(Num(1), v), Pair(Num(2), v) >>) : v \in S}

V1 == TuplesOf(V0) \cup {Tuple(<< v, w >>) : v \in V0, w \in V0} \cup TablesOf(V0)
      \cup {Table(<< Pair(Str(<< "i" >>), Num(1)) >>), Table(<< >>),
            Table(<< Pair(Num(1), Num(1)), Pair(Str(<< "i" >>), Num(1)) >>)}
V2 == TuplesOf(V1) \cup TablesOf(V1)
      \cup {Tuple(<< v, v >>) : v \in V1}
      \cup {Tuple(<< Str(<< "a", "i" >>), v >>) : v \in V1}
      \cup {Tuple(<< Num(1), v >>) : v \in V1} \cup {Tuple(<< v, Num(1) >>) : v \in V1}

MCArguments ==
  {<< v >> : v \in V0 \cup V1 \cup V2}
  \cup {<< Num(1), v >> : v \in V0 \cup V1} \cup {<< v, Num(1) >> : v \in V0 \cup V1}

\* What errors are shown about: a structure; and a list with a table whose second key
\* does not fit, after a value that is a list.
LateKey == Table(<< Pair(Num(1), Tuple(<< Num(1) >>)), Pair(Str(<< "i" >>), Tuple(<< >>)) >>)
ShownSignatures == {<< "(", "i", ")" >>, ListOfTables}
ShownArguments == {<< Num(1) >>, << Tuple(<< LateKey >>) >>}
================================================================================
