------------------------------ MODULE ExportProofs ------------------------------
(* Proofs about Exports: type correctness, that no call is answered both ways,  *)
(* that a client's cache follows the property, that no client ends the program, *)
(* and that the slot and the state of an interface are freed exactly once.      *)
EXTENDS Exports, SequenceTheorems, TLAPS

Reply == {"return", "error"}

\* A return is all there is.
Decided(s) == \A i \in 1..Len(s) : s[i] = "return" => Len(s) = 1

LEMMA WrapperDecides ==
  ASSUME NEW end \in Ends
  PROVE  /\ Wrapped(end) \in Seq(Reply) /\ Decided(Wrapped(end))
         /\ Wrapped(end) \o Handled(end) \in Seq(Reply)
         /\ Decided(Wrapped(end) \o Handled(end))
<1>1. CASE end = "fits"
  <2>1. Wrapped(end) = << "return" >> /\ Handled(end) = << >>
    BY <1>1 DEF Wrapped, Handled
  <2> QED
    BY <2>1 DEF Decided, Reply
<1>2. CASE end \in {"misfits", "raisesString"}
  <2>1. Wrapped(end) = << "error" >> /\ Handled(end) = << "error" >>
    BY <1>2 DEF Wrapped, Handled
  <2>2. << "error" >> \in Seq(Reply) /\ Len(<< "error" >>) = 1
    BY DEF Reply
  <2> DEFINE s == << "error" >> \o << "error" >>
  <2>3. s \in Seq(Reply) /\ Len(s) = 2 /\ s[1] = "error" /\ s[2] = "error"
    BY <2>2, ConcatProperties
  <2>4. Decided(s)
    BY <2>3 DEF Decided
  <2> QED
    BY <2>1, <2>2, <2>3, <2>4 DEF Decided
<1>3. CASE end = "raisesOther"
  <2>1. Wrapped(end) = << >> /\ Handled(end) = << "error" >>
    BY <1>3 DEF Wrapped, Handled
  <2>2. << >> \o << "error" >> = << "error" >>
    OBVIOUS
  <2> QED
    BY <2>1, <2>2 DEF Decided, Reply
<1> QED
  BY <1>1, <1>2, <1>3 DEF Ends

\* TypeOK and RepliesAgree need each other: the first messages sent for a call are
\* the only ones.
MethodInv ==
  /\ phase \in [Calls -> {"unmade", "arrived", "suspended", "lost", "over"}]
  /\ wants \in [Calls -> BOOLEAN]
  /\ replies \in [Calls -> Seq(Reply)]
  /\ mute \subseteq Calls
  /\ RepliesAgree

\* Sending to a call that was not answered keeps the invariant.
LEMMA SentDecides ==
  ASSUME MethodInv, NEW c \in Calls, phase[c] # "over",
         phase' = [phase EXCEPT ![c] = "over"], UNCHANGED wants,
         mute' \in {mute, mute \cup {c}},
         NEW s \in Seq(Reply), Decided(s), Sent(c, s)
  PROVE  MethodInv'
<1>1. replies[c] = << >> /\ << >> \o s = s
  BY DEF MethodInv, RepliesAgree
<1>2. replies' = [replies EXCEPT ![c] = s] \/ replies' = replies
  BY <1>1 DEF Sent, MethodInv
<1>3. replies' \in [Calls -> Seq(Reply)]
  BY <1>2 DEF MethodInv
<1>4. \A d \in Calls : Decided(replies'[d])
  BY <1>2 DEF MethodInv, RepliesAgree, Decided
<1>5. \A d \in Calls : phase'[d] # "over" => replies'[d] = << >>
  BY <1>2 DEF MethodInv, RepliesAgree
<1> QED
  BY <1>3, <1>4, <1>5 DEF MethodInv, RepliesAgree, Decided

LEMMA StepMethods ==
  ASSUME MethodInv, [Next]_vars
  PROVE  MethodInv'
<1>1. CASE UNCHANGED methods
  BY <1>1 DEF methods, MethodInv, RepliesAgree
<1>2. ASSUME NEW c \in Calls, Call(c) PROVE MethodInv'
  BY <1>2 DEF Call, MethodInv, RepliesAgree
<1>3. ASSUME NEW c \in Calls, Refuse(c) PROVE MethodInv'
  <2>1. << "error" >> \in Seq(Reply) /\ Decided(<< "error" >>)
    BY DEF Reply, Decided
  <2> QED
    BY <1>3, <2>1, SentDecides DEF Refuse
<1>4. ASSUME NEW c \in Calls, Serve(c) PROVE MethodInv'
  <2>1. PICK end \in Ends : Sent(c, Wrapped(end) \o Handled(end))
    BY <1>4 DEF Serve
  <2> QED
    BY <1>4, <2>1, WrapperDecides, SentDecides DEF Serve
<1>5. ASSUME NEW c \in Calls, Suspend(c) PROVE MethodInv'
  BY <1>5 DEF Suspend, MethodInv, RepliesAgree
<1>6. ASSUME NEW c \in Calls, Resume(c) PROVE MethodInv'
  <2>1. PICK end \in Ends :
          /\ Sent(c, Wrapped(end))
          /\ mute' = IF end = "raisesOther" THEN mute \cup {c} ELSE mute
    BY <1>6 DEF Resume
  <2> QED
    BY <1>6, <2>1, WrapperDecides, SentDecides DEF Resume
<1>7. CASE \/ Export \/ Cancel \/ CollectSlot \/ CloseBus \/ BusFreed \/ SetProperty
           \/ ProgramSets \/ Announce \/ GetProperty \/ Deliver \/ UNCHANGED vars
  BY <1>1, <1>7 DEF Export, Cancel, CollectSlot, CloseBus, BusFreed, SetProperty,
     ProgramSets, Announce, GetProperty, Deliver, vars, methods
<1>8. CASE RemoveMembers \/ NoProperty \/ \E c \in Calls : NoMethod(c)
  BY <1>1, <1>8 DEF RemoveMembers, NoProperty, NoMethod, Missing
<1> QED
  BY <1>2, <1>3, <1>4, <1>5, <1>6, <1>7, <1>8 DEF Next

--------------------------------------------------------------------------------
\* The property, and CacheFollows
CacheInv ==
  /\ flags \subseteq Flags
  /\ value \in Stored /\ untold \in BOOLEAN
  /\ wire \in Seq(Values \cup {Unknown})
  /\ view \in Values \cup {Unknown}
  /\ attached => Accepted
  /\ CacheFollows

LEMMA ForeseenLast ==
  ASSUME NEW S, wire \in Seq(S), NEW m \in S, wire' = Append(wire, m)
  PROVE  Foreseen' = m /\ wire' \in Seq(S)
<1>1. wire' # << >> /\ wire'[Len(wire')] = m
  OBVIOUS
<1> QED
  BY <1>1 DEF Foreseen

\* What is signalled is what the client will know, or its invalidation.
LEMMA SignalledFollows ==
  ASSUME CacheInv, UNCHANGED <<attached, flags, view>>, NEW v \in Values,
         wire' = Signalled(v), untold' \in BOOLEAN, value' \in Stored,
         value' \in Values => value' = v
  PROVE  CacheInv'
<1>1. PICK m \in {v, Unknown} : wire' = Append(wire, m)
  BY DEF Signalled
<1>2. Foreseen' = m /\ wire' \in Seq(Values \cup {Unknown})
  BY <1>1, ForeseenLast DEF CacheInv
<1> QED
  BY <1>2 DEF CacheInv, CacheFollows, Emits, Accepted

LEMMA StepCache ==
  ASSUME CacheInv, [Next]_vars
  PROVE  CacheInv'
<1>1. CASE UNCHANGED property /\ (attached' => attached \/ Accepted)
  BY <1>1 DEF property, CacheInv, CacheFollows, Foreseen, Emits, Accepted
<1>2. CASE SetProperty
  <2>1. PICK v \in Values :
          /\ value' = Read(v)
          /\ IF Differs(Read(v)) /\ Emits
               THEN IF "e" \in flags /\ Read(v) \notin Values
                      THEN running' = FALSE /\ UNCHANGED <<untold, wire>>
                      ELSE running' = running /\ untold' = FALSE /\ wire' = Signalled(v)
               ELSE UNCHANGED <<running, untold, wire>>
    BY <1>2 DEF SetProperty
  <2>2. UNCHANGED <<attached, flags, view>> /\ value' \in Stored
    BY <1>2, <2>1 DEF SetProperty, Stored, slot
  <2>3. CASE wire' = Signalled(v) /\ untold' = FALSE
    <3>1. value' \in Values => value' = v
      BY <2>1, Parameters DEF Read
    <3> QED
      BY <2>2, <2>3, <3>1, SignalledFollows
  <2>4. CASE UNCHANGED <<untold, wire>> /\ value' = value
    BY <2>2, <2>4 DEF CacheInv, CacheFollows, Foreseen, Emits, Accepted
  <2>5. CASE UNCHANGED <<untold, wire>> /\ value' \notin Values
    BY <2>2, <2>5 DEF CacheInv, CacheFollows, Foreseen, Emits, Accepted
  <2>6. CASE UNCHANGED <<untold, wire>> /\ ~Emits
    <3>1. "r" \notin flags
      BY <1>2 DEF SetProperty, Found, Exported, Accepted, CacheInv
    <3> QED
      BY <2>2, <2>6, <3>1 DEF CacheInv, CacheFollows, Foreseen, Emits, Accepted
  <2> QED
    BY <2>1, <2>3, <2>4, <2>5, <2>6 DEF Differs
<1>3. CASE ProgramSets
  <2>1. PICK v \in Values \cup Misfits : value' = v /\ untold' = (untold \/ v # value)
    BY <1>3 DEF ProgramSets
  <2>2. UNCHANGED <<attached, flags, wire, view>> /\ value' \in Stored
    BY <1>3, <2>1 DEF ProgramSets, Stored, slot
  <2>3. untold' \in BOOLEAN /\ (untold' = FALSE => untold = FALSE /\ value' = value)
    BY <2>1 DEF CacheInv
  <2> QED
    BY <2>2, <2>3 DEF CacheInv, CacheFollows, Foreseen, Emits, Accepted
<1>4. CASE GetProperty \/ Announce
  <2>1. UNCHANGED <<attached, flags, value, view>>
    BY <1>4 DEF GetProperty, Announce, slot
  <2>2. CASE value \in Values
    <3>1. PICK m \in {value, Unknown} : wire' = Append(wire, m) /\ untold' = FALSE
      BY <1>4, <2>2 DEF GetProperty, Announce
    <3>2. Foreseen' = m /\ wire' \in Seq(Values \cup {Unknown})
      BY <2>2, <3>1, ForeseenLast DEF CacheInv
    <3> QED
      BY <2>1, <3>1, <3>2 DEF CacheInv, CacheFollows, Emits, Accepted
  <2>3. CASE value \notin Values
    <3>1. UNCHANGED <<untold, wire>>
      BY <1>4, <2>3 DEF GetProperty, Announce
    <3> QED
      BY <2>1, <2>3, <3>1 DEF CacheInv, CacheFollows, Foreseen, Emits, Accepted
  <2> QED
    BY <2>2, <2>3
<1>5. CASE Deliver
  <2>1. /\ wire # << >> /\ view' = Head(wire) /\ wire' = Tail(wire)
        /\ UNCHANGED <<attached, flags, value, untold>>
    BY <1>5 DEF Deliver, slot
  <2>2. wire \in Seq(Values \cup {Unknown})
    BY DEF CacheInv
  <2>3. wire' \in Seq(Values \cup {Unknown}) /\ view' \in Values \cup {Unknown}
    BY <2>1, <2>2
  <2>4. Foreseen' = Foreseen
    <3>1. CASE Len(wire) = 1
      BY <2>1, <2>2, <3>1 DEF Foreseen
    <3>2. CASE Len(wire) # 1
      <4>0. Len(wire) \in Nat /\ Len(wire) # 0
        BY <2>1, <2>2, EmptySeq
      <4>1. /\ Len(wire') = Len(wire) - 1
            /\ \A i \in 1..Len(wire') : wire'[i] = wire[i + 1]
        <5>1. /\ Len(Tail(wire)) = Len(wire) - 1
              /\ \A i \in 1..Len(Tail(wire)) : Tail(wire)[i] = wire[i + 1]
          BY <2>1, <2>2, HeadTailProperties
        <5> QED
          BY <2>1, <5>1
      <4>2. wire'[Len(wire')] = wire[Len(wire)] /\ wire' # << >>
        BY <2>3, <3>2, <4>0, <4>1, EmptySeq
      <4> QED
        BY <2>1, <4>2 DEF Foreseen
    <3> QED
      BY <3>1, <3>2
  <2> QED
    BY <2>1, <2>3, <2>4 DEF CacheInv, CacheFollows, Emits, Accepted
<1>6. CASE Export \/ Cancel \/ CollectSlot \/ CloseBus \/ BusFreed \/ UNCHANGED vars
  BY <1>1, <1>6 DEF Export, Cancel, CollectSlot, CloseBus, BusFreed, vars, slot
<1>7. ASSUME NEW c \in Calls, Call(c) \/ Refuse(c) \/ Serve(c) \/ Suspend(c) \/ Resume(c)
      PROVE  CacheInv'
  BY <1>1, <1>7 DEF Call, Refuse, Serve, Suspend, Resume, slot
<1>8. CASE RemoveMembers \/ NoProperty \/ \E c \in Calls : NoMethod(c)
  BY <1>1, <1>8 DEF RemoveMembers, NoProperty, NoMethod, Missing, slot
<1> QED
  BY <1>2, <1>3, <1>4, <1>5, <1>6, <1>7, <1>8 DEF Next

--------------------------------------------------------------------------------
\* The interface: its slot and its state
SlotInv ==
  /\ running \in BOOLEAN
  /\ bus \in {"open", "closed"}
  /\ held \in BOOLEAN /\ attached \in BOOLEAN
  /\ refs \in 0..2 /\ state \in {"none", "live"}
  /\ bus = "open" /\ held => attached
  /\ StateOwned

\* What a step that sets the two holders and counts them right preserves.
LEMMA Counted ==
  ASSUME SlotInv, bus' \in {"open", "closed"}, running' \in BOOLEAN,
         held' \in BOOLEAN, attached' \in BOOLEAN,
         bus' = "open" /\ held' => attached',
         refs' = (IF held' THEN 1 ELSE 0) + (IF attached' THEN 1 ELSE 0),
         state' = (IF held' \/ attached' THEN "live" ELSE "none")
  PROVE  SlotInv'
<1>1. refs' \in 0..2 /\ state' \in {"none", "live"}
  OBVIOUS
<1>2. StateOwned'
  BY DEF StateOwned
<1> QED
  BY <1>1, <1>2 DEF SlotInv

LEMMA StepSlot ==
  ASSUME SlotInv, [Next]_vars
  PROVE  SlotInv'
<1>1. CASE UNCHANGED <<bus, slot>> /\ running' \in BOOLEAN
  BY <1>1 DEF slot, SlotInv, StateOwned
<1>2. CASE Export
  <2>1. /\ held' = TRUE /\ attached' = TRUE /\ refs' = 2 /\ state' = "live"
        /\ bus' \in {"open", "closed"} /\ running' \in BOOLEAN
    BY <1>2 DEF Export, SlotInv
  <2> QED
    BY <2>1, Counted
<1>3. CASE Cancel
  <2>1. refs = (IF attached THEN 2 ELSE 1) /\ Unref(refs)
    BY <1>3 DEF Cancel, SlotInv, StateOwned
  <2>2. refs' = 0 /\ state' = "none"
    BY <2>1 DEF Unref, SlotInv
  <2>3. held' = FALSE /\ attached' = FALSE /\ UNCHANGED <<running, bus>>
    BY <1>3 DEF Cancel
  <2>4. bus' \in {"open", "closed"} /\ running' \in BOOLEAN
    BY <2>3 DEF SlotInv
  <2>5. held' \in BOOLEAN /\ attached' \in BOOLEAN /\ (bus' = "open" /\ held' => attached')
    BY <2>3, <2>4
  <2>6. /\ refs' = (IF held' THEN 1 ELSE 0) + (IF attached' THEN 1 ELSE 0)
        /\ state' = (IF held' \/ attached' THEN "live" ELSE "none")
    BY <2>2, <2>3
  <2> QED
    BY <2>4, <2>5, <2>6, Counted
<1>4. CASE CollectSlot
  <2>1. refs = (IF attached THEN 2 ELSE 1) /\ state = "live"
    BY <1>4 DEF CollectSlot, SlotInv, StateOwned
  <2>2. refs' = (IF attached THEN 1 ELSE 0)
        /\ state' = (IF attached THEN "live" ELSE "none")
    BY <1>4, <2>1 DEF CollectSlot, Unref
  <2>3. held' = FALSE /\ UNCHANGED <<running, bus, attached>>
    BY <1>4 DEF CollectSlot
  <2>4. bus' \in {"open", "closed"} /\ running' \in BOOLEAN /\ attached \in BOOLEAN
    BY <2>3 DEF SlotInv
  <2>5. held' \in BOOLEAN /\ attached' \in BOOLEAN /\ (bus' = "open" /\ held' => attached')
    BY <2>3, <2>4
  <2>6. /\ refs' = (IF held' THEN 1 ELSE 0) + (IF attached' THEN 1 ELSE 0)
        /\ state' = (IF held' \/ attached' THEN "live" ELSE "none")
    BY <2>2, <2>3
  <2> QED
    BY <2>4, <2>5, <2>6, Counted
<1>5. CASE CloseBus
  <2>1. bus' = "closed" /\ UNCHANGED <<running, held, attached, refs, state>>
    BY <1>5 DEF CloseBus, slot
  <2> QED
    BY <2>1 DEF SlotInv, StateOwned
<1>6. CASE BusFreed
  <2>1. refs = (IF held THEN 2 ELSE 1) /\ state = "live"
    BY <1>6 DEF BusFreed, SlotInv, StateOwned
  <2>2. refs' = (IF held THEN 1 ELSE 0) /\ state' = (IF held THEN "live" ELSE "none")
    BY <1>6, <2>1 DEF BusFreed, Unref
  <2>3. attached' = FALSE /\ bus = "closed" /\ UNCHANGED <<running, bus, held>>
    BY <1>6 DEF BusFreed
  <2>4. bus' \in {"open", "closed"} /\ running' \in BOOLEAN /\ held \in BOOLEAN
    BY <2>3 DEF SlotInv
  <2>5. held' \in BOOLEAN /\ attached' \in BOOLEAN /\ (bus' = "open" /\ held' => attached')
    BY <2>3, <2>4
  <2>6. /\ refs' = (IF held' THEN 1 ELSE 0) + (IF attached' THEN 1 ELSE 0)
        /\ state' = (IF held' \/ attached' THEN "live" ELSE "none")
    BY <2>2, <2>3
  <2> QED
    BY <2>4, <2>5, <2>6, Counted
<1>7. CASE \/ SetProperty \/ ProgramSets \/ Announce \/ GetProperty \/ Deliver
           \/ UNCHANGED vars
  <2>1. running \in BOOLEAN
    BY DEF SlotInv
  <2>2. (value \in Values) \in BOOLEAN
    OBVIOUS
  <2>3. running' \in {running, FALSE, (value \in Values)}
    BY <1>7 DEF SetProperty, ProgramSets, Announce, GetProperty, Deliver, vars
  <2>4. UNCHANGED <<bus, slot>>
    BY <1>7 DEF SetProperty, ProgramSets, Announce, GetProperty, Deliver, vars
  <2> QED
    BY <1>1, <2>1, <2>2, <2>3, <2>4
<1>8. ASSUME NEW c \in Calls, Call(c) \/ Refuse(c) \/ Serve(c) \/ Suspend(c) \/ Resume(c)
      PROVE  SlotInv'
  BY <1>1, <1>8 DEF Call, Refuse, Serve, Suspend, Resume, SlotInv
<1>9. CASE RemoveMembers \/ NoProperty \/ \E c \in Calls : NoMethod(c)
  BY <1>1, <1>9 DEF RemoveMembers, NoProperty, NoMethod, Missing, SlotInv
<1> QED
  BY <1>2, <1>3, <1>4, <1>5, <1>6, <1>7, <1>8, <1>9 DEF Next

--------------------------------------------------------------------------------
LEMMA InitInvs ==
  ASSUME Init
  PROVE  MethodInv /\ CacheInv /\ SlotInv
<1>1. << >> \in Seq(Reply) /\ << >> \in Seq(Values \cup {Unknown})
  OBVIOUS
<1>2. MethodInv
  BY <1>1 DEF Init, MethodInv, RepliesAgree
<1>3. CacheInv
  BY <1>1 DEF Init, CacheInv, CacheFollows, Foreseen, Stored
<1>4. SlotInv
  <2>1. held = FALSE /\ attached = FALSE /\ refs = 0 /\ state = "none"
    BY DEF Init
  <2>2. StateOwned
    BY <2>1 DEF StateOwned
  <2>3. refs \in 0..2
    BY <2>1
  <2>4. running \in BOOLEAN /\ held \in BOOLEAN /\ attached \in BOOLEAN
    BY <2>1 DEF Init
  <2>5. bus = "open" /\ state \in {"none", "live"} /\ (held => attached)
    BY <2>1 DEF Init
  <2> QED
    BY <2>2, <2>3, <2>4, <2>5 DEF SlotInv
<1> QED
  BY <1>2, <1>3, <1>4

\* The handlers keep the state of an exported interface well typed.
THEOREM ExportTypeCorrect == Spec => []TypeOK
<1>1. Init => MethodInv /\ CacheInv /\ SlotInv
  BY InitInvs
<1>2. MethodInv /\ CacheInv /\ SlotInv /\ [Next]_vars
      => MethodInv' /\ CacheInv' /\ SlotInv'
  BY StepMethods, StepCache, StepSlot
<1> DEFINE Members == members \in BOOLEAN
<1>3. Init => Members
  BY DEF Init
<1>4. Members /\ [Next]_vars => Members'
  BY DEF Next, Export, Cancel, CollectSlot, CloseBus, BusFreed, RemoveMembers, Call,
     Refuse, Serve, NoMethod, Suspend, Resume, SetProperty, ProgramSets, Announce,
     GetProperty, NoProperty, Missing, Deliver, vars
<1>5. MethodInv /\ CacheInv /\ SlotInv /\ Members => TypeOK
  BY DEF MethodInv, CacheInv, SlotInv, TypeOK, Reply
<1> QED
  BY <1>1, <1>2, <1>3, <1>4, <1>5, PTL DEF Spec

\* However the functions of the methods end, no call is answered both ways or
\* returned to twice, and none is answered before its function has ended
\* (method-wrapper, method_handler).
THEOREM RepliesAgreeHolds == Spec => []RepliesAgree
<1>1. Init => MethodInv
  BY InitInvs
<1>2. MethodInv /\ [Next]_vars => MethodInv'
  BY StepMethods
<1>3. MethodInv => RepliesAgree
  BY DEF MethodInv
<1> QED
  BY <1>1, <1>2, <1>3, PTL DEF Spec

--------------------------------------------------------------------------------
(* No caller is skipped *)

\* A call that counts as mute has ended.
SkipInv ==
  /\ NoCallerSkipped
  /\ \A c \in mute : phase[c] = "over"

\* What the wrapper and method_handler send between them is never nothing; the wrapper
\* alone sends nothing only for an error that is not a string.
LEMMA WrapperAnswers ==
  ASSUME NEW end \in Ends
  PROVE  /\ Wrapped(end) \o Handled(end) # << >>
         /\ Wrapped(end) = << >> <=> end = "raisesOther"
<1>1. CASE end = "fits"
  <2>1. Wrapped(end) = << "return" >> /\ Handled(end) = << >>
    BY <1>1 DEF Wrapped, Handled
  <2>2. << "return" >> \o << >> = << "return" >> /\ << "return" >> # << >>
    OBVIOUS
  <2> QED
    BY <1>1, <2>1, <2>2
<1>2. CASE end \in {"misfits", "raisesString"}
  <2>1. Wrapped(end) = << "error" >> /\ Handled(end) = << "error" >>
    BY <1>2 DEF Wrapped, Handled
  <2> DEFINE s == << "error" >> \o << "error" >>
  <2>2. Len(s) = 2 /\ s \in Seq(Reply) /\ Len(<< >>) = 0 /\ << "error" >> # << >>
    <3>1. << "error" >> \in Seq(Reply) /\ Len(<< "error" >>) = 1
      BY DEF Reply
    <3> QED
      BY <3>1, ConcatProperties
  <2>3. s # << >>
    BY <2>2
  <2> QED
    BY <1>2, <2>1, <2>2, <2>3
<1>3. CASE end = "raisesOther"
  <2>1. Wrapped(end) = << >> /\ Handled(end) = << "error" >>
    BY <1>3 DEF Wrapped, Handled
  <2>2. << >> \o << "error" >> = << "error" >> /\ << "error" >> # << >>
    OBVIOUS
  <2> QED
    BY <1>3, <2>1, <2>2
<1> QED
  BY <1>1, <1>2, <1>3 DEF Ends

\* The end of a call: it counts as mute if nothing is sent for it.
LEMMA OverSkips ==
  ASSUME MethodInv, SkipInv, NEW c \in Calls, phase[c] # "over",
         phase' = [phase EXCEPT ![c] = "over"], UNCHANGED <<wants, bus>>,
         NEW s \in Seq(Reply), Sent(c, s),
         mute' = IF s = << >> THEN mute \cup {c} ELSE mute
  PROVE  SkipInv'
<1>1. replies[c] = << >> /\ << >> \o s = s /\ c \notin mute
  BY DEF MethodInv, RepliesAgree, SkipInv
<1>2. replies' = IF bus = "open" /\ wants[c] THEN [replies EXCEPT ![c] = s] ELSE replies
  BY <1>1 DEF Sent, MethodInv
<1>3. replies \in [Calls -> Seq(Reply)] /\ phase'[c] = "over" /\ mute \subseteq Calls
      /\ \A d \in Calls : d # c => phase'[d] = phase[d]
  BY DEF MethodInv
<1>4. ASSUME NEW d \in Calls, phase'[d] = "over", wants'[d], bus' = "open"
      PROVE  replies'[d] = << >> => d \in mute'
  <2>1. CASE d = c
    BY <1>1, <1>2, <1>3, <1>4, <2>1
  <2>2. CASE d # c
    <3>1. replies'[d] = replies[d] /\ (d \in mute' <=> d \in mute)
      BY <1>2, <1>3, <2>2
    <3> QED
      BY <1>3, <1>4, <2>2, <3>1 DEF SkipInv, NoCallerSkipped
  <2> QED
    BY <2>1, <2>2
<1>5. \A d \in mute' : phase'[d] = "over"
  BY <1>1, <1>3 DEF SkipInv
<1> QED
  BY <1>4, <1>5 DEF SkipInv, NoCallerSkipped

LEMMA StepSkips ==
  ASSUME MethodInv, SkipInv, [Next]_vars
  PROVE  SkipInv'
<1>1. CASE UNCHANGED methods /\ (bus' = "open" => bus = "open")
  BY <1>1 DEF methods, SkipInv, NoCallerSkipped
<1>2. ASSUME NEW c \in Calls, Call(c) \/ Suspend(c)
      PROVE  SkipInv'
  <2>1. /\ phase[c] # "over" /\ UNCHANGED <<replies, mute, bus>>
        /\ \E p : p # "over" /\ phase' = [phase EXCEPT ![c] = p]
        /\ \A d \in Calls : d # c => wants'[d] = wants[d]
        /\ phase \in [Calls -> {"unmade", "arrived", "suspended", "lost", "over"}]
        /\ mute \subseteq Calls
    BY <1>2 DEF Call, Suspend, MethodInv
  <2> QED
    BY <2>1 DEF SkipInv, NoCallerSkipped
<1>3. ASSUME NEW c \in Calls, Refuse(c)
      PROVE  SkipInv'
  <2>1. << "error" >> \in Seq(Reply) /\ << "error" >> # << >>
    BY DEF Reply
  <2> QED
    BY <1>3, <2>1, OverSkips DEF Refuse
<1>4. ASSUME NEW c \in Calls, Serve(c)
      PROVE  SkipInv'
  <2>1. PICK end \in Ends : Sent(c, Wrapped(end) \o Handled(end))
    BY <1>4 DEF Serve
  <2> QED
    BY <1>4, <2>1, WrapperDecides, WrapperAnswers, OverSkips DEF Serve
<1>5. ASSUME NEW c \in Calls, Resume(c)
      PROVE  SkipInv'
  <2>1. PICK end \in Ends :
          /\ Sent(c, Wrapped(end))
          /\ mute' = IF end = "raisesOther" THEN mute \cup {c} ELSE mute
    BY <1>5 DEF Resume
  <2> QED
    BY <1>5, <2>1, WrapperDecides, WrapperAnswers, OverSkips DEF Resume
<1>6. CASE \/ Export \/ Cancel \/ CollectSlot \/ CloseBus \/ BusFreed \/ SetProperty
           \/ ProgramSets \/ Announce \/ GetProperty \/ Deliver \/ UNCHANGED vars
  BY <1>1, <1>6 DEF Export, Cancel, CollectSlot, CloseBus, BusFreed, SetProperty,
     ProgramSets, Announce, GetProperty, Deliver, vars, methods
<1>7. CASE RemoveMembers \/ NoProperty \/ \E c \in Calls : NoMethod(c)
  BY <1>1, <1>7 DEF RemoveMembers, NoProperty, NoMethod, Missing
<1> QED
  BY <1>2, <1>3, <1>4, <1>5, <1>6, <1>7 DEF Next

\* For any number of calls, and however their functions end: on an open connection no
\* caller is left without the reply it wants, but by a function that suspended and then
\* raised something that is not a string; the safety half of EveryCallerHears
\* (method-wrapper in src/init.janet, method_handler in src/src/export.c).
THEOREM NoCallerIsSkipped == Spec => []NoCallerSkipped
<1>1. Init => MethodInv /\ SkipInv
  BY InitInvs DEF Init, SkipInv, NoCallerSkipped
<1>2. MethodInv /\ SkipInv /\ [Next]_vars => MethodInv' /\ SkipInv'
  BY StepMethods, StepSkips
<1>3. SkipInv => NoCallerSkipped
  BY DEF SkipInv
<1> QED
  BY <1>1, <1>2, <1>3, PTL DEF Spec

--------------------------------------------------------------------------------
\* For any number of values, of changes that clients make and of announcements: once a
\* client has everything that was sent to it, its cache of the property is right or
\* empty, or the program has itself changed the value and nothing was sent of it since,
\* which no code of the library does for it (property_setter_with_signal,
\* property-setter, emit-signal).
THEOREM CacheFollowsHolds == Spec => []CacheFollows
<1>1. Init => CacheInv
  BY InitInvs
<1>2. CacheInv /\ [Next]_vars => CacheInv'
  BY StepCache
<1>3. CacheInv => CacheFollows
  BY DEF CacheInv
<1> QED
  BY <1>1, <1>2, <1>3, PTL DEF Spec

\* Whatever the order in which the program cancels, forgets and collects the slot and
\* closes the connection, the state of the interface lives exactly as long as the
\* program or the sd_bus has the slot (cfun_export, cfun_cancel_slot, dbus_slot_gc).
THEOREM StateOwnedHolds == Spec => []StateOwned
<1>1. Init => SlotInv
  BY InitInvs
<1>2. SlotInv /\ [Next]_vars => SlotInv'
  BY StepSlot
<1>3. SlotInv => StateOwned
  BY DEF SlotInv
<1> QED
  BY <1>1, <1>2, <1>3, PTL DEF Spec

\* The value at fault stays: nothing is stored any more.
StopInv == value \in Values \cup Misfits /\ OnlyProgramStops

\* If what is read of the values of a type fits it again, no client ends the program:
\* only a value that the program stored, or a table it took members out of, can
\* (property_setter_with_signal, property_getter, dict_symget).
THEOREM OnlyProgramStopsHolds ==
  ASSUME ReadsBack
  PROVE  Spec => []OnlyProgramStops
<1>1. Init => StopInv
  BY DEF Init, StopInv, OnlyProgramStops
<1>2. StopInv /\ [Next]_vars => StopInv'
  <2> SUFFICES ASSUME StopInv, [Next]_vars
               PROVE  StopInv'
    OBVIOUS
  <2>1. CASE UNCHANGED <<running, value, members>>
    BY <2>1 DEF StopInv, OnlyProgramStops
  <2>2. CASE SetProperty
    BY <2>2 DEF SetProperty, Read, StopInv, OnlyProgramStops
  <2>3. CASE ProgramSets
    BY <2>3 DEF ProgramSets, StopInv, OnlyProgramStops
  <2>4. CASE GetProperty
    BY <2>4 DEF GetProperty, StopInv, OnlyProgramStops
  <2>5. CASE \/ Export \/ Cancel \/ CollectSlot \/ CloseBus \/ BusFreed \/ Announce
             \/ Deliver \/ UNCHANGED vars
    BY <2>1, <2>5 DEF Export, Cancel, CollectSlot, CloseBus, BusFreed, Announce, Deliver,
       vars, property
  <2>6. ASSUME NEW c \in Calls,
               Call(c) \/ Refuse(c) \/ Serve(c) \/ Suspend(c) \/ Resume(c)
        PROVE  StopInv'
    BY <2>1, <2>6 DEF Call, Refuse, Serve, Suspend, Resume, property
  <2>7. CASE RemoveMembers \/ NoProperty \/ \E c \in Calls : NoMethod(c)
    BY <2>7 DEF RemoveMembers, NoProperty, NoMethod, Missing, property, StopInv,
       OnlyProgramStops
  <2> QED
    BY <2>2, <2>3, <2>4, <2>5, <2>6, <2>7 DEF Next
<1>3. StopInv => OnlyProgramStops
  BY DEF StopInv
<1> QED
  BY <1>1, <1>2, <1>3, PTL DEF Spec
================================================================================
