------------------------------- MODULE PumpProofs -------------------------------
(* Proofs about EventPump: type correctness, what can end the program, and that *)
(* the event loop never goes to sleep on work that nothing will wake it for.    *)
EXTENDS EventPump, SequenceTheorems, TLAPS

--------------------------------------------------------------------------------
(* Types *)

LEMMA WriteType ==
  ASSUME TypeOK, NEW m \in Message, Write(m)
  PROVE  wqueue' \in Seq(Message) /\ sending' \in Seq(Message)
<1>1. wqueue \in Seq(Message) /\ sending \in Seq(Message)
  BY DEF TypeOK
<1>2. CASE Takes
  BY <1>1, <1>2 DEF Write
<1>3. CASE ~Takes
  BY <1>1, <1>3 DEF Write
<1> QED
  BY <1>2, <1>3

LEMMA ArmType ==
  ASSUME NEW S \in SUBSET Requests, NEW d \in [Requests -> 0..MaxClock], Parameters,
         ArmFor(S, d)
  PROVE  timer' \in 0..MaxClock
  BY DEF ArmFor, Parameters

LEMMA StartType ==
  ASSUME Parameters, TypeOK, NEW c \in Requests, StartCall(c)
  PROVE  /\ wqueue' \in Seq(Message) /\ sending' \in Seq(Message)
         /\ phase' \in [Requests -> {"idle", "waiting", "over"}]
         /\ deadline' \in [Requests -> 0..MaxClock]
<1>1. wqueue' \in Seq(Message) /\ sending' \in Seq(Message)
  BY WriteType DEF StartCall, Message
<1>2. phase' \in [Requests -> {"idle", "waiting", "over"}]
  BY DEF StartCall, TypeOK
<1>3. deadline' \in [Requests -> 0..MaxClock]
  <2>1. PICK e \in Deadlines(c) : deadline' = [deadline EXCEPT ![c] = e]
    BY DEF StartCall
  <2>2. e \in 0..MaxClock
    BY <2>1 DEF Deadlines, TypeOK, Parameters
  <2> QED
    BY <2>1, <2>2 DEF TypeOK
<1> QED
  BY <1>1, <1>2, <1>3

LEMMA HandleType ==
  ASSUME Parameters, TypeOK, NEW m, Handle(m)
  PROVE  /\ bus' \in {"running", "closing", "closed"}
         /\ wqueue' \in Seq(Message) /\ sending' \in Seq(Message)
         /\ phase' \in [Requests -> {"idle", "waiting", "over"}]
         /\ deadline' \in [Requests -> 0..MaxClock]
         /\ timer' \in 0..MaxClock
<1>1. CASE /\ phase' = [c \in Requests |-> IF c = m THEN "over" ELSE phase[c]]
           /\ UNCHANGED <<bus, output, deadline, timer>>
  BY <1>1 DEF TypeOK, output
<1>2. CASE Write(Plain) /\ UNCHANGED <<bus, phase, deadline, timer>>
  <2>1. wqueue' \in Seq(Message) /\ sending' \in Seq(Message)
    BY <1>2, WriteType DEF Message
  <2> QED
    BY <1>2, <2>1 DEF TypeOK
<1>3. CASE /\ \E c \in Requests : StartCall(c)
           /\ UNCHANGED timer \/ ArmFor(Timed', deadline')
           /\ UNCHANGED bus
  <2>1. /\ wqueue' \in Seq(Message) /\ sending' \in Seq(Message)
        /\ phase' \in [Requests -> {"idle", "waiting", "over"}]
        /\ deadline' \in [Requests -> 0..MaxClock]
    BY <1>3, StartType
  <2>2. timer' \in 0..MaxClock
    <3>1. CASE ArmFor(Timed', deadline')
      <4>1. Timed' \in SUBSET Requests
        BY DEF Timed, Waiting
      <4> QED
        BY <2>1, <3>1, <4>1, ArmType
    <3>2. CASE UNCHANGED timer
      BY <3>2 DEF TypeOK
    <3> QED
      BY <1>3, <3>1, <3>2
  <2> QED
    BY <1>3, <2>1, <2>2 DEF TypeOK
<1>4. CASE bus' = "closing" /\ UNCHANGED <<output, phase, deadline, timer>>
  BY <1>4 DEF TypeOK, output
<1> QED
  BY <1>1, <1>2, <1>3, <1>4 DEF Handle, Requests

LEMMA SomeHandled ==
  ASSUME ProcessMessage
  PROVE  \E m \in Message : Dispatch(m) /\ Handle(m)
  BY DEF ProcessMessage

LEMMA DispatchType ==
  ASSUME rqueue \in Seq(Message), incoming \in Seq(Message), NEW m, Dispatch(m)
  PROVE  rqueue' \in Seq(Message) /\ incoming' \in Seq(Message)
<1>1. CASE rqueue # << >> /\ rqueue' = Tail(rqueue) /\ UNCHANGED incoming
  BY <1>1
<1>2. CASE incoming # << >> /\ incoming' = Tail(incoming) /\ UNCHANGED rqueue
  BY <1>2
<1> QED
  BY <1>1, <1>2 DEF Dispatch

LEMMA MessageType ==
  ASSUME Parameters, TypeOK, ProcessMessage
  PROVE  TypeOK'
<1>1. PICK m \in Message : Dispatch(m) /\ Handle(m)
  BY SomeHandled
<1>2. rqueue' \in Seq(Message) /\ incoming' \in Seq(Message)
  <2>1. rqueue \in Seq(Message) /\ incoming \in Seq(Message)
    BY DEF TypeOK
  <2> QED
    BY <1>1, <2>1, DispatchType
<1>3. /\ bus' \in {"running", "closing", "closed"}
      /\ wqueue' \in Seq(Message) /\ sending' \in Seq(Message)
      /\ phase' \in [Requests -> {"idle", "waiting", "over"}]
      /\ deadline' \in [Requests -> 0..MaxClock]
      /\ timer' \in 0..MaxClock
  BY <1>1, HandleType
<1>4. UNCHANGED <<vm, pc, caller, peer, arrivals, interest, ready, clock>>
  BY DEF ProcessMessage, epoll
<1> QED
  BY <1>2, <1>3, <1>4 DEF TypeOK

LEMMA ListNamesType ==
  ASSUME TypeOK, ListNames
  PROVE  TypeOK'
<1>1. PICK k \in 0..Len(incoming) :
        /\ rqueue' = rqueue \o SubSeq(incoming, 1, k)
        /\ incoming' = SubSeq(incoming, k + 1, Len(incoming))
  BY DEF ListNames
<1>2. Len(incoming) \in Nat /\ incoming \in Seq(Message) /\ rqueue \in Seq(Message)
  BY DEF TypeOK
<1>3. \A i \in 1..Len(incoming) : incoming[i] \in Message
  BY <1>2
<1>4. SubSeq(incoming, 1, k) \in Seq(Message)
  BY <1>1, <1>2, <1>3, SubSeqProperties
<1>5. SubSeq(incoming, k + 1, Len(incoming)) \in Seq(Message)
  BY <1>1, <1>2, <1>3, SubSeqProperties
<1>6. rqueue' \in Seq(Message) /\ incoming' \in Seq(Message)
  BY <1>1, <1>2, <1>4, <1>5
<1>7. wqueue' \in Seq(Message) /\ sending' \in Seq(Message)
  BY DEF ListNames
<1> QED
  BY <1>6, <1>7 DEF ListNames, TypeOK, pump, epoll, timing

\* The steps of the peer, the kernel and the clock.
LEMMA WorldType ==
  ASSUME Parameters, TypeOK, PeerSends \/ PeerReads \/ Disconnect \/ Tick
  PROVE  TypeOK'
<1> USE DEF TypeOK, pump, input, output, epoll, timing
<1>1. CASE PeerSends
  BY <1>1 DEF PeerSends, Parameters
<1>2. CASE PeerReads
  BY <1>2 DEF PeerReads
<1>3. CASE Disconnect
  BY <1>3 DEF Disconnect
<1>4. CASE Tick
  BY <1>4 DEF Tick, Parameters
<1> QED
  BY <1>1, <1>2, <1>3, <1>4

\* The steps of process_bus, setevents and settimeout.
LEMMA PumpType ==
  ASSUME Parameters, TypeOK,
         SocketEvent \/ TimerEvent \/ ProcessBus \/ SetEvents \/ SetTimeout
  PROVE  TypeOK'
<1> USE DEF TypeOK, pump, input, output, epoll, timing, At
<1>1. CASE SocketEvent
  BY <1>1 DEF SocketEvent
<1>2. CASE TimerEvent
  BY <1>2 DEF TimerEvent, Parameters
<1>3. CASE ProcessTimeout
  BY <1>3 DEF ProcessTimeout
<1>4. CASE ProcessWrite
  BY <1>4 DEF ProcessWrite, MayWrite
<1>5. CASE ProcessMessage
  BY <1>5, MessageType
<1>6. CASE ProcessEnd
  BY <1>6 DEF ProcessEnd
<1>7. CASE ProcessClosing
  BY <1>7 DEF ProcessClosing
<1>8. CASE ProcessFails
  BY <1>8 DEF ProcessFails
<1>9. CASE ProcessDone
  BY <1>9 DEF ProcessDone
<1>10. CASE CloseInHandler
  <2>1. rqueue' \in Seq(Message) /\ incoming' \in Seq(Message)
    BY <1>10, DispatchType DEF CloseInHandler
  <2> QED
    BY <1>10, <2>1, Parameters DEF CloseInHandler
<1>11. CASE SetEvents
  <2>1. interest' \subseteq {"in", "out"}
    BY <1>11 DEF SetEvents
  <2>2. ready' \in BOOLEAN
    BY <1>11 DEF SetEvents, Wanted, Readable, Writable
  <2> QED
    BY <1>11, <2>1, <2>2 DEF SetEvents
<1>12. CASE SetTimeout
  <2>1. timer' \in 0..MaxClock
    <3>1. CASE ArmFor(Timed, deadline)
      BY <3>1, ArmType DEF Timed, Waiting
    <3>2. CASE UNCHANGED timer
      BY <3>2
    <3> QED
      BY <1>12, <3>1, <3>2 DEF SetTimeout
  <2> QED
    BY <1>12, <2>1 DEF SetTimeout
<1> QED
  BY <1>1, <1>2, <1>3, <1>4, <1>5, <1>6, <1>7, <1>8, <1>9, <1>10, <1>11, <1>12
  DEF ProcessBus

\* The steps of the program.
LEMMA ProgramType ==
  ASSUME Parameters, TypeOK,
         \/ SendFails \/ CallAsync \/ MatchAsync \/ MessageSend
         \/ CancelCall \/ CancelRule \/ ListNames
  PROVE  TypeOK'
<1> USE DEF pump, input, output, epoll, timing
<1>1. CASE SendFails
  BY <1>1 DEF SendFails, TypeOK
<1>2. CASE CallAsync \/ MatchAsync
  <2>1. /\ wqueue' \in Seq(Message) /\ sending' \in Seq(Message)
        /\ phase' \in [Requests -> {"idle", "waiting", "over"}]
        /\ deadline' \in [Requests -> 0..MaxClock]
    BY <1>2, StartType DEF CallAsync, MatchAsync, Requests
  <2> QED
    BY <1>2, <2>1 DEF CallAsync, MatchAsync, TypeOK
<1>3. CASE MessageSend \/ CancelRule
  <2>1. wqueue' \in Seq(Message) /\ sending' \in Seq(Message)
    BY <1>3, WriteType DEF MessageSend, CancelRule, Message
  <2> QED
    BY <1>3, <2>1 DEF MessageSend, CancelRule, Waiting, TypeOK
<1>4. CASE CancelCall
  BY <1>4 DEF CancelCall, Waiting, TypeOK
<1>5. CASE ListNames
  BY <1>5, ListNamesType
<1> QED
  BY <1>1, <1>2, <1>3, <1>4, <1>5

LEMMA StepType ==
  ASSUME Parameters, TypeOK, [Next]_vars
  PROVE  TypeOK'
<1>1. CASE UNCHANGED vars
  BY <1>1 DEF vars, TypeOK
<1> QED
  BY <1>1, WorldType, PumpType, ProgramType DEF Next

\* Every handler keeps the state of the connection well typed, whatever the
\* program and its peer do.
THEOREM PumpTypeCorrect == Spec => []TypeOK
<1>1. Init => TypeOK
  <2> SUFFICES ASSUME Init PROVE TypeOK
    OBVIOUS
  <2>1. << >> \in Seq(Message)
    OBVIOUS
  <2>2. 0 \in 0..MaxArrivals /\ 0 \in 0..MaxClock
    BY Parameters
  <2> QED
    BY <2>1, <2>2 DEF Init, TypeOK
<1>2. TypeOK /\ [Next]_vars => TypeOK'
  BY Parameters, StepType
<1> QED
  BY <1>1, <1>2, PTL DEF Spec
--------------------------------------------------------------------------------
(* What ends the program *)

\* The sd_bus closes only after the peer has gone, and is closed only when no request
\* waits.
EndInv ==
  /\ bus # "running" => ~peer
  /\ bus = "closed" => Waiting = {}

\* A handler closes the sd_bus only when the peer has gone, and calls only while it
\* runs.
LEMMA HandleEnds ==
  ASSUME EndInv, bus = "running", UNCHANGED peer, NEW m, Handle(m)
  PROVE  EndInv'
<1>1. bus' = "running" \/ (bus' = "closing" /\ ~peer)
  BY DEF Handle
<1> QED
  BY <1>1 DEF EndInv

LEMMA StepEnds ==
  ASSUME ~May("closeInHandler"), EndInv, [Next]_vars
  PROVE  EndInv' /\ (vm' # vm => ~peer /\ bus = "closed" /\ Waiting = {})
<1> USE DEF EndInv, pump, input, timing, Waiting
<1>1. CASE UNCHANGED vars
  BY <1>1 DEF vars
<1>2. CASE SocketEvent \/ TimerEvent \/ SetEvents \/ SetTimeout
  BY <1>2 DEF SocketEvent, TimerEvent, SetEvents, SetTimeout
<1>3. CASE PeerSends \/ PeerReads \/ Disconnect \/ Tick
  BY <1>3 DEF PeerSends, PeerReads, Disconnect, Tick
<1>4. CASE ProcessTimeout
  BY <1>4 DEF ProcessTimeout
<1>5. CASE ProcessWrite \/ ProcessEnd \/ ProcessDone
  BY <1>5 DEF ProcessWrite, ProcessEnd, ProcessDone
<1>6. CASE ProcessMessage
  <2>1. PICK m \in Message : Dispatch(m) /\ Handle(m)
    BY <1>6, SomeHandled
  <2>2. bus = "running" /\ UNCHANGED <<peer, vm>>
    BY <1>6, <2>1 DEF ProcessMessage, Dispatch
  <2>3. EndInv'
    BY <2>1, <2>2, HandleEnds
  <2> QED
    BY <2>2, <2>3
<1>7. CASE ProcessClosing
  BY <1>7 DEF ProcessClosing
<1>8. CASE ProcessFails
  BY <1>8 DEF ProcessFails
<1>9. CASE SendFails \/ MessageSend \/ ListNames
  BY <1>9 DEF SendFails, MessageSend, ListNames
<1>10. CASE CallAsync \/ MatchAsync
  BY <1>10 DEF CallAsync, MatchAsync
<1>11. CASE CancelCall \/ CancelRule
  BY <1>11 DEF CancelCall, CancelRule
<1>12. ~CloseInHandler
  BY DEF CloseInHandler
<1> QED
  BY <1>1, <1>2, <1>3, <1>4, <1>5, <1>6, <1>7, <1>8, <1>9, <1>10, <1>11, <1>12
  DEF Next, ProcessBus

\* Unless the program closes the connection inside a handler, only the loss of the
\* connection can end it, and by then every call it had made has ended (the panic of
\* process_bus).
THEOREM OnlyDisconnectStopsHolds ==
  ASSUME "closeInHandler" \notin Habits
  PROVE  Spec => OnlyDisconnectStops
<1>1. Init => EndInv
  BY DEF Init, EndInv
<1>2. EndInv /\ [Next]_vars
        => EndInv' /\ [vm' # vm => ~peer /\ bus = "closed" /\ Waiting = {}]_vars
  BY StepEnds DEF May
<1> QED
  BY <1>1, <1>2, PTL DEF Spec, OnlyDisconnectStops

--------------------------------------------------------------------------------
(* No wake-up is lost *)

\* The socket is registered for writing, and on the ready list if there is room.
Outs == "out" \in interest /\ (Writable => ready)

ReadsRegistered == rqueue = << >> /\ "in" \in interest
ReadWakes == pc \in {"asleep", "timeout"} /\ Readable => ready
WriteWakes ==
  wqueue # << >> =>
    /\ pc = "asleep" => Outs \/ timer # 0 \/ ~peer
    /\ pc = "timeout" => Outs \/ Waiting # {} \/ ~peer
TimerCovers ==
  /\ \A c \in Waiting : deadline[c] # 0
  /\ pc = "asleep" => \A c \in Waiting \cap Calls : timer # 0 /\ timer <= deadline[c]
LoopRunsPump == pc \in {"process", "events"} => caller = "loop"

\* NoLostWakeup is not inductive: setevents leaves the reason to wake up for the
\* sleep that follows settimeout, and settimeout needs the deadlines; and process_bus
\* never starts from settimeout, where its failure would leave the loop asleep.
Awake == ReadsRegistered /\ ReadWakes /\ WriteWakes /\ TimerCovers /\ LoopRunsPump
WakeInv == vm = "running" => Awake

LEMMA StartWaits ==
  ASSUME TypeOK, NEW c \in Requests, StartCall(c)
  PROVE  /\ Waiting' = Waiting \cup {c}
         /\ ~May("noTimeout") => deadline'[c] # 0
         /\ \A e \in Waiting : deadline'[e] = deadline[e]
<1>1. PICK d \in Deadlines(c) : deadline' = [deadline EXCEPT ![c] = d]
  BY DEF StartCall
<1>2. ~May("noTimeout") => d # 0
  BY <1>1 DEF Deadlines, TypeOK
<1>3. c \notin Waiting
  BY DEF StartCall, Waiting
<1>4. Waiting' = Waiting \cup {c}
  BY DEF StartCall, Waiting, TypeOK
<1> QED
  BY <1>1, <1>2, <1>3, <1>4 DEF TypeOK, Waiting

\* A timer armed for the requests S expires no later than any of their deadlines.
LEMMA ArmCovers ==
  ASSUME NEW S, NEW d, \A c \in S : d[c] # 0, ArmFor(S, d)
  PROVE  \A c \in S : timer' # 0 /\ timer' <= d[c]
  BY DEF ArmFor

LEMMA WorldWakes ==
  ASSUME TypeOK, Awake, PeerSends \/ PeerReads \/ Disconnect \/ Tick
  PROVE  Awake'
<1>1. ready \in BOOLEAN
  BY DEF TypeOK
<1>2. UNCHANGED <<pc, caller, rqueue, wqueue, interest, phase, deadline, timer>>
  BY DEF PeerSends, PeerReads, Disconnect, Tick, pump, output, timing, epoll
<1>3. ReadsRegistered' /\ TimerCovers' /\ LoopRunsPump' /\ Waiting' = Waiting
  BY <1>2 DEF Awake, ReadsRegistered, TimerCovers, LoopRunsPump, Waiting
<1>4. /\ ready => ready'
      /\ Readable' => Readable \/ ready'
      /\ "out" \in interest /\ Writable' => Writable \/ ready'
      /\ peer' => peer
  <2>1. CASE PeerSends
    BY <2>1 DEF PeerSends, output, Readable, Writable, Awake, ReadsRegistered
  <2>2. CASE PeerReads
    BY <2>2 DEF PeerReads, input, Readable, Writable
  <2>3. CASE Disconnect
    BY <2>3 DEF Disconnect
  <2>4. CASE Tick
    BY <2>4 DEF Tick, input, output, epoll, Readable, Writable
  <2> QED
    BY <2>1, <2>2, <2>3, <2>4
<1>5. ReadWakes'
  BY <1>2, <1>4 DEF Awake, ReadWakes
<1>6. Outs => Outs'
  BY <1>2, <1>4 DEF Outs
<1>7. WriteWakes'
  BY <1>2, <1>3, <1>4, <1>6 DEF Awake, WriteWakes
<1> QED
  BY <1>3, <1>5, <1>7 DEF Awake

LEMMA EventWakes ==
  ASSUME TypeOK, Awake, SocketEvent \/ TimerEvent
  PROVE  Awake'
<1>1. UNCHANGED <<rqueue, wqueue, interest, phase, deadline, peer, incoming,
                  sending>>
  BY DEF SocketEvent, TimerEvent, input, output, epoll, timing
<1>2. Waiting' = Waiting /\ Readable' = Readable /\ Writable' = Writable
  BY <1>1 DEF Waiting, Readable, Writable
<1>3. ReadsRegistered' /\ LoopRunsPump'
  BY <1>1 DEF SocketEvent, TimerEvent, Awake, ReadsRegistered, LoopRunsPump
<1>4. CASE pc' = "process"
  BY <1>1, <1>2, <1>3, <1>4 DEF Awake, ReadWakes, WriteWakes, TimerCovers
<1>5. CASE pc' # "process"
  <2>1. SocketEvent /\ pc = "asleep" /\ pc' = "asleep" /\ ~Wanted
    BY <1>5 DEF SocketEvent, TimerEvent, At
  <2>2. ~Readable /\ ("out" \in interest => ~Writable)
    BY <2>1 DEF Wanted, Awake, ReadsRegistered
  <2>3. ReadWakes'
    BY <1>2, <2>2 DEF ReadWakes
  <2>4. UNCHANGED timer
    BY <2>1 DEF SocketEvent, timing
  <2>5. WriteWakes'
    BY <1>1, <1>2, <2>1, <2>2, <2>4 DEF WriteWakes, Awake, Outs
  <2>6. TimerCovers'
    BY <1>1, <1>2, <2>1, <2>4 DEF TimerCovers, Awake
  <2> QED
    BY <1>3, <2>3, <2>5, <2>6 DEF Awake
<1> QED
  BY <1>4, <1>5

\* A handler leaves a deadline with every request that waits.
LEMMA HandleDeadlines ==
  ASSUME TypeOK, ~May("noTimeout"), \A c \in Waiting : deadline[c] # 0, NEW m, Handle(m)
  PROVE  \A c \in Waiting' : deadline'[c] # 0
<1>1. CASE /\ phase' = [c \in Requests |-> IF c = m THEN "over" ELSE phase[c]]
           /\ UNCHANGED <<bus, output, deadline, timer>>
  BY <1>1 DEF Waiting
<1>2. CASE UNCHANGED <<phase, deadline>>
  BY <1>2 DEF Waiting
<1>3. CASE \E c \in Requests : StartCall(c)
  BY <1>3, StartWaits
<1> QED
  BY <1>1, <1>2, <1>3 DEF Handle, Requests

\* While process_bus runs only the deadlines change of what the invariant is about.
LEMMA ProcessWakes ==
  ASSUME TypeOK, Awake, ~May("closeInHandler"), ~May("noTimeout"), vm' = "running",
         ProcessBus
  PROVE  Awake'
<1>0. ~CloseInHandler
  BY DEF CloseInHandler
<1>1. /\ pc = "process" /\ caller = "loop"
      /\ rqueue = << >> /\ "in" \in interest
      /\ \A c \in Waiting : deadline[c] # 0
  BY <1>0 DEF Awake, ReadsRegistered, TimerCovers, LoopRunsPump, ProcessBus, At,
     ProcessTimeout, ProcessWrite, ProcessMessage, Dispatch, ProcessEnd,
     ProcessClosing, ProcessFails, ProcessDone
<1>2. SUFFICES /\ pc' \in {"process", "events"} /\ caller' = caller
               /\ rqueue' = rqueue /\ interest' = interest
               /\ \A c \in Waiting' : deadline'[c] # 0
  BY <1>1, <1>2 DEF Awake, ReadsRegistered, ReadWakes, WriteWakes, TimerCovers,
     LoopRunsPump
<1>3. CASE ProcessTimeout
  <2>1. \A c \in Waiting' : c \in Waiting
    BY <1>3 DEF ProcessTimeout, Waiting, Due, TypeOK
  <2> QED
    BY <1>1, <1>3, <2>1 DEF ProcessTimeout, pump, epoll
<1>4. CASE ProcessWrite
  BY <1>1, <1>4 DEF ProcessWrite, pump, epoll, timing, Waiting
<1>5. CASE ProcessMessage
  <2>1. PICK m \in Message : Dispatch(m) /\ Handle(m)
    BY <1>5, SomeHandled
  <2>2. \A c \in Waiting' : deadline'[c] # 0
    BY <1>1, <2>1, HandleDeadlines
  <2>3. rqueue' = rqueue
    BY <1>1, <2>1 DEF Dispatch
  <2>4. UNCHANGED <<pc, caller, interest>>
    BY <1>5 DEF ProcessMessage, epoll
  <2> QED
    BY <1>1, <2>2, <2>3, <2>4
<1>6. CASE ProcessEnd
  BY <1>1, <1>6 DEF ProcessEnd, epoll, timing, Waiting
<1>7. CASE ProcessClosing
  <2>1. \A c \in Waiting' : c \in Waiting
    BY <1>7 DEF ProcessClosing, Waiting, TypeOK
  <2> QED
    BY <1>1, <1>7, <2>1 DEF ProcessClosing, epoll
<1>8. CASE ProcessFails
  BY <1>1, <1>8 DEF ProcessFails
<1>9. CASE ProcessDone
  BY <1>1, <1>9 DEF ProcessDone, epoll, timing, Waiting
<1> QED
  BY <1>0, <1>3, <1>4, <1>5, <1>6, <1>7, <1>8, <1>9 DEF ProcessBus

\* setevents registers the socket for reading, since nothing is queued, and for
\* writing if a message waits; registering has a socket that is ready wake the loop.
LEMMA EventsWake ==
  ASSUME TypeOK, Awake, SetEvents
  PROVE  Awake'
<1>1. /\ pc' = "timeout" /\ rqueue = << >>
      /\ UNCHANGED <<rqueue, wqueue, incoming, peer, sending, phase, deadline>>
  BY DEF SetEvents, Awake, ReadsRegistered, input, output, timing
<1>2. /\ "in" \in interest'
      /\ wqueue # << >> => "out" \in interest'
      /\ Wanted' => ready'
  BY <1>1 DEF SetEvents
<1>3. ReadsRegistered' /\ LoopRunsPump'
  BY <1>1, <1>2 DEF ReadsRegistered, LoopRunsPump
<1>4. ReadWakes'
  BY <1>2 DEF ReadWakes, Wanted
<1>5. WriteWakes'
  BY <1>1, <1>2 DEF WriteWakes, Outs, Wanted
<1>6. TimerCovers'
  BY <1>1 DEF TimerCovers, Waiting, Awake
<1> QED
  BY <1>3, <1>4, <1>5, <1>6 DEF Awake

\* settimeout, with nothing queued, arms the timer for the requests that wait.
LEMMA TimeoutWakes ==
  ASSUME TypeOK, Awake, SetTimeout
  PROVE  Awake'
<1>1. /\ pc = "timeout" /\ pc' = "asleep" /\ ArmFor(Timed, deadline)
      /\ UNCHANGED <<rqueue, wqueue, incoming, peer, sending, phase, deadline,
                     interest, ready>>
  BY DEF SetTimeout, At, Awake, ReadsRegistered, input, output, epoll
<1>2. /\ Waiting' = Waiting /\ Readable' = Readable
      /\ Writable' = Writable /\ (Outs => Outs')
  BY <1>1 DEF Waiting, Readable, Writable, Outs
<1>3. \A c \in Waiting : timer' # 0 /\ timer' <= deadline[c]
  <2>1. \A c \in Timed : deadline[c] # 0
    BY DEF Timed
  <2>2. Timed = Waiting
    BY DEF Awake, TimerCovers, Timed
  <2> QED
    BY <1>1, <2>1, <2>2, ArmCovers
<1>4. ReadsRegistered' /\ LoopRunsPump' /\ ReadWakes'
  BY <1>1, <1>2 DEF Awake, ReadsRegistered, LoopRunsPump, ReadWakes
<1>5. WriteWakes'
  BY <1>1, <1>2, <1>3 DEF Awake, WriteWakes
<1>6. TimerCovers'
  BY <1>1, <1>2, <1>3 DEF Awake, TimerCovers
<1> QED
  BY <1>4, <1>5, <1>6 DEF Awake

\* call-async leaves what it may have queued to the timer of the call itself.
LEMMA CallWakes ==
  ASSUME TypeOK, Awake, ~May("noTimeout"), CallAsync
  PROVE  Awake'
<1>1. PICK c \in Requests : StartCall(c)
  BY DEF CallAsync, Requests
<1>2. /\ pc = "asleep" /\ pc' = "timeout"
      /\ UNCHANGED <<rqueue, incoming, peer, interest, ready>>
  BY DEF CallAsync, At, input, epoll
<1>3. ReadsRegistered' /\ LoopRunsPump' /\ ReadWakes'
  BY <1>2 DEF Awake, ReadsRegistered, LoopRunsPump, ReadWakes, Readable
<1>4. WriteWakes'
  BY <1>1, <1>2, StartWaits DEF WriteWakes
<1>5. TimerCovers'
  BY <1>1, <1>2, StartWaits DEF Awake, TimerCovers
<1> QED
  BY <1>3, <1>4, <1>5 DEF Awake

\* What goes straight into the socket leaves nothing to be written.
LEMMA TakenWakes ==
  ASSUME TypeOK, Takes, NEW m, Write(m), UNCHANGED peer
  PROVE  UNCHANGED wqueue /\ (Writable' => Writable)
<1>1. Len(sending') = Len(sending) + 1 /\ Len(sending) \in Nat /\ UNCHANGED wqueue
  BY DEF Write, TypeOK
<1> QED
  BY <1>1, Parameters DEF Writable

\* The timer does not cover the call of AddMatch, but it need not: it is not one of
\* the program's, and it has gone into the socket.
LEMMA MatchWakes ==
  ASSUME TypeOK, Awake, ~May("sendWhenFull"), MatchAsync
  PROVE  Awake'
<1>1. PICK r \in Rules : StartCall(r)
  BY DEF MatchAsync
<1>2. r \in Requests /\ r \notin Calls /\ Write(r) /\ Takes
  BY <1>1, Parameters DEF Requests, StartCall, MatchAsync
<1>3. /\ pc = "asleep"
      /\ UNCHANGED <<pc, caller, rqueue, incoming, peer, interest, ready, timer>>
  BY DEF MatchAsync, At, pump, input, epoll
<1>4. UNCHANGED wqueue /\ (Writable' => Writable)
  BY <1>2, <1>3, TakenWakes
<1>5. ReadsRegistered' /\ LoopRunsPump' /\ ReadWakes'
  BY <1>3 DEF Awake, ReadsRegistered, LoopRunsPump, ReadWakes, Readable
<1>6. WriteWakes'
  BY <1>3, <1>4 DEF Awake, WriteWakes, Outs
<1>7. TimerCovers'
  <2>1. /\ Waiting' = Waiting \cup {r} /\ deadline'[r] # 0
        /\ \A e \in Waiting : deadline'[e] = deadline[e]
    <3>1. deadline'[r] # 0
      BY <1>1, <1>2 DEF StartCall, Deadlines, TypeOK
    <3> QED
      BY <1>1, <1>2, <3>1, StartWaits
  <2> QED
    BY <1>2, <1>3, <2>1 DEF Awake, TimerCovers
<1> QED
  BY <1>5, <1>6, <1>7 DEF Awake

LEMMA FiberWakes ==
  ASSUME TypeOK, Awake, ~May("sendWhenFull"),
         SendFails \/ MessageSend \/ CancelCall \/ CancelRule
  PROVE  Awake'
<1>1. /\ pc = "asleep" /\ pc' = "asleep"
      /\ UNCHANGED <<rqueue, wqueue, incoming, peer, interest, ready, deadline,
                     timer>>
  BY DEF SendFails, MessageSend, CancelCall, CancelRule, Write, At, pump, input,
     output, epoll, timing
<1>2. /\ \A c \in Waiting' : c \in Waiting
      /\ Writable' => Writable
  <2>1. CASE SendFails
    BY <2>1 DEF SendFails, output, timing, Waiting, Writable, input
  <2>2. CASE MessageSend
    <3>1. Writable' => Writable
      BY <1>1, <2>2, TakenWakes DEF MessageSend
    <3> QED
      BY <2>2, <3>1 DEF MessageSend, timing, Waiting
  <2>3. CASE CancelCall
    BY <2>3 DEF CancelCall, Waiting, TypeOK, output, input, Writable
  <2>4. CASE CancelRule
    <3>1. Writable' => Writable
      BY <1>1, <2>4, TakenWakes DEF CancelRule
    <3> QED
      BY <2>4, <3>1 DEF CancelRule, Waiting, TypeOK
  <2> QED
    BY <2>1, <2>2, <2>3, <2>4
<1>3. ReadsRegistered' /\ LoopRunsPump' /\ ReadWakes'
  BY <1>1 DEF Awake, ReadsRegistered, LoopRunsPump, ReadWakes, Readable
<1>4. WriteWakes'
  BY <1>1, <1>2 DEF Awake, WriteWakes, Outs
<1>5. TimerCovers'
  BY <1>1, <1>2 DEF Awake, TimerCovers
<1> QED
  BY <1>3, <1>4, <1>5 DEF Awake

LEMMA StepWakes ==
  ASSUME Habits \subseteq {"disconnect"}, TypeOK, WakeInv, [Next]_vars
  PROVE  WakeInv'
<1> SUFFICES ASSUME vm' = "running"
             PROVE  Awake'
  BY DEF WakeInv
<1>1. /\ ~May("sendWhenFull") /\ ~May("blockingCall") /\ ~May("closeInHandler")
      /\ ~May("noTimeout")
  BY DEF May
<1>2. vm = "running"
  BY DEF Next, ProcessBus, vars, pump, At, SocketEvent, TimerEvent, ProcessTimeout,
     ProcessWrite, ProcessMessage, CloseInHandler, Dispatch, ProcessEnd,
     ProcessClosing, ProcessFails, ProcessDone, SetEvents, SetTimeout, PeerSends,
     PeerReads, Disconnect, Tick,
     SendFails, CallAsync, MatchAsync, MessageSend, CancelCall, CancelRule, ListNames
<1>3. Awake
  BY <1>2 DEF WakeInv
<1>4. CASE UNCHANGED vars
  BY <1>3, <1>4 DEF vars, Awake, ReadsRegistered, ReadWakes, WriteWakes,
     TimerCovers, LoopRunsPump, Outs, Readable, Writable, Waiting
<1>5. ~ListNames
  BY <1>1 DEF ListNames
<1> QED
  BY <1>1, <1>3, <1>4, <1>5, WorldWakes, EventWakes, ProcessWakes, EventsWake,
     TimeoutWakes, CallWakes, MatchWakes, FiberWakes DEF Next

\* In programs that make no blocking call and no call without a timeout, and that send
\* and subscribe from their fibers only when the socket takes it at once, the event
\* loop never sleeps on what it has received, on what it has to write or past the
\* deadline of a call without anything that will wake it: the socket, or the timer,
\* which is all that a call made while the socket is full has (setevents and settimeout
\* at the end of process_bus, settimeout at the end of call-async).  The timeout of the
\* call that match-async makes is not covered, see EveryRuleEnds.
THEOREM NoLostWakeupHolds ==
  ASSUME Habits \subseteq {"disconnect"}
  PROVE  Spec => []NoLostWakeup
<1>1. Init => WakeInv
  BY DEF Init, WakeInv, Awake, ReadsRegistered, ReadWakes, WriteWakes, TimerCovers,
     LoopRunsPump, Readable, Waiting
<1>2. TypeOK /\ WakeInv /\ [Next]_vars => WakeInv'
  BY StepWakes
<1>3. WakeInv => NoLostWakeup
  <2> SUFFICES ASSUME Awake, pc = "asleep"
               PROVE  NoLostWakeup
    BY DEF WakeInv, NoLostWakeup, At
  <2>1. ~Empty \/ ~peer => SocketWakes
    BY DEF Awake, ReadsRegistered, ReadWakes, Empty, Readable, SocketWakes, Wanted
  <2>2. wqueue # << >> => SocketWakes \/ TimerWakes
                           \/ ("out" \in interest /\ ~Writable)
    <3>1. ~peer => SocketWakes
      BY <2>1
    <3>2. Outs => SocketWakes \/ ("out" \in interest /\ ~Writable)
      BY DEF Outs, SocketWakes, Wanted
    <3> QED
      BY <3>1, <3>2 DEF Awake, WriteWakes, TimerWakes
  <2>3. DeadlinesCovered
    BY DEF Awake, TimerCovers, DeadlinesCovered, Timed
  <2> QED
    BY <2>1, <2>2, <2>3 DEF NoLostWakeup
<1> QED
  BY <1>1, <1>2, <1>3, PumpTypeCorrect, PTL DEF Spec

--------------------------------------------------------------------------------
(* No call is stranded, with any habits *)

\* A step that leaves the calls that wait as they are or ends some, sets no timer, and
\* neither puts the loop to sleep nor closes the connection over a request that waits.
LEMMA SameStrand ==
  ASSUME NoCallStranded, UNCHANGED timer,
         \A c \in Waiting' \cap Calls : c \in Waiting /\ deadline'[c] = deadline[c],
         At("asleep")' => At("asleep") \/ Waiting' = {},
         bus' = "closed" => Waiting' = {}
  PROVE  NoCallStranded'
  BY DEF NoCallStranded, DeadlinesCovered, Timed

\* A step after which the loop does not sleep.
LEMMA BusyStrand ==
  ASSUME ~At("asleep")', bus' = "closed" => Waiting' = {}
  PROVE  NoCallStranded'
  BY DEF NoCallStranded

LEMMA ProcessStrand ==
  ASSUME TypeOK, NoCallStranded, ProcessBus
  PROVE  NoCallStranded'
<1>1. vm = "running" /\ pc = "process"
  BY DEF ProcessBus, At, ProcessTimeout, ProcessWrite, ProcessMessage, CloseInHandler,
     Dispatch, ProcessEnd, ProcessClosing, ProcessFails, ProcessDone
<1>2. CASE ProcessTimeout \/ ProcessWrite \/ ProcessEnd \/ ProcessDone
  <2>1. bus' # "closed" /\ vm' = vm /\ pc' # "asleep"
    BY <1>1, <1>2 DEF ProcessTimeout, ProcessWrite, ProcessEnd, ProcessDone, pump
  <2> QED
    BY <2>1, BusyStrand DEF At
<1>3. CASE ProcessMessage
  <2>1. PICK m \in Message : Dispatch(m) /\ Handle(m)
    BY <1>3, SomeHandled
  <2>2. bus' # "closed" /\ UNCHANGED <<vm, pc>>
    BY <1>3, <2>1 DEF ProcessMessage, Dispatch, Handle
  <2> QED
    BY <1>1, <2>2, BusyStrand DEF At
<1>4. CASE CloseInHandler
  <2>1. Waiting' = {} /\ UNCHANGED <<vm, pc>>
    BY <1>4 DEF CloseInHandler, Waiting
  <2> QED
    BY <1>1, <2>1, BusyStrand DEF At
<1>5. CASE ProcessClosing
  <2>1. bus' = "closed" => Waiting' = {}
    BY <1>5 DEF ProcessClosing, Waiting
  <2> QED
    BY <1>1, <1>5, <2>1, BusyStrand DEF ProcessClosing, At
\* process_bus panics over a closed sd_bus, and no call waits any more.
<1>6. CASE ProcessFails
  <2>1. Waiting' = {}
    BY <1>6 DEF ProcessFails, NoCallStranded, timing, Waiting
  <2> QED
    BY <2>1 DEF NoCallStranded, DeadlinesCovered, Timed
<1> QED
  BY <1>2, <1>3, <1>4, <1>5, <1>6 DEF ProcessBus

LEMMA TimeoutStrand ==
  ASSUME TypeOK, NoCallStranded, SetTimeout
  PROVE  NoCallStranded'
<1>1. UNCHANGED <<vm, bus, phase, deadline>> /\ Waiting' = Waiting /\ Timed' = Timed
  BY DEF SetTimeout, Waiting, Timed
<1>2. CASE pc' = "process"
  BY <1>1, <1>2, BusyStrand DEF At, NoCallStranded
<1>3. CASE ArmFor(Timed, deadline)
  <2>1. \A c \in Timed : deadline[c] # 0
    BY DEF Timed
  <2>2. \A c \in Timed : timer' # 0 /\ timer' <= deadline[c]
    BY <1>3, <2>1, ArmCovers
  <2> QED
    BY <1>1, <2>2 DEF NoCallStranded, DeadlinesCovered
<1> QED
  BY <1>2, <1>3 DEF SetTimeout

\* A rule that starts to wait is no call.
LEMMA MatchStrand ==
  ASSUME TypeOK, NoCallStranded, MatchAsync
  PROVE  NoCallStranded'
<1>1. PICK r \in Rules : StartCall(r)
  BY DEF MatchAsync
<1>2. r \in Requests /\ r \notin Calls
  BY Parameters DEF Requests
<1>3. /\ UNCHANGED <<vm, pc, bus, timer>> /\ bus = "running"
      /\ Waiting' = Waiting \cup {r}
      /\ \A e \in Waiting : deadline'[e] = deadline[e]
  BY <1>1, <1>2, StartWaits DEF MatchAsync, pump
<1> QED
  BY <1>2, <1>3, SameStrand DEF At

LEMMA StepStrand ==
  ASSUME TypeOK, NoCallStranded, [Next]_vars
  PROVE  NoCallStranded'
<1>1. CASE UNCHANGED vars
  BY <1>1, SameStrand DEF vars, At, Waiting, NoCallStranded
<1>2. CASE PeerSends \/ PeerReads \/ Disconnect \/ Tick
  BY <1>2, SameStrand DEF PeerSends, PeerReads, Disconnect, Tick, pump, timing, At,
     Waiting, NoCallStranded
<1>3. CASE SocketEvent \/ SetEvents
  BY <1>3, SameStrand DEF SocketEvent, SetEvents, timing, At, Waiting, NoCallStranded
<1>4. CASE TimerEvent
  <2>1. pc' = "process" /\ UNCHANGED <<bus, phase>> /\ Waiting' = Waiting
    BY <1>4 DEF TimerEvent, Waiting
  <2> QED
    BY <2>1, BusyStrand DEF At, NoCallStranded
<1>5. CASE SendFails \/ MessageSend \/ ListNames
  BY <1>5, SameStrand DEF SendFails, MessageSend, ListNames, pump, timing, At, Waiting
<1>6. CASE CancelCall \/ CancelRule
  <2>1. (\A c \in Waiting' : c \in Waiting) /\ UNCHANGED <<vm, pc, bus, deadline, timer>>
    BY <1>6 DEF CancelCall, CancelRule, Waiting, TypeOK, pump
  <2> QED
    BY <2>1, SameStrand DEF At, NoCallStranded
<1>7. CASE CallAsync
  BY <1>7, BusyStrand DEF CallAsync, At
<1> QED
  BY <1>1, <1>2, <1>3, <1>4, <1>5, <1>6, <1>7, ProcessStrand, TimeoutStrand, MatchStrand
  DEF Next

\* Whatever the program and its peer do, the event loop never sleeps past the deadline
\* of a call that has one, and a closed connection has no request that waits: the
\* safety half of EveryCallEnds (process_bus and settimeout in src/src/async.c,
\* call-async in src/src/call.c).
THEOREM NoCallIsStranded == Spec => []NoCallStranded
<1>1. Init => NoCallStranded
  BY DEF Init, NoCallStranded, DeadlinesCovered, Timed, Waiting
<1>2. TypeOK /\ NoCallStranded /\ [Next]_vars => NoCallStranded'
  BY StepStrand
<1> QED
  BY <1>1, <1>2, PumpTypeCorrect, PTL DEF Spec
================================================================================
