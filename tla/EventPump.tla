-------------------------------- MODULE EventPump --------------------------------
(* How a connection is driven by Janet's event loop: process_bus, setevents,   *)
(* settimeout and the listeners on the bus socket and on the timer             *)
(* (src/src/async.c), and the operations that put work into the sd_bus without *)
(* going through them: sdbus/call-async, sdbus/match-async, sdbus/message-send *)
(* (src/src/call.c, src/src/message.c) and the blocking sdbus/list-names       *)
(* (src/src/bus.c).                                                            *)
(*                                                                             *)
(* The socket is registered edge triggered: the loop sleeps until it is on     *)
(* epoll's ready list, where data, room or setevents put it, and leaves that   *)
(* list when it is looked at.  The peer, the kernel and the clock go on while  *)
(* the pump works; the program's fibers run only while it rests (pc =          *)
(* "asleep"), or inside a handler, as part of the step that runs the handler.  *)
(* The connection is past its handshake, and the program closes it only from   *)
(* inside a handler: AsyncCalls is about the rest.                             *)
EXTENDS Integers, Sequences

CONSTANTS
  Calls,        \* calls the program may make with call-async
  Rules,        \* calls of AddMatch that match-async makes, each with its rule
  Plain,        \* any other message: a signal, a call or a reply of its own
  MaxArrivals,  \* bound: messages the peer sends
  MaxQueue,     \* bound: messages in sd-bus's write queue
  Room,         \* messages the socket's send buffer holds
  MaxClock,     \* bound: ticks of the clock
  Habits        \* what the program and its peer may do, see AllHabits

AllHabits ==
  { "blockingCall",   \* call list-names
    "noTimeout",      \* call with a timeout of -1, which sd-bus takes for none
    "sendWhenFull",   \* send or subscribe, from a fiber, while the socket is full
    "closeInHandler", \* call close-bus inside the handler of a method
    "disconnect" }    \* the peer goes away

ASSUME Parameters ==
  /\ Plain \notin Calls \cup Rules /\ Calls \cap Rules = {}
  /\ MaxArrivals \in Nat /\ MaxQueue \in Nat /\ MaxClock \in Nat
  /\ Room \in Nat \ {0}
  /\ Habits \subseteq AllHabits

\* What sd-bus waits for the reply of.
Requests == Calls \cup Rules
Message == Requests \cup {Plain}

VARIABLES
  vm,        \* running, or stopped by a panic outside any fiber
  pc,        \* asleep, or where process_bus and settimeout are
  caller,    \* who runs the pump: the event loop or a fiber
  bus,       \* state of the sd_bus: running, closing or closed
  peer,      \* the other end of the socket is there
  arrivals,  \* messages the peer has sent so far
  incoming,  \* the socket's receive buffer; a reply is named by its request
  rqueue,    \* messages sd-bus has read and not dispatched
  wqueue,    \* messages sd-bus has not written
  sending,   \* the socket's send buffer
  interest,  \* what the socket is registered for: in, out
  ready,     \* the socket is on epoll's ready list
  phase,     \* of each request: idle, waiting or over
  deadline,  \* of each request, 0 if it has none
  timer,     \* when the timer expires, 0 if it is disarmed
  clock

vars == <<vm, pc, caller, bus, peer, arrivals, incoming, rqueue, wqueue, sending,
          interest, ready, phase, deadline, timer, clock>>
pump == <<vm, pc, caller, bus>>
input == <<peer, arrivals, incoming>>
output == <<wqueue, sending>>
epoll == <<interest, ready>>
timing == <<phase, deadline, timer, clock>>

TypeOK ==
  /\ vm \in {"running", "stopped"}
  /\ pc \in {"asleep", "process", "events", "timeout"}
  /\ caller \in {"loop", "fiber"}
  /\ bus \in {"running", "closing", "closed"}
  /\ peer \in BOOLEAN
  /\ arrivals \in 0..MaxArrivals
  /\ incoming \in Seq(Message) /\ rqueue \in Seq(Message)
  /\ wqueue \in Seq(Message) /\ sending \in Seq(Message)
  /\ interest \subseteq {"in", "out"}
  /\ ready \in BOOLEAN
  /\ phase \in [Requests -> {"idle", "waiting", "over"}]
  /\ deadline \in [Requests -> 0..MaxClock]
  /\ timer \in 0..MaxClock
  /\ clock \in 0..MaxClock

\* The first process_bus has come to rest.
Init ==
  /\ vm = "running" /\ pc = "asleep" /\ caller = "loop"
  /\ bus = "running" /\ peer = TRUE /\ arrivals = 0
  /\ incoming = << >> /\ rqueue = << >> /\ wqueue = << >> /\ sending = << >>
  /\ interest = {"in"} /\ ready = FALSE
  /\ phase = [c \in Requests |-> "idle"]
  /\ deadline = [c \in Requests |-> 0]
  /\ timer = 0 /\ clock = 0

May(h) == h \in Habits
In(c, s) == \E i \in 1..Len(s) : s[i] = c
Waiting == {c \in Requests : phase[c] = "waiting"}
Timed == {c \in Waiting : deadline[c] # 0}
At(p) == vm = "running" /\ pc = p

--------------------------------------------------------------------------------
(* The peer, the kernel and the clock *)

\* A message reaches the socket.  Only a request that was delivered is replied to, be
\* it after it has timed out or been cancelled.
PeerSends ==
  /\ peer /\ arrivals < MaxArrivals
  /\ \E m \in Message :
       /\ m \in Requests => phase[m] # "idle" /\ ~In(m, wqueue \o sending)
       /\ incoming' = Append(incoming, m)
  /\ arrivals' = arrivals + 1
  /\ ready' = (ready \/ "in" \in interest)
  /\ UNCHANGED <<pump, peer, rqueue, output, interest, timing>>

\* The peer reads a message and makes room in the send buffer.
PeerReads ==
  /\ peer /\ sending # << >>
  /\ sending' = Tail(sending)
  /\ ready' = (ready \/ "out" \in interest)
  /\ UNCHANGED <<pump, input, rqueue, wqueue, interest, timing>>

\* A hang-up wakes the loop whatever the socket is registered for.
Disconnect ==
  /\ May("disconnect") /\ peer
  /\ peer' = FALSE
  /\ ready' = TRUE
  /\ UNCHANGED <<pump, arrivals, incoming, rqueue, output, interest, timing>>

Tick ==
  /\ clock < MaxClock
  /\ clock' = clock + 1
  /\ UNCHANGED <<pump, input, rqueue, output, epoll, phase, deadline, timer>>

--------------------------------------------------------------------------------
(* The event loop: bus_callback and timer_callback *)

Empty == rqueue = << >> /\ incoming = << >>
Readable == incoming # << >> \/ ~peer
Writable == Len(sending) < Room \/ ~peer
Wanted == ("in" \in interest /\ Readable) \/ ("out" \in interest /\ Writable)

\* READ or WRITE on the socket: process_bus.  READ comes first when the peer hangs
\* up.  A socket that is ready for nothing it is registered for leaves the list.
SocketEvent ==
  /\ At("asleep") /\ ready
  /\ ready' = FALSE
  /\ pc' = IF Wanted THEN "process" ELSE "asleep"
  /\ caller' = "loop"
  /\ UNCHANGED <<vm, bus, input, rqueue, output, interest, timing>>

\* The timer has expired: the callback reads it, which leaves it disarmed.
TimerEvent ==
  /\ At("asleep") /\ timer # 0 /\ timer <= clock
  /\ timer' = 0
  /\ pc' = "process" /\ caller' = "loop"
  /\ UNCHANGED <<vm, bus, input, rqueue, output, epoll, phase, deadline, clock>>

--------------------------------------------------------------------------------
(* Handing a message to sd-bus *)

Queueable == Len(wqueue) < MaxQueue
Takes == wqueue = << >> /\ Len(sending) < Room

\* sd_bus_send: straight into the socket if nothing waits and there is room.
Write(m) ==
  IF Takes THEN sending' = Append(sending, m) /\ UNCHANGED wqueue
           ELSE wqueue' = Append(wqueue, m) /\ UNCHANGED sending

\* A timer armed with a deadline as if it were a delay (for mutation).
ArmForDelay(S, d) ==
  \/ S = {} /\ timer' = 0
  \/ \E c \in S : (\A e \in S : d[c] <= d[e]) /\ timer' = clock + d[c]

\* The earliest deadline of the requests S with deadlines d, or disarmed.
ArmFor(S, d) ==
  \/ S = {} /\ timer' = 0
  \/ \E c \in S : (\A e \in S : d[c] <= d[e]) /\ timer' = d[c]

\* The deadlines of a request: those of call-async are the program's, AddMatch has the
\* default of sd-bus.
Deadlines(c) ==
  (clock + 1)..MaxClock \cup {d \in {0} : c \in Calls /\ May("noTimeout")}

\* The request is sent and waits for its reply or its deadline.
StartCall(c) ==
  /\ phase[c] = "idle" /\ clock < MaxClock /\ Queueable
  /\ Write(c)
  /\ phase' = [phase EXCEPT ![c] = "waiting"]
  /\ \E d \in Deadlines(c) : deadline' = [deadline EXCEPT ![c] = d]

--------------------------------------------------------------------------------
(* process_bus: sd_bus_process until it returns 0 or fails.  One step is one   *)
(* call of it: a timeout if one is due, otherwise a write, otherwise a message *)
(* that was queued or is read, otherwise nothing.                              *)

Due == {c \in Timed : deadline[c] <= clock}
MayWrite == wqueue # << >> /\ (~peer \/ Len(sending) < Room)

\* The request with the earliest deadline ends with a timeout error.
ProcessTimeout ==
  /\ At("process") /\ bus = "running"
  /\ \E c \in Due :
       /\ \A e \in Due : deadline[c] <= deadline[e]
       /\ phase' = [phase EXCEPT ![c] = "over"]
  /\ UNCHANGED <<pump, input, rqueue, output, epoll, deadline, timer, clock>>

ProcessWrite ==
  /\ At("process") /\ bus = "running" /\ Due = {} /\ MayWrite /\ peer
  /\ sending' = Append(sending, Head(wqueue))
  /\ wqueue' = Tail(wqueue)
  /\ UNCHANGED <<pump, input, rqueue, epoll, timing>>

\* A reply ends its request, unless it comes too late.  The handler of any other
\* message is the program's: it may send, subscribe, or call and, if nothing is queued,
\* set the timer.  With a message queued settimeout runs process_bus again, which
\* sd-bus refuses: the handler gets an error for a call that has been made.
Handle(m) ==
  \/ /\ phase' = [c \in Requests |-> IF c = m THEN "over" ELSE phase[c]]
     /\ UNCHANGED <<bus, output, deadline, timer>>
  \/ /\ m = Plain /\ peer /\ Queueable
     /\ Write(Plain)
     /\ UNCHANGED <<bus, phase, deadline, timer>>
  \/ /\ m = Plain /\ peer
     /\ \E r \in Rules : StartCall(r)
     /\ UNCHANGED <<bus, timer>>
  \/ /\ m = Plain /\ peer
     /\ \E c \in Calls : StartCall(c)
     /\ IF rqueue' = << >> THEN ArmFor(Timed', deadline') ELSE UNCHANGED timer
     /\ UNCHANGED bus
  \/ /\ m = Plain /\ ~peer
     /\ bus' = "closing"
     /\ UNCHANGED <<output, phase, deadline, timer>>

\* The message that is dispatched: of those queued, or else of those in the socket.
Dispatch(m) ==
  /\ At("process") /\ bus = "running" /\ Due = {} /\ ~MayWrite
  /\ \/ rqueue # << >> /\ m = Head(rqueue)
        /\ rqueue' = Tail(rqueue) /\ UNCHANGED incoming
     \/ rqueue = << >> /\ incoming # << >> /\ m = Head(incoming)
        /\ incoming' = Tail(incoming) /\ UNCHANGED rqueue

ProcessMessage ==
  /\ \E m \in Message : Dispatch(m) /\ Handle(m)
  /\ UNCHANGED <<vm, pc, caller, peer, arrivals, epoll, clock>>

\* A handler that closes the connection: the requests that wait are told, what is
\* queued is flushed, the listeners end, and process_bus is left without an sd_bus.
CloseInHandler ==
  /\ May("closeInHandler") /\ Dispatch(Plain)
  /\ bus' = "closed"
  /\ phase' = [c \in Requests |-> IF c \in Waiting THEN "over" ELSE phase[c]]
  /\ wqueue' = << >> /\ interest' = {} /\ timer' = 0
  /\ UNCHANGED <<vm, pc, caller, peer, arrivals, sending, ready, deadline, clock>>

\* Writing to or reading from a peer that has gone.
ProcessEnd ==
  /\ At("process") /\ bus = "running" /\ Due = {} /\ ~peer
  /\ wqueue # << >> \/ Empty
  /\ bus' = "closing"
  /\ UNCHANGED <<vm, pc, caller, input, rqueue, output, epoll, timing>>

\* Each request that waits gets an error; then the sd_bus is closed.
ProcessClosing ==
  /\ At("process") /\ bus = "closing"
  /\ \/ /\ \E c \in Waiting : phase' = [phase EXCEPT ![c] = "over"]
        /\ UNCHANGED bus
     \/ Waiting = {} /\ bus' = "closed" /\ UNCHANGED phase
  /\ UNCHANGED <<vm, pc, caller, input, rqueue, output, epoll, deadline, timer,
                 clock>>

\* The panic of process_bus: an error in the fiber that called, the end of the
\* program in the event loop.
ProcessFails ==
  /\ At("process") /\ bus = "closed"
  /\ IF caller = "loop" THEN vm' = "stopped" /\ UNCHANGED pc
                        ELSE pc' = "asleep" /\ UNCHANGED vm
  /\ UNCHANGED <<caller, bus, input, rqueue, output, epoll, timing>>

Idle == Due = {} /\ ~MayWrite /\ Empty /\ peer

\* A process_bus that takes the 0 of an idle sd_bus for a failure (for mutation).
IdleFails ==
  /\ At("process") /\ bus = "running" /\ Idle
  /\ IF caller = "loop" THEN vm' = "stopped" /\ UNCHANGED pc
                        ELSE pc' = "asleep" /\ UNCHANGED vm
  /\ UNCHANGED <<caller, bus, input, rqueue, output, epoll, timing>>

ProcessDone ==
  /\ At("process") /\ bus = "running" /\ Idle
  /\ pc' = "events"
  /\ UNCHANGED <<vm, caller, bus, input, rqueue, output, epoll, timing>>

\* A setevents that changes the flags and does not register the socket again (for
\* mutation).
EventsWithoutRearm ==
  /\ At("events")
  /\ interest' = (IF rqueue = << >> THEN {"in"} ELSE {})
                 \cup (IF wqueue # << >> THEN {"out"} ELSE {})
  /\ pc' = "timeout"
  /\ UNCHANGED <<vm, caller, bus, input, rqueue, output, ready, timing>>

\* One that clears the flag for reading and forgets to set it (for mutation).
EventsWithoutRead ==
  /\ At("events")
  /\ interest' = IF wqueue # << >> THEN {"out"} ELSE {}
  /\ pc' = "timeout"
  /\ UNCHANGED <<vm, caller, bus, input, rqueue, output, timing>>
  /\ ready' = (ready \/ Wanted')

\* One that forgets the flag for writing (for mutation).
EventsWithoutWrite ==
  /\ At("events")
  /\ interest' = IF rqueue = << >> THEN {"in"} ELSE {}
  /\ pc' = "timeout"
  /\ UNCHANGED <<vm, caller, bus, input, rqueue, output, timing>>
  /\ ready' = (ready \/ Wanted')

\* setevents: sd-bus wants to read when nothing is queued, to write when something
\* is.  Registering puts a socket that is ready on the list again.
SetEvents ==
  /\ At("events")
  /\ interest' = (IF rqueue = << >> THEN {"in"} ELSE {})
                 \cup (IF wqueue # << >> THEN {"out"} ELSE {})
  /\ pc' = "timeout"
  /\ UNCHANGED <<vm, caller, bus, input, rqueue, output, timing>>
  /\ ready' = (ready \/ Wanted')

\* settimeout: with a message queued process_bus runs again, otherwise the timer is
\* set to the earliest deadline.
SetTimeout ==
  /\ At("timeout")
  /\ IF rqueue # << >>
       THEN pc' = "process" /\ UNCHANGED timer
       ELSE pc' = "asleep" /\ ArmFor(Timed, deadline)
  /\ UNCHANGED <<vm, caller, bus, input, rqueue, output, epoll, phase, deadline,
                 clock>>

--------------------------------------------------------------------------------
(* The program, from a fiber *)

\* Sending to a peer that has gone fails, and sd-bus starts to close.
SendFails ==
  /\ At("asleep") /\ bus = "running" /\ ~peer
  /\ bus' = "closing"
  /\ UNCHANGED <<vm, pc, caller, input, rqueue, output, epoll, timing>>

\* A call-async without its settimeout (for mutation).
CallUntimed ==
  /\ At("asleep") /\ bus = "running" /\ peer
  /\ \E c \in Calls : StartCall(c)
  /\ UNCHANGED <<pump, input, rqueue, epoll, timer, clock>>

\* call-async ends with settimeout, and leaves the registration of the socket as
\* it is.
CallAsync ==
  /\ At("asleep") /\ bus = "running" /\ peer
  /\ \E c \in Calls : StartCall(c)
  /\ pc' = "timeout" /\ caller' = "fiber"
  /\ UNCHANGED <<vm, bus, input, rqueue, epoll, timer, clock>>

\* match-async sends the call of AddMatch, whose reply it waits for, and sets neither
\* the timer nor the registration.
MatchAsync ==
  /\ At("asleep") /\ bus = "running" /\ peer
  /\ Takes \/ May("sendWhenFull")
  /\ \E r \in Rules : StartCall(r)
  /\ UNCHANGED <<pump, input, rqueue, epoll, timer, clock>>

\* message-send sets neither; nor does the cancelling of a rule that is installed,
\* which sends RemoveMatch.
MessageSend ==
  /\ At("asleep") /\ bus = "running" /\ peer /\ Queueable
  /\ Takes \/ May("sendWhenFull")
  /\ Write(Plain)
  /\ UNCHANGED <<pump, input, rqueue, epoll, timing>>

\* sdbus/cancel: the timer keeps the deadline of a call that no longer waits.
CancelCall ==
  /\ At("asleep")
  /\ \E c \in Waiting \cap Calls : phase' = [phase EXCEPT ![c] = "over"]
  /\ UNCHANGED <<pump, input, rqueue, output, epoll, deadline, timer, clock>>

\* The same of a rule that is not installed yet: sd-bus sends RemoveMatch for it too.
CancelRule ==
  /\ At("asleep") /\ bus = "running" /\ peer /\ Queueable
  /\ Takes \/ May("sendWhenFull")
  /\ \E r \in Waiting \cap Rules : phase' = [phase EXCEPT ![r] = "over"]
  /\ Write(Plain)
  /\ UNCHANGED <<pump, input, rqueue, epoll, deadline, timer, clock>>

\* list-names blocks: everything is written, and what the peer sent before its
\* answer is read and queued.
ListNames ==
  /\ May("blockingCall") /\ At("asleep") /\ bus = "running" /\ peer
  /\ wqueue' = << >> /\ sending' = << >>
  /\ \E k \in 0..Len(incoming) :
       /\ rqueue' = rqueue \o SubSeq(incoming, 1, k)
       /\ incoming' = SubSeq(incoming, k + 1, Len(incoming))
  /\ UNCHANGED <<pump, peer, arrivals, epoll, timing>>

--------------------------------------------------------------------------------
ProcessBus ==
  \/ ProcessTimeout \/ ProcessWrite \/ ProcessMessage \/ CloseInHandler \/ ProcessEnd
  \/ ProcessClosing \/ ProcessFails \/ ProcessDone

Next ==
  \/ SocketEvent \/ TimerEvent \/ ProcessBus \/ SetEvents \/ SetTimeout
  \/ PeerSends \/ PeerReads \/ Disconnect \/ Tick
  \/ SendFails \/ CallAsync \/ MatchAsync \/ MessageSend
  \/ CancelCall \/ CancelRule \/ ListNames

Spec == Init /\ [][Next]_vars

\* epoll_wait reports whatever is ready, what it reports is run to its end, the peer
\* reads, and time passes.
Fairness ==
  /\ WF_vars(SocketEvent) /\ WF_vars(TimerEvent)
  /\ WF_vars(ProcessBus \/ SetEvents \/ SetTimeout)
  /\ WF_vars(PeerReads) /\ WF_vars(Tick)

FairSpec == Spec /\ Fairness
--------------------------------------------------------------------------------
(* Properties *)

\* A wake-up is on its way: the socket is on the ready list for something it is
\* registered for, or the timer is set.
SocketWakes == ready /\ Wanted
TimerWakes == timer # 0

\* The timer expires no later than the deadline of any call that waits and has one.
DeadlinesCovered == \A c \in Timed \cap Calls : timer # 0 /\ timer <= deadline[c]

\* When the loop goes to sleep with work left, something will wake it up: what the
\* peer sent or the end of the connection has the socket ready; a message that
\* waits to be written has the socket registered for it or, as call-async leaves it,
\* the timer set (QueuedIsWatched is about the former alone); and the timer is set no
\* later than the earliest deadline of a call (setevents and settimeout at the end of
\* process_bus, settimeout at the end of call-async).
NoLostWakeup ==
  At("asleep") =>
    /\ ~Empty \/ ~peer => SocketWakes
    /\ wqueue # << >> => SocketWakes \/ TimerWakes
                          \/ ("out" \in interest /\ ~Writable)
    /\ DeadlinesCovered

\* What waits to be written is written once there is room, not when a call times out:
\* "`sdbus/call-method` sends a method call asynchronously, suspending the current fiber
\* without blocking the event loop until a reply arrives" (docs/index.md:83).  Violated:
\* call-async ends with settimeout and not with setevents (call.c:164), so that the
\* room a full socket gets wakes nobody.
QueuedIsWatched ==
  At("asleep") /\ wqueue # << >> => SocketWakes \/ ("out" \in interest /\ ~Writable)

\* No call with a timeout is left behind, whatever the program does: when the loop goes
\* to sleep the timer is set no later than the deadline of any such call that waits,
\* also after a blocking call, a full queue or a process_bus that failed in a fiber;
\* and a closed connection has no request at all that waits (process_bus and settimeout
\* in async.c).
NoCallStranded ==
  /\ At("asleep") => DeadlinesCovered
  /\ bus = "closed" => Waiting = {}

\* Only the loss of the connection can end the program, and every call it had made
\* has ended by then (process_bus raises outside any fiber, async.c:17).  Closing the
\* connection is no reason to (the docstring of close-bus, bus.c:146).
OnlyDisconnectStops ==
  [][vm' # vm => ~peer /\ bus = "closed" /\ Waiting = {}]_vars

\* What the peer sends is dispatched, without waiting for more of it (the docstring
\* of match-async, call.c:175: matching messages are written to the channel).
EveryMessageHandled ==
  ~Empty ~> (Empty \/ bus # "running")

\* What the program sends reaches the peer: "Send a message." (the docstring of
\* message-send, message.c:595).  Not so what is sent while the socket is full, in
\* programs that do so from a fiber.
EveryMessageSent ==
  (wqueue # << >>) ~> (wqueue = << >> \/ bus # "running")

\* Every call with a timeout ends: with its reply, its timeout, an error when the
\* connection is lost, or because it is cancelled (call-async in call.c, settimeout in
\* async.c).  One with a timeout of -1 may wait for ever (call.c:146).
EveryCallEnds ==
  \A c \in Calls : (phase[c] = "waiting" /\ deadline[c] # 0) ~> (phase[c] = "over")

\* Every subscription is installed, fails or times out, for its channel is told which:
\* "Status will be one of :ok, :error, or :close" (the docstring of match-async,
\* call.c:176-178).  Violated: match-async does not end with settimeout as call-async
\* does (call.c:188-203), so that nobody wakes for the timeout of its AddMatch call.
EveryRuleEnds == \A r \in Rules : (phase[r] = "waiting") ~> (phase[r] = "over")
================================================================================
