------------------------------- MODULE AsyncCalls -------------------------------
(* The asynchronous requests of one connection: sdbus/call-async,              *)
(* sdbus/match-async, the reply handler and its destroy callback               *)
(* (src/src/call.c), the list of pending requests and the listener on the bus  *)
(* socket (src/src/async.c), sdbus/cancel and the slot finaliser               *)
(* (src/src/slot.c), and sdbus/close-bus (src/src/bus.c), over the part of     *)
(* sd-bus and of Janet's collector that they rely on.                          *)
(*                                                                             *)
(* Request n is the n-th one the program makes.  It has an AsyncState and an   *)
(* AsyncPending, allocated and freed together (mem); an sd_bus_slot, known by  *)
(* its reference count (refs) and by whether sd-bus still has it (attached);   *)
(* and a Janet value, the slot wrapper, whose slot pointer AsyncPending.slot   *)
(* aliases.  Janet runs one thing at a time, so a handler is one step.  A step *)
(* that would read or write freed memory ends the run (vm = "faulted"): what   *)
(* follows is undefined, and the sanitised development build stops there.      *)
EXTENDS PendingList, Sequences

CONSTANTS
  MaxRequests,   \* bound: requests a program makes on the connection
  MaxInbox,      \* bound: messages a subscription's channel is given
  Habits         \* what the program and its peer may do, see AllHabits

AllHabits ==
  { "dropPending",      \* forget the slot of a request that is still pending
    "releaseFinished",  \* cancel or forget, on an open bus, a finished slot
    "closeChannel",     \* close the channel of a request that is still pending
    "dropChannel",      \* forget the channel of a request that is still pending
    "rejectMatch",      \* the bus daemon rejects a match rule
    "hangup",           \* the socket reports HUP or ERR
    "dropConn" }        \* forget a closed connection before its slots

ASSUME Parameters ==
  MaxRequests \in Nat /\ MaxInbox \in Nat /\ Habits \subseteq AllHabits

Request == 1..MaxRequests
Kind == {"Call", "Match"}
\* A message for the request ([:ok msg], or [:error text] for an error message),
\* the failure of the request itself, the closing of the connection.
Status == {"answer", "error", "close"}

VARIABLES
  vm,         \* running, stopped by a panic outside any fiber, or faulted
  conn,       \* memory of the Conn: live or collected
  bus,        \* the sd_bus: open, closed, freeing (its last owner is gone), freed
  listening,  \* the bus socket still has its listener
  issued,     \* requests made so far
  queue,      \* conn->queue and the links of every AsyncPending
  kind,       \* pending->kind
  mem,        \* AsyncState and AsyncPending: none, live or freed
  refs,       \* reference count of the sd_bus_slot
  attached,   \* the slot is known to sd-bus, and floating
  wrapper,    \* the Janet value: none, held, released (its pointer is NULL), collected
  chan,       \* the request's channel: open, closed or collected
  inbox       \* the statuses given to the request's channel so far

vars == <<vm, conn, bus, listening, issued, queue, kind, mem, refs, attached,
          wrapper, chan, inbox>>

TypeOK ==
  /\ vm \in {"running", "stopped", "faulted"}
  /\ conn \in {"live", "collected"}
  /\ bus \in {"open", "closed", "freeing", "freed"}
  /\ listening \in BOOLEAN
  /\ issued \in 0..MaxRequests
  /\ queue \in [head : 0..MaxRequests,
                next : [Request -> 0..MaxRequests],
                prev : [Request -> 0..MaxRequests]]
  /\ kind \in [Request -> Kind]
  /\ mem \in [Request -> {"none", "live", "freed"}]
  /\ refs \in [Request -> 0..2]
  /\ attached \in [Request -> BOOLEAN]
  /\ wrapper \in [Request -> {"none", "held", "released", "collected"}]
  /\ chan \in [Request -> {"open", "closed", "collected"}]
  /\ inbox \in [Request -> Seq(Status)]

\* A connection just opened by OPEN_BUS: Conn is zeroed, init_async has
\* registered the listener.
Init ==
  /\ vm = "running" /\ conn = "live" /\ bus = "open" /\ listening = TRUE
  /\ issued = 0
  /\ queue = EmptyList(Request)
  /\ kind = [r \in Request |-> "Call"]
  /\ mem = [r \in Request |-> "none"]
  /\ refs = [r \in Request |-> 0]
  /\ attached = [r \in Request |-> FALSE]
  /\ wrapper = [r \in Request |-> "none"]
  /\ chan = [r \in Request |-> "open"]
  /\ inbox = [r \in Request |-> << >>]

--------------------------------------------------------------------------------
(* Steps shared by the handlers *)

May(h) == h \in Habits

\* An access to freed memory.
Fault ==
  /\ vm' = "faulted"
  /\ UNCHANGED <<conn, bus, listening, issued, queue, kind, mem, refs, attached,
                 wrapper, chan, inbox>>

\* janet_channel_give raised on a closed channel, below sd_bus_process: there is
\* no fiber to catch it and sd-bus is left in the middle of its dispatch.  (Where the
\* dispatch runs in the settimeout of a call-async, the fiber that called can catch
\* it; sd-bus refuses every later sd_bus_process all the same, and the next one, in
\* the event loop, ends the program.  That respite is left out.)
Stop(q) ==
  /\ vm' = "stopped"
  /\ queue' = q
  /\ UNCHANGED <<conn, bus, listening, issued, kind, mem, refs, attached,
                 wrapper, chan, inbox>>

Give(r, s) == inbox' = [inbox EXCEPT ![r] = Append(@, s)]

\* A removal that writes only to records that have not been freed.
Writable(q, r) == \A p \in OverwrittenBy(q, r) : mem[p] # "freed"

\* The destroy callback can run: it follows state->conn, and its removal writes
\* to live records.
CanDestroy(r, q) == conn = "live" /\ Writable(q, r)

\* Drop n references of r's slot, with list q: at zero, destroy_call_callback
\* takes the record out of the list (again, if it was out already) and frees it.
CanDrop(r, n, q) == refs[r] = n => CanDestroy(r, q)

\* A destroy callback that frees the record and leaves it in the list
\* (for mutation).
DropWithoutDequeue(r, n, q) ==
  /\ refs' = [refs EXCEPT ![r] = @ - n]
  /\ queue' = q
  /\ mem' = IF refs[r] = n THEN [mem EXCEPT ![r] = "freed"] ELSE mem

\* A slot whose last reference is dropped without its destroy callback
\* (for mutation).
DropWithoutDestroy(r, n, q) ==
  /\ refs' = [refs EXCEPT ![r] = @ - n]
  /\ queue' = q
  /\ UNCHANGED mem

Drop(r, n, q) ==
  /\ refs' = [refs EXCEPT ![r] = @ - n]
  /\ IF refs[r] = n
       THEN /\ queue' = DequeuePending(q, r)
            /\ mem' = [mem EXCEPT ![r] = "freed"]
       ELSE /\ queue' = q
            /\ UNCHANGED mem

--------------------------------------------------------------------------------
(* Operations of the program *)

\* call-async and match-async: sd-bus takes the request, the slot is made
\* floating (sd-bus keeps a second reference) and the record is queued.  The
\* settimeout that ends call-async may dispatch replies at once: these are the
\* Reply and MatchMessage steps below, which may follow immediately.
Submit ==
  /\ vm = "running" /\ bus = "open" /\ issued < MaxRequests
  /\ LET r == issued + 1 IN
       IF queue.head # Nil /\ mem[queue.head] = "freed" THEN Fault
       ELSE /\ issued' = r
            /\ \E k \in Kind : kind' = [kind EXCEPT ![r] = k]
            /\ queue' = QueuePending(queue, r)
            /\ mem' = [mem EXCEPT ![r] = "live"]
            /\ refs' = [refs EXCEPT ![r] = 2]
            /\ attached' = [attached EXCEPT ![r] = TRUE]
            /\ wrapper' = [wrapper EXCEPT ![r] = "held"]
            /\ UNCHANGED <<vm, conn, bus, listening, chan, inbox>>

\* sd_bus_call_async or sd_bus_add_match_async fails: the two records are freed
\* and an error is raised, so the program never gets the wrapper.
SubmitFails ==
  /\ vm = "running" /\ conn = "live" /\ bus # "freeing" /\ issued < MaxRequests
  /\ issued' = issued + 1
  /\ mem' = [mem EXCEPT ![issued + 1] = "freed"]
  /\ wrapper' = [wrapper EXCEPT ![issued + 1] = "collected"]
  /\ UNCHANGED <<vm, conn, bus, listening, queue, kind, refs, attached, chan,
                 inbox>>

\* Slots whose pointer the program gives up while the bus is open belong to
\* pending requests, unless it has the habit of releasing finished ones.
MayRelease(r) == bus # "open" \/ attached[r] \/ May("releaseFinished")

\* sdbus/cancel: set_floating(0) takes back the reference of sd-bus, if it has
\* one, unref drops the wrapper's.  On a released wrapper it does nothing.
Cancel(r) ==
  /\ vm = "running" /\ bus # "freeing" /\ wrapper[r] = "held" /\ MayRelease(r)
  /\ LET n == IF attached[r] THEN 2 ELSE 1 IN
       IF CanDrop(r, n, queue)
         THEN /\ Drop(r, n, queue)
              /\ wrapper' = [wrapper EXCEPT ![r] = "released"]
              /\ attached' = [attached EXCEPT ![r] = FALSE]
              /\ UNCHANGED <<vm, conn, bus, listening, issued, kind, chan,
                             inbox>>
         ELSE Fault

\* The collector finalises the wrapper and frees its memory, AsyncPending.slot
\* included.  A program that keeps its slots lets this happen only when the
\* request is over.
CollectSlot(r) ==
  /\ vm = "running" /\ bus # "freeing" /\ wrapper[r] \in {"held", "released"}
  /\ MayRelease(r)
  /\ attached[r] /\ bus = "open" => May("dropPending")
  /\ IF wrapper[r] = "released"
       THEN UNCHANGED <<vm, queue, mem, refs>>
       ELSE IF CanDrop(r, 1, queue)
              THEN Drop(r, 1, queue) /\ UNCHANGED vm
              ELSE vm' = "faulted" /\ UNCHANGED <<queue, mem, refs>>
  /\ wrapper' = [wrapper EXCEPT ![r] = "collected"]
  /\ UNCHANGED <<conn, bus, listening, issued, kind, attached, chan, inbox>>

\* The program closes the channel: call-method does, on every way out of its
\* with, and a cancelled fiber leaves it with the call still pending.  Once the
\* records are freed or the connection is closed nobody writes to it any more.
CloseChannel(r) ==
  /\ vm = "running" /\ bus = "open" /\ mem[r] = "live" /\ chan[r] = "open"
  /\ attached[r] => May("closeChannel")
  /\ chan' = [chan EXCEPT ![r] = "closed"]
  /\ UNCHANGED <<vm, conn, bus, listening, issued, queue, kind, mem, refs,
                 attached, wrapper, inbox>>

\* The collector frees the channel: AsyncPending.chan is a bare pointer that keeps
\* nothing alive, so the program has to.
CollectChannel(r) ==
  /\ vm = "running" /\ bus = "open" /\ mem[r] = "live" /\ chan[r] # "collected"
  /\ attached[r] => May("dropChannel")
  /\ chan' = [chan EXCEPT ![r] = "collected"]
  /\ UNCHANGED <<vm, conn, bus, listening, issued, queue, kind, mem, refs,
                 attached, wrapper, inbox>>

--------------------------------------------------------------------------------
(* closeall_pending: every listed request is given the status, loses the       *)
(* wrapper's reference, and the list is forgotten.                             *)

ListedNow == Listed(queue, Request)

\* The loop cannot get past r: the record is freed, its channel is closed or
\* collected, the wrapper it points to is collected, or dropping the wrapper's
\* reference would free the record before `*p->slot = NULL' follows it.
Unsafe(r) ==
  \/ mem[r] = "freed"
  \/ chan[r] = "collected"
  \/ wrapper[r] = "collected"
  \/ wrapper[r] = "held" /\ refs[r] = 1
Blocks(r) == Unsafe(r) \/ chan[r] = "closed"

\* The loop goes from the newest record to the oldest, up to where it is blocked.
Blocking == {r \in ListedNow : Blocks(r)}
GoneThrough == {r \in ListedNow : \A b \in Blocking : b < r}

\* janet_channel_give raises before the wrapper is touched.
Raises == \E r \in Blocking : /\ \A b \in Blocking : b <= r
                              /\ mem[r] # "freed" /\ chan[r] = "closed"

\* A loop that drops the wrapper's reference but tells nobody (for mutation).
SilentRelease(V, s) ==
  /\ inbox' = inbox
  /\ refs' = [r \in Request |->
                IF r \in V /\ wrapper[r] = "held" THEN refs[r] - 1 ELSE refs[r]]
  /\ wrapper' = [r \in Request |-> IF r \in V THEN "released" ELSE wrapper[r]]

\* A loop that stops after the head of the list (for mutation).
ReleaseHeadOnly(V, s) ==
  LET W == {r \in V : r = queue.head} IN
  /\ inbox' = [r \in Request |-> IF r \in W THEN Append(inbox[r], s) ELSE inbox[r]]
  /\ refs' = [r \in Request |->
                IF r \in W /\ wrapper[r] = "held" THEN refs[r] - 1 ELSE refs[r]]
  /\ wrapper' = [r \in Request |-> IF r \in W THEN "released" ELSE wrapper[r]]

\* A loop that forgets to clear the wrapper's pointer (for mutation).
ReleaseWithoutClear(V, s) ==
  /\ inbox' = [r \in Request |-> IF r \in V THEN Append(inbox[r], s) ELSE inbox[r]]
  /\ refs' = [r \in Request |->
                IF r \in V /\ wrapper[r] = "held" THEN refs[r] - 1 ELSE refs[r]]
  /\ UNCHANGED wrapper

\* What the iterations over V do.
TellAndRelease(V, s) ==
  /\ inbox' = [r \in Request |-> IF r \in V THEN Append(inbox[r], s) ELSE inbox[r]]
  /\ refs' = [r \in Request |->
                IF r \in V /\ wrapper[r] = "held" THEN refs[r] - 1 ELSE refs[r]]
  /\ wrapper' = [r \in Request |-> IF r \in V THEN "released" ELSE wrapper[r]]

\* The bound of MaxInbox, for closings that are retried after an error: once at least.
RoomForStatus == \A r \in ListedNow : Len(inbox[r]) <= 1 \/ Len(inbox[r]) <= MaxInbox

\* The list is forgotten at the end of the loop; the records keep their links.
CloseAll(s) == TellAndRelease(ListedNow, s) /\ queue' = [queue EXCEPT !.head = Nil]

\* HUP or ERR on the socket: every listed request hears "error", the listener
\* ends, and everything else stays as it was.
Hangup ==
  /\ May("hangup") /\ vm = "running" /\ bus = "open" /\ listening /\ RoomForStatus
  /\ \/ /\ Blocking = {}
        /\ CloseAll("error")
        /\ listening' = FALSE
        /\ UNCHANGED <<vm, conn, bus, issued, kind, mem, attached, chan>>
     \/ /\ Raises
        /\ TellAndRelease(GoneThrough, "error")
        /\ vm' = "stopped"
        /\ UNCHANGED <<conn, bus, listening, issued, queue, kind, mem, attached,
                       chan>>
     \/ Blocking # {} /\ ~Raises /\ Fault

\* A closing that ends with the stream and forgets the sd_bus (for mutation).
CloseStreamOnly ==
  /\ vm = "running" /\ bus = "open" /\ RoomForStatus /\ listening /\ Blocking = {}
  /\ CloseAll("close")
  /\ listening' = FALSE
  /\ UNCHANGED <<vm, conn, bus, issued, kind, mem, attached, chan>>

\* sdbus/close-bus on an open connection.  Closing the stream runs the listener,
\* if there is one, with the CLOSE event; an error raised there leaves through
\* close-bus, before anything is closed.  Afterwards the sd_bus lives on while
\* messages of it do.
CloseBus ==
  /\ vm = "running" /\ bus = "open" /\ RoomForStatus
  /\ \/ /\ listening /\ Blocking = {}
        /\ CloseAll("close")
        /\ listening' = FALSE
        /\ bus' \in {"closed", "freeing"}
        /\ UNCHANGED <<vm, conn, issued, kind, mem, attached, chan>>
     \/ /\ listening /\ Raises
        /\ TellAndRelease(GoneThrough, "close")
        /\ UNCHANGED <<vm, conn, bus, listening, issued, queue, kind, mem,
                       attached, chan>>
     \/ listening /\ Blocking # {} /\ ~Raises /\ Fault
     \/ /\ ~listening
        /\ bus' \in {"closed", "freeing"}
        /\ UNCHANGED <<vm, conn, listening, issued, queue, kind, mem, refs,
                       attached, wrapper, chan, inbox>>

--------------------------------------------------------------------------------
(* Callbacks from sd-bus, and the end of the sd_bus and of the Conn *)

\* A reply handler that does not unlink the record before its wrapper lets go of
\* it (for mutation).
ReplyWithoutDequeue(r) ==
  /\ vm = "running" /\ bus = "open" /\ attached[r] /\ kind[r] = "Call"
  /\ chan[r] = "open" /\ CanDrop(r, 1, queue)
  /\ Give(r, "answer")
  /\ attached' = [attached EXCEPT ![r] = FALSE]
  /\ Drop(r, 1, queue)
  /\ UNCHANGED <<vm, conn, bus, listening, issued, kind, wrapper, chan>>

\* message_handler for the reply, the error or the timeout of a call.  sd-bus
\* then disconnects the floating slot and drops its reference.
Reply(r) ==
  /\ vm = "running" /\ bus = "open" /\ attached[r] /\ kind[r] = "Call"
  /\ LET q == DequeuePending(queue, r) IN
       \/ /\ Writable(queue, r) /\ chan[r] = "open" /\ CanDrop(r, 1, q)
          /\ Give(r, "answer")
          /\ attached' = [attached EXCEPT ![r] = FALSE]
          /\ Drop(r, 1, q)
          /\ UNCHANGED <<vm, conn, bus, listening, issued, kind, wrapper, chan>>
       \/ Writable(queue, r) /\ chan[r] = "closed" /\ Stop(q)
       \/ /\ \/ ~Writable(queue, r) \/ chan[r] = "collected"
             \/ chan[r] = "open" /\ ~CanDrop(r, 1, q)
          /\ Fault

\* message_handler for a message that a match rule selects: a signal, or a copy
\* of a method call or return, is given as :ok, a method error as :error.
MatchMessage(r) ==
  /\ vm = "running" /\ bus = "open" /\ attached[r] /\ kind[r] = "Match"
  /\ \/ /\ chan[r] = "open" /\ Len(inbox[r]) < MaxInbox
        /\ Give(r, "answer")
        /\ UNCHANGED <<vm, conn, bus, listening, issued, queue, kind, mem, refs,
                       attached, wrapper, chan>>
     \/ chan[r] = "closed" /\ Stop(queue)
     \/ chan[r] = "collected" /\ Fault

\* signal_install_handler with the error of a rejected rule.  sd-bus then
\* disconnects the floating slot; the record stays in the list unless that was
\* its last reference.
MatchRejected(r) ==
  /\ May("rejectMatch")
  /\ vm = "running" /\ bus = "open" /\ attached[r] /\ kind[r] = "Match"
  /\ \/ /\ chan[r] = "open" /\ CanDrop(r, 1, queue)
        /\ Give(r, "error")
        /\ attached' = [attached EXCEPT ![r] = FALSE]
        /\ Drop(r, 1, queue)
        /\ UNCHANGED <<vm, conn, bus, listening, issued, kind, wrapper, chan>>
     \/ chan[r] = "closed" /\ Stop(queue)
     \/ /\ chan[r] = "collected" \/ (chan[r] = "open" /\ ~CanDrop(r, 1, queue))
        /\ Fault

\* The last message that kept a closed sd_bus alive is released.
LastOwnerGone ==
  /\ vm = "running" /\ bus = "closed"
  /\ bus' = "freeing"
  /\ UNCHANGED <<vm, conn, listening, issued, queue, kind, mem, refs, attached,
                 wrapper, chan, inbox>>

\* Freeing the sd_bus disconnects the slots it still has, newest first.  It is
\* one call: nothing else happens while bus = "freeing".
DisconnectNewest ==
  /\ vm = "running" /\ bus = "freeing"
  /\ \E r \in Request :
       /\ attached[r] /\ \A p \in Request : attached[p] => p <= r
       /\ IF CanDrop(r, 1, queue)
            THEN /\ Drop(r, 1, queue)
                 /\ attached' = [attached EXCEPT ![r] = FALSE]
                 /\ UNCHANGED <<vm, conn, bus, listening, issued, kind, wrapper,
                                chan, inbox>>
            ELSE Fault

BusFreed ==
  /\ vm = "running" /\ bus = "freeing" /\ \A r \in Request : ~attached[r]
  /\ bus' = "freed"
  /\ UNCHANGED <<vm, conn, listening, issued, queue, kind, mem, refs, attached,
                 wrapper, chan, inbox>>

\* The collector frees the Conn of a closed connection.
CollectConn ==
  /\ May("dropConn") /\ vm = "running" /\ conn = "live" /\ bus \in {"closed", "freed"}
  /\ conn' = "collected"
  /\ UNCHANGED <<vm, bus, listening, issued, queue, kind, mem, refs, attached,
                 wrapper, chan, inbox>>

--------------------------------------------------------------------------------
Next ==
  \/ Submit \/ SubmitFails \/ CloseBus \/ Hangup
  \/ LastOwnerGone \/ DisconnectNewest \/ BusFreed \/ CollectConn
  \/ \E r \in Request :
       \/ Cancel(r) \/ CollectSlot(r) \/ CloseChannel(r) \/ CollectChannel(r)
       \/ Reply(r) \/ MatchMessage(r) \/ MatchRejected(r)

Spec == Init /\ [][Next]_vars

\* sd-bus answers every call, with a timeout if need be, and finishes freeing.
Fairness ==
  /\ \A r \in Request : WF_vars(Reply(r))
  /\ WF_vars(DisconnectNewest) /\ WF_vars(BusFreed)

FairSpec == Spec /\ Fairness
--------------------------------------------------------------------------------
(* Properties *)

Pending(r) == attached[r] /\ bus = "open"
IsNewest(r, S) == (r \in S /\ \A p \in S : p <= r) \/ (r = Nil /\ S = {})
IsOldest(r, S) == (r \in S /\ \A p \in S : r <= p) \/ (r = Nil /\ S = {})
PendingRequests == {r \in Request : Pending(r)}

\* Two references, no more: the wrapper's and, while the slot is attached, that of
\* sd-bus; the records of call.c live exactly as long as one of them does
\* (set_floating, unref and destroy_call_callback in call.c and slot.c).
Ownership ==
  vm = "running" =>
    \A r \in Request :
      /\ refs[r] = (IF wrapper[r] = "held" THEN 1 ELSE 0)
                   + (IF attached[r] THEN 1 ELSE 0)
      /\ mem[r] = "live" <=> refs[r] > 0

\* Every link leads to an older record forwards and to a newer one backwards,
\* whatever records have been taken out of the list twice: the loop of
\* closeall_pending always ends (async.c).
LinksOrdered ==
  /\ queue.head <= issued
  /\ \A r \in Request : queue.next[r] < r
  /\ \A r \in Request : queue.prev[r] = Nil \/ r < queue.prev[r]

\* The list of an open connection is the list of its pending requests, newest
\* first, linked both ways; that of a closed one is empty (queue_pending,
\* dequeue_pending and closeall_pending in async.c).
QueueExact ==
  vm = "running" =>
    /\ IsNewest(queue.head, PendingRequests)
    /\ \A r \in PendingRequests :
         /\ IsNewest(queue.next[r], {p \in PendingRequests : p < r})
         /\ IsOldest(queue.prev[r], {p \in PendingRequests : p > r})

\* No handler touches freed memory or panics outside a fiber (gc.janet:33).
NoFault == vm = "running"

\* In a program that gives up no finished slot, whatever it does to the slots and
\* the channels of its pending requests, the run ends only while some request is
\* pending that has lost its wrapper or its channel: never while all that have are
\* finished, cancelled or not yet made (message_handler in call.c, closeall_pending
\* in async.c, and call-method in init.janet, which forgets its slot and closes its
\* channel when its fiber is cancelled).
OnlyPendingFaults ==
  [][vm' # vm =>
       \E r \in Request :
         Pending(r) /\ (wrapper[r] = "collected" \/ chan[r] # "open")]_vars

\* Closing the connection gives "close" to the channel of every request that is
\* pending, and to no other (the docstring of call-async, call.c:136-140).
CloseTellsPending ==
  [][bus = "open" /\ bus' # "open" =>
       \A r \in Request :
         inbox'[r] = IF attached[r] THEN Append(inbox[r], "close") ELSE inbox[r]]_vars

\* The handlers implement what the functions promise.
Api == INSTANCE AsyncApi WITH
  open  <- bus = "open",
  phase <- [r \in Request |-> IF r > issued THEN "unused"
                              ELSE IF Pending(r) THEN "pending" ELSE "over"],
  sort  <- kind,
  heard <- inbox

\* Under the careful habits every handler of call.c, async.c, slot.c and bus.c is
\* a step of the promised behaviour, or invisible to the program.
ImplementsApi == Api!Spec

\* Whatever the order of replies, cancellations and the closing of the connection, the
\* channel of a call is given one status at most, and no channel is given anything
\* after "close" (message_handler in call.c, closeall_pending in async.c).
AnsweredOnce == Api!AnsweredOnce

\* A pending call hears something, a reply or "close", unless the program
\* cancels it first (message_handler in call.c, closeall_pending in async.c).
EveryCallHeard ==
  \A r \in Request :
    (kind[r] = "Call" /\ Pending(r))
      ~> (inbox[r] # << >> \/ (bus = "open" /\ wrapper[r] = "released"))

\* Once the sd_bus goes, the records of every request whose slot the program no
\* longer has are freed (destroy_call_callback in call.c).
RecordsFreed ==
  bus = "freeing" ~> \A r \in Request : mem[r] = "live" => wrapper[r] = "held"
================================================================================
