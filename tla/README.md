# TLA+ verification of janet-sdbus

janet-sdbus is a Janet module, written in C over systemd's sd-bus, that lets a
Janet program make and answer D-Bus calls without blocking Janet's event loop.
This directory specifies the parts of it that keep state, model-checks them with
TLC on small instances, and proves the main safety properties with TLAPS for
every size.  All paths below are relative to the repository; `PROJECT.json` holds
the same information in a form tools can read: runs, mutants, the map from
definitions to source lines, findings, hazards, theorems.

## 1. Inventory of the system

| Component | Source | State | Operations |
|---|---|---|---|
| Asynchronous requests | `src/call.c`, `src/common.h` | per request an `AsyncState` and an `AsyncPending`, allocated together; the slot behind it; the status given to its channel | `call-async`, `match-async`, the reply handler, the handler of a match's installation, the destroy callback |
| Pending list and socket listener | `src/async.c` | `Conn.queue`, the doubly linked list of `AsyncPending`; what the socket is registered for; the timer | `queue_pending`, `dequeue_pending`, `closeall_pending`, `process_bus`, `setevents`, `settimeout`, the two listeners |
| Slots | `src/slot.c` | a Janet value with one reference of an `sd_bus_slot` | `cancel`, the finaliser |
| Connections | `src/bus.c` | `Conn`: the `sd_bus`, two streams, the list | open, `close-bus`, `list-names`, small getters and setters, the finaliser |
| Exported objects | `src/export.c` | the vtable, one Janet environment per interface, the slot and the `ExportState` behind it | `export`, the handlers of methods and properties, the destroy callback |
| Methods and properties in Janet | `init.janet` | the value of a property; the fiber of a method; the fibers in `call-method`; a proxy's table of subscriptions | `method`, `property` and their wrappers, `call-method`, proxies |
| Messages and signatures | `src/message.c`, `src/unwrap.c` | an `sd_bus_message` with a read cursor; a cursor in a signature while writing; the context kept for error texts | `message-append`, `-read`, `-rewind`, `-dump`, `-seal`, `-send`, constructors, accessors |
| Introspection | `introspect.janet` | none | XML to tables |
| Module entry, build | `src/main.c`, `project.janet` | none | registration |

### How they interact

A fiber makes a request through `call-async` or `match-async`.  These hand the
message to sd-bus, get a *floating* slot back (sd-bus keeps a reference of its
own), wrap the slot in a Janet value, put an `AsyncPending` at the head of the
list of the `Conn`, and call `settimeout`.  From then on the request belongs to
the event loop: an event on the socket or the timer runs `process_bus`, which
calls `sd_bus_process` until there is nothing to do, and sd-bus calls back into
`message_handler`, into the handlers of exported objects, or into the destroy
callback of a slot.  A handler answers by writing to a Janet channel (which wakes
a fiber) or by running a Janet function in a new fiber, which may suspend and be
resumed by the loop long after the handler has returned.  `close-bus` closes the
streams, which runs the listener of the socket with a CLOSE event, which goes
through the list of pending requests.  Janet's collector may finalise the slot,
the channel, the message or the connection whenever the program lets go of them,
in any order.

Above this, `call-method` makes a call, forgets its slot, and waits on a channel
that it closes on every way out, a deadline included; a proxy keeps the slots of
its subscriptions in a table, by the name of the signal.

Everything runs on one thread: a handler is never interrupted.  What is hard is
the order of handlers, and who still owns what.

### What is hard, and what makes each part correct

* **Requests and the list.**  Three parties may end a request: sd-bus (reply,
  timeout, rejected rule), the program (`cancel`, forgetting the slot), and the
  closing of the connection.  Each drops some of the slot's references, and the
  last one runs the destroy callback, which removes the record from the list.
  Correct: counts always agree with the holders; the list is exactly the pending
  requests; every pending request hears its reply or `:close`, once; no handler
  follows a pointer into memory that has been freed, be it a slot, a record, a
  channel or the connection.
* **Clients of the requests.**  Correct: a fiber in `call-method` always returns
  or raises; signals stop with `:signal/unsubscribe`.
* **The pump.**  The socket is edge triggered, the timer one-shot, and work is
  put into the `sd_bus` behind the loop's back, by fibers and from inside
  handlers.  Correct: the loop never sleeps on work that nothing will wake it
  for; every message is dispatched, every queued message written, every call
  ended; `process_bus` does not panic outside a fiber without reason.
* **Exports.**  Both the Janet wrapper and the C handler report errors; functions
  may suspend; the interface may go away in between; property values come from
  the program and from clients.  Correct: a caller that waits gets an answer, and
  not both a result and an error; clients that cache a property end up with its
  value; no client can end the program; the state of an interface is freed, once.
* **Messages.**  Writers move a cursor through a signature by offsets that
  bracket matching computes, cut out the signatures of contents, and keep in one
  global context where they are.  Correct: what fits is accepted, nothing else
  is, reading gives it back, and an error names what did not fit.

The list of hazards with their lines, and the properties aimed at each, is
`hazards` in `PROJECT.json`.

## 2. Modules

| Module | What it is |
|---|---|
| `PendingList` | the linked list as operators on a record of head and links; used by `AsyncCalls` |
| `AsyncApi` | abstract specification: what the docstrings promise of requests, and a theorem about it |
| `AsyncCalls` | requests, list, slots, channels, closing, finalisers: implements `AsyncApi` |
| `AsyncProofs` | theorems about `AsyncCalls`: counts and links, the exact list, and that it implements `AsyncApi` |
| `Client` | the fibers in `call-method` and the table of a proxy, composed with `AsyncCalls` |
| `ClientProofs` | theorems about `Client`, and that it is a program of `AsyncCalls` |
| `EventPump` | event loop, socket, timer, sd-bus's queues, calls and their deadlines |
| `PumpProofs` | theorems about `EventPump` |
| `Exports` | method calls and the property of an exported interface, its clients and its slot |
| `ExportProofs` | theorems about `Exports` |
| `SignatureOffsets` | where the types in a signature end: `match`, `find_subtype`, `span_next_type`; the grammar of types |
| `MessageBody` | the append functions, the readers and the error context, over these offsets |
| `Messages`, `MCMessages` | the life of a message: appended to, sealed, read with a cursor; bounded inputs for it |
| `Recursion` | a theorem about functions that are defined by recursion on the natural numbers |
| `SignatureProofs`, `MessageProofs` | theorems about `SignatureOffsets`, and about `MessageBody` and `Messages` |

A component module gives its state, one action per operation or handler, the next
state relation, the specification with and without fairness, and then its
properties.  Operators marked "for mutation" are plausible mistakes in the code;
each property is known to fail when one of them takes the place of its original.

### AsyncCalls and PendingList

Request *n* is the *n*-th the program makes; a record is named by its request,
`Nil` is NULL.

| Model | Code |
|---|---|
| `queue` | `Conn.queue` and the `next` and `prev` of every record, those of records that have left the list included: the code never resets them |
| `mem` | the `AsyncState` and `AsyncPending`: not allocated, live, freed |
| `refs`, `attached` | the reference count of the `sd_bus_slot`; sd-bus still has it |
| `wrapper` | the Janet slot value: held, released (pointer NULL), collected |
| `inbox`, `chan` | statuses given to the channel; the channel is open, closed or collected |
| `bus`, `conn`, `listening` | the `sd_bus`, the memory of the `Conn`, the listener |
| `vm` | running; stopped by a panic outside any fiber; faulted by an access to freed memory |

`Submit` and `SubmitFails` are the two request functions; `Reply`, `MatchMessage`
and `MatchRejected` the callbacks; `Cancel`, `CollectSlot`, `CollectChannel`,
`CollectConn` the ways of letting go; `CloseBus` and `Hangup` the two users of
`closeall_pending`, whose loop is `TellAndRelease` over the records it gets
through before one stops it (`Blocks`); `LastOwnerGone`, `DisconnectNewest` and
`BusFreed` the end of the `sd_bus`, which outlives `close-bus` while messages of it
do.

An access to freed memory is undefined behaviour.  The model ends the run there
(`vm = "faulted"`) instead of guessing what follows.

What a program does with its slots and channels decides what can go wrong, so the
constant `Habits` lists the liberties it takes: `dropPending` (forget the slot of a
pending request, as `call-method` does), `releaseFinished` (cancel or forget a
finished one while the connection is open), `closeChannel` and `dropChannel` (close
or forget the channel of a pending request: `AsyncPending.chan` is a bare pointer
that keeps nothing alive), `rejectMatch`, `hangup`, `dropConn`.  The empty set is a
careful program.

### Client

`Client` extends `AsyncCalls` and decides what that leaves to the program.  `calls`
maps each fiber to the request it waits for; `CallMethod` is the call, `Return` the
end of `ev/take`, `Cancelled` a deadline.  Leaving the body of `with` closes the
channel either way, pending call or not.  `subs` is the `:signal/subscriptions` of a
proxy: `Subscribe` puts the new slot under the name whatever was there (the old
request joins `overwritten`), `Unsubscribe` cancels it.  The collector may take any
slot that is not in the table and any channel that no fiber waits on.

### EventPump

`pc` says where the pump is: asleep in the loop, in `process_bus`, in `setevents`,
in `settimeout`; `caller` whether the loop or a fiber runs it.  A step in
`process_bus` is one call of `sd_bus_process` with the handler it runs; peer,
kernel and clock move in between.  `ready` is epoll's ready list: with edge
triggering the socket is put there when data or room arrives, or when `setevents`
registers it again, and leaves it when the loop looks.  `rqueue` and `wqueue` are
sd-bus's queues, `incoming` and `sending` the socket's buffers.  What sd-bus waits for are
`Requests`: the calls of `call-async`, and the `Rules`, each the AddMatch call that
`match-async` makes.  A call has a deadline or, with the habit `noTimeout`, none: the
code passes a timeout of -1 on as the largest number there is, which sd-bus takes for
no timeout (`call.c:146`).  A rule has the default timeout of sd-bus, and `MatchAsync`
ends without the `settimeout` that `CallAsync` ends with.  Cancelling a rule sends
RemoveMatch, whether it is installed (as `MessageSend`) or not yet (`CancelRule`).  The
other habits are `blockingCall` (`list-names`), `sendWhenFull` (`message-send` or
`match-async` from a fiber when the socket is full), `closeInHandler`, `disconnect`.

The model starts where the first pump, which runs the handshake, comes to rest.
The program closes the connection here only inside a handler; `AsyncCalls` has
the other case.

### Exports

One interface with methods and a property.

| Model | Code |
|---|---|
| `running` | the program goes on: no panic below `sd_bus_process` or in `process_bus` |
| `held`, `attached`, `refs`, `state` | the Janet slot value, the lists of the `sd_bus`, the count of the slot, the `ExportState` its destroy callback frees |
| `members` | the exported table still has the method and the property that the vtable was made from |
| `phase`, `wants`, `replies` | a call is arrived, suspended, lost or over; its sender expects a reply; the messages it was sent, by the wrapper of `sdbus/method` (`Wrapped`) and by sd-bus when `method_handler` fails (`Handled`) |
| `mute` | calls whose function suspended and then raised something that is not a string |
| `flags`, `value` | of the property: writable, and at most one of `:e`, `:i`, `:r` (`Accepted` is sd-bus's check); the value in the table |
| `untold` | the program has changed the value, and nothing was sent of it since |
| `wire`, `view` | what was sent of the property to a client that caches it, and what that client knows |

`Export`, `Cancel`, `CollectSlot`, `CloseBus` and `BusFreed` are the life of the slot;
`Call`, `Refuse`, `Serve`, `Suspend` and `Resume` that of a call, whose function may end
in any of `Ends`; `SetProperty`, `GetProperty` and `Deliver` what clients do with the
property.  `ProgramSets` is the program storing a value in the table that
`sdbus/property` made, which may be one that does not fit the signature (`Misfits`); it
sends nothing, since nobody watches that table.  `Announce` is the program's own
`emit-signal`, at any time, of the value or of its invalidation.  `ReadsBack` says whether a value of the signature is
still one of it after `message-read`; it is not for arrays of bytes, as `Messages`
shows: they are written from strings and read as numbers.

A call is `lost` when its function suspends while `process_bus` runs in another
fiber's `settimeout`: `await-event` registers Janet's root fiber of the moment.

### Messages

The component is in three modules.  `SignatureOffsets` has the functions that find
the ends of types.  `find_subtype` calls itself once for each leading `a` and no
more, so it is written with the number of these, `Arrays`; `match` is the first
place where the closing brackets are one more than the opening ones, which is where
the code's depth becomes zero.  What sd-bus takes for a complete type, a dictionary
entry and a sequence of types are the constants `Types`, `Entries` and `Packs`, of
which `Grammar` assumes that each is put together from smaller ones as D-Bus
prescribes, within a set `Strings` of signatures that has every part of its members
(`Substrings`).

`MessageBody` has the append functions with their cursors, offsets and cut-out
signatures, and the readers.  A signature is a sequence of characters; `i`, `y` and
`s` stand for the thirteen basic types, which differ in the values they accept.
`append_complete_type` and `read_complete_type` call themselves for what is in a
container; a recursive function over values does not exist in TLA+ without a bound
on their depth, so `Appending[n]` and `Reading[n]` are these for values that nest *n*
deep (`Values[n]`, `Items[n]`), and the function of one level is a parameter of the
operators for the next.  `Depth`, how deep the arguments nest, is a constant that may
be any number.  The loops over arguments, members, elements and entries are one
operator, `AppendEach`; a failure keeps what has been written and tells whether a
container is left open.  Through all of them goes the error context, in which
`Reset`, `Inc`, `Enter`, `Exit` and `Free` are `dbus_errctx_reset`, `_inc`, `_set`,
`_exit` and the `janet_sfree` of a signature it points into; `TypeError` is the
error made from it.

`Messages` has the state of one message (`items`, `open`, `sealed`, the read
`cursor`, and what has been read, `got`), its operations and the properties.  The
reference that writing and reading are compared with, `ReadBack`, goes by the
grammar of types and knows no offsets; that for errors, `Components`, pairs the
types within a type with the values within a value.  `TypeShown` is the type that an
error shows for the value it quotes: the one last entered, or the argument's if no
other was.

## 3. Runs

| Run | Instance | Checks | Outcome |
|---|---|---|---|
| `careful` | `AsyncCalls`, 3 requests, no habits, fairness | `TypeOK`, `NoFault`, `AnsweredOnce`, `ImplementsApi`, `EveryCallHeard`, `RecordsFreed` | hold, 212 938 states |
| `any_program` | `AsyncCalls`, 3 requests, all habits but `dropChannel` | `Ownership`, `LinksOrdered` | hold, 5 457 348 |
| `drop_pending` | `AsyncCalls`, 2 requests, `dropPending`, `dropConn` | `NoFault` | violated |
| `client` | `Client`, 3 requests, 2 fibers, 1 name, `dropPending`, `closeChannel`, `dropChannel`, fairness | `QueueExact`, `OnlyPendingFaults`, `NoWaiterForgotten`, `CloseTellsPending`, `EveryCallMethodReturns`, `SignalsStopAtUnsubscribe` | hold, 956 907 |
| `client_call_lost` | `Client`, 2 requests, 1 fiber, `dropPending`, `releaseFinished`, fairness | `EveryCallMethodReturns` | violated |
| `pump_rests` | `EventPump`, 1 call, 1 rule, 2 arrivals, `disconnect`, fairness | `TypeOK`, `NoLostWakeup`, `OnlyDisconnectStops`, `EveryMessageHandled`, `EveryMessageSent` | hold, 160 882 |
| `pump_any` | 2 calls, 1 arrival, all habits, fairness | `NoCallStranded`, `EveryCallEnds` | hold, 225 967 |
| `pump_list_names` | 1 call, 1 rule, `blockingCall`, fairness | `EveryMessageHandled` | violated |
| `exports` | `Exports`, 1 call, 2 values, 1 misfit, fairness | `TypeOK`, `RepliesAgree`, `NoCallerSkipped`, `CacheFollows`, `OnlyProgramStops`, `StateOwned`, `EveryCallerHears`, `StateFreed` | hold, 277 140 |
| `export_program_sets` | the same with a signature that does not read back, no misfits | `ChangesReachCaches` | violated |
| `messages` | `MCMessages`: 882 signatures, 263 argument lists | `TypeOK`, `ReadsInOrder`, `AppendsWhatFits`, `ReadsBackWhatWasWritten`, `TypeErrorsNameTheMisfit` | hold, 385 161 |
| `message_types` | `MCMessages`: 2 signatures, 2 argument lists | `TypesAreShown` | violated |

`CHECK_DEADLOCK FALSE` is given where the system may really stop: after its last
request, after a panic, when everything bounded has been used up.

### What the passing runs show

* A careful program is safe: no handler touches freed memory, the list is exact,
  what it observes is what `AsyncApi` promises (each call answered at most once,
  `:close` to each pending request and to no other), every call hears something,
  and every record is freed once the `sd_bus` goes.
* A program whose fibers use `call-method` with deadlines, and which subscribes
  through proxies, keeps the list exact, and every fiber gets out of
  `call-method`, as long as the slot of a finished call is not collected while
  the connection is open.  The only other thing that ends such a program, by a
  fault or a panic, is a request that is still pending without its slot or its
  channel.  Signals stop with `:signal/unsubscribe`, with two exceptions the code
  has: a subscription whose slot another one of the same name has overwritten, and
  one whose slot an attempt to close the connection took back before it failed.
* No program, whatever it does, can bring the reference counts out of step with
  their holders, or make the list cyclic, even though records are removed from it
  twice through stale links.
* The pump rests only when it may: `setevents` and `settimeout` at the end of
  `process_bus`, and `settimeout` alone at the end of `call-async`, suffice for a
  program that makes no blocking call and no call without a timeout, and sends and
  subscribes from its fibers only when the socket takes the message at once.  A
  call's own timer counts as what wakes the loop for the call's message, and the
  timeout of `match-async`'s AddMatch call is not covered.
* Every call that has a timeout ends whatever the program does, by its timeout if
  nothing else.
* Every caller of an exported method gets an answer, unless its function suspended
  and then raised something that is not a string, or suspended while another fiber
  ran `process_bus`.  A string raised before the function suspends makes two error
  messages, one of the wrapper and one of sd-bus; `RepliesAgree` allows that and
  rules out a result followed by an error, or two results.
* Whatever the flags of a property, and whatever clients set and the program
  announces, a client that caches it does not keep a value that is no longer its own,
  unless the program changed the value and nothing was sent since.  Only a value the
  program stored itself, or a member it took out of the exported table, can end it
  through its interface, if values of the property's signature read back.
* The state of an interface lives exactly as long as its slot has a holder, and
  closing the connection lets go of it in the end.
* Portions, `:rest`, `:all`, rewinds and dumps read each item once and in order.
* Every nesting of containers in the bounded inputs is written by the right
  offsets.  An error names the first argument that does not fit, shows its type and
  quotes a value in it that does not fit where it stands, and shows the type that value
  does not fit.  Two things are left open, so that the property holds of the code
  and would hold of a corrected one: a structure may be shown in full or without
  its closing bracket, and what is shown for a key after the first of a dictionary
  within another type may be anything.

### What the violated runs show (findings)

* `client_call_lost`: the destroy callback removes from the list a record that the
  reply handler has already removed, through the links it had then (`call.c:39`).
  With a newer call pending, the head is set past that call, which never hears
  `:close`, and its fiber waits for ever: two calls in a row, a collection and a
  `close-bus` suffice.
* `drop_pending`: `closeall_pending` follows `pending->slot` into the memory of the
  Janet slot value, which nothing keeps alive (`async.c:112`).
* `pump_list_names`: messages that a blocking `list-names` reads while it waits stay
  in sd-bus's queue until something unrelated wakes the loop (`bus.c:214`).
* `export_program_sets`: the program changes a property with the flag `:e` or `:i`, for
  which `init.janet:233` promises a signal "when the underlying property value changes".
  Only the setter that clients call sends one (`export.c:196`), and a client that has
  the old value keeps it.  The run's signature is one with arrays of bytes, so that the
  property also covers the setter's signal of a value it cannot append.
* `message_types`: `span_next_type` returns one less than the length of a structure
  (`message.c:104`), and an error shows it without its closing bracket.  The second
  input is about a later key of a dictionary in a list: `append_dict_type` writes it
  without entering its type (`message.c:190`), and the error shows the type last
  entered in the value before, from text that has been freed.

`drop_pending` also lets the `Conn` be collected before its `sd_bus` is freed, after which
a destroy callback follows `state->conn` into it (`call.c:39`); the counterexample
with the collected slot is shorter.

### What the properties of the passing runs except

Where the code does not do what a reader would expect, a property of a passing run
excepts it, in its comment, and is as strong as it can be otherwise.  For each
exception there is a property without it, and an instance in which TLC violates
that; these are kept for whoever mends the code, and are not among the runs.

| Exception | Property, instance | What happens |
|---|---|---|
| a channel closed while its call is pending | `NoFault`, `ClientDeadline.cfg` | a deadline cancels a fiber in `call-method`; the reply finds the closed channel and raises outside any fiber (`call.c:98`) |
| rules that are rejected | `NoFault`, `AsyncRejected.cfg` | the record of the rule stays in the list when sd-bus drops the slot; `closeall_pending` frees it under itself (`async.c:113`) |
| an overwritten subscription | `UnsubscribedIsSilent`, `ClientOverwritten.cfg` | subscribing twice to a signal, as `test/export.janet:139` does, puts the new slot over the old one, which nothing can cancel any more (`init.janet:143`) |
| a closing that fails | `HeardIsKept`, `ClientFailedClose.cfg` | it has told some subscriptions `:close` and taken their slots back; they stay installed, and unsubscribing cancels nothing (`async.c:110`) |
| sending into a full socket | `EveryMessageSent`, `PumpSendWhenFull.cfg` | nobody registers the socket for writing (`message.c:599`) |
| calling into a full socket | `QueuedIsWatched`, `PumpCallWhenFull.cfg` | only the timer is set: the call is written when it has timed out (`call.c:164`) |
| the timeout of AddMatch | `EveryRuleEnds`, `PumpMatchAsync.cfg` | `match-async` does not set the timer, and the channel is never told (`call.c:188`) |
| closing in a handler | `OnlyDisconnectStops`, `PumpCloseInHandler.cfg` | a method that closes its own connection returns into `process_bus`, whose next `sd_bus_process` fails and panics outside any fiber (`async.c:14`) |
| a suspended function that raises something not a string | `AllErrorsPassed`, `ExportMute.cfg` | no error message can be made of it, and the caller hears nothing (`init.janet:261`), while `docs/index.md:250` promises that "any errors raised" are passed on |
| a function that suspends below `call-async` | `SuspendedFunctionsAnswer`, `ExportLost.cfg` | its event goes to the fiber that called, which leaves `call-method` with it, and the function is never resumed (`async.c:50`) |
| signatures that do not read back | `OnlyProgramStops`, `ExportBytes.cfg` | a client sets a property of bytes: the numbers that were read cannot be appended, and the setter's signal, or the next reading, ends the program (`export.c:198`) |

### Bounds

`MaxRequests` = 3: one finished record with stale links and a newer and an older
pending one are all that a removal can concern, and the violations of
`client_call_lost` and `drop_pending` need no more than two.  Two fibers, of which
one may end its call and make another, and one name, subscribed to twice, share
the three requests of `client`.  `MaxInbox` limits messages to subscriptions (1,
and 0 where the messages do not matter, since they change nothing but the inbox)
and retries of a closing that raised, of which there is always one.  `any_program` leaves `dropChannel` out,
because a collected channel only ends runs that a closed one ends as well; the
theorems cover it.
`MaxQueue` = `Room` = 1 makes each of sd-bus's write queue and the socket's buffer
empty or full; two requests and `MaxClock` = 2 give two deadlines, equal or not, the
earlier of which may be answered or cancelled: a call and a rule in `pump_rests`, which
is about what the different requests leave behind, two calls in `pump_any`, which is
about their deadlines; `MaxArrivals` = 2 lets a message
arrive while another is queued or handled (1 in `pump_any`).
`MaxWire` = 2 lets a reply and a signal be under way together (1 in
`export_program_sets`, where one is enough);
two values and one misfit are what a comparison can tell apart.  Calls of methods touch
nothing of each other, so `exports` has one; the theorems have any number.
Each message of `Messages` is appended to once, as the library does; signatures
nest two levels everywhere and three in some places, and every one of them also
occurs with any one character removed.  Their parts satisfy `Grammar` and
`Substrings`, which TLC evaluates.  `MaxByte` is 1 so that the numbers 1
and 2 lie on either side of the limit of a byte.  `message_types` has one input for each
of the two ways a type is shown wrongly; the second needs values that nest three deep.

### Fairness

* `AsyncCalls`: weak fairness of `Reply` for each call (sd-bus gives every call a
  timeout and reports it as a reply; `EventPump` shows that the pump gets there)
  and of the two steps by which a freed `sd_bus` drops its slots, which are one
  function call.  None for anything the program or the collector does.
* `Client`: the same, and weak fairness of `Return` for each fiber: the event loop
  resumes a fiber whose channel has something.  None for deadlines, which may
  never come.
* `EventPump`: weak fairness of the socket and timer events (`epoll_wait` returns
  what is ready), of the pump (a handler runs to its end), of `PeerReads` and of
  `Tick`.  None for arrivals, sends, calls or the disconnect.
  The counterexample of `pump_list_names` is under the same fairness: peer, clock and
  loop all go on, and nothing wakes the loop.
* `Exports`: weak fairness, per call, of dispatch (which `EventPump` shows) and of
  `Resume`, an assumption on the program: its functions end.  For `StateFreed`, weak
  fairness of `BusFreed`: the collector gets to the last message of a closed
  connection.

## 4. Theorems

Proofs are in the modules named `...Proofs`, in `AsyncApi` and in `Recursion`; each
rests only on the assumption `Parameters` of its component, for messages also on
`Grammar` and `Substrings`, and on what is said here.  *Forgetful at most* means
no habits but `dropPending`, `closeChannel` and `dropChannel`.

| Theorem | Says |
|---|---|
| `TypeCorrect`, `OwnershipHolds`, `LinksStayOrdered` (`AsyncProofs`) | for every number of requests and all habits: types, reference counts, acyclic links |
| `QueueStaysExact` | forgetful at most: `QueueExact` |
| `OnlyPendingFaultsHolds` | forgetful at most: `OnlyPendingFaults` |
| `CarefulProgramsDoNotFault` | without habits, `NoFault` |
| `CloseTellsPendingHolds` | forgetful at most: `CloseTellsPending` |
| `ImplementsApiHolds` | with no habits but `dropPending` and `dropChannel`, `ImplementsApi`: `AsyncCalls` implements `AsyncApi` |
| `PromisesAnswerOnce` (`AsyncApi`), `AnsweredOnceHolds` | what `AsyncApi` promises answers a call once, so `AsyncCalls` does |
| `ClientsArePrograms` (`ClientProofs`) | `ClientSpec => Spec`: for any number of fibers and names, what is proved of requests holds of clients |
| `ClientOnlyPendingFaults` | a client that is forgetful at most: `OnlyPendingFaults` |
| `SignalsStopAtUnsubscribeHolds` | a client that is forgetful at most: `SignalsStopAtUnsubscribe`, a subscription hears signals only while the table has its slot, unless it was overwritten there or told `:close` by a closing that failed |
| `ClientListAndClose` | a client that is forgetful at most: `QueueExact` and `CloseTellsPending` |
| `NoWaiterIsForgotten` | a client that is forgetful at most: `NoWaiterForgotten` |
| `PumpTypeCorrect` (`PumpProofs`) | types, all habits |
| `OnlyDisconnectStopsHolds` | without `closeInHandler`, `OnlyDisconnectStops` |
| `NoLostWakeupHolds` | with no habit but `disconnect`, `NoLostWakeup`, for any number of calls and rules |
| `NoCallIsStranded` | all habits: `NoCallStranded`, of calls that have a deadline |
| `ExportTypeCorrect`, `RepliesAgreeHolds`, `CacheFollowsHolds`, `StateOwnedHolds` (`ExportProofs`) | for all values, signatures, calls and lengths: types, `RepliesAgree`, `StateOwned`, and `CacheFollows`: caches follow what clients set and the program announces, not what the program changes silently |
| `NoCallerIsSkipped` | for any number of calls: `NoCallerSkipped`, which spares suspended functions that raise something not a string |
| `OnlyProgramStopsHolds` | for signatures that read back (`ReadsBack`), `OnlyProgramStops` |
| `OffsetsFindTypes` (`SignatureProofs`) | wherever a complete type stands in any signature: what `match`, `find_subtype` and `span_next_type` give at its first character, and that what is cut out for its contents are the contents' types |
| `MessageTypeCorrect`, `ReadsAreInOrder` (`MessageProofs`) | for all messages: the cursor stays within the message, `ReadsInOrder` |
| `AppendTakesWhatFits` | for every signature and arguments of any depth: `AppendsWhatFits` |
| `MessagesReadBack` | for every signature, arguments of any depth and any reads: `ReadsBackWhatWasWritten` |
| `TypeErrorsAreRight` | for every signature and arguments of any depth: `TypeErrorsNameTheMisfit`, with types up to a closing bracket, and of a key after the first of a dictionary within another type only that it is quoted and does not fit |
| `Recursion` (`Recursion`) | a function defined by recursion on the natural numbers satisfies its equation |

**AsyncProofs, counts and links.**  `Ownership` alone is not inductive: a step on a request needs to
know that requests not yet made hold nothing (`Fresh`), and typing.  The invariant
`IInv` is `TypeOK`, `Fresh`, `Ownership` and `LinksOrdered`.  Links are kept
ordered by both list operations even on a record that is not in the list, because
a removal only ever joins neighbours of which one is older and the other newer
than the record: this lemma about `DequeuePending` is why removing twice
corrupts the list without making it cyclic.

**AsyncProofs, the list.**  The list is exact when its head is the newest pending
request and each link leads to the neighbour in the order of numbers (`Holds`).
Lemmas show that queueing a newer record and removing a member keep this for the
larger and smaller set; `DequeueTwice` shows that a removal repeated at once, as
when the reply of a forgotten call runs both `message_handler` and the destroy
callback, changes nothing more.  Without `releaseFinished` no other repetition
meets a list that is not empty.  `LInv` adds that an open connection is listened
to; `CInv` that the `Conn` lives.  From these, every step that ends the run is
shown to be over a pending request that is `Lost`: without its wrapper or its
channel.  With no habits `KeptSlots`, that none is lost, rules that out as well.

**AsyncProofs, closing and the refinement.**  That `closeall_pending` tells every pending request cannot be
proved by induction over the list, which the provers do not have.  What the loop
gets through before it is stopped is instead the intersection of the sets that
contain the head and, with each record it passes, the next one.  If a pending
request were left out, take the newest of those; it is not the head, and the one
before it was passed, so the exact list leads to it as well.  That a set of requests
has a newest follows from the well-foundedness of the subsets of a finite set, which
the library states without an operator parameter.

The refinement is shown action by action: what is abstract of a request (`phase`,
`heard`) changes as in one action of `AsyncApi`, or not at all.  It needs the exact
list, for `CloseBus` and `Hangup`, and `Unclosed`, that no channel of a pending request
is closed, for the handlers.  Hence its hypothesis: `closeChannel` is excluded because
closing a pending channel lets `closeall_pending` stop half way, which no action of
`AsyncApi` does, and `releaseFinished` because it makes the list inexact.  That a
call is answered once is proved of `AsyncApi`, where it takes a page, and holds of
`AsyncCalls` by the refinement.

**ClientProofs.**  Every step of a client is a step of `AsyncCalls` or leaves its
variables alone, so the theorems above carry over.  `SignalsStopAtUnsubscribe`
needs the table and the slots together: `KInv` says that what the table has was
made and not collected, and that each pending subscription is in the table, was
overwritten in it, or was told `:close` (`Accounted`).  The last two are exceptions of
the property as well: the code lets such subscriptions go on.  `NoWaiterForgotten` is what
`EveryCallMethodReturns` rests on: with it a fiber that waits has something to wait
for, and only the fairness of replies and of the loop is missing.  Its invariant
`WInv` adds that what a fiber waits for is a call that was made, that what the table
has is a subscription that was made, and that a request not yet made has its channel.

**PumpProofs.**  `EndInv`: sd-bus leaves its running state only when the peer has
gone, and has ended all calls when it is closed.  `NoLostWakeup` speaks of sleep
only and is not inductive.  `WakeInv` says, at every `pc`, that nothing is queued
and the socket is registered for reading (`ReadsRegistered`); that from
`setevents` on whatever can be read has the socket ready (`ReadWakes`) and what
waits to be written has the socket registered, the timer set, a deadline for
`settimeout` to arm it with, or a peer that has gone (`WriteWakes`); that the timer covers
every deadline of a call, and that every request has one (`TimerCovers`); and that only the loop runs `process_bus`, so that
its failure never leaves the loop asleep (`LoopRunsPump`).  `NoCallStranded` is the safe
part of `EveryCallEnds` and holds of every program.  With `TypeOK` it is inductive: whatever
else happens, the pump and `call-async` go to sleep through `settimeout`, which arms
the timer for the earliest deadline there is, and what runs while the loop sleeps
leaves the timer alone and adds no call that has a deadline.

**ExportProofs.**  Three invariants that touch different variables, each kept by
every step on its own.  `MethodInv` is `RepliesAgree` with the types it needs: what
the wrapper and the handler send for one end is decided at once.  `CacheInv` carries
`CacheFollows`: the last message on the wire, or the view if there is none, is the
value or an invalidation, unless the value is `untold`; whatever sends something sends
the value of the moment, or its invalidation, and ends that.  `SlotInv` adds to `StateOwned` that an interface whose
slot the program has is attached while the connection is open, so that `Cancel`
drops as many references as there are.  `SkipInv` is `NoCallerSkipped` with the fact
that a function recorded in `mute` has ended.  `StopInv` is `OnlyProgramStops` and that,
with `ReadsBack`, every value stored is one that fits or one of the program's.

**SignatureProofs.**  A part
of a signature is a `Window`; a window is `Balanced` for a pair of brackets if they
occur equally often and no prefix has more closing ones.  `CountJoin` and
`BalancedJoin` put windows side by side, `BalancedWrap` puts brackets around one, and
`MatchEnds` says that `match` finds the bracket after a balanced window, whatever
comes later.  `GrammarPaired` (every type, entry and sequence is balanced for both
kinds) and `SubtypeEnds` (`find_subtype` ends with the type) are proved on the
shortest window for which they would fail, whose parts are shorter: the
well-founded order takes the place of an induction over types.  Two types that
start at one place end at one place (`OneTypeStarts`), so the reference may take any that
the grammar allows; and where no type stands, the offsets still stay
within the string (`SubtypeInside`).  The braces are named `EntryOpen` and
`EntryClose` because the translation to the SMT solver does not accept a brace in a
string.

**Recursion.**  The library's theorems about recursive functions take an operator as
a parameter, which the provers cannot instantiate.  `Recursion` is a module with the
step of the recursion as its constant operator instead: an instance of it with
`AppendStep` for the step makes its theorem that of `Appending`, and so for the other
recursive functions.  The theorem is proved by the least number at which two partial
functions would differ, or at which there would be none.

**MessageProofs.**  The argument goes up from the recursive functions.  `LoopRight`
is the invariant of the loops: as long as there is no error, each item written is one
that reads back as its value does, and, where the loop takes its types from the
signature, the cursor stands after the end of as many types as values were taken;
after an error, the value it stopped at fits nothing.  It is kept by each value whose own
result is `Right` (`TypesRight`, `ElementsRight`, `EntriesRight`), and gives what a
container needs at its end (`PackDone`, `ElementsDone`, `EntriesDone`).  `Right` says
of `append_complete_type` that it leaves the cursor at the end of a complete type and has
written an item that reads back as the reference says, or fails and no complete
type at the cursor fits the value.  It is shown for each kind of type from `OffsetsFindTypes`
and for the level below (`BasicCase`, `VariantCase`, `StructCase`, `BytesCase`,
`ElementsCase`, `DictCase`), so there is no least depth at which it fails
(`AllRight`).  `DataRight` is the same of `append_data`.  The invariant of the
specification, `BodyInv`, is `TypeOK`, `ReadsInOrder`, `AppendsWhatFits`, that nothing is
read before the message is sealed, and that the items read back as the arguments
written; `ReadsBackWhatWasWritten` follows, since what was read is a prefix of it
(`BodyReadsBack`).

`TypeErrorsNameTheMisfit` goes the same way a second time, for the context.  `Inside`
says of the code for one type, in a context `Entered` for it, that a success leaves the
argument's number, the depth and the outermost type as they were (`Keeps`: not the type
last entered, which a value before may have replaced), and that a type error is `Blaming`
a component of the value.  `Named` is the same of `append_complete_type`, which enters
and leaves (`ExitNamed`); that the type it enters is the one that stands at the cursor is
`OffsetsFindTypes` again (`SpanShows`), and where none stands the error is of another
kind (`StructTyped`, `ArrayTyped`).  A part's blame is the whole's (`BlamesPart`);
the one place where the type last entered may be stale is a key after a value, and only if the dictionary
stands within another type; `KeyNamed` shows that the type is right in every other
case.  The proofs work with the text the code shows, `Cut`, a structure without its
bracket; `CutIsShown` puts it among the texts that the property admits.  `ArgsNamed` is the invariant of
the loop over the arguments: as many were counted as were taken.

**Only model-checked.**  Liveness (`EveryCallHeard`, `RecordsFreed`,
`EveryCallMethodReturns`, `EveryMessageHandled`, `EveryMessageSent`, `EveryCallEnds`,
`EveryCallerHears`, `StateFreed`), which needs fairness and ENABLED.  Every safety
property of a passing run is stated by a theorem.

## 5. Abstractions and what is not modelled

* sd-bus, Janet's loop and collector, epoll and the peer are modelled from how
  the sources use them, and marked external in the map.
* In `AsyncCalls` a reply or a match may follow `Submit` immediately (the
  `settimeout` at its end may dispatch); a rule may be rejected at any time while
  it is attached; each request has a channel of its own.  A delivered message is "answer" whether it is a result or an error.
  HUP may be reported at any time, although READ comes first in practice: more
  behaviours than the code has, never fewer.
* A panic below `sd_bus_process` ends the program in `AsyncCalls` (`Stop`).  Where the
  dispatch runs in the `settimeout` of a `call-async`, the fiber that called can catch it;
  sd-bus, left in the middle of a dispatch, refuses every later `sd_bus_process`, and the
  next one, in the event loop, ends the program.  That respite is left out.
* `Client` has neither HUP nor rejected rules, which `any_program` has; what its
  fibers do between calls is not part of it.
* An open connection that the program forgets may be collected, with its timer
  still set (`bus.c:30`).  The docstrings rule it out ("must be explicitly closed",
  `bus.c:98`), and the models collect closed connections only.
* `list-names` is one step; its own timeout is left out.  The first pump of a
  connection, which runs the handshake, is where `EventPump` starts.
* In `Exports` a member that is no longer in the table ends the program, the mildest
  of what reading the missing field may do.  `GetAll`, which reads each property
  like Get, the flag `:x` and signals other than PropertiesChanged are left out.
* The checks of `create_vtable` raise before anything is registered.
* Header fields, with the constructors and accessors that write and read them,
  `message-unref`, and the duplication of file descriptors are left out of
  `Messages`, and so are the limits that sd-bus sets on the length and the nesting of a
  signature, which the library does not check either; of the texts of errors only what they name is modelled.
  Left out of `AppendBasic` as well are the errors over a basic value that are not about
  its kind or range: a string, object path or signature that sd-bus refuses
  (`message.c:331`), and a file or stream that is closed (`unwrap.c:226-236`).
* Introspection, module registration, build, docs and examples keep no state that
  the properties are about.

## 6. Plan

The modules of the first plan are written, and every safety property of a passing
run is proved.  What is left, in the order of importance:

1. The first pump of a connection, with the handshake, in `EventPump`, and fibers as
   actors there, for the pump that runs in `settimeout`; then `WakeInv` extended to them.
2. Header fields and `message-unref` in `Messages`.
3. The safe parts of the remaining liveness properties, where they say something a
   step can violate: for `RecordsFreed`, that a record outlives the `sd_bus` only while
   the program holds its slot or one of the steps that free the `sd_bus` is to come.
4. The property handlers of `Exports` for `GetAll` and the flag `:x`.
