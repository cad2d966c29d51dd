--------------------------------- MODULE Exports ---------------------------------
(* An interface exported with sdbus/export (src/src/export.c): how its method   *)
(* calls are answered, by method_handler and by the wrapper that sdbus/method   *)
(* puts around the program's function (method-wrapper and send-error in         *)
(* src/init.janet); what a client that caches its property learns of its        *)
(* changes: of those that clients make from the setters, of the program's own   *)
(* only what the program announces itself with emit-signal (property_getter,    *)
(* the property setters, property-setter); and how long the memory behind the   *)
(* interface lives.                                                             *)
(*                                                                              *)
(* The function of a method runs in a fiber of its own.  It may end inside      *)
(* method_handler, whose caller sd-bus answers a failure with an error message, *)
(* or suspend, and end when the event loop resumes it.  The handlers look the   *)
(* members up in the table that was exported, which remains the program's.      *)
EXTENDS Integers, Sequences

CONSTANTS
  Calls,     \* method calls clients may make
  Values,    \* values of the property that fit its signature
  Misfits,   \* values that do not, of those the program may store
  ReadsBack, \* what message-read makes of a value fits its signature again: not
             \* so with arrays of bytes, which are read as arrays of numbers and
             \* appended from strings and buffers (Messages)
  Unknown,   \* what a client knows of the property when it was invalidated
  MaxWire    \* bound: messages on their way to the client with the cache

\* How the program's functions may end.
Ends ==
  { "fits",            \* with a result that fits the method's signature
    "misfits",         \* with one that does not: message-append raises a string
    "raisesString",    \* by raising a string
    "raisesOther" }    \* by raising anything else: a keyword, a table

\* The flags of a property that matter here: writable, emits the value, emits
\* the invalidation, constant.
Flags == {"w", "e", "i", "r"}

\* A type that is read as something else than it is written from (for mutation).
ReadOther(v) == << v >>

\* message-read, of an argument that sd-bus found to have the property's type.
Read(v) == IF ReadsBack THEN v ELSE << v >>

Stored == Values \cup Misfits \cup {Read(v) : v \in Values}

ASSUME Parameters ==
  /\ Unknown \notin Values /\ Values \cap Misfits = {}
  /\ ReadsBack \in BOOLEAN
  /\ ~ReadsBack => \A v \in Values : << v >> \notin Values \cup Misfits
  /\ MaxWire \in Nat

VARIABLES
  running,  \* the program goes on
  bus,      \* open or closed
  held,     \* the program has the slot of the interface
  attached, \* the slot is in the lists of the sd_bus
  refs,     \* references to the slot
  state,    \* the ExportState: live, or none any more or yet
  members,  \* the exported table still has its members
  phase,    \* of each call: unmade, arrived, suspended, lost or over
  wants,    \* of each call: its sender expects a reply
  replies,  \* to each call, in the order they were sent
  mute,     \* calls whose function suspended, then raised something not a string
  flags,    \* of the property
  value,    \* of the property
  untold,   \* the program has changed the value, and nothing was sent of it since
  wire,     \* what was sent to the client with the cache, of the property
  view      \* what that client knows of the property

slot == <<held, attached, refs, state>>
methods == <<phase, wants, replies, mute>>
property == <<flags, value, untold, wire, view>>
vars == <<running, bus, slot, members, methods, property>>

TypeOK ==
  /\ running \in BOOLEAN
  /\ bus \in {"open", "closed"}
  /\ held \in BOOLEAN /\ attached \in BOOLEAN
  /\ refs \in 0..2 /\ state \in {"none", "live"}
  /\ members \in BOOLEAN
  /\ phase \in [Calls -> {"unmade", "arrived", "suspended", "lost", "over"}]
  /\ wants \in [Calls -> BOOLEAN]
  /\ replies \in [Calls -> Seq({"return", "error"})]
  /\ mute \subseteq Calls
  /\ flags \subseteq Flags
  /\ value \in Stored /\ untold \in BOOLEAN
  /\ wire \in Seq(Values \cup {Unknown})
  /\ view \in Values \cup {Unknown}

Init ==
  /\ running = TRUE /\ bus = "open"
  /\ held = FALSE /\ attached = FALSE /\ refs = 0 /\ state = "none"
  /\ members = TRUE
  /\ phase = [c \in Calls |-> "unmade"]
  /\ wants = [c \in Calls |-> FALSE]
  /\ replies = [c \in Calls |-> << >>]
  /\ mute = {}
  /\ flags \in SUBSET Flags
  /\ value \in Values /\ untold = FALSE
  /\ wire = << >> /\ view = Unknown

--------------------------------------------------------------------------------
(* The interface *)

\* sd-bus finds the interface; its handlers find the member.
Exported == bus = "open" /\ attached
Found == Exported /\ members

\* What sd-bus accepts: at most one of the ways to treat changes, and no constant
\* that can be written.
Accepted == \E f \in {"e", "i", "r"} : flags \subseteq {"w", f} /\ flags # {"w", "r"}

\* sdbus/export; one that fails has freed its state by the time it raises, and
\* changes nothing.
Export ==
  /\ running /\ bus = "open" /\ ~attached /\ Accepted
  /\ held' = TRUE /\ attached' = TRUE
  /\ refs' = 2 /\ state' = "live"
  /\ UNCHANGED <<running, bus, members, methods, property>>

\* A slot without its destroy callback (for mutation).
UnrefOnly(n) == refs' = refs - n /\ state' = state

\* With the last reference to the slot, destroy_export_callback frees the state.
Unref(n) ==
  /\ refs' = refs - n
  /\ state' = IF refs = n THEN "none" ELSE state

\* A cancellation that ends the floating and keeps its reference (for mutation).
CancelWithoutUnref ==
  /\ running /\ held
  /\ held' = FALSE /\ attached' = FALSE
  /\ refs' = 1 /\ state' = state
  /\ UNCHANGED <<running, bus, members, methods, property>>

\* sdbus/cancel: a slot that floats no more leaves the sd_bus with its last
\* reference.  One whose sd_bus is gone has the program's reference only.
Cancel ==
  /\ running /\ held
  /\ held' = FALSE /\ attached' = FALSE
  /\ Unref(IF attached THEN 2 ELSE 1)
  /\ UNCHANGED <<running, bus, members, methods, property>>

\* The slot is floating: the interface stays exported without the program's.
CollectSlot ==
  /\ running /\ held
  /\ held' = FALSE /\ Unref(1)
  /\ UNCHANGED <<running, bus, attached, members, methods, property>>

CloseBus ==
  /\ running /\ bus = "open"
  /\ bus' = "closed"
  /\ UNCHANGED <<running, slot, members, methods, property>>

\* A closed sd_bus is freed, and lets go of its slots, when the last message of it
\* is collected; the fiber of a suspended function has one.
BusFreed ==
  /\ running /\ bus = "closed" /\ attached
  /\ \A c \in Calls : phase[c] # "suspended"
  /\ attached' = FALSE /\ Unref(1)
  /\ UNCHANGED <<running, bus, held, members, methods, property>>

\* The program takes the members out of the table it exported.
RemoveMembers ==
  /\ running /\ members
  /\ members' = FALSE
  /\ UNCHANGED <<running, bus, slot, methods, property>>

\* A handler reads the field of a member that is not there: what follows is
\* undefined, and at best a panic below sd_bus_process.
Missing ==
  /\ running /\ Exported /\ ~members
  /\ running' = FALSE
  /\ UNCHANGED <<bus, slot, members, methods, property>>

--------------------------------------------------------------------------------
(* Methods *)

\* A wrapper that sends its reply before it knows that the result fits (for
\* mutation).
WrappedEarly(end) ==
  CASE end = "fits" -> << "return" >>
    [] end = "misfits" -> << "return", "error" >>
    [] end = "raisesString" -> << "error" >>
    [] end = "raisesOther" -> << >>

\* One that leaves every error to method_handler (for mutation).
WrappedNever(end) == IF end = "fits" THEN << "return" >> ELSE << >>

\* What the wrapper sends: the reply once the result has been appended to it, or the
\* error, if it is a string.
Wrapped(end) ==
  CASE end = "fits" -> << "return" >>
    [] end \in {"misfits", "raisesString"} -> << "error" >>
    [] end = "raisesOther" -> << >>

\* What sd-bus sends for method_handler: the wrapper raises its error again, be it
\* the function's or that of message-new-method-error.
Handled(end) == IF end = "fits" THEN << >> ELSE << "error" >>

\* Sending fails on a closed sd_bus, and the errors of that failure too.
Sent(c, messages) ==
  replies' = IF bus = "open" /\ wants[c]
             THEN [replies EXCEPT ![c] = @ \o messages] ELSE replies

\* A client makes the call, and may declare that it expects no reply.
Call(c) ==
  /\ running /\ bus = "open" /\ phase[c] = "unmade"
  /\ phase' = [phase EXCEPT ![c] = "arrived"]
  /\ \E b \in BOOLEAN : wants' = [wants EXCEPT ![c] = b]
  /\ UNCHANGED <<running, bus, slot, members, replies, mute, property>>

\* sd-bus refuses the call: the interface is not exported (any more).
Refuse(c) ==
  /\ running /\ bus = "open" /\ phase[c] = "arrived" /\ ~Exported
  /\ phase' = [phase EXCEPT ![c] = "over"]
  /\ Sent(c, << "error" >>)
  /\ UNCHANGED <<running, bus, slot, members, wants, mute, property>>

\* method_handler, the function ends inside it
Serve(c) ==
  /\ running /\ Found /\ phase[c] = "arrived"
  /\ phase' = [phase EXCEPT ![c] = "over"]
  /\ \E end \in Ends : Sent(c, Wrapped(end) \o Handled(end))
  /\ UNCHANGED <<running, bus, slot, members, wants, mute, property>>

\* method_handler of a method that is not in the table
NoMethod(c) == phase[c] = "arrived" /\ Missing

\* method_handler, the function yields to the event loop, in the name of Janet's
\* root fiber: its own, if process_bus runs in the event loop.  When it runs in
\* the settimeout of a fiber that calls call-async, with messages queued by a
\* blocking call, that fiber gets the function's event, and nothing resumes the
\* function.
Suspend(c) ==
  /\ running /\ Found /\ phase[c] = "arrived"
  /\ \E p \in {"suspended", "lost"} : phase' = [phase EXCEPT ![c] = p]
  /\ UNCHANGED <<running, bus, slot, members, wants, replies, mute, property>>

\* The event loop resumes the function, which ends, whatever has become of the
\* interface and of the connection.
Resume(c) ==
  /\ running /\ phase[c] = "suspended"
  /\ phase' = [phase EXCEPT ![c] = "over"]
  /\ \E end \in Ends :
       /\ Sent(c, Wrapped(end))
       /\ mute' = IF end = "raisesOther" THEN mute \cup {c} ELSE mute
  /\ UNCHANGED <<running, bus, slot, members, wants, property>>

--------------------------------------------------------------------------------
(* The property *)

Emits == flags \cap {"e", "i"} # {}

\* property-setter returns the value if it differs and nil otherwise.
Differs(v) == v # value

\* A PropertiesChanged signal has the value, or its invalidation, as the flags say.
Signalled(v) == Append(wire, IF "e" \in flags THEN v ELSE Unknown)

\* A setter that stores the value before it compares (for mutation).
SetPropertyStoreFirst ==
  /\ running /\ Found /\ "w" \in flags /\ Len(wire) < MaxWire
  /\ \E v \in Values : value' = Read(v)
  /\ UNCHANGED <<running, untold, wire, bus, slot, members, methods, flags, view>>

\* One that stores the nil it got when it could not read the value (for mutation).
SetPropertyUnread ==
  /\ running /\ Found /\ "w" \in flags /\ Len(wire) < MaxWire
  /\ value' = Unknown
  /\ UNCHANGED <<running, untold, wire, bus, slot, members, methods, flags, view>>

\* A client sets the property, with an argument of its type: sd-bus refuses others.
\* The signal that carries the value calls the getter for it; if what was read does
\* not fit, property_setter_with_signal panics below sd_bus_process.
SetProperty ==
  /\ running /\ Found /\ "w" \in flags /\ Len(wire) < MaxWire
  /\ \E v \in Values :
       /\ value' = Read(v)
       /\ IF Differs(Read(v)) /\ Emits
            THEN IF "e" \in flags /\ Read(v) \notin Values
                   THEN running' = FALSE /\ UNCHANGED <<untold, wire>>
                   ELSE running' = running /\ untold' = FALSE /\ wire' = Signalled(v)
            ELSE UNCHANGED <<running, untold, wire>>
  /\ UNCHANGED <<bus, slot, members, methods, flags, view>>

\* The program stores a value in the table that sdbus/property made, one that does
\* not fit or of a constant property included.  Nobody watches that table: no signal.
ProgramSets ==
  /\ running
  /\ \E v \in Values \cup Misfits :
       value' = v /\ untold' = (untold \/ v # value)
  /\ UNCHANGED <<running, bus, slot, members, methods, flags, wire, view>>

\* The program sends a PropertiesChanged signal of its own with emit-signal, with the
\* value, which has to fit for message-append to take it, or with its invalidation.
Announce ==
  /\ running /\ bus = "open" /\ Len(wire) < MaxWire /\ value \in Values
  /\ untold' = FALSE
  /\ \E m \in {value, Unknown} : wire' = Append(wire, m)
  /\ UNCHANGED <<running, bus, slot, members, methods, flags, value, view>>

\* The client with the cache reads a property it does not know.  property-wrapper
\* makes a value of the error of a getter, so that property_getter reports success
\* for a reply that is not complete; sd_bus_process fails on it.
GetProperty ==
  /\ running /\ Found /\ Len(wire) < MaxWire /\ view = Unknown
  /\ running' = (value \in Values)
  /\ IF value \in Values THEN wire' = Append(wire, value) /\ untold' = FALSE
                        ELSE UNCHANGED <<wire, untold>>
  /\ UNCHANGED <<bus, slot, members, methods, flags, value, view>>

\* The getter or the setter of a property that is not in the table.
NoProperty == ("w" \in flags \/ view = Unknown) /\ Missing

\* The client gets a reply or a PropertiesChanged signal.
Deliver ==
  /\ wire # << >>
  /\ view' = Head(wire)
  /\ wire' = Tail(wire)
  /\ UNCHANGED <<running, bus, slot, members, methods, flags, value, untold>>

--------------------------------------------------------------------------------
Next ==
  \/ Export \/ Cancel \/ CollectSlot \/ CloseBus \/ BusFreed \/ RemoveMembers
  \/ \E c \in Calls : \/ Call(c) \/ Refuse(c) \/ Serve(c) \/ NoMethod(c)
                      \/ Suspend(c) \/ Resume(c)
  \/ SetProperty \/ ProgramSets \/ Announce \/ GetProperty \/ NoProperty \/ Deliver

Spec == Init /\ [][Next]_vars

\* What arrives is dispatched (EventPump), the functions end, and the collector
\* finds the messages that are left of a closed connection.
Fairness ==
  /\ \A c \in Calls :
       /\ WF_vars(Refuse(c) \/ Serve(c) \/ NoMethod(c) \/ Suspend(c))
       /\ WF_vars(Resume(c))
  /\ WF_vars(BusFreed)

FairSpec == Spec /\ Fairness
--------------------------------------------------------------------------------
(* Properties *)

\* Whoever wants a reply gets one, a removed interface and a failing function
\* included: "Any errors raised by the Janet function will be passed as D-Bus error
\* messages to the calling client" (docs/index.md:251).  The exceptions: send-error
\* makes no message of anything but a string, and a function that has suspended has
\* no method_handler to fall back on; and a function that suspends while another
\* fiber runs process_bus is not resumed.
EveryCallerHears ==
  \A c \in Calls :
    phase[c] = "arrived" /\ wants[c]
      ~> \/ replies[c] # << >> \/ c \in mute \/ phase[c] = "lost"
         \/ bus = "closed" \/ ~running

\* No call is answered both ways, or returned to twice: the wrapper sends its reply
\* as the last thing it does (method-wrapper, init.janet:269).
RepliesAgree ==
  \A c \in Calls :
    /\ \A i \in 1..Len(replies[c]) : replies[c][i] = "return" => Len(replies[c]) = 1
    /\ phase[c] # "over" => replies[c] = << >>

\* On an open connection no caller who wants a reply is left without one by whatever
\* ends its call, the wrapper or method_handler, be the interface removed, the function
\* suspended or its result a misfit.  Spared are functions that suspended and then
\* raised something that is not a string, which AllErrorsPassed is about
\* (method-wrapper and send-error in init.janet, method_handler).
NoCallerSkipped ==
  \A c \in Calls :
    phase[c] = "over" /\ wants[c] /\ bus = "open" /\ c \notin mute
      => replies[c] # << >>

\* The same of every function, as the documentation has it: "Any errors raised by the
\* Janet function will be passed as D-Bus error messages to the calling client"
\* (docs/index.md:250-251).  Violated: send-error gives message-new-method-error what
\* was raised, which has to be a string (init.janet:261), and a function that has
\* suspended has no method_handler to fall back on.
AllErrorsPassed ==
  \A c \in Calls :
    phase[c] = "over" /\ wants[c] /\ bus = "open" => replies[c] # << >>

\* The caller of a function that suspends hears of its end, for the function "must
\* return normal Janet values, which will be automatically appended to the reply
\* message" (docs/index.md:242-244).  Violated: the event that a function waits for
\* which suspends while a fiber runs process_bus in call-async goes to that fiber, and
\* nothing resumes the function (method_handler, export.c:117; call-async, call.c:164).
SuspendedFunctionsAnswer ==
  \A c \in Calls :
    phase[c] \in {"suspended", "lost"} /\ wants[c]
      ~> replies[c] # << >> \/ c \in mute \/ bus = "closed" \/ ~running

\* What the client will know once it has everything that was sent to it.
Foreseen == IF wire = << >> THEN view ELSE wire[Len(wire)]

\* A client that caches a property which emits its changes, or is constant, never ends
\* up with a value that is not the property's, whatever clients set and the program
\* announces, as long as the value fits its signature (property_setter_with_signal,
\* property-setter).  Not so for changes that the program made itself and of which
\* nothing was sent since: those are what ChangesReachCaches is about.
CacheFollows ==
  (Emits \/ "r" \in flags) /\ value \in Values /\ ~untold
    => Foreseen \in {value, Unknown}

\* The same of every change while the interface is exported, as the docstring of
\* property has it: ":e - Emit a PropertiesChanged signal when the underlying property
\* value changes", and so for :i (init.janet:233-238).  Violated: the signal comes from
\* the setter that clients call and from nowhere else, and cannot be made of a value that
\* does not read back (property_setter_with_signal, export.c:196-199).
ChangesReachCaches ==
  Exported /\ Emits => Foreseen \in {value, Unknown}

\* Only a program that stores a value that does not fit, or takes members out of the
\* table it exported, ends by its interface: a client that sets and reads a property,
\* with ":w - Set the property as writable by D-Bus clients" (init.janet:245), does not
\* end it (property_setter_with_signal, property_getter, dict_symget).
OnlyProgramStops == ~running => value \in Misfits \/ ~members

\* The handlers of an interface have their state, and the slot as many references
\* as there are places that have it, whatever the order of cancelling, collecting
\* and closing (cfun_export, cfun_cancel_slot, dbus_slot_gc).
StateOwned ==
  /\ state = "live" <=> held \/ attached
  /\ refs = (IF held THEN 1 ELSE 0) + (IF attached THEN 1 ELSE 0)

\* An interface on a closed connection does not keep its state, and with it the
\* connection and the program's table, for ever (destroy_export_callback).
StateFreed == bus = "closed" ~> state = "none" \/ held \/ ~running
================================================================================
