------------------------------ MODULE ClientProofs ------------------------------
(* Proofs about Client: what holds of the requests of any program holds of one *)
(* that uses call-method and proxies, and a subscription whose slot a proxy    *)
(* cancels hears nothing more.                                                 *)
EXTENDS Client, AsyncProofs

--------------------------------------------------------------------------------
(* A client is a program *)

\* call-method closes its channel as CloseChannel describes, or does nothing.
LEMMA LeaveStep ==
  ASSUME ClientTypeOK, NEW f \in Fibers, Leave(f)
  PROVE  [Next]_vars
<1>1. CASE UNCHANGED vars
  BY <1>1
<1>2. CASE CloseChannel(calls[f])
  <2>1. calls[f] \in Request
    BY DEF Leave, ClientTypeOK, Nil, Request
  <2> QED
    BY <1>2, <2>1 DEF Next
<1> QED
  BY <1>1, <1>2 DEF Leave

LEMMA UnsubscribeStep ==
  ASSUME ClientTypeOK, NEW n \in Names, Unsubscribe(n)
  PROVE  [Next]_vars
<1>1. CASE UNCHANGED vars
  BY <1>1
<1>2. CASE Cancel(subs[n])
  <2>1. subs[n] \in Request
    BY DEF Unsubscribe, ClientTypeOK, Nil, Request
  <2> QED
    BY <1>2, <2>1 DEF Next
<1> QED
  BY <1>1, <1>2 DEF Unsubscribe

LEMMA ClientStep ==
  ASSUME ClientTypeOK, [ClientNext]_allVars
  PROVE  [Next]_vars
<1>1. CASE UNCHANGED allVars
  BY <1>1 DEF allVars
<1>2. CASE Submit \/ SubmitFails \/ CloseBus \/ LastOwnerGone \/ DisconnectNewest
           \/ BusFreed
  BY <1>2 DEF Next
<1>3. ASSUME NEW r \in Request,
             \/ CollectSlot(r) \/ CollectChannel(r) \/ CloseChannel(r)
             \/ Reply(r) \/ MatchMessage(r)
      PROVE  Next
  BY <1>3 DEF Next
<1>4. ASSUME NEW f \in Fibers, CallMethod(f) \/ Return(f) \/ Cancelled(f)
      PROVE  [Next]_vars
  BY <1>2, <1>4, LeaveStep DEF CallMethod, Make, Return, Cancelled
<1>5. ASSUME NEW n \in Names, Subscribe(n) \/ Unsubscribe(n)
      PROVE  [Next]_vars
  BY <1>2, <1>5, UnsubscribeStep DEF Subscribe, Make
<1> QED
  BY <1>1, <1>2, <1>3, <1>4, <1>5 DEF ClientNext, Collects, ClosesChannel

LEMMA StepClientTypeOK ==
  ASSUME Parameters, TypeOK, ClientTypeOK, [ClientNext]_allVars
  PROVE  ClientTypeOK'
<1>1. CASE UNCHANGED clientVars
  BY <1>1 DEF clientVars, ClientTypeOK
<1>2. CASE UNCHANGED allVars
  BY <1>2 DEF allVars, clientVars, ClientTypeOK
<1>3. ASSUME NEW f \in Fibers, CallMethod(f)
      PROVE  ClientTypeOK'
  BY <1>3 DEF CallMethod, Make, Submit, TypeOK, ClientTypeOK, Parameters
<1>4. ASSUME NEW f \in Fibers, Return(f) \/ Cancelled(f)
      PROVE  ClientTypeOK'
  BY <1>4 DEF Return, Cancelled, Leave, ClientTypeOK, Nil, Parameters
<1>5. ASSUME NEW n \in Names, Subscribe(n)
      PROVE  ClientTypeOK'
  <2>1. /\ issued + 1 \in 0..MaxRequests
        /\ subs \in [Names -> 0..MaxRequests] /\ overwritten \subseteq Request
        /\ subs[n] \in 0..MaxRequests /\ {subs[n]} \ {Nil} \subseteq Request
    BY <1>5 DEF Subscribe, Make, Submit, TypeOK, ClientTypeOK, Parameters, Request, Nil
  <2>2. /\ subs' = subs \/ subs' = [subs EXCEPT ![n] = issued + 1]
        /\ \/ overwritten' = overwritten
           \/ overwritten' = overwritten \cup ({subs[n]} \ {Nil})
        /\ calls' = calls
    BY <1>5 DEF Subscribe
  <2> QED
    BY <2>1, <2>2 DEF ClientTypeOK
<1>6. ASSUME NEW n \in Names, Unsubscribe(n)
      PROVE  ClientTypeOK'
  BY <1>6 DEF Unsubscribe, ClientTypeOK, Nil, Parameters
<1> QED
  BY <1>1, <1>2, <1>3, <1>4, <1>5, <1>6 DEF ClientNext

LEMMA ClientTypes == ClientSpec => [](TypeOK /\ ClientTypeOK)
<1>1. ClientInit => IInv /\ ClientTypeOK
  BY Parameters, InitIInv DEF ClientInit, ClientTypeOK, Nil, Parameters
<1>2. IInv /\ ClientTypeOK /\ [ClientNext]_allVars => IInv' /\ ClientTypeOK'
  BY Parameters, ClientStep, NextIInv, StepClientTypeOK DEF IInv
<1>3. IInv => TypeOK
  BY DEF IInv
<1> QED
  BY <1>1, <1>2, <1>3, PTL DEF ClientSpec

\* Whatever fibers do in call-method and proxies with their table is what a program
\* may do with its requests, for any number of fibers and names (src/init.janet).
THEOREM ClientsArePrograms == ClientSpec => Spec
<1>1. ClientInit => Init
  BY DEF ClientInit
<1>2. ClientTypeOK /\ [ClientNext]_allVars => [Next]_vars
  BY ClientStep
<1> QED
  BY <1>1, <1>2, ClientTypes, PTL DEF ClientSpec, Spec

\* A client that gives up no finished slot ends by a fault or a panic only while some
\* call is pending that has lost its slot or its channel: one of those call-method
\* forgot, or of those whose fiber was cancelled (src/init.janet, src/src/call.c).
THEOREM ClientOnlyPendingFaults ==
  ASSUME ForgetfulAtMost
  PROVE  ClientSpec => OnlyPendingFaults
  BY ClientsArePrograms, OnlyPendingFaultsHolds, PTL

--------------------------------------------------------------------------------
(* Signals stop at unsubscribe *)

\* A pending request whose slot was taken back was told that the connection closes;
\* a pending subscription is in the table, overwritten, or was told so too.
Accounted(r) ==
  Pending(r) =>
    /\ wrapper[r] = "released" => Told(r, "close")
    /\ kind[r] = "Match" => Kept(r) \/ r \in overwritten \/ Told(r, "close")

KInv ==
  vm = "running" =>
    /\ \A r \in Request : Kept(r) => r <= issued /\ wrapper[r] \in {"held", "released"}
    /\ \A r \in Request : Accounted(r)

\* A channel's messages are never taken back.
LEMMA ToldGrows ==
  ASSUME TypeOK, NEW r \in Request, NEW s, NEW t,
         inbox'[r] = inbox[r] \/ inbox'[r] = Append(inbox[r], s)
  PROVE  /\ Told(r, t) => Told(r, t)'
         /\ inbox'[r] = Append(inbox[r], t) => Told(r, t)'
<1>1. inbox[r] \in Seq(Status)
  BY DEF TypeOK
<1> DEFINE q == inbox[r]
           p == inbox'[r]
<1>2. q \in Seq(Status) /\ (p = q \/ p = Append(q, s))
  BY <1>1
<1> HIDE DEF p, q
<1>3. ASSUME NEW i \in DOMAIN q, q[i] = t
      PROVE  \E j \in DOMAIN p : p[j] = t
  BY <1>2, <1>3
<1>4. p = Append(q, t) => \E j \in DOMAIN p : p[j] = t
  <2>1. ASSUME p = Append(q, t)
        PROVE  Len(q) + 1 \in DOMAIN p /\ p[Len(q) + 1] = t
    BY <1>2, <2>1
  <2> QED
    BY <2>1
<1> QED
  BY <1>3, <1>4 DEF Told, p, q

\* A step that leaves fibers and table alone: requests that stay pending stay what
\* they were, and the wrappers in the table are not collected.
LEMMA SameKInv ==
  ASSUME KInv, vm = "running", UNCHANGED <<subs, overwritten>>,
         issued \in Nat, issued' \in Nat, issued' >= issued,
         \A r \in Request :
           Pending(r)' => /\ Pending(r) /\ kind'[r] = kind[r]
                          /\ Told(r, "close") => Told(r, "close")'
                          /\ wrapper'[r] = "released" =>
                               wrapper[r] = "released" \/ Told(r, "close")',
         \A r \in Request :
           r <= issued /\ Kept(r) /\ wrapper[r] \in {"held", "released"} =>
             wrapper'[r] \in {"held", "released"}
  PROVE  KInv'
<1>1. \A r \in Request : Kept(r)' <=> Kept(r)
  BY DEF Kept
<1>2. ASSUME NEW r \in Request, Kept(r)'
      PROVE  r <= issued' /\ wrapper'[r] \in {"held", "released"}
  BY <1>1, <1>2 DEF KInv, Request
<1>3. ASSUME NEW r \in Request
      PROVE  Accounted(r)'
  <2>1. Accounted(r) /\ overwritten' = overwritten
    BY DEF KInv
  <2> QED
    BY <1>1, <2>1 DEF Accounted
<1> QED
  BY <1>2, <1>3 DEF KInv

\* Steps that leave the requests' channels and kinds alone, end requests only, and
\* take back no slot of a pending one.
LEMMA QuietKInv ==
  ASSUME KInv, vm = "running", UNCHANGED <<subs, overwritten>>, UNCHANGED <<kind, inbox>>,
         issued \in Nat, issued' \in Nat, issued' >= issued,
         \A r \in Request :
           Pending(r)' => /\ Pending(r)
                          /\ wrapper'[r] = "released" => wrapper[r] = "released",
         \A r \in Request :
           r <= issued /\ Kept(r) /\ wrapper[r] \in {"held", "released"} =>
             wrapper'[r] \in {"held", "released"}
  PROVE  KInv'
<1>1. \A r \in Request : Told(r, "close") => Told(r, "close")'
  BY DEF Told
<1> QED
  BY <1>1, SameKInv

LEMMA CloseBusKInv ==
  ASSUME TypeOK, KInv, CloseBus, UNCHANGED <<subs, overwritten>>
  PROVE  KInv'
<1>1. /\ vm = "running" /\ bus = "open" /\ issued \in Nat /\ issued >= issued
      /\ wrapper \in [Request -> {"none", "held", "released", "collected"}]
      /\ inbox \in [Request -> Seq(Status)]
  BY DEF CloseBus, TypeOK
<1>2. CASE Fault
  BY <1>2 DEF Fault, KInv
<1>3. ASSUME NEW V, TellAndRelease(V, "close"), UNCHANGED <<issued, kind, attached>>,
             bus' = bus \/ bus' # "open"
      PROVE  KInv'
  <2>1. ASSUME NEW r \in Request
        PROVE  /\ Told(r, "close") => Told(r, "close")'
               /\ wrapper'[r] = "released" =>
                    wrapper[r] = "released" \/ Told(r, "close")'
               /\ wrapper[r] \in {"held", "released"} =>
                    wrapper'[r] \in {"held", "released"}
    <3>1. /\ inbox'[r] = (IF r \in V THEN Append(inbox[r], "close") ELSE inbox[r])
          /\ wrapper'[r] = (IF r \in V THEN "released" ELSE wrapper[r])
      BY <1>3 DEF TellAndRelease
    <3> QED
      BY <3>1, ToldGrows
  <2>2. \A r \in Request : Pending(r)' => Pending(r) /\ kind'[r] = kind[r]
    BY <1>1, <1>3 DEF Pending
  <2>3. issued' = issued
    BY <1>3
  <2> QED
    BY <1>1, <2>1, <2>2, <2>3, SameKInv
<1>4. CASE UNCHANGED <<vm, conn, listening, issued, queue, kind, mem, refs,
                       attached, wrapper, chan, inbox>> /\ bus' # "open"
  BY <1>1, <1>4, QuietKInv DEF Pending
<1>5. CASE CloseAll("close") /\ UNCHANGED <<issued, kind, attached>> /\ bus' # "open"
  BY <1>3, <1>5 DEF CloseAll
<1>6. CASE /\ TellAndRelease(GoneThrough, "close")
           /\ UNCHANGED <<issued, kind, attached, bus>>
  BY <1>3, <1>6
<1> QED
  BY <1>2, <1>4, <1>5, <1>6 DEF CloseBus

LEMMA ReplyKInv ==
  ASSUME TypeOK, KInv, NEW r \in Request, Reply(r), UNCHANGED <<subs, overwritten>>
  PROVE  KInv'
<1>1. CASE vm' # "running"
  BY <1>1 DEF KInv
<1>2. CASE vm' = "running"
  <2>1. /\ vm = "running" /\ issued \in Nat /\ issued >= issued /\ issued' = issued
        /\ attached' = [attached EXCEPT ![r] = FALSE] /\ Give(r, "answer")
        /\ attached \in [Request -> BOOLEAN] /\ inbox \in [Request -> Seq(Status)]
        /\ UNCHANGED <<bus, kind, wrapper>>
    BY <1>2 DEF Reply, Stop, Fault, TypeOK
  <2>2. ASSUME NEW p \in Request, Pending(p)'
        PROVE  Pending(p) /\ inbox'[p] = inbox[p]
    BY <2>1, <2>2 DEF Pending, Give
  <2>3. \A p \in Request : Pending(p)' => (Told(p, "close") => Told(p, "close")')
    BY <2>2 DEF Told
  <2> QED
    BY <2>1, <2>2, <2>3, SameKInv
<1> QED
  BY <1>1, <1>2

LEMMA MatchMessageKInv ==
  ASSUME TypeOK, KInv, NEW r \in Request, MatchMessage(r), UNCHANGED <<subs, overwritten>>
  PROVE  KInv'
<1>1. CASE vm' # "running"
  BY <1>1 DEF KInv
<1>2. CASE vm' = "running"
  <2>1. /\ vm = "running" /\ issued \in Nat /\ issued >= issued /\ issued' = issued
        /\ Give(r, "answer") /\ inbox \in [Request -> Seq(Status)]
        /\ UNCHANGED <<bus, kind, wrapper, attached>>
    BY <1>2 DEF MatchMessage, Stop, Fault, TypeOK
  <2>2. ASSUME NEW p \in Request
        PROVE  Told(p, "close") => Told(p, "close")'
    <3>1. inbox'[p] = inbox[p] \/ inbox'[p] = Append(inbox[p], "answer")
      BY <2>1 DEF Give
    <3> QED
      BY <3>1, ToldGrows
  <2> QED
    BY <2>1, <2>2, SameKInv DEF Pending
<1> QED
  BY <1>1, <1>2

\* The collector leaves the table's slots alone.
LEMMA CollectsKInv ==
  ASSUME TypeOK, KInv, NEW r \in Request, Collects(r), UNCHANGED <<subs, overwritten>>
  PROVE  KInv'
<1>1. /\ vm = "running" /\ issued \in Nat /\ issued >= issued /\ issued' = issued
      /\ UNCHANGED <<bus, kind, attached, inbox>>
      /\ wrapper \in [Request -> {"none", "held", "released", "collected"}]
  BY DEF Collects, CollectSlot, CollectChannel, TypeOK
<1>2. wrapper' = wrapper \/ (~Kept(r) /\ wrapper' = [wrapper EXCEPT ![r] = "collected"])
  BY DEF Collects, CollectSlot, CollectChannel
<1>3. ASSUME NEW p \in Request
      PROVE  /\ wrapper'[p] = "released" => wrapper[p] = "released"
             /\ Kept(p) => wrapper'[p] = wrapper[p]
  BY <1>1, <1>2
<1> QED
  BY <1>1, <1>3, QuietKInv DEF Pending

\* A new request is a call, or the one the table now has under the name; what it
\* replaces there counts as overwritten.
LEMMA MakeKInv ==
  ASSUME Parameters, TypeOK, ClientTypeOK, KInv, NEW k, Make(k),
         \/ k = "Call" /\ UNCHANGED <<subs, overwritten>>
         \/ k = "Match" /\ \E n \in Names : Subscribe(n)
  PROVE  KInv'
<1>1. CASE vm' # "running"
  BY <1>1 DEF KInv
<1>2. CASE vm' = "running"
  <2>0. PICK r \in Request : r = issued + 1
    BY <1>2 DEF Make, Submit, TypeOK, Request, Parameters
  <2>1. /\ vm = "running" /\ issued \in Nat /\ issued' = r
        /\ attached' = [attached EXCEPT ![r] = TRUE]
        /\ wrapper' = [wrapper EXCEPT ![r] = "held"]
        /\ attached \in [Request -> BOOLEAN]
        /\ wrapper \in [Request -> {"none", "held", "released", "collected"}]
        /\ \E j \in Kind : kind' = [kind EXCEPT ![r] = j]
        /\ kind \in [Request -> Kind] /\ kind'[r] = k
        /\ UNCHANGED <<bus, inbox>>
    BY <1>2, <2>0 DEF Make, Submit, Fault, TypeOK
  <2>2. \A p \in Request : p # r => /\ Pending(p)' <=> Pending(p)
                                    /\ wrapper'[p] = wrapper[p] /\ kind'[p] = kind[p]
                                    /\ Told(p, "close")' <=> Told(p, "close")
    BY <2>1 DEF Pending, Told
  <2>3. wrapper'[r] = "held" /\ kind'[r] = k
    BY <2>1
  <2>4. \A p \in Request : Kept(p) => p <= issued /\ wrapper[p] \in {"held", "released"}
    BY <2>1 DEF KInv
  <2>5. \A p \in Request : Accounted(p)
    BY <2>1 DEF KInv
  <2>6. CASE k = "Call" /\ UNCHANGED <<subs, overwritten>>
    <3>1. \A p \in Request : Kept(p)' <=> Kept(p)
      BY <2>6 DEF Kept
    <3>2. \A p \in Request : Kept(p)' =>
            p <= issued' /\ wrapper'[p] \in {"held", "released"}
      BY <2>0, <2>1, <2>2, <2>3, <2>4, <3>1 DEF Request
    <3>3. \A p \in Request : p # r => Accounted(p)'
      BY <2>2, <2>5, <2>6, <3>1 DEF Accounted
    <3>4. Accounted(r)'
      BY <2>3, <2>6 DEF Accounted
    <3> QED
      BY <3>2, <3>3, <3>4 DEF KInv
  <2>7. ASSUME NEW n \in Names, Subscribe(n)
        PROVE  KInv'
    <3>1. /\ subs' = [subs EXCEPT ![n] = r]
          /\ overwritten' = overwritten \cup ({subs[n]} \ {Nil})
      BY <1>2, <2>0, <2>7 DEF Subscribe
    <3>2. \A p \in Request : Kept(p)' => p = r \/ Kept(p)
      BY <3>1 DEF Kept
    <3>3. \A p \in Request : Kept(p) => Kept(p)' \/ p \in overwritten'
      BY <3>1 DEF Kept, Nil, Request
    <3>4. \A p \in Request : Kept(p)' =>
            p <= issued' /\ wrapper'[p] \in {"held", "released"}
      BY <2>0, <2>1, <2>2, <2>3, <2>4, <3>2 DEF Request
    <3>5. \A p \in Request : p # r => Accounted(p)'
      BY <2>2, <2>5, <3>1, <3>3 DEF Accounted
    <3>6. Accounted(r)'
      <4>1. Kept(r)'
        BY <3>1 DEF Kept, ClientTypeOK
      <4> QED
        BY <2>3, <4>1 DEF Accounted
    <3> QED
      BY <3>4, <3>5, <3>6 DEF KInv
  <2> QED
    BY <2>6, <2>7
<1> QED
  BY <1>1, <1>2

\* call-method leaves its channel closed and nothing else changed.
LEMMA LeaveKInv ==
  ASSUME TypeOK, KInv, NEW f \in Fibers, Leave(f)
  PROVE  KInv'
<1>1. /\ vm = "running" /\ UNCHANGED <<subs, overwritten>>
      /\ UNCHANGED <<kind, inbox, issued, attached, wrapper, bus>>
      /\ issued \in Nat /\ issued >= issued
  BY DEF Leave, CloseChannel, vars, TypeOK
<1> QED
  BY <1>1, QuietKInv DEF Pending

\* A name goes from the table only when its request is no longer pending, or was told
\* that the connection closes.
LEMMA UnsubscribeKInv ==
  ASSUME Parameters, IInv, ClientTypeOK, KInv, NEW n \in Names, Unsubscribe(n)
  PROVE  KInv'
<1>1. CASE vm' # "running"
  BY <1>1 DEF KInv
<1>2. CASE vm' = "running"
  <2>0. PICK r \in Request : r = subs[n]
    BY DEF Unsubscribe, ClientTypeOK, Nil, Request
  <2>1. /\ vm = "running" /\ subs' = [subs EXCEPT ![n] = Nil]
        /\ subs \in [Names -> 0..MaxRequests] /\ overwritten' = overwritten
        /\ attached \in [Request -> BOOLEAN]
        /\ wrapper \in [Request -> {"none", "held", "released", "collected"}]
    BY <1>2 DEF Unsubscribe, ClientTypeOK, Nil, Request, IInv, TypeOK
  <2>2. /\ UNCHANGED <<issued, kind, inbox, bus>>
        /\ \/ UNCHANGED <<attached, wrapper>> /\ wrapper[r] # "held"
           \/ /\ attached' = [attached EXCEPT ![r] = FALSE]
              /\ wrapper' = [wrapper EXCEPT ![r] = "released"]
    BY <1>2, <2>0 DEF Unsubscribe, Cancel, Fault, vars
  <2>3. Kept(r) /\ r <= issued /\ wrapper[r] \in {"held", "released"} /\ Accounted(r)
    <3>1. Kept(r)
      BY <2>0 DEF Kept
    <3> QED
      BY <2>1, <3>1 DEF KInv
  <2>4. \A p \in Request : p # r => (Kept(p)' <=> Kept(p))
    BY <2>0, <2>1 DEF Kept, Nil, Request
  <2>5. ~Kept(r)' \/ wrapper'[r] \in {"held", "released"}
    BY <2>1, <2>2, <2>3
  <2>6. ASSUME NEW p \in Request, Kept(p)'
        PROVE  p <= issued' /\ wrapper'[p] \in {"held", "released"}
    BY <2>1, <2>2, <2>3, <2>4, <2>5, <2>6 DEF KInv
  <2>7. ASSUME NEW p \in Request
        PROVE  Accounted(p)'
    <3>1. Accounted(p) /\ (Told(p, "close")' <=> Told(p, "close"))
      BY <2>1, <2>2 DEF KInv, Told
    <3>2. CASE p # r
      BY <2>1, <2>2, <2>4, <3>1, <3>2 DEF Accounted, Pending
    <3>3. CASE p = r
      BY <2>1, <2>2, <2>3, <3>1, <3>3 DEF Accounted, Pending
    <3> QED
      BY <3>2, <3>3
  <2> QED
    BY <2>6, <2>7 DEF KInv
<1> QED
  BY <1>1, <1>2

LEMMA StepKInv ==
  ASSUME Parameters, IInv, ClientTypeOK, KInv, [ClientNext]_allVars
  PROVE  KInv'
<1>1. CASE UNCHANGED allVars
  BY <1>1 DEF allVars, vars, clientVars, KInv, Accounted, Pending, Kept, Told
<1>2. TypeOK
  BY DEF IInv
<1>3. CASE /\ SubmitFails \/ LastOwnerGone \/ DisconnectNewest \/ BusFreed
           /\ UNCHANGED clientVars
  <2>1. CASE vm' # "running"
    BY <2>1 DEF KInv
  <2>2. CASE vm' = "running"
    <3>1. /\ vm = "running" /\ UNCHANGED <<subs, overwritten, inbox>>
          /\ issued \in Nat /\ issued' \in Nat /\ issued' >= issued
          /\ kind' = kind
          /\ \/ wrapper' = wrapper
             \/ wrapper' = [wrapper EXCEPT ![issued + 1] = "collected"]
          /\ \A r \in Request : Pending(r)' => Pending(r)
      BY <1>2, <1>3, <2>2 DEF SubmitFails, LastOwnerGone, DisconnectNewest, BusFreed,
                              Fault, clientVars, TypeOK, Pending
    <3>2. ASSUME NEW r \in Request
          PROVE  /\ wrapper'[r] = "released" => wrapper[r] = "released"
                 /\ r <= issued => wrapper'[r] = wrapper[r]
      <4>1. DOMAIN wrapper = Request /\ r \in Nat
        BY <1>2 DEF TypeOK, Request
      <4>2. CASE wrapper' = wrapper
        BY <4>2
      <4>3. CASE wrapper' = [wrapper EXCEPT ![issued + 1] = "collected"]
        BY <3>1, <4>1, <4>3
      <4> QED
        BY <3>1, <4>2, <4>3
    <3> QED
      BY <3>1, <3>2, QuietKInv
  <2> QED
    BY <2>1, <2>2
<1>4. CASE CloseBus /\ UNCHANGED clientVars
  BY <1>2, <1>4, CloseBusKInv DEF clientVars
<1>5. ASSUME NEW r \in Request, ClosesChannel(r), UNCHANGED clientVars
      PROVE  KInv'
  <2>1. /\ vm = "running" /\ UNCHANGED <<subs, overwritten>>
        /\ UNCHANGED <<kind, inbox, issued, attached, wrapper, bus>>
        /\ issued \in Nat /\ issued >= issued
    BY <1>2, <1>5 DEF ClosesChannel, CloseChannel, clientVars, TypeOK
  <2> QED
    BY <2>1, QuietKInv DEF Pending
<1>6. ASSUME NEW r \in Request, Collects(r) \/ Reply(r) \/ MatchMessage(r),
             UNCHANGED clientVars
      PROVE  KInv'
  BY <1>2, <1>6, CollectsKInv, ReplyKInv, MatchMessageKInv DEF clientVars
<1>7. ASSUME NEW f \in Fibers, CallMethod(f)
      PROVE  KInv'
  BY <1>2, <1>7, MakeKInv DEF CallMethod
<1>8. ASSUME NEW f \in Fibers, Return(f) \/ Cancelled(f)
      PROVE  KInv'
  BY <1>2, <1>8, LeaveKInv DEF Return, Cancelled
<1>9. ASSUME NEW n \in Names, Subscribe(n)
      PROVE  KInv'
  BY <1>2, <1>9, MakeKInv DEF Subscribe
<1>10. ASSUME NEW n \in Names, Unsubscribe(n)
       PROVE  KInv'
  BY <1>10, UnsubscribeKInv
<1> QED
  BY <1>1, <1>3, <1>4, <1>5, <1>6, <1>7, <1>8, <1>9, <1>10 DEF ClientNext

\* A step that gives a message to a subscription does so while it is pending.
LEMMA OnlyPendingHear ==
  ASSUME Parameters, ForgetfulAtMost, TypeOK, LInv, [ClientNext]_allVars,
         NEW r \in Request, kind[r] = "Match", inbox'[r] # inbox[r], bus' = "open"
  PROVE  vm = "running" /\ Pending(r)
<1>1. inbox \in [Request -> Seq(Status)]
  BY DEF TypeOK
<1>2. CASE CloseBus
  <2>1. CASE TellAndRelease(GoneThrough, "close") /\ bus' = bus
    <3>1. vm = "running" /\ r \in GoneThrough /\ bus = "open"
      BY <1>1, <1>2, <2>1 DEF CloseBus, TellAndRelease
    <3>2. r \in PendingRequests
      BY <3>1, ListedPending DEF LInv, GoneThrough
    <3> QED
      BY <3>1, <3>2 DEF PendingRequests
  <2>2. CASE bus' # "open" \/ Fault
    BY <2>2 DEF Fault
  <2> QED
    BY <1>2, <2>1, <2>2 DEF CloseBus
<1>3. ASSUME NEW p \in Request, Reply(p) \/ MatchMessage(p)
      PROVE  vm = "running" /\ Pending(r)
  <2>1. vm = "running" /\ attached[p] /\ bus = "open"
    BY <1>3 DEF Reply, MatchMessage
  <2>2. \E s \in Status : Give(p, s)
    BY <1>3 DEF Reply, MatchMessage, Stop, Fault, Status
  <2>3. p = r
    BY <1>1, <2>2 DEF Give
  <2> QED
    BY <2>1, <2>3 DEF Pending
<1>4. CASE UNCHANGED inbox
  BY <1>4
<1>5. CASE SubmitFails \/ LastOwnerGone \/ DisconnectNewest \/ BusFreed
  BY <1>4, <1>5 DEF SubmitFails, LastOwnerGone, DisconnectNewest, BusFreed, Fault
<1>6. ASSUME NEW p \in Request, Collects(p) \/ ClosesChannel(p)
      PROVE  UNCHANGED inbox
  BY <1>6 DEF Collects, CollectSlot, CollectChannel, ClosesChannel, CloseChannel
<1>7. ASSUME NEW f \in Fibers, CallMethod(f) \/ Return(f) \/ Cancelled(f)
      PROVE  UNCHANGED inbox
  BY <1>7 DEF CallMethod, Make, Submit, Return, Cancelled, Leave, CloseChannel, Fault,
              vars
<1>8. ASSUME NEW n \in Names, Subscribe(n) \/ Unsubscribe(n)
      PROVE  UNCHANGED inbox
  BY <1>8 DEF Subscribe, Make, Submit, Unsubscribe, Cancel, Fault, vars
<1>9. CASE UNCHANGED allVars
  BY <1>9 DEF allVars, vars
<1> QED
  BY <1>2, <1>3, <1>4, <1>5, <1>6, <1>7, <1>8, <1>9 DEF ClientNext

\* For any number of subscriptions, calls and fibers, and whatever is cancelled,
\* collected or closed in between: a subscription hears signals only while the proxy
\* has its slot, so that :signal/unsubscribe, which cancels that slot, silences it.  Two
\* kinds of subscriptions are exempt, and do hear signals after an unsubscribe: those
\* that another one overwrote in the table, and those that a closing told :close before
\* it failed (proxy-subscribe and proxy-unsubscribe in src/init.janet, src/src/slot.c,
\* closeall_pending in src/src/async.c).
THEOREM SignalsStopAtUnsubscribeHolds ==
  ASSUME ForgetfulAtMost
  PROVE  ClientSpec => SignalsStopAtUnsubscribe
<1>1. ClientInit => KInv
  BY DEF ClientInit, Init, KInv, Accounted, Pending, Kept, Nil, Request
<1>2. IInv /\ ClientTypeOK /\ KInv /\ [ClientNext]_allVars => KInv'
  BY Parameters, StepKInv
<1>3. ClientSpec => [](IInv /\ LInv)
  BY ClientsArePrograms, SoundHolds, PTL
<1>4. ASSUME IInv /\ LInv /\ KInv, [ClientNext]_allVars
      PROVE  [\A r \in Request :
                kind[r] = "Match" /\ inbox'[r] # inbox[r] /\ bus' = "open" =>
                  Kept(r) \/ r \in overwritten \/ Told(r, "close")]_allVars
  <2>1. ASSUME NEW r \in Request,
               kind[r] = "Match" /\ inbox'[r] # inbox[r] /\ bus' = "open"
        PROVE  Kept(r) \/ r \in overwritten \/ Told(r, "close")
    <3>1. vm = "running" /\ Pending(r)
      BY <1>4, <2>1, Parameters, OnlyPendingHear DEF IInv
    <3> QED
      BY <1>4, <2>1, <3>1 DEF KInv, Accounted
  <2> QED
    BY <2>1
<1> QED
  BY <1>1, <1>2, <1>3, <1>4, ClientTypes, PTL DEF ClientSpec, SignalsStopAtUnsubscribe

--------------------------------------------------------------------------------
(* No waiter is forgotten *)

\* Fibers wait for calls and the table has subscriptions, so that none of them is in
\* the way of another; the channel of a request not yet made is open.
WInv ==
  /\ NoWaiterForgotten
  /\ vm = "running" =>
       /\ \A r \in Request : r > issued => chan[r] = "open"
       /\ \A f \in Fibers : calls[f] # Nil =>
                            calls[f] <= issued /\ kind[calls[f]] = "Call"
       /\ \A n \in Names : subs[n] # Nil =>
                           subs[n] <= issued /\ kind[subs[n]] = "Match"

LEMMA LiveIsIssued ==
  ASSUME Parameters, IInv, vm = "running", NEW r \in Request, mem[r] = "live"
  PROVE  r <= issued
<1>1. refs[r] > 0 /\ refs[r] = (IF wrapper[r] = "held" THEN 1 ELSE 0)
                               + (IF attached[r] THEN 1 ELSE 0)
  BY DEF IInv, Ownership
<1>2. attached[r] \/ wrapper[r] # "none"
  BY <1>1
<1>3. r \in 1..issued
  BY <1>2, Referenced
<1> QED
  BY <1>3

\* A step of nobody who waits or keeps a slot: it closes no channel that is waited on,
\* and a waiting call stays pending or has been told something.
LEMMA SameWInv ==
  ASSUME ClientTypeOK, WInv, vm = "running", UNCHANGED <<calls, subs>>,
         issued \in Nat, issued' \in Nat, issued' >= issued,
         \A r \in Request : r <= issued => kind'[r] = kind[r],
         \A r \in Request : chan'[r] = chan[r] \/ (r <= issued /\ ~Waiting(r)),
         \A r \in Request :
           kind[r] = "Call" /\ (Pending(r) \/ inbox[r] # << >>) =>
             Pending(r)' \/ inbox'[r] # << >>
  PROVE  WInv'
<1>1. ASSUME NEW f \in Fibers, calls'[f] # Nil
      PROVE  /\ chan'[calls'[f]] = "open"
             /\ Pending(calls[f])' \/ inbox'[calls'[f]] # << >>
             /\ \A g \in Fibers : calls'[g] = calls'[f] => g = f
             /\ calls'[f] <= issued' /\ kind'[calls'[f]] = "Call"
  <2>1. PICK r \in Request : r = calls[f]
    BY <1>1 DEF ClientTypeOK, Nil, Request
  <2>2. /\ chan[r] = "open" /\ (Pending(r) \/ inbox[r] # << >>)
        /\ \A g \in Fibers : calls[g] = r => g = f
        /\ r <= issued /\ kind[r] = "Call"
    BY <1>1, <2>1 DEF WInv, NoWaiterForgotten
  <2>3. Waiting(r) /\ calls' = calls /\ r <= issued' /\ r \in Nat
    BY <2>1, <2>2 DEF Waiting, Request
  <2> QED
    BY <2>1, <2>2, <2>3 DEF Pending
<1>2. ASSUME NEW n \in Names, subs'[n] # Nil
      PROVE  subs'[n] <= issued' /\ kind'[subs'[n]] = "Match"
  <2>1. PICK r \in Request : r = subs[n]
    BY <1>2 DEF ClientTypeOK, Nil, Request
  <2> QED
    BY <1>2, <2>1 DEF WInv, Request
<1>3. ASSUME NEW r \in Request, r > issued'
      PROVE  chan'[r] = "open"
  BY <1>3 DEF WInv, Request
<1> QED
  BY <1>1, <1>2, <1>3 DEF WInv, NoWaiterForgotten, Pending

LEMMA CloseBusWInv ==
  ASSUME Parameters, IInv, LInv, ClientTypeOK, WInv, CloseBus, UNCHANGED <<calls, subs>>
  PROVE  WInv'
<1>1. /\ vm = "running" /\ bus = "open" /\ issued \in Nat /\ issued >= issued
      /\ inbox \in [Request -> Seq(Status)]
  BY DEF CloseBus, IInv, TypeOK
<1>2. CASE vm' # "running"
  BY <1>2 DEF WInv, NoWaiterForgotten
<1>3. ASSUME vm' = "running", NEW r \in Request, Pending(r) \/ inbox[r] # << >>
      PROVE  Pending(r)' \/ inbox'[r] # << >>
  <2>1. \A s : Append(inbox[r], s) # << >>
    BY <1>1
  <2>2. CASE bus' # bus
    <3>1. inbox' = [p \in Request |-> IF attached[p] THEN Append(inbox[p], "close")
                                                     ELSE inbox[p]]
      BY <2>2, CloseBusTells
    <3> QED
      BY <1>3, <2>1, <3>1 DEF Pending
  <2>3. CASE bus' = bus
    <3>1. TellAndRelease(GoneThrough, "close") /\ attached' = attached
      BY <1>1, <1>3, <2>3 DEF CloseBus, Fault
    <3>2. inbox'[r] = inbox[r] \/ inbox'[r] = Append(inbox[r], "close")
      BY <3>1 DEF TellAndRelease
    <3> QED
      BY <1>3, <2>1, <2>3, <3>1, <3>2 DEF Pending
  <2> QED
    BY <2>2, <2>3
<1>4. CASE vm' = "running"
  <2>1. UNCHANGED <<issued, kind, chan>>
    BY <1>4 DEF CloseBus, Fault
  <2> QED
    BY <1>1, <1>3, <1>4, <2>1, SameWInv
<1> QED
  BY <1>2, <1>4

LEMMA HearWInv ==
  ASSUME Parameters, IInv, ClientTypeOK, WInv, NEW r \in Request,
         Reply(r) \/ MatchMessage(r), UNCHANGED <<calls, subs>>
  PROVE  WInv'
<1>1. CASE vm' # "running"
  BY <1>1 DEF WInv, NoWaiterForgotten
<1>2. CASE vm' = "running"
  <2>1. /\ vm = "running" /\ issued \in Nat /\ issued >= issued
        /\ attached \in [Request -> BOOLEAN] /\ inbox \in [Request -> Seq(Status)]
        /\ inbox' = [inbox EXCEPT ![r] = Append(@, "answer")]
        /\ attached' = attached \/ attached' = [attached EXCEPT ![r] = FALSE]
        /\ UNCHANGED <<bus, issued, kind, chan>>
    BY <1>2 DEF Reply, MatchMessage, Stop, Fault, Give, IInv, TypeOK
  <2>2. ASSUME NEW p \in Request, Pending(p) \/ inbox[p] # << >>
        PROVE  Pending(p)' \/ inbox'[p] # << >>
    <3>1. Append(inbox[r], "answer") # << >>
      BY <2>1
    <3>2. CASE p = r
      BY <2>1, <3>1, <3>2
    <3>3. CASE p # r
      BY <2>1, <2>2, <3>3 DEF Pending
    <3> QED
      BY <3>2, <3>3
  <2> QED
    BY <2>1, <2>2, SameWInv
<1> QED
  BY <1>1, <1>2

LEMMA ChannelWInv ==
  ASSUME Parameters, IInv, ClientTypeOK, WInv, NEW r \in Request,
         Collects(r) \/ ClosesChannel(r), UNCHANGED <<calls, subs>>
  PROVE  WInv'
<1>1. /\ vm = "running" /\ issued \in Nat /\ issued >= issued
      /\ UNCHANGED <<bus, issued, kind, attached, inbox>>
      /\ chan \in [Request -> {"open", "closed", "collected"}]
  BY DEF Collects, ClosesChannel, CollectSlot, CollectChannel, CloseChannel, IInv, TypeOK
<1>2. \/ chan' = chan
      \/ /\ mem[r] = "live" /\ ~Waiting(r)
         /\ \E c \in {"closed", "collected"} : chan' = [chan EXCEPT ![r] = c]
  <2>1. CASE CollectSlot(r)
    BY <2>1 DEF CollectSlot
  <2>2. CASE CollectChannel(r) /\ ~Waiting(r)
    BY <2>2 DEF CollectChannel
  <2>3. CASE ClosesChannel(r)
    <3>1. ~Waiting(r)
      BY <1>1, <2>3 DEF ClosesChannel, Waiting, WInv, Nil, Request
    <3> QED
      BY <2>3, <3>1 DEF ClosesChannel, CloseChannel
  <2> QED
    BY <2>1, <2>2, <2>3 DEF Collects
<1>3. \A p \in Request : chan'[p] = chan[p] \/ (p <= issued /\ ~Waiting(p))
  BY <1>1, <1>2, LiveIsIssued
<1> QED
  BY <1>1, <1>3, SameWInv DEF Pending

LEMMA MakeWInv ==
  ASSUME Parameters, IInv, ClientTypeOK, WInv,
         \/ \E f \in Fibers : CallMethod(f)
         \/ \E n \in Names : Subscribe(n)
  PROVE  WInv'
<1>1. CASE vm' # "running"
  BY <1>1 DEF WInv, NoWaiterForgotten
<1>2. CASE vm' = "running"
  <2>0. PICK r \in Request : r = issued + 1
    BY <1>2 DEF CallMethod, Subscribe, Make, Submit, IInv, TypeOK, Request, Parameters
  <2>1. /\ vm = "running" /\ bus = "open" /\ issued \in Nat /\ issued' = r
        /\ attached' = [attached EXCEPT ![r] = TRUE]
        /\ attached \in [Request -> BOOLEAN]
        /\ \E j \in Kind : kind' = [kind EXCEPT ![r] = j]
        /\ kind \in [Request -> Kind]
        /\ UNCHANGED <<bus, inbox, chan>>
    BY <1>2, <2>0 DEF CallMethod, Subscribe, Make, Submit, Fault, IInv, TypeOK
  <2>2. chan[r] = "open" /\ Pending(r)'
    BY <2>0, <2>1 DEF WInv, Pending
  <2>3. \A p \in Request : /\ p <= issued => p # r /\ p <= issued' /\ kind'[p] = kind[p]
                           /\ p > issued' => p > issued
                           /\ Pending(p) => Pending(p)'
    BY <2>0, <2>1 DEF Request, Pending
  <2>9. /\ \A p \in Request : p > issued => chan[p] = "open"
        /\ \A f \in Fibers : calls[f] # Nil =>
             /\ calls[f] <= issued /\ kind[calls[f]] = "Call" /\ chan[calls[f]] = "open"
             /\ Pending(calls[f]) \/ inbox[calls[f]] # << >>
             /\ \A g \in Fibers : calls[g] = calls[f] => g = f
        /\ \A n \in Names : subs[n] # Nil =>
             subs[n] <= issued /\ kind[subs[n]] = "Match"
    BY <2>1 DEF WInv, NoWaiterForgotten
  <2>4. \A p \in Request : p > issued' => chan'[p] = "open"
    BY <2>1, <2>3, <2>9
  \* What was in calls and subs stays as it was.
  <2>5. ASSUME NEW f \in Fibers, NEW p \in Request, calls[f] = p
        PROVE  /\ p # r /\ chan'[p] = "open" /\ (Pending(p)' \/ inbox'[p] # << >>)
               /\ \A g \in Fibers : calls[g] = p => g = f
               /\ p <= issued' /\ kind'[p] = "Call"
    <3>1. calls[f] # Nil
      BY <2>5 DEF Nil, Request
    <3>2. /\ p <= issued /\ kind[p] = "Call" /\ chan[p] = "open"
          /\ Pending(p) \/ inbox[p] # << >>
          /\ \A g \in Fibers : calls[g] = p => g = f
      BY <2>9, <2>5, <3>1
    <3> QED
      BY <2>1, <2>3, <3>2
  <2>6. ASSUME NEW n \in Names, NEW p \in Request, subs[n] = p
        PROVE  p <= issued' /\ kind'[p] = "Match"
    <3>1. subs[n] # Nil
      BY <2>6 DEF Nil, Request
    <3> QED
      BY <2>3, <2>6, <2>9, <3>1
  <2>7. ASSUME NEW f \in Fibers, CallMethod(f)
        PROVE  WInv'
    <3>1. /\ calls' = [calls EXCEPT ![f] = r] /\ subs' = subs /\ kind'[r] = "Call"
      BY <1>2, <2>0, <2>7 DEF CallMethod, Make
    <3>2. ASSUME NEW g \in Fibers, calls'[g] # Nil
          PROVE  /\ chan'[calls'[g]] = "open"
                 /\ Pending(calls[g])' \/ inbox'[calls'[g]] # << >>
                 /\ \A e \in Fibers : calls'[e] = calls'[g] => e = g
                 /\ calls'[g] <= issued' /\ kind'[calls'[g]] = "Call"
      <4>1. \A e \in Fibers : e # f => calls'[e] = calls[e]
        BY <3>1 DEF ClientTypeOK
      <4>2. calls'[f] = r
        BY <3>1 DEF ClientTypeOK
      <4>3. CASE g = f
        <5>1. \A e \in Fibers : calls'[e] = r => e = f
          BY <2>5, <4>1
        <5> QED
          BY <2>0, <2>1, <2>2, <3>1, <4>2, <4>3, <5>1 DEF Request, Pending
      <4>4. CASE g # f
        <5>1. PICK p \in Request : p = calls[g]
          BY <3>2, <4>1, <4>4 DEF ClientTypeOK, Nil, Request
        <5>2. calls'[g] = p
          BY <4>1, <4>4, <5>1
        <5> QED
          BY <2>5, <4>1, <4>2, <5>1, <5>2 DEF Pending
      <4> QED
        BY <4>3, <4>4
    <3>3. ASSUME NEW n \in Names, subs'[n] # Nil
          PROVE  subs'[n] <= issued' /\ kind'[subs'[n]] = "Match"
      BY <2>6, <3>1, <3>3 DEF ClientTypeOK, Nil, Request
    <3> QED
      BY <2>4, <3>2, <3>3 DEF WInv, NoWaiterForgotten, Pending
  <2>8. ASSUME NEW n \in Names, Subscribe(n)
        PROVE  WInv'
    <3>1. /\ subs' = [subs EXCEPT ![n] = r] /\ calls' = calls /\ kind'[r] = "Match"
      BY <1>2, <2>0, <2>8 DEF Subscribe, Make
    <3>2. ASSUME NEW g \in Fibers, calls'[g] # Nil
          PROVE  /\ chan'[calls'[g]] = "open"
                 /\ Pending(calls[g])' \/ inbox'[calls'[g]] # << >>
                 /\ \A e \in Fibers : calls'[e] = calls'[g] => e = g
                 /\ calls'[g] <= issued' /\ kind'[calls'[g]] = "Call"
      <4>1. PICK p \in Request : p = calls[g]
        BY <3>1, <3>2 DEF ClientTypeOK, Nil, Request
      <4> QED
        BY <2>5, <3>1, <4>1 DEF Pending
    <3>3. ASSUME NEW m \in Names, subs'[m] # Nil
          PROVE  subs'[m] <= issued' /\ kind'[subs'[m]] = "Match"
      <4>1. CASE m = n
        BY <2>0, <2>1, <3>1, <4>1 DEF ClientTypeOK, Request
      <4>2. CASE m # n
        BY <2>6, <3>1, <3>3, <4>2 DEF ClientTypeOK, Nil, Request
      <4> QED
        BY <4>1, <4>2
    <3> QED
      BY <2>4, <3>2, <3>3 DEF WInv, NoWaiterForgotten, Pending
  <2> QED
    BY <2>7, <2>8
<1> QED
  BY <1>1, <1>2

LEMMA LeaveWInv ==
  ASSUME Parameters, IInv, ClientTypeOK, WInv, NEW f \in Fibers, Leave(f)
  PROVE  WInv'
<1>0. PICK r \in Request : r = calls[f]
  BY DEF Leave, ClientTypeOK, Nil, Request
<1>1. /\ vm = "running" /\ calls' = [calls EXCEPT ![f] = Nil]
      /\ UNCHANGED <<subs, bus, issued, kind, attached, inbox, vm>>
      /\ \/ chan' = chan
         \/ mem[r] = "live" /\ chan' = [chan EXCEPT ![r] = "closed"]
      /\ calls \in [Fibers -> 0..MaxRequests]
      /\ chan \in [Request -> {"open", "closed", "collected"}]
      /\ issued \in Nat
  BY <1>0 DEF Leave, CloseChannel, vars, ClientTypeOK, IInv, TypeOK
<1>2. ASSUME NEW g \in Fibers, calls'[g] # Nil
      PROVE  /\ chan'[calls'[g]] = "open"
             /\ Pending(calls[g])' \/ inbox'[calls'[g]] # << >>
             /\ \A e \in Fibers : calls'[e] = calls'[g] => e = g
             /\ calls'[g] <= issued' /\ kind'[calls'[g]] = "Call"
  <2>1. g # f /\ calls'[g] = calls[g] /\ calls[g] # Nil
    BY <1>1, <1>2
  <2>2. PICK p \in Request : p = calls[g]
    BY <2>1 DEF ClientTypeOK, Nil, Request
  <2>3. /\ chan[p] = "open" /\ (Pending(p) \/ inbox[p] # << >>)
        /\ \A e \in Fibers : calls[e] = p => e = g
        /\ p <= issued /\ kind[p] = "Call"
    BY <1>1, <2>1, <2>2 DEF WInv, NoWaiterForgotten
  <2>4. p # r /\ chan'[p] = chan[p]
    BY <1>0, <1>1, <2>1, <2>3
  <2>5. \A e \in Fibers : calls'[e] = p => e = g
    BY <1>1, <1>2, <2>1, <2>2, <2>3
  <2> QED
    BY <1>1, <2>1, <2>2, <2>3, <2>4, <2>5 DEF Pending
<1>3. ASSUME NEW p \in Request, p > issued'
      PROVE  chan'[p] = "open"
  <2>1. p > issued /\ chan[p] = "open"
    BY <1>1, <1>3 DEF WInv
  <2>2. mem[r] = "live" => p # r
    BY <1>1, <2>1, LiveIsIssued DEF Request
  <2> QED
    BY <1>1, <2>1, <2>2
<1> QED
  BY <1>1, <1>2, <1>3 DEF WInv, NoWaiterForgotten, Pending

LEMMA UnsubscribeWInv ==
  ASSUME Parameters, IInv, ClientTypeOK, WInv, NEW n \in Names, Unsubscribe(n)
  PROVE  WInv'
<1>1. CASE vm' # "running"
  BY <1>1 DEF WInv, NoWaiterForgotten
<1>2. CASE vm' = "running"
  <2>0. PICK r \in Request : r = subs[n]
    BY DEF Unsubscribe, ClientTypeOK, Nil, Request
  <2>1. /\ vm = "running" /\ calls' = calls /\ subs' = [subs EXCEPT ![n] = Nil]
        /\ UNCHANGED <<bus, issued, kind, inbox, chan>>
        /\ attached' = attached \/ attached' = [attached EXCEPT ![r] = FALSE]
        /\ attached \in [Request -> BOOLEAN]
        /\ subs \in [Names -> 0..MaxRequests]
    BY <1>2, <2>0 DEF Unsubscribe, Cancel, Fault, vars, ClientTypeOK, IInv, TypeOK
  <2>2. kind[r] = "Match"
    BY <2>0, <2>1 DEF WInv, Nil, Request
  <2>3. ASSUME NEW f \in Fibers, calls'[f] # Nil
        PROVE  /\ chan'[calls'[f]] = "open"
               /\ Pending(calls[f])' \/ inbox'[calls'[f]] # << >>
               /\ \A g \in Fibers : calls'[g] = calls'[f] => g = f
               /\ calls'[f] <= issued' /\ kind'[calls'[f]] = "Call"
    <3>1. PICK p \in Request : p = calls[f]
      BY <2>1, <2>3 DEF ClientTypeOK, Nil, Request
    <3>2. /\ chan[p] = "open" /\ (Pending(p) \/ inbox[p] # << >>)
          /\ \A g \in Fibers : calls[g] = p => g = f
          /\ p <= issued /\ kind[p] = "Call"
      BY <2>1, <2>3, <3>1 DEF WInv, NoWaiterForgotten
    <3>3. p # r /\ (Pending(p) => Pending(p)')
      BY <2>1, <2>2, <3>2 DEF Pending
    <3> QED
      BY <2>1, <3>1, <3>2, <3>3 DEF Pending
  <2>4. ASSUME NEW m \in Names, subs'[m] # Nil
        PROVE  subs'[m] <= issued' /\ kind'[subs'[m]] = "Match"
    BY <2>1, <2>4 DEF WInv
  <2>5. \A p \in Request : p > issued' => chan'[p] = "open"
    BY <2>1 DEF WInv
  <2> QED
    BY <2>3, <2>4, <2>5 DEF WInv, NoWaiterForgotten, Pending
<1> QED
  BY <1>1, <1>2

LEMMA StepWInv ==
  ASSUME Parameters, IInv, LInv, ClientTypeOK, WInv, [ClientNext]_allVars
  PROVE  WInv'
<1>1. CASE UNCHANGED allVars
  BY <1>1 DEF allVars, vars, clientVars, WInv, NoWaiterForgotten, Pending
<1>2. CASE /\ SubmitFails \/ LastOwnerGone \/ DisconnectNewest \/ BusFreed
           /\ UNCHANGED clientVars
  <2>1. CASE vm' # "running"
    BY <2>1 DEF WInv, NoWaiterForgotten
  <2>2. CASE vm' = "running"
    <3>1. /\ vm = "running" /\ UNCHANGED <<calls, subs, kind, chan, inbox>>
          /\ issued \in Nat /\ issued' \in Nat /\ issued' >= issued
          /\ \A r \in Request : Pending(r) => Pending(r)'
      BY <1>2, <2>2 DEF SubmitFails, LastOwnerGone, DisconnectNewest, BusFreed, Fault,
                        clientVars, IInv, TypeOK, Pending
    <3> QED
      BY <3>1, SameWInv
  <2> QED
    BY <2>1, <2>2
<1>3. CASE CloseBus /\ UNCHANGED clientVars
  BY <1>3, CloseBusWInv DEF clientVars
<1>4. ASSUME NEW r \in Request, UNCHANGED clientVars,
             Collects(r) \/ ClosesChannel(r) \/ Reply(r) \/ MatchMessage(r)
      PROVE  WInv'
  BY <1>4, ChannelWInv, HearWInv DEF clientVars
<1>5. ASSUME NEW f \in Fibers, CallMethod(f) \/ Return(f) \/ Cancelled(f)
      PROVE  WInv'
  BY <1>5, MakeWInv, LeaveWInv DEF Return, Cancelled
<1>6. ASSUME NEW n \in Names, Subscribe(n) \/ Unsubscribe(n)
      PROVE  WInv'
  BY <1>6, MakeWInv, UnsubscribeWInv
<1> QED
  BY <1>1, <1>2, <1>3, <1>4, <1>5, <1>6 DEF ClientNext

\* For any number of fibers, calls and subscriptions, a fiber that waits in call-method
\* has an open channel of its own and a request that can still be answered, or a
\* status it has not taken yet; the safety half of EveryCallMethodReturns
\* (call-method in src/init.janet, src/src/call.c, src/src/async.c).
THEOREM NoWaiterIsForgotten ==
  ASSUME ForgetfulAtMost
  PROVE  ClientSpec => []NoWaiterForgotten
<1>1. ClientInit => WInv
  BY DEF ClientInit, Init, WInv, NoWaiterForgotten
<1>2. IInv /\ LInv /\ ClientTypeOK /\ WInv /\ [ClientNext]_allVars => WInv'
  BY Parameters, StepWInv
<1>3. ClientSpec => [](IInv /\ LInv)
  BY ClientsArePrograms, SoundHolds, PTL
<1>4. WInv => NoWaiterForgotten
  BY DEF WInv
<1> QED
  BY <1>1, <1>2, <1>3, <1>4, ClientTypes, PTL DEF ClientSpec

\* The list of pending requests is exact in every client, and closing the connection
\* tells every request that is pending and no other.
THEOREM ClientListAndClose ==
  ASSUME ForgetfulAtMost
  PROVE  ClientSpec => []QueueExact /\ CloseTellsPending
BY ClientsArePrograms, QueueStaysExact, CloseTellsPendingHolds, PTL
================================================================================
