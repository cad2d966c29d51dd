--------------------------------- MODULE Client ---------------------------------
(* The Janet side of the requests: the fibers of a program in call-method and  *)
(* the table of subscriptions of a proxy (src/init.janet), over the handlers   *)
(* of AsyncCalls.  What AsyncCalls leaves to the program is decided here:      *)
(* call-method forgets the slot of its call at once and closes its channel on  *)
(* every way out, :signal/subscribe keeps its slot in the table until          *)
(* :signal/unsubscribe cancels it or another subscription overwrites it.       *)
(* The connection does not hang up and the bus rejects none of its rules.      *)
EXTENDS AsyncCalls

CONSTANTS
  Fibers,     \* the fibers that call methods
  Names       \* the signals subscribed to through one proxy

VARIABLES
  calls,      \* the request each fiber waits for in call-method, or Nil
  subs,       \* :signal/subscriptions: the request of the slot it has, or Nil
  overwritten \* requests whose slot was overwritten in the table

clientVars == <<calls, subs, overwritten>>
allVars == <<vars, clientVars>>

ClientTypeOK ==
  /\ calls \in [Fibers -> 0..MaxRequests]
  /\ subs \in [Names -> 0..MaxRequests]
  /\ overwritten \subseteq Request

ClientInit ==
  /\ Init
  /\ calls = [f \in Fibers |-> Nil]
  /\ subs = [n \in Names |-> Nil]
  /\ overwritten = {}

--------------------------------------------------------------------------------
(* call-method *)

\* call-async or match-async, as Submit describes it, for a request of kind k.
Make(k) == Submit /\ (vm' = "running" => kind'[issued + 1] = k)

\* The call is made, its slot discarded, and the fiber waits on its own channel.
CallMethod(f) ==
  /\ calls[f] = Nil
  /\ Make("Call")
  /\ calls' = IF vm' = "running" THEN [calls EXCEPT ![f] = issued + 1] ELSE calls
  /\ UNCHANGED <<subs, overwritten>>

\* The fiber leaves the body of with, which closes the channel.
Leave(f) ==
  LET r == calls[f] IN
  /\ vm = "running" /\ bus # "freeing" /\ r # Nil
  /\ calls' = [calls EXCEPT ![f] = Nil]
  /\ IF bus = "open" /\ mem[r] = "live" THEN CloseChannel(r) ELSE UNCHANGED vars
  /\ UNCHANGED <<subs, overwritten>>

\* ev/take has its status: the contents of the reply, or an error.
Return(f) == calls[f] # Nil /\ inbox[calls[f]] # << >> /\ Leave(f)

\* A deadline, or another fiber, cancels the one that waits; or it is resumed by the
\* event of a method that suspended in its name, and raises (Exports, Suspend).
Cancelled(f) == May("closeChannel") /\ Leave(f)

--------------------------------------------------------------------------------
(* Subscriptions of a proxy *)

\* :signal/subscribe keeps the new slot under the name, whatever was there.
Subscribe(n) ==
  /\ Make("Match")
  /\ IF vm' = "running"
       THEN /\ subs' = [subs EXCEPT ![n] = issued + 1]
            /\ overwritten' = overwritten \cup ({subs[n]} \ {Nil})
       ELSE UNCHANGED <<subs, overwritten>>
  /\ UNCHANGED calls

\* :signal/unsubscribe that forgets to cancel (for mutation).
UnsubscribeTableOnly(n) ==
  /\ vm = "running" /\ bus # "freeing" /\ subs[n] # Nil
  /\ subs' = [subs EXCEPT ![n] = Nil]
  /\ UNCHANGED <<vars, calls, overwritten>>

\* :signal/unsubscribe cancels the slot, which does nothing when closing the
\* connection has taken it back already, and removes the name.
Unsubscribe(n) ==
  /\ vm = "running" /\ bus # "freeing" /\ subs[n] # Nil
  /\ IF wrapper[subs[n]] = "held" THEN Cancel(subs[n]) ELSE UNCHANGED vars
  /\ subs' = IF vm' = "running" THEN [subs EXCEPT ![n] = Nil] ELSE subs
  /\ UNCHANGED <<calls, overwritten>>

--------------------------------------------------------------------------------
(* The collector, the program's other steps, and sd-bus *)

Waiting(r) == \E f \in Fibers : calls[f] = r
Kept(r) == \E n \in Names : subs[n] = r

\* The collector takes what nothing refers to: a fiber that waits refers to its
\* channel, the table to its slots.
Collects(r) ==
  \/ CollectSlot(r) /\ ~Kept(r)
  \/ CollectChannel(r) /\ ~Waiting(r)

\* The program closes the channel of a subscription.
ClosesChannel(r) == kind[r] = "Match" /\ CloseChannel(r)

ClientNext ==
  \/ \E f \in Fibers : CallMethod(f) \/ Return(f) \/ Cancelled(f)
  \/ \E n \in Names : Subscribe(n) \/ Unsubscribe(n)
  \/ /\ \/ SubmitFails \/ CloseBus \/ LastOwnerGone \/ DisconnectNewest \/ BusFreed
        \/ \E r \in Request : \/ Collects(r) \/ ClosesChannel(r)
                              \/ Reply(r) \/ MatchMessage(r)
     /\ UNCHANGED clientVars

ClientSpec == ClientInit /\ [][ClientNext]_allVars

\* As for AsyncCalls; and the event loop resumes a fiber whose channel has something.
ClientFairness ==
  /\ \A r \in Request : WF_allVars(Reply(r) /\ UNCHANGED clientVars)
  /\ \A f \in Fibers : WF_allVars(Return(f))
  /\ WF_allVars(DisconnectNewest /\ UNCHANGED clientVars)
  /\ WF_allVars(BusFreed /\ UNCHANGED clientVars)

FairClientSpec == ClientSpec /\ ClientFairness
--------------------------------------------------------------------------------
(* Properties *)

\* A fiber in call-method returns or raises: nothing that other fibers, the
\* collector or close-bus do leaves it waiting for ever, unless it ends the whole
\* program (call-method in init.janet, message_handler, closeall_pending).
EveryCallMethodReturns ==
  \A f \in Fibers : calls[f] # Nil ~> (calls[f] = Nil \/ vm # "running")

\* A fiber that waits in call-method has a channel of its own that is open, and either
\* a request that can still be answered or a status it has not taken yet: no reply is
\* given to another fiber or to a channel that another fiber closed, and no closing
\* passes over a waiting call (call-method in init.janet, message_handler,
\* closeall_pending).
NoWaiterForgotten ==
  vm = "running" =>
    \A f \in Fibers : calls[f] # Nil =>
      /\ chan[calls[f]] = "open"
      /\ Pending(calls[f]) \/ inbox[calls[f]] # << >>
      /\ \A g \in Fibers : calls[g] = calls[f] => g = f

Told(r, s) == \E i \in DOMAIN inbox[r] : inbox[r][i] = s

\* Cancelling a subscription's slot silences it: it hears signals only while the proxy
\* has its slot.  Exempt, and so not promised by this property, are a subscription that
\* another one overwrote in the table, which nothing can cancel any more
\* (UnsubscribedIsSilent), and one that a closing told :close before it failed, whose
\* slot was taken back (HeardIsKept) (proxy-subscribe and proxy-unsubscribe in
\* init.janet, cfun_cancel_slot, closeall_pending).
SignalsStopAtUnsubscribe ==
  [][\A r \in Request :
       kind[r] = "Match" /\ inbox'[r] # inbox[r] /\ bus' = "open" =>
         Kept(r) \/ r \in overwritten \/ Told(r, "close")]_allVars

\* A proxy that has no subscription left gives no signal to any channel: "Unsubscribe
\* via `(:unsubscribe <proxy-object> :<signal-name>)`" (the docstring of proxy,
\* init.janet:181-182).  Violated: subscribing to a name again puts the new slot in the
\* place of the old one, which nobody cancels (proxy-subscribe, init.janet:143).
UnsubscribedIsSilent ==
  [][(\A n \in Names : subs[n] = Nil) /\ bus' = "open" =>
       \A r \in Request : kind[r] = "Match" => inbox'[r] = inbox[r]]_allVars

\* The same of a name that was subscribed to once.  Violated: a closing that another
\* channel makes fail has taken the slots of newer requests back and told them :close,
\* "the last of which indicates that the D-Bus connection has been closed"
\* (call.c:177-178), but they are still installed, and :signal/unsubscribe cancels
\* nothing (closeall_pending, async.c:110-114; cfun_cancel_slot).
HeardIsKept ==
  [][\A r \in Request :
       kind[r] = "Match" /\ inbox'[r] # inbox[r] /\ bus' = "open" =>
         Kept(r) \/ r \in overwritten]_allVars
================================================================================
