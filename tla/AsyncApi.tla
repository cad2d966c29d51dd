-------------------------------- MODULE AsyncApi --------------------------------
(* What sdbus/call-async, sdbus/match-async, sdbus/cancel and sdbus/close-bus  *)
(* promise to a program: the docstrings of src/src/call.c and src/src/slot.c   *)
(* as a state machine.  A call is answered at most once, a subscription hears  *)
(* messages until it is withdrawn, and closing the connection tells every      *)
(* request that is still pending, each exactly once.  Nothing here knows about *)
(* slots, reference counts or the list of pending requests.                    *)
EXTENDS Integers, Sequences, TLAPS

CONSTANT MaxRequests       \* how many requests a program makes

Request == 1..MaxRequests
Kind == {"Call", "Match"}
\* A message, the failure of the request, the closing of the connection.
Status == {"answer", "error", "close"}

VARIABLES
  open,      \* the connection is open
  phase,     \* of each request: unused, pending or over
  sort,      \* of each request: Call or Match
  heard      \* of each request: the statuses written to its channel

vars == <<open, phase, sort, heard>>

TypeOK ==
  /\ open \in BOOLEAN
  /\ phase \in [Request -> {"unused", "pending", "over"}]
  /\ sort \in [Request -> Kind]
  /\ heard \in [Request -> Seq(Status)]

Init ==
  /\ open = TRUE
  /\ phase = [r \in Request |-> "unused"]
  /\ sort = [r \in Request |-> "Call"]
  /\ heard = [r \in Request |-> << >>]

Say(r, s) == heard' = [heard EXCEPT ![r] = Append(@, s)]
Over(r) == phase' = [phase EXCEPT ![r] = "over"]
Pending(r) == open /\ phase[r] = "pending"

Make(r) ==
  /\ open
  /\ phase[r] = "unused"
  /\ phase' = [phase EXCEPT ![r] = "pending"]
  /\ \E k \in Kind : sort' = [sort EXCEPT ![r] = k]
  /\ UNCHANGED <<open, heard>>

\* The request never gets to the bus: the function raises an error instead.
Refuse(r) ==
  /\ phase[r] = "unused"
  /\ Over(r)
  /\ UNCHANGED <<open, sort, heard>>

\* The one reply of a call.
Answer(r) ==
  /\ Pending(r) /\ sort[r] = "Call"
  /\ Say(r, "answer")
  /\ Over(r)
  /\ UNCHANGED <<open, sort>>

\* A message for a subscription.
Notify(r) ==
  /\ Pending(r) /\ sort[r] = "Match"
  /\ Say(r, "answer")
  /\ UNCHANGED <<open, phase, sort>>

Withdraw(r) ==
  /\ Pending(r)
  /\ Over(r)
  /\ UNCHANGED <<open, sort, heard>>

Close ==
  /\ open
  /\ open' = FALSE
  /\ phase' = [r \in Request |-> IF phase[r] = "pending" THEN "over" ELSE phase[r]]
  /\ heard' = [r \in Request |-> IF phase[r] = "pending"
                                   THEN Append(heard[r], "close") ELSE heard[r]]
  /\ UNCHANGED sort

Next ==
  \/ \E r \in Request :
       Make(r) \/ Refuse(r) \/ Answer(r) \/ Notify(r) \/ Withdraw(r)
  \/ Close

Spec == Init /\ [][Next]_vars
--------------------------------------------------------------------------------
\* A call hears one status at most, and is over once it has; what has heard "close"
\* hears nothing more, and nothing hears it while the connection is open.
AnsweredOnce ==
  \A r \in Request :
    /\ sort[r] = "Call" =>
         heard[r] = << >> \/ (Len(heard[r]) = 1 /\ phase[r] = "over")
    /\ \A i \in 1..Len(heard[r]) :
         heard[r][i] = "close" => i = Len(heard[r]) /\ ~open

\* What has not been made has heard nothing.
Silent == \A r \in Request : phase[r] = "unused" => heard[r] = << >>

ApiInv == TypeOK /\ Silent /\ AnsweredOnce

\* One more status for request r, which does not end a call twice.
LEMMA SayKeeps ==
  ASSUME ApiInv, NEW r \in Request, Pending(r), Say(r, "answer"), open' = open,
         sort' = sort, phase' \in [Request -> {"unused", "pending", "over"}],
         \A p \in Request : p # r => phase'[p] = phase[p],
         phase'[r] # "unused", sort[r] = "Call" => phase'[r] = "over"
  PROVE  ApiInv'
<1>1. heard \in [Request -> Seq(Status)] /\ "answer" \in Status /\ phase[r] = "pending"
      /\ open
  BY DEF ApiInv, TypeOK, Status, Pending
<1>2. /\ heard' = [heard EXCEPT ![r] = Append(heard[r], "answer")]
      /\ heard[r] \in Seq(Status)
  BY <1>1 DEF Say
<1>3. TypeOK'
  <2>1. Append(heard[r], "answer") \in Seq(Status)
    BY <1>1, <1>2
  <2> QED
    BY <1>1, <1>2, <2>1 DEF ApiInv, TypeOK
<1>4. Silent'
  BY <1>1, <1>2 DEF ApiInv, Silent
<1>5. ASSUME NEW p \in Request, p # r
      PROVE  heard'[p] = heard[p]
  BY <1>1, <1>2, <1>5
<1>6. heard'[r] = Append(heard[r], "answer") /\ Len(heard'[r]) = Len(heard[r]) + 1
  BY <1>1, <1>2
<1>7. sort[r] = "Call" => heard[r] = << >>
  BY <1>1 DEF ApiInv, AnsweredOnce
<1>8. \A i \in 1..Len(heard'[r]) : heard'[r][i] # "close"
  <2>1. ASSUME NEW i \in 1..Len(heard'[r])
        PROVE  heard'[r][i] # "close"
    <3>1. CASE i \in 1..Len(heard[r])
      BY <1>1, <1>2, <1>6, <3>1 DEF ApiInv, AnsweredOnce
    <3>2. CASE i = Len(heard[r]) + 1
      BY <1>2, <1>6, <3>2
    <3> QED
      BY <1>2, <1>6, <2>1, <3>1, <3>2
  <2> QED
    BY <2>1
<1>9. ASSUME NEW p \in Request
      PROVE  /\ sort'[p] = "Call" =>
                  heard'[p] = << >> \/ (Len(heard'[p]) = 1 /\ phase'[p] = "over")
             /\ \A i \in 1..Len(heard'[p]) :
                  heard'[p][i] = "close" => i = Len(heard'[p]) /\ ~open'
  <2>1. CASE p # r
    BY <1>5, <2>1 DEF ApiInv, AnsweredOnce
  <2>2. CASE p = r
    <3>1. sort[r] = "Call" => Len(heard'[r]) = 1
      <4>1. Len(<< >>) = 0
        OBVIOUS
      <4> QED
        BY <1>6, <1>7, <4>1
    <3> QED
      BY <1>8, <2>2, <3>1
  <2> QED
    BY <2>1, <2>2
<1>10. AnsweredOnce'
  BY <1>9 DEF AnsweredOnce
<1> QED
  BY <1>3, <1>4, <1>10 DEF ApiInv

LEMMA CloseKeeps ==
  ASSUME ApiInv, Close
  PROVE  ApiInv'
<1>1. /\ heard \in [Request -> Seq(Status)] /\ "close" \in Status
      /\ open /\ open' = FALSE /\ sort' = sort
      /\ \A r \in Request : /\ heard[r] \in Seq(Status)
                            /\ Append(heard[r], "close") \in Seq(Status)
  BY DEF ApiInv, TypeOK, Status, Close
<1>2. ASSUME NEW r \in Request
      PROVE  \/ phase[r] # "pending" /\ phase'[r] = phase[r] /\ heard'[r] = heard[r]
             \/ /\ phase[r] = "pending" /\ phase'[r] = "over"
                /\ heard'[r] = Append(heard[r], "close")
                /\ Len(heard'[r]) = Len(heard[r]) + 1
                /\ sort[r] = "Call" => heard[r] = << >>
  BY <1>1 DEF Close, ApiInv, AnsweredOnce
<1>3. TypeOK'
  BY <1>1 DEF ApiInv, TypeOK, Close
<1>4. Silent'
  BY <1>2 DEF ApiInv, Silent
<1>5. ASSUME NEW r \in Request, NEW i \in 1..Len(heard'[r]), heard'[r][i] = "close"
      PROVE  i = Len(heard'[r])
  <2>1. CASE heard'[r] = heard[r]
    BY <1>1, <1>5, <2>1 DEF ApiInv, AnsweredOnce
  <2>2. CASE heard'[r] = Append(heard[r], "close") /\ i # Len(heard[r]) + 1
    <3>1. i \in 1..Len(heard[r]) /\ heard'[r][i] = heard[r][i]
      BY <1>1, <1>5, <2>2
    <3> QED
      BY <1>1, <1>5, <3>1 DEF ApiInv, AnsweredOnce
  <2> QED
    BY <1>1, <1>2, <2>1, <2>2
<1>6. ASSUME NEW r \in Request, sort[r] = "Call"
      PROVE  heard'[r] = << >> \/ (Len(heard'[r]) = 1 /\ phase'[r] = "over")
  <2>1. CASE phase[r] # "pending"
    BY <1>2, <1>6, <2>1 DEF ApiInv, AnsweredOnce
  <2>2. CASE phase[r] = "pending"
    <3>1. heard[r] = << >> /\ Len(<< >>) = 0
      BY <1>2, <1>6, <2>2
    <3>2. Len(heard'[r]) = Len(heard[r]) + 1 /\ phase'[r] = "over"
      BY <1>2, <2>2
    <3> QED
      BY <3>1, <3>2
  <2> QED
    BY <2>1, <2>2
<1>7. AnsweredOnce'
  BY <1>1, <1>5, <1>6 DEF AnsweredOnce
<1> QED
  BY <1>3, <1>4, <1>7 DEF ApiInv

LEMMA NextKeeps ==
  ASSUME ApiInv, [Next]_vars
  PROVE  ApiInv'
<1>1. CASE UNCHANGED vars
  BY <1>1 DEF vars, ApiInv, TypeOK, Silent, AnsweredOnce
<1>2. CASE Close
  BY <1>2, CloseKeeps
<1>3. ASSUME NEW r \in Request, Make(r) \/ Refuse(r) \/ Withdraw(r)
      PROVE  ApiInv'
  <2>1. /\ open' = open /\ heard' = heard
        /\ sort' \in [Request -> Kind]
        /\ phase' \in [Request -> {"unused", "pending", "over"}]
        /\ \A p \in Request : /\ phase'[p] = "unused" => phase[p] = "unused"
                              /\ phase[p] = "over" => phase'[p] = "over"
                              /\ sort'[p] = sort[p] \/ phase[p] = "unused"
    BY <1>3 DEF Make, Refuse, Withdraw, Over, Pending, ApiInv, TypeOK
  <2>2. TypeOK' /\ Silent'
    BY <2>1 DEF ApiInv, TypeOK, Silent
  <2>3. AnsweredOnce'
    BY <2>1 DEF ApiInv, AnsweredOnce, Silent
  <2> QED
    BY <2>2, <2>3 DEF ApiInv
<1>4. ASSUME NEW r \in Request, Answer(r) \/ Notify(r)
      PROVE  ApiInv'
  <2>1. phase \in [Request -> {"unused", "pending", "over"}] /\ phase[r] # "unused"
    BY <1>4 DEF ApiInv, TypeOK, Answer, Notify, Pending
  <2> QED
    BY <1>4, <2>1, SayKeeps DEF Answer, Notify, Over
<1> QED
  BY <1>1, <1>2, <1>3, <1>4 DEF Next

\* What call-async, match-async, cancel and close-bus promise is enough for a call to
\* hear one status at most (the docstring of call-async, src/src/call.c:136-140).
THEOREM PromisesAnswerOnce == Spec => []AnsweredOnce
<1>1. Init => ApiInv
  BY DEF Init, ApiInv, TypeOK, Silent, AnsweredOnce, Kind
<1>2. ApiInv /\ [Next]_vars => ApiInv'
  BY NextKeeps
<1>3. ApiInv => AnsweredOnce
  BY DEF ApiInv
<1> QED
  BY <1>1, <1>2, <1>3, PTL DEF Spec
================================================================================
