------------------------------ MODULE AsyncProofs ------------------------------
(* Proofs about AsyncCalls, for any number of requests, any bound and any      *)
(* habits, unless a theorem names the habits it is about.  In this order:      *)
(* types, reference counts and the order of links, for every program; in       *)
(* programs with good habits, that the list of pending requests is exact and   *)
(* no handler faults; and that the requests keep their promises: closing the   *)
(* connection tells every pending request and no other, and in programs that   *)
(* close no channel of a pending request AsyncCalls implements AsyncApi.       *)
EXTENDS AsyncCalls, FiniteSetTheorems, TLAPS

--------------------------------------------------------------------------------
(* The list operators *)

\* The links of records 1..N, ordered by age.
OrderedLinks(next, prev, N) ==
  /\ next \in [1..N -> 0..N]
  /\ prev \in [1..N -> 0..N]
  /\ \A p \in 1..N : next[p] < p
  /\ \A p \in 1..N : prev[p] = Nil \/ p < prev[p]

\* A list whose links are ordered and whose head is among the first n records.
Ordered(q, n, N) ==
  /\ q = [head |-> q.head, next |-> q.next, prev |-> q.prev]
  /\ q.head \in 0..n
  /\ OrderedLinks(q.next, q.prev, N)

\* queue_pending (async.c:77) keeps the links ordered when the record is new.
LEMMA QueueOrdered ==
  ASSUME NEW N \in Nat, NEW n \in 0..N, n < N, NEW q, Ordered(q, n, N)
  PROVE  Ordered(QueuePending(q, n + 1), n + 1, N)
<1> DEFINE h == q.head
           f == q.next
           g == q.prev
           f1 == [f EXCEPT ![n + 1] = h]
           u == [g EXCEPT ![n + 1] = Nil]
           g1 == IF h = Nil THEN u ELSE [u EXCEPT ![h] = n + 1]
<1>1. QueuePending(q, n + 1) = [head |-> n + 1, next |-> f1, prev |-> g1]
  BY DEF QueuePending
<1>2. h \in 0..n /\ OrderedLinks(f, g, N)
  BY DEF Ordered
<1> HIDE DEF h, f, g
<1>3. u \in [1..N -> 0..N] /\ \A p \in 1..N : u[p] = Nil \/ p < u[p]
  BY <1>2 DEF OrderedLinks, Nil
<1>4. f1 \in [1..N -> 0..N] /\ \A p \in 1..N : f1[p] < p
  BY <1>2 DEF OrderedLinks
<1> HIDE DEF u, f1
<1>5. g1 \in [1..N -> 0..N] /\ \A p \in 1..N : g1[p] = Nil \/ p < g1[p]
  BY <1>2, <1>3 DEF Nil
<1> HIDE DEF g1
<1>6. OrderedLinks(f1, g1, N)
  BY <1>4, <1>5 DEF OrderedLinks
<1> QED
  BY <1>1, <1>6 DEF Ordered

\* dequeue_pending (async.c:87) keeps the links ordered whichever record it is
\* called on, in the list or not.
LEMMA DequeueOrdered ==
  ASSUME NEW N \in Nat, NEW n \in 0..N, NEW q, Ordered(q, n, N), NEW r \in 1..n
  PROVE  Ordered(DequeuePending(q, r), n, N)
<1>1. CASE q.head = Nil
  BY <1>1 DEF DequeuePending
<1>2. CASE q.head # Nil
  <2> DEFINE h == q.head
             f == q.next
             g == q.prev
             h1 == IF g[r] = Nil THEN f[r] ELSE h
             f1 == IF g[r] = Nil THEN f ELSE [f EXCEPT ![g[r]] = f[r]]
             g1 == IF f[r] = Nil THEN g ELSE [g EXCEPT ![f[r]] = g[r]]
  <2>1. DequeuePending(q, r) = [head |-> h1, next |-> f1, prev |-> g1]
    BY <1>2 DEF DequeuePending
  <2>2. h \in 0..n /\ OrderedLinks(f, g, N)
    BY DEF Ordered
  <2> HIDE DEF h, f, g
  <2>3. h1 \in 0..n
    BY <2>2 DEF OrderedLinks
  <2>4. f1 \in [1..N -> 0..N] /\ \A p \in 1..N : f1[p] < p
    BY <2>2 DEF OrderedLinks, Nil
  <2>5. g1 \in [1..N -> 0..N] /\ \A p \in 1..N : g1[p] = Nil \/ p < g1[p]
    BY <2>2 DEF OrderedLinks, Nil
  <2> HIDE DEF h1, f1, g1
  <2>6. OrderedLinks(f1, g1, N)
    BY <2>4, <2>5 DEF OrderedLinks
  <2> QED
    BY <2>1, <2>3, <2>6 DEF Ordered
<1> QED
  BY <1>1, <1>2

\* Taking a record out a second time at once changes nothing: the reply handler
\* and the destroy callback both call dequeue_pending (call.c:39, 89, 114).
LEMMA DequeueTwice ==
  ASSUME NEW N \in Nat, NEW n \in 0..N, NEW q, Ordered(q, n, N), NEW r \in 1..n
  PROVE  DequeuePending(DequeuePending(q, r), r) = DequeuePending(q, r)
<1>1. CASE q.head = Nil \/ DequeuePending(q, r).head = Nil
  BY <1>1 DEF DequeuePending
<1>2. CASE q.head # Nil /\ DequeuePending(q, r).head # Nil
  <2> DEFINE h == q.head
             f == q.next
             g == q.prev
             h1 == IF g[r] = Nil THEN f[r] ELSE h
             f1 == IF g[r] = Nil THEN f ELSE [f EXCEPT ![g[r]] = f[r]]
             g1 == IF f[r] = Nil THEN g ELSE [g EXCEPT ![f[r]] = g[r]]
             h2 == IF g1[r] = Nil THEN f1[r] ELSE h1
             f2 == IF g1[r] = Nil THEN f1 ELSE [f1 EXCEPT ![g1[r]] = f1[r]]
             g2 == IF f1[r] = Nil THEN g1 ELSE [g1 EXCEPT ![f1[r]] = g1[r]]
             t == [head |-> h1, next |-> f1, prev |-> g1]
  <2>1. DequeuePending(q, r) = t
    BY <1>2 DEF DequeuePending
  <2>2. DequeuePending(t, r) = [head |-> h2, next |-> f2, prev |-> g2]
    <3>1. t.head # Nil /\ t.head = h1 /\ t.next = f1 /\ t.prev = g1
      BY <1>2, <2>1
    <3> HIDE DEF t, h1, f1, g1
    <3> QED
      BY <3>1 DEF DequeuePending
  <2>3. OrderedLinks(f, g, N)
    BY DEF Ordered
  <2> HIDE DEF h, f, g
  <2>4. f1[r] = f[r] /\ g1[r] = g[r]
    BY <2>3 DEF OrderedLinks, Nil
  <2>5. f2 = f1
    BY <2>3, <2>4 DEF OrderedLinks, Nil
  <2>6. g2 = g1
    BY <2>3, <2>4 DEF OrderedLinks, Nil
  <2>7. h2 = h1
    BY <2>4
  <2> QED
    BY <2>1, <2>2, <2>5, <2>6, <2>7
<1> QED
  BY <1>1, <1>2

\* The loop of closeall_pending meets only records that have been issued.
LEMMA ListedIssued ==
  ASSUME NEW N \in Nat, NEW n \in 0..N, NEW q, Ordered(q, n, N)
  PROVE  Listed(q, 1..N) \subseteq 1..n
<1> DEFINE f == q.next
<1>1. 1..n \in SUBSET (1..N)
  OBVIOUS
<1>2. q.head \in 0..n /\ OrderedLinks(f, q.prev, N)
  BY DEF Ordered
<1> HIDE DEF f
<1>3. \A p \in 1..n : f[p] = Nil \/ f[p] \in 1..n
  BY <1>2 DEF OrderedLinks, Nil
<1>4. q.head = Nil \/ q.head \in 1..n
  BY <1>2 DEF Nil
<1>5. ClosedUnderNext(q, 1..n)
  BY <1>3, <1>4 DEF ClosedUnderNext, f
<1> QED
  BY <1>1, <1>5 DEF Listed
--------------------------------------------------------------------------------
(* Ownership of the records, for every program *)

\* A request not yet made has neither a wrapper nor a slot.
Fresh ==
  \A r \in Request : r > issued => wrapper[r] = "none" /\ ~attached[r]

\* The inductive invariant: the records of a request live exactly as long as its
\* references, and the links lead from newer to older records.
IInv == TypeOK /\ Fresh /\ Ownership /\ LinksOrdered

\* What IInv says of the list, in the form the lemmas about it use.
LEMMA QueueIsOrdered ==
  ASSUME TypeOK, LinksOrdered
  PROVE  Ordered(queue, issued, MaxRequests)
  BY DEF TypeOK, LinksOrdered, Ordered, OrderedLinks, Request

LEMMA OrderedIsQueue ==
  ASSUME issued \in 0..MaxRequests, Ordered(queue, issued, MaxRequests), Parameters
  PROVE  /\ LinksOrdered
         /\ queue \in [head : 0..MaxRequests,
                       next : [Request -> 0..MaxRequests],
                       prev : [Request -> 0..MaxRequests]]
  BY DEF LinksOrdered, Ordered, OrderedLinks, Request, Parameters

\* The counts agree with who holds the slot, and the records with the counts.
Counted(R, W, A, M) ==
  \A r \in Request :
    /\ R[r] = (IF W[r] = "held" THEN 1 ELSE 0) + (IF A[r] THEN 1 ELSE 0)
    /\ M[r] = "live" <=> R[r] > 0

\* Dropping references that are there (set_floating and unref with
\* destroy_call_callback, call.c:36).
LEMMA DropStep ==
  ASSUME Parameters, TypeOK, LinksOrdered,
         NEW r \in Request, r <= issued,
         NEW n \in 1..2, n <= refs[r],
         \A p \in Request : mem[p] = "live" <=> refs[p] > 0,
         NEW q, Ordered(q, issued, MaxRequests),
         Drop(r, n, q)
  PROVE  /\ refs' = [refs EXCEPT ![r] = @ - n]
         /\ refs' \in [Request -> 0..2]
         /\ mem' \in [Request -> {"none", "live", "freed"}]
         /\ Ordered(queue', issued, MaxRequests)
         /\ \A p \in Request : mem'[p] = "live" <=> refs'[p] > 0
<1>1. r \in 1..issued /\ issued \in 0..MaxRequests /\ MaxRequests \in Nat
  BY DEF Request, TypeOK, Parameters
<1>2. refs \in [Request -> 0..2] /\ mem \in [Request -> {"none", "live", "freed"}]
  BY DEF TypeOK
<1>3. refs' = [refs EXCEPT ![r] = @ - n]
  BY DEF Drop
<1>4. refs' \in [Request -> 0..2]
  BY <1>2, <1>3
<1>5. CASE refs[r] = n
  <2>1. queue' = DequeuePending(q, r) /\ mem' = [mem EXCEPT ![r] = "freed"]
    BY <1>5 DEF Drop
  <2>2. Ordered(queue', issued, MaxRequests)
    BY <1>1, <2>1, DequeueOrdered
  <2> QED
    BY <1>2, <1>3, <1>4, <1>5, <2>1, <2>2
<1>6. CASE refs[r] # n
  BY <1>2, <1>3, <1>4, <1>6 DEF Drop
<1> QED
  BY <1>5, <1>6

\* What the loop of closeall_pending does to the counts, over records it can pass.
LEMMA ReleaseStep ==
  ASSUME Parameters, TypeOK, Fresh, LinksOrdered, vm = "running", Ownership,
         NEW V \in SUBSET ListedNow, \A r \in V : ~Blocks(r),
         NEW s \in Status, TellAndRelease(V, s), UNCHANGED <<mem, attached, issued>>
  PROVE  /\ refs' \in [Request -> 0..2]
         /\ wrapper' \in [Request -> {"none", "held", "released", "collected"}]
         /\ inbox' \in [Request -> Seq(Status)]
         /\ Fresh'
         /\ Counted(refs', wrapper', attached', mem')
<1>1. V \subseteq 1..issued
  <2>1. Ordered(queue, issued, MaxRequests)
    BY QueueIsOrdered
  <2>2. issued \in 0..MaxRequests /\ MaxRequests \in Nat
    BY DEF TypeOK, Parameters
  <2> QED
    BY <2>1, <2>2, ListedIssued DEF ListedNow, Request
<1>2. \A r \in V : wrapper[r] = "held" => refs[r] # 1
  BY DEF Blocks, Unsafe
<1>3. V \subseteq Request
  BY <1>1 DEF TypeOK, Request
<1>4. /\ refs' = [r \in Request |->
                   IF r \in V /\ wrapper[r] = "held" THEN refs[r] - 1 ELSE refs[r]]
      /\ wrapper' = [r \in Request |-> IF r \in V THEN "released" ELSE wrapper[r]]
      /\ inbox' = [r \in Request |-> IF r \in V THEN Append(inbox[r], s) ELSE inbox[r]]
  BY DEF TellAndRelease
<1>5. \A r \in Request :
        /\ refs[r] = (IF wrapper[r] = "held" THEN 1 ELSE 0)
                     + (IF attached[r] THEN 1 ELSE 0)
        /\ mem[r] = "live" <=> refs[r] > 0
  BY DEF Ownership
<1>6. /\ refs \in [Request -> 0..2] /\ attached \in [Request -> BOOLEAN]
      /\ wrapper \in [Request -> {"none", "held", "released", "collected"}]
      /\ inbox \in [Request -> Seq(Status)] /\ issued \in Nat
  BY DEF TypeOK
<1>7. refs' \in [Request -> 0..2]
  BY <1>4, <1>5, <1>6
<1>8. wrapper' \in [Request -> {"none", "held", "released", "collected"}]
  BY <1>4, <1>6
<1>9. inbox' \in [Request -> Seq(Status)]
  BY <1>4, <1>6
<1>10. Fresh'
  BY <1>1, <1>4, <1>6 DEF Fresh, Request
<1>11. Counted(refs', wrapper', attached', mem')
  BY <1>2, <1>4, <1>5, <1>6 DEF Counted
<1> QED
  BY <1>7, <1>8, <1>9, <1>10, <1>11

LEMMA InitIInv ==
  ASSUME Parameters, Init
  PROVE  IInv
<1>1. TypeOK
  BY DEF Parameters, Init, TypeOK, EmptyList, Nil, Kind, Status, Request
<1>2. Fresh /\ Ownership
  BY DEF Init, Fresh, Ownership
<1>3. LinksOrdered
  BY DEF Init, LinksOrdered, EmptyList, Nil, Request
<1> QED
  BY <1>1, <1>2, <1>3 DEF IInv

LEMMA FaultIInv ==
  ASSUME IInv, Fault
  PROVE  IInv'
  BY DEF IInv, Fault, TypeOK, Fresh, Ownership, LinksOrdered

LEMMA StopIInv ==
  ASSUME Parameters, IInv, NEW q, Ordered(q, issued, MaxRequests), Stop(q)
  PROVE  IInv'
<1>1. /\ LinksOrdered'
      /\ queue' \in [head : 0..MaxRequests,
                     next : [Request -> 0..MaxRequests],
                     prev : [Request -> 0..MaxRequests]]
  BY DEF IInv, TypeOK, Stop, LinksOrdered, Ordered, OrderedLinks, Request, Parameters
<1> QED
  BY <1>1 DEF IInv, Stop, TypeOK, Fresh, Ownership

\* A handler that drops n references of an issued request and tells its owners so.
LEMMA DropIInv ==
  ASSUME Parameters, IInv, vm = "running",
         NEW r \in Request, NEW n \in 1..2, NEW q, Ordered(q, issued, MaxRequests),
         wrapper' \in [Request -> {"none", "held", "released", "collected"}],
         attached' \in [Request -> BOOLEAN],
         \A p \in Request : p # r => /\ wrapper'[p] = wrapper[p]
                                     /\ attached'[p] = attached[p],
         r <= issued,
         refs[r] - n = (IF wrapper'[r] = "held" THEN 1 ELSE 0)
                       + (IF attached'[r] THEN 1 ELSE 0),
         Drop(r, n, q), inbox' \in [Request -> Seq(Status)],
         vm' = vm, conn' = conn, bus' = bus, listening' = listening,
         issued' = issued, kind' = kind, chan' = chan
  PROVE  IInv'
<1>1. /\ refs \in [Request -> 0..2] /\ refs[r] \in 0..2
      /\ \A p \in Request : mem[p] = "live" <=> refs[p] > 0
  BY DEF IInv, TypeOK, Ownership
<1>2. n <= refs[r]
  BY <1>1
<1>3. /\ refs' = [refs EXCEPT ![r] = @ - n]
      /\ refs' \in [Request -> 0..2]
      /\ mem' \in [Request -> {"none", "live", "freed"}]
      /\ Ordered(queue', issued, MaxRequests)
      /\ \A p \in Request : mem'[p] = "live" <=> refs'[p] > 0
  BY <1>1, <1>2, DropStep DEF IInv
<1>4. /\ LinksOrdered'
      /\ queue' \in [head : 0..MaxRequests,
                     next : [Request -> 0..MaxRequests],
                     prev : [Request -> 0..MaxRequests]]
  <2>1. issued' = issued /\ issued \in 0..MaxRequests /\ MaxRequests \in Nat
    BY DEF IInv, TypeOK, Parameters
  <2>2. Ordered(queue', issued, MaxRequests)
    BY <1>3
  <2> QED
    BY <2>1, <2>2 DEF LinksOrdered, Ordered, OrderedLinks, Request
<1>5. Fresh'
  <2>1. issued' = issued /\ issued \in Nat
    BY DEF IInv, TypeOK
  <2>2. \A p \in Request : p > issued => wrapper[p] = "none" /\ ~attached[p]
    BY DEF IInv, Fresh
  <2>3. \A p \in Request : p > issued => p # r
    BY <2>1 DEF Request
  <2>4. \A p \in Request : p > issued => wrapper'[p] = "none" /\ ~attached'[p]
    BY <2>2, <2>3
  <2> QED
    BY <2>1, <2>4 DEF Fresh
<1>6. Ownership'
  <2>1. \A p \in Request : refs[p] = (IF wrapper[p] = "held" THEN 1 ELSE 0)
                                     + (IF attached[p] THEN 1 ELSE 0)
    BY DEF IInv, Ownership
  <2>2. \A p \in Request : refs'[p] = (IF wrapper'[p] = "held" THEN 1 ELSE 0)
                                      + (IF attached'[p] THEN 1 ELSE 0)
    BY <1>1, <1>3, <2>1
  <2> QED
    BY <1>3, <2>2 DEF Ownership
<1>7. TypeOK'
  BY <1>3, <1>4 DEF IInv, TypeOK
<1> QED
  BY <1>4, <1>5, <1>6, <1>7 DEF IInv

\* A slot that somebody refers to belongs to a request that was made, and its count
\* says by whom.
LEMMA Referenced ==
  ASSUME Parameters, IInv, vm = "running", NEW r \in Request,
         attached[r] \/ wrapper[r] # "none"
  PROVE  /\ r \in 1..issued
         /\ refs[r] = (IF wrapper[r] = "held" THEN 1 ELSE 0)
                      + (IF attached[r] THEN 1 ELSE 0)
  BY DEF IInv, TypeOK, Fresh, Ownership, Request

LEMMA GiveType ==
  ASSUME TypeOK, NEW r \in Request, NEW s \in Status, Give(r, s)
  PROVE  inbox' \in [Request -> Seq(Status)]
<1>1. inbox \in [Request -> Seq(Status)]
  BY DEF TypeOK
<1>2. Append(inbox[r], s) \in Seq(Status)
  BY <1>1
<1> QED
  BY <1>1, <1>2 DEF Give

LEMMA SubmitIInv ==
  ASSUME Parameters, IInv, Submit
  PROVE  IInv'
<1> DEFINE r == issued + 1
<1>1. CASE queue.head # Nil /\ mem[queue.head] = "freed"
  BY <1>1, FaultIInv DEF Submit
<1>2. CASE ~(queue.head # Nil /\ mem[queue.head] = "freed")
  <2>1. /\ issued' = r
        /\ queue' = QueuePending(queue, r)
        /\ \E k \in Kind : kind' = [kind EXCEPT ![r] = k]
        /\ mem' = [mem EXCEPT ![r] = "live"]
        /\ refs' = [refs EXCEPT ![r] = 2]
        /\ attached' = [attached EXCEPT ![r] = TRUE]
        /\ wrapper' = [wrapper EXCEPT ![r] = "held"]
        /\ UNCHANGED <<vm, conn, bus, listening, chan, inbox>>
    BY <1>2 DEF Submit
  <2>2. MaxRequests \in Nat /\ issued \in 0..MaxRequests /\ issued < MaxRequests
    BY DEF Submit, IInv, TypeOK, Parameters
  <2>3. r \in Request /\ issued' \in 0..MaxRequests
    BY <2>1, <2>2 DEF Request
  <2>4. Ordered(queue, issued, MaxRequests)
    BY QueueIsOrdered DEF IInv
  <2>5. Ordered(queue', issued', MaxRequests)
    BY <2>1, <2>2, <2>4, QueueOrdered
  <2>6. /\ LinksOrdered'
        /\ queue' \in [head : 0..MaxRequests,
                       next : [Request -> 0..MaxRequests],
                       prev : [Request -> 0..MaxRequests]]
    BY <2>2, <2>3, <2>5 DEF LinksOrdered, Ordered, OrderedLinks, Request
  <2>7. TypeOK'
    BY <2>1, <2>3, <2>6 DEF IInv, TypeOK
  <2>8. Fresh'
    BY <2>1, <2>2 DEF IInv, TypeOK, Fresh, Request
  <2>9. Ownership'
    BY <2>1, <2>3 DEF IInv, TypeOK, Ownership
  <2> QED
    BY <2>6, <2>7, <2>8, <2>9 DEF IInv
<1> QED
  BY <1>1, <1>2

LEMMA SubmitFailsIInv ==
  ASSUME Parameters, IInv, SubmitFails
  PROVE  IInv'
<1> DEFINE r == issued + 1
<1>1. /\ issued' = r
      /\ mem' = [mem EXCEPT ![r] = "freed"]
      /\ wrapper' = [wrapper EXCEPT ![r] = "collected"]
      /\ UNCHANGED <<vm, conn, bus, listening, queue, kind, refs, attached, chan,
                     inbox>>
      /\ vm = "running"
  BY DEF SubmitFails
<1>2. r \in Request /\ issued' \in 0..MaxRequests /\ issued \in Nat
  BY <1>1 DEF SubmitFails, IInv, TypeOK, Parameters, Request
<1>3. TypeOK'
  BY <1>1, <1>2 DEF IInv, TypeOK
<1>4. Fresh'
  BY <1>1, <1>2 DEF IInv, TypeOK, Fresh, Request
<1>5. Ownership'
  <2>1. wrapper[r] = "none" /\ ~attached[r]
    BY <1>2 DEF IInv, Fresh
  <2> QED
    BY <1>1, <1>2, <2>1 DEF IInv, TypeOK, Ownership
<1>6. LinksOrdered'
  BY <1>1, <1>2 DEF IInv, TypeOK, LinksOrdered
<1> QED
  BY <1>3, <1>4, <1>5, <1>6 DEF IInv

LEMMA CancelIInv ==
  ASSUME Parameters, IInv, NEW r \in Request, Cancel(r)
  PROVE  IInv'
<1> DEFINE n == IF attached[r] THEN 2 ELSE 1
<1>1. vm = "running" /\ wrapper[r] = "held"
  BY DEF Cancel
<1>2. CASE CanDrop(r, n, queue)
  <2>1. /\ Drop(r, n, queue)
        /\ wrapper' = [wrapper EXCEPT ![r] = "released"]
        /\ attached' = [attached EXCEPT ![r] = FALSE]
        /\ vm' = vm /\ conn' = conn /\ bus' = bus /\ listening' = listening
        /\ issued' = issued /\ kind' = kind /\ chan' = chan
        /\ inbox' = inbox
    BY <1>2 DEF Cancel
  <2>2. /\ wrapper' \in [Request -> {"none", "held", "released", "collected"}]
        /\ attached' \in [Request -> BOOLEAN]
        /\ inbox' \in [Request -> Seq(Status)]
        /\ wrapper'[r] = "released" /\ attached'[r] = FALSE
        /\ \A p \in Request : p # r => /\ wrapper'[p] = wrapper[p]
                                       /\ attached'[p] = attached[p]
    BY <2>1 DEF IInv, TypeOK
  <2>3. r \in 1..issued /\ refs[r] = n /\ n \in 1..2 /\ issued \in Nat
    BY <1>1, Referenced DEF IInv, TypeOK
  <2>4. /\ refs[r] - n = (IF wrapper'[r] = "held" THEN 1 ELSE 0)
                         + (IF attached'[r] THEN 1 ELSE 0)
        /\ r <= issued
    BY <2>2, <2>3
  <2>5. Ordered(queue, issued, MaxRequests)
    BY QueueIsOrdered DEF IInv
  <2> HIDE DEF n
  <2> QED
    BY <1>1, <2>1, <2>2, <2>3, <2>4, <2>5, DropIInv
<1>3. CASE ~CanDrop(r, n, queue)
  BY <1>3, FaultIInv DEF Cancel
<1> QED
  BY <1>2, <1>3

LEMMA CollectSlotIInv ==
  ASSUME Parameters, IInv, NEW r \in Request, CollectSlot(r)
  PROVE  IInv'
<1>1. /\ vm = "running" /\ wrapper[r] \in {"held", "released"}
      /\ wrapper' = [wrapper EXCEPT ![r] = "collected"]
      /\ conn' = conn /\ bus' = bus /\ listening' = listening /\ issued' = issued
      /\ kind' = kind /\ attached' = attached /\ chan' = chan
      /\ inbox' = inbox
  BY DEF CollectSlot
<1>2. /\ wrapper' \in [Request -> {"none", "held", "released", "collected"}]
      /\ attached' \in [Request -> BOOLEAN]
      /\ inbox' \in [Request -> Seq(Status)]
      /\ wrapper'[r] = "collected"
      /\ \A p \in Request : p # r => /\ wrapper'[p] = wrapper[p]
                                     /\ attached'[p] = attached[p]
  BY <1>1 DEF IInv, TypeOK
<1>3. /\ r \in 1..issued
      /\ refs[r] = (IF wrapper[r] = "held" THEN 1 ELSE 0)
                   + (IF attached[r] THEN 1 ELSE 0)
      /\ issued \in Nat
  BY <1>1, Referenced DEF IInv, TypeOK
<1>4. CASE UNCHANGED <<queue, mem, refs>> /\ (vm' # "running" \/ wrapper[r] = "released")
           /\ vm' \in {"running", "faulted"}
  <2>1. TypeOK'
    BY <1>1, <1>2, <1>4 DEF IInv, TypeOK
  <2>2. LinksOrdered'
    BY <1>1, <1>4 DEF IInv, LinksOrdered
  <2>3. Ownership'
    BY <1>1, <1>2, <1>4 DEF IInv, Ownership
  <2>4. Fresh'
    BY <1>1, <1>2, <1>3 DEF IInv, Fresh, Request
  <2> QED
    BY <2>1, <2>2, <2>3, <2>4 DEF IInv
<1>5. CASE wrapper[r] = "held" /\ Drop(r, 1, queue) /\ vm' = vm
  <2>1. /\ refs[r] - 1 = (IF wrapper'[r] = "held" THEN 1 ELSE 0)
                         + (IF attached'[r] THEN 1 ELSE 0)
        /\ r <= issued /\ 1 \in 1..2
    BY <1>1, <1>2, <1>3, <1>5
  <2>2. Ordered(queue, issued, MaxRequests)
    BY QueueIsOrdered DEF IInv
  <2> QED
    BY <1>1, <1>2, <1>5, <2>1, <2>2, DropIInv
<1> QED
  BY <1>1, <1>4, <1>5 DEF CollectSlot

\* Steps that leave counts, records and links alone.
LEMMA QuietIInv ==
  ASSUME IInv, vm = "running", UNCHANGED <<issued, queue, kind, mem, refs, attached,
                                           wrapper>>,
         vm' \in {"running", "stopped", "faulted"}, conn' \in {"live", "collected"},
         bus' \in {"open", "closed", "freeing", "freed"}, listening' \in BOOLEAN,
         chan' \in [Request -> {"open", "closed", "collected"}],
         inbox' \in [Request -> Seq(Status)]
  PROVE  IInv'
  BY DEF IInv, TypeOK, Fresh, Ownership, LinksOrdered

\* The end of sd-bus's dispatch of a slot that it disconnects.
LEMMA DetachIInv ==
  ASSUME Parameters, IInv, vm = "running", NEW r \in Request, attached[r],
         NEW q, Ordered(q, issued, MaxRequests), Drop(r, 1, q),
         attached' = [attached EXCEPT ![r] = FALSE],
         inbox' \in [Request -> Seq(Status)],
         UNCHANGED <<vm, conn, bus, listening, issued, kind, wrapper, chan>>
  PROVE  IInv'
<1>1. /\ wrapper' \in [Request -> {"none", "held", "released", "collected"}]
      /\ attached' \in [Request -> BOOLEAN] /\ attached'[r] = FALSE
      /\ \A p \in Request : p # r => /\ wrapper'[p] = wrapper[p]
                                     /\ attached'[p] = attached[p]
      /\ wrapper'[r] = wrapper[r]
  BY DEF IInv, TypeOK
<1>2. /\ r \in 1..issued /\ issued \in Nat
      /\ refs[r] = (IF wrapper[r] = "held" THEN 1 ELSE 0)
                   + (IF attached[r] THEN 1 ELSE 0)
  BY Referenced DEF IInv, TypeOK
<1>3. refs[r] - 1 = (IF wrapper'[r] = "held" THEN 1 ELSE 0)
                    + (IF attached'[r] THEN 1 ELSE 0)
  BY <1>1, <1>2
<1>4. r <= issued /\ 1 \in 1..2
  BY <1>2
<1>5. /\ vm' = vm /\ conn' = conn /\ bus' = bus /\ listening' = listening
      /\ issued' = issued /\ kind' = kind /\ chan' = chan
  OBVIOUS
<1> QED
  BY <1>1, <1>3, <1>4, <1>5, DropIInv

LEMMA ReplyIInv ==
  ASSUME Parameters, IInv, NEW r \in Request, Reply(r)
  PROVE  IInv'
<1> DEFINE q == DequeuePending(queue, r)
<1>1. vm = "running" /\ attached[r]
  BY DEF Reply
<1>2. Ordered(q, issued, MaxRequests)
  <2>1. Ordered(queue, issued, MaxRequests)
    BY QueueIsOrdered DEF IInv
  <2>2. r \in 1..issued /\ issued \in 0..MaxRequests /\ MaxRequests \in Nat
    BY <1>1, Referenced DEF IInv, TypeOK, Parameters
  <2> QED
    BY <2>1, <2>2, DequeueOrdered
<1> HIDE DEF q
<1>3. CASE /\ Give(r, "answer")
           /\ attached' = [attached EXCEPT ![r] = FALSE]
           /\ Drop(r, 1, q)
           /\ UNCHANGED <<vm, conn, bus, listening, issued, kind, wrapper, chan>>
  <2>1. inbox' \in [Request -> Seq(Status)]
    BY <1>3, GiveType DEF IInv, Status
  <2> QED
    BY <1>1, <1>2, <1>3, <2>1, DetachIInv
<1>4. CASE Stop(q)
  BY <1>2, <1>4, StopIInv
<1>5. CASE Fault
  BY <1>5, FaultIInv
<1> QED
  BY <1>3, <1>4, <1>5 DEF Reply, q

LEMMA MatchMessageIInv ==
  ASSUME Parameters, IInv, NEW r \in Request, MatchMessage(r)
  PROVE  IInv'
<1>1. CASE /\ Give(r, "answer")
           /\ UNCHANGED <<vm, conn, bus, listening, issued, queue, kind, mem, refs,
                          attached, wrapper, chan>>
  <2>1. inbox' \in [Request -> Seq(Status)]
    BY <1>1, GiveType DEF IInv, Status
  <2> QED
    BY <1>1, <2>1, QuietIInv DEF MatchMessage, IInv, TypeOK
<1>2. CASE Stop(queue)
  BY <1>2, QueueIsOrdered, StopIInv DEF IInv
<1>3. CASE Fault
  BY <1>3, FaultIInv
<1> QED
  BY <1>1, <1>2, <1>3 DEF MatchMessage

LEMMA MatchRejectedIInv ==
  ASSUME Parameters, IInv, NEW r \in Request, MatchRejected(r)
  PROVE  IInv'
<1>1. vm = "running" /\ attached[r] /\ Ordered(queue, issued, MaxRequests)
  BY QueueIsOrdered DEF MatchRejected, IInv
<1>2. CASE /\ Give(r, "error")
           /\ attached' = [attached EXCEPT ![r] = FALSE]
           /\ Drop(r, 1, queue)
           /\ UNCHANGED <<vm, conn, bus, listening, issued, kind, wrapper, chan>>
  <2>1. inbox' \in [Request -> Seq(Status)]
    BY <1>2, GiveType DEF IInv, Status
  <2> QED
    BY <1>1, <1>2, <2>1, DetachIInv
<1>3. CASE Stop(queue)
  BY <1>1, <1>3, StopIInv
<1>4. CASE Fault
  BY <1>4, FaultIInv
<1> QED
  BY <1>2, <1>3, <1>4 DEF MatchRejected

LEMMA DisconnectNewestIInv ==
  ASSUME Parameters, IInv, DisconnectNewest
  PROVE  IInv'
<1>1. PICK r \in Request :
        /\ attached[r]
        /\ IF CanDrop(r, 1, queue)
             THEN /\ Drop(r, 1, queue)
                  /\ attached' = [attached EXCEPT ![r] = FALSE]
                  /\ UNCHANGED <<vm, conn, bus, listening, issued, kind, wrapper,
                                 chan, inbox>>
             ELSE Fault
  BY DEF DisconnectNewest
<1>2. vm = "running" /\ Ordered(queue, issued, MaxRequests)
  BY QueueIsOrdered DEF DisconnectNewest, IInv
<1>3. CASE CanDrop(r, 1, queue)
  <2>1. inbox' \in [Request -> Seq(Status)]
    BY <1>1, <1>3 DEF IInv, TypeOK
  <2> QED
    BY <1>1, <1>2, <1>3, <2>1, DetachIInv
<1>4. CASE ~CanDrop(r, 1, queue)
  BY <1>1, <1>4, FaultIInv
<1> QED
  BY <1>3, <1>4

\* The loop of closeall_pending, over the records it gets through, with the list
\* as it was or forgotten.
LEMMA TellIInv ==
  ASSUME Parameters, IInv, vm = "running",
         NEW V \in SUBSET ListedNow, \A r \in V : ~Blocks(r),
         NEW s \in Status, TellAndRelease(V, s),
         queue' = queue \/ queue' = [queue EXCEPT !.head = Nil],
         vm' \in {"running", "stopped"}, listening' \in BOOLEAN,
         bus' \in {"open", "closed", "freeing", "freed"},
         UNCHANGED <<conn, issued, kind, mem, attached, chan>>
  PROVE  IInv'
<1>1. /\ refs' \in [Request -> 0..2]
      /\ wrapper' \in [Request -> {"none", "held", "released", "collected"}]
      /\ inbox' \in [Request -> Seq(Status)]
      /\ Fresh'
      /\ Counted(refs', wrapper', attached', mem')
  BY ReleaseStep DEF IInv
<1>2. /\ queue \in [head : 0..MaxRequests,
                    next : [Request -> 0..MaxRequests],
                    prev : [Request -> 0..MaxRequests]]
      /\ LinksOrdered /\ issued' = issued
      /\ MaxRequests \in Nat /\ issued \in 0..MaxRequests
  BY DEF IInv, TypeOK, Parameters
<1>3. /\ queue'.next = queue.next /\ queue'.prev = queue.prev
      /\ queue'.head = queue.head \/ queue'.head = Nil
      /\ queue' \in [head : 0..MaxRequests,
                     next : [Request -> 0..MaxRequests],
                     prev : [Request -> 0..MaxRequests]]
  BY <1>2 DEF Nil
<1>4. LinksOrdered'
  BY <1>2, <1>3 DEF LinksOrdered, Nil
<1>5. Ownership'
  BY <1>1 DEF Ownership, Counted
<1>6. TypeOK'
  BY <1>1, <1>3 DEF IInv, TypeOK
<1> QED
  BY <1>1, <1>4, <1>5, <1>6 DEF IInv

\* The loop gets through everything when nothing blocks it, and in any case only
\* through what does not.
LEMMA GetsThrough ==
  ASSUME TypeOK
  PROVE  /\ GoneThrough \in SUBSET ListedNow
         /\ \A r \in GoneThrough : ~Blocks(r)
         /\ Blocking = {} => \A r \in ListedNow : ~Blocks(r)
<1>1. ListedNow \subseteq Request /\ \A r \in Request : r \in Int
  BY DEF ListedNow, Listed, Request
<1> QED
  BY <1>1 DEF GoneThrough, Blocking

LEMMA CloseBusIInv ==
  ASSUME Parameters, IInv, CloseBus
  PROVE  IInv'
<1>1. vm = "running" /\ bus = "open" /\ TypeOK /\ "close" \in Status
  BY DEF CloseBus, IInv, Status
<1>2. CASE /\ Blocking = {} /\ CloseAll("close")
           /\ listening' = FALSE
           /\ bus' \in {"closed", "freeing"}
           /\ UNCHANGED <<vm, conn, issued, kind, mem, attached, chan>>
  BY <1>1, <1>2, GetsThrough, TellIInv DEF CloseAll
<1>3. CASE /\ TellAndRelease(GoneThrough, "close")
           /\ UNCHANGED <<vm, conn, bus, listening, issued, queue, kind, mem,
                          attached, chan>>
  <2>1. listening' \in BOOLEAN
    BY <1>1, <1>3 DEF TypeOK
  <2> QED
    BY <1>1, <1>3, <2>1, GetsThrough, TellIInv
<1>4. CASE Fault
  BY <1>4, FaultIInv
<1>5. CASE /\ bus' \in {"closed", "freeing"}
           /\ UNCHANGED <<vm, conn, listening, issued, queue, kind, mem, refs,
                          attached, wrapper, chan, inbox>>
  BY <1>1, <1>5, QuietIInv DEF TypeOK
<1> QED
  BY <1>2, <1>3, <1>4, <1>5 DEF CloseBus

LEMMA HangupIInv ==
  ASSUME Parameters, IInv, Hangup
  PROVE  IInv'
<1>1. vm = "running" /\ bus = "open" /\ TypeOK /\ "error" \in Status
  BY DEF Hangup, IInv, Status
<1>2. CASE /\ Blocking = {} /\ CloseAll("error")
           /\ listening' = FALSE
           /\ UNCHANGED <<vm, conn, bus, issued, kind, mem, attached, chan>>
  BY <1>1, <1>2, GetsThrough, TellIInv DEF CloseAll
<1>3. CASE /\ TellAndRelease(GoneThrough, "error")
           /\ vm' = "stopped"
           /\ UNCHANGED <<conn, bus, listening, issued, queue, kind, mem, attached,
                          chan>>
  <2>1. listening' \in BOOLEAN
    BY <1>1, <1>3 DEF TypeOK
  <2> QED
    BY <1>1, <1>3, <2>1, GetsThrough, TellIInv
<1>4. CASE Fault
  BY <1>4, FaultIInv
<1> QED
  BY <1>2, <1>3, <1>4 DEF Hangup

LEMMA NextIInv ==
  ASSUME Parameters, IInv, [Next]_vars
  PROVE  IInv'
<1>1. CASE UNCHANGED vars
  BY <1>1 DEF vars, IInv, TypeOK, Fresh, Ownership, LinksOrdered
<1>2. CASE Submit \/ SubmitFails
  BY <1>2, SubmitIInv, SubmitFailsIInv
<1>3. CASE CloseBus \/ Hangup
  BY <1>3, CloseBusIInv, HangupIInv
<1>4. CASE LastOwnerGone
  BY <1>4, QuietIInv DEF LastOwnerGone, IInv, TypeOK
<1>5. CASE DisconnectNewest
  BY <1>5, DisconnectNewestIInv
<1>6. CASE BusFreed
  BY <1>6, QuietIInv DEF BusFreed, IInv, TypeOK
<1>7. CASE CollectConn
  BY <1>7, QuietIInv DEF CollectConn, IInv, TypeOK
<1>8. ASSUME NEW r \in Request, Cancel(r) \/ CollectSlot(r)
      PROVE  IInv'
  BY <1>8, CancelIInv, CollectSlotIInv
<1>9. ASSUME NEW r \in Request, CloseChannel(r) \/ CollectChannel(r)
      PROVE  IInv'
  BY <1>9, QuietIInv DEF CloseChannel, CollectChannel, IInv, TypeOK
<1>10. ASSUME NEW r \in Request, Reply(r) \/ MatchMessage(r) \/ MatchRejected(r)
       PROVE  IInv'
  BY <1>10, ReplyIInv, MatchMessageIInv, MatchRejectedIInv
<1> QED
  BY <1>1, <1>2, <1>3, <1>4, <1>5, <1>6, <1>7, <1>8, <1>9, <1>10 DEF Next

LEMMA IInvHolds == Spec => []IInv
<1>1. Init => IInv
  BY Parameters, InitIInv
<1>2. IInv /\ [Next]_vars => IInv'
  BY Parameters, NextIInv
<1> QED
  BY <1>1, <1>2, PTL DEF Spec

\* Every variable keeps to its type, whatever the program does.
THEOREM TypeCorrect == Spec => []TypeOK
<1>1. IInv => TypeOK
  BY DEF IInv
<1> QED
  BY <1>1, IInvHolds, PTL

\* In every program, the records of call.c live exactly as long as the references
\* to their slot, and each reference has one owner: nothing is freed twice, and
\* nothing unreferenced is kept (src/src/call.c, src/src/slot.c).
THEOREM OwnershipHolds == Spec => []Ownership
<1>1. IInv => Ownership
  BY DEF IInv
<1> QED
  BY <1>1, IInvHolds, PTL

\* In every program, even one that makes dequeue_pending work on stale links, the
\* list has no cycle and the loop of closeall_pending ends (src/src/async.c).
THEOREM LinksStayOrdered == Spec => []LinksOrdered
<1>1. IInv => LinksOrdered
  BY DEF IInv
<1> QED
  BY <1>1, IInvHolds, PTL

--------------------------------------------------------------------------------
(* Lists that hold a set of records *)

\* Head and links of a list that holds the records S, newest first, read pointwise.
HoldsSet(h, f, g, S) ==
  /\ (h = Nil /\ S = {}) \/ (h \in S /\ \A p \in S : p <= h)
  /\ \A r \in S : \/ f[r] = Nil /\ \A p \in S : r <= p
                  \/ f[r] \in S /\ f[r] < r /\ \A p \in S : p < r => p <= f[r]
  /\ \A r \in S : \/ g[r] = Nil /\ \A p \in S : p <= r
                  \/ g[r] \in S /\ r < g[r] /\ \A p \in S : r < p => g[r] <= p

Holds(q, S) == HoldsSet(q.head, q.next, q.prev, S)

\* queue_pending puts a new record in front.
LEMMA QueueHolds ==
  ASSUME NEW N \in Nat, NEW n \in 0..N, n < N, NEW q, Ordered(q, n, N),
         NEW S \in SUBSET (1..n), Holds(q, S)
  PROVE  Holds(QueuePending(q, n + 1), S \cup {n + 1})
<1> DEFINE h == q.head
           f == q.next
           g == q.prev
           f1 == [f EXCEPT ![n + 1] = h]
           u == [g EXCEPT ![n + 1] = Nil]
           g1 == IF h = Nil THEN u ELSE [u EXCEPT ![h] = n + 1]
           T == S \cup {n + 1}
<1>1. QueuePending(q, n + 1) = [head |-> n + 1, next |-> f1, prev |-> g1]
  BY DEF QueuePending
<1>2. h \in 0..n /\ f \in [1..N -> 0..N] /\ g \in [1..N -> 0..N] /\ HoldsSet(h, f, g, S)
  BY DEF Ordered, OrderedLinks, Holds
<1> HIDE DEF h, f, g
<1>3. /\ n + 1 \in T /\ \A p \in T : p <= n + 1 /\ p \in Int
      /\ \A p \in T : p # n + 1 => p \in S /\ p \in 1..n
      /\ S \subseteq T
  OBVIOUS
<1>4. \A r \in S : f1[r] = f[r]
  BY <1>2
<1>5. f1[n + 1] = h
  BY <1>2
<1>6. \A r \in S : g1[r] = IF r = h THEN n + 1 ELSE g[r]
  BY <1>2 DEF Nil
<1>7. g1[n + 1] = Nil
  BY <1>2 DEF Nil
<1> HIDE DEF f1, u, g1, T
<1>8. ASSUME NEW r \in T
      PROVE  \/ f1[r] = Nil /\ \A p \in T : r <= p
             \/ f1[r] \in T /\ f1[r] < r /\ \A p \in T : p < r => p <= f1[r]
  <2>1. CASE r = n + 1
    <3>1. CASE h = Nil /\ S = {}
      BY <1>3, <1>5, <2>1, <3>1
    <3>2. CASE h \in S /\ \A p \in S : p <= h
      BY <1>2, <1>3, <1>5, <2>1, <3>2
    <3> QED
      BY <1>2, <3>1, <3>2 DEF HoldsSet
  <2>2. CASE r \in S /\ f[r] = Nil /\ \A p \in S : r <= p
    <3>1. r \in 1..n
      BY <2>2
    <3>2. ASSUME NEW p \in T
          PROVE  r <= p
      BY <1>3, <2>2, <3>1
    <3>3. f1[r] = Nil
      BY <1>4, <2>2
    <3> QED
      BY <3>2, <3>3
  <2>3. CASE r \in S /\ f[r] \in S /\ f[r] < r /\ \A p \in S : p < r => p <= f[r]
    <3>1. r \in 1..n
      BY <2>3
    <3>2. ASSUME NEW p \in T, p < r
          PROVE  p <= f[r]
      <4>1. p # n + 1
        BY <3>1, <3>2
      <4>2. p \in S
        BY <1>3, <4>1
      <4> QED
        BY <2>3, <3>2, <4>2
    <3>3. f1[r] = f[r] /\ f1[r] \in T /\ f1[r] < r
      BY <1>3, <1>4, <2>3
    <3> QED
      BY <3>2, <3>3
  <2> QED
    BY <1>2, <1>3, <2>1, <2>2, <2>3 DEF HoldsSet
<1>9. ASSUME NEW r \in T
      PROVE  \/ g1[r] = Nil /\ \A p \in T : p <= r
             \/ g1[r] \in T /\ r < g1[r] /\ \A p \in T : r < p => g1[r] <= p
  <2>1. CASE r = n + 1
    BY <1>3, <1>7, <2>1
  <2>2. CASE r \in S /\ g[r] = Nil /\ \A p \in S : p <= r
    <3>1. r = h
      BY <1>2, <2>2 DEF HoldsSet
    <3> QED
      BY <1>3, <1>6, <2>2, <3>1
  <2>3. CASE r \in S /\ g[r] \in S /\ r < g[r] /\ \A p \in S : r < p => g[r] <= p
    <3>1. r # h
      BY <1>2, <2>3 DEF HoldsSet
    <3> QED
      BY <1>3, <1>6, <2>3, <3>1
  <2> QED
    BY <1>2, <1>3, <2>1, <2>2, <2>3 DEF HoldsSet
<1>10. HoldsSet(n + 1, f1, g1, T)
  BY <1>3, <1>8, <1>9 DEF HoldsSet
<1> QED
  BY <1>1, <1>10 DEF Holds, T

\* dequeue_pending takes a record of the list out of it, and only that one.
LEMMA DequeueHolds ==
  ASSUME NEW N \in Nat, NEW n \in 0..N, NEW q, Ordered(q, n, N),
         NEW S \in SUBSET (1..n), Holds(q, S), NEW x \in S
  PROVE  Holds(DequeuePending(q, x), S \ {x})
<1> DEFINE h == q.head
           f == q.next
           g == q.prev
           h1 == IF g[x] = Nil THEN f[x] ELSE h
           f1 == IF g[x] = Nil THEN f ELSE [f EXCEPT ![g[x]] = f[x]]
           g1 == IF f[x] = Nil THEN g ELSE [g EXCEPT ![f[x]] = g[x]]
           T == S \ {x}
<1>1. f \in [1..N -> 0..N] /\ g \in [1..N -> 0..N] /\ HoldsSet(h, f, g, S)
  BY DEF Ordered, OrderedLinks, Holds
<1>2. DequeuePending(q, x) = [head |-> h1, next |-> f1, prev |-> g1]
  <2>1. h # Nil
    <3>1. h \in S
      BY <1>1 DEF HoldsSet
    <3>2. Nil \notin S
      BY DEF Nil
    <3> HIDE DEF h
    <3> QED
      BY <3>1, <3>2
  <2> QED
    BY <2>1 DEF DequeuePending
<1> HIDE DEF h, f, g
<1>3. \A p \in S : p \in 1..N /\ p \in Int /\ p # Nil
  BY DEF Nil
<1>4. \/ f[x] = Nil /\ \A p \in S : x <= p
      \/ f[x] \in S /\ f[x] < x /\ \A p \in S : p < x => p <= f[x]
  BY <1>1 DEF HoldsSet
<1>5. \/ g[x] = Nil /\ \A p \in S : p <= x
      \/ g[x] \in S /\ x < g[x] /\ \A p \in S : x < p => g[x] <= p
  BY <1>1 DEF HoldsSet
<1>6. \A r \in T : f1[r] = IF r = g[x] THEN f[x] ELSE f[r]
  BY <1>1, <1>3
<1>7. \A r \in T : g1[r] = IF r = f[x] THEN g[x] ELSE g[r]
  BY <1>1, <1>3
<1>8. \A p \in T : p \in S /\ p # x
  OBVIOUS
<1>9. \A p \in S : p # x => p \in T
  OBVIOUS
<1>10. (h1 = Nil /\ T = {}) \/ (h1 \in T /\ \A p \in T : p <= h1)
  <2>1. (h = Nil /\ S = {}) \/ (h \in S /\ \A p \in S : p <= h)
    BY <1>1 DEF HoldsSet
  <2>2. CASE g[x] = Nil
    <3>1. \A p \in S : p <= x
      BY <1>3, <1>5, <2>2
    <3>2. CASE f[x] = Nil
      <4>1. ASSUME NEW p \in S
            PROVE  p = x
        <5>1. x <= p /\ p <= x
          BY <1>3, <1>4, <3>1, <3>2
        <5>2. p \in Int /\ x \in Int
          BY <1>3
        <5> QED
          BY <5>1, <5>2
      <4>2. T = {}
        BY <4>1
      <4> QED
        BY <2>2, <3>2, <4>2
    <3>3. CASE f[x] \in S /\ f[x] < x /\ \A p \in S : p < x => p <= f[x]
      <4>1. f[x] \in T
        BY <1>3, <1>9, <3>3
      <4>2. ASSUME NEW p \in T
            PROVE  p <= f[x]
        BY <1>3, <1>8, <3>1, <3>3
      <4> QED
        BY <2>2, <4>1, <4>2
    <3> QED
      BY <1>4, <3>2, <3>3
  <2>3. CASE g[x] # Nil
    <3>1. g[x] \in S /\ x < g[x]
      BY <1>5, <2>3
    <3>2. h \in S /\ \A p \in S : p <= h
      BY <2>1
    <3>3. x \in Int /\ g[x] \in Int /\ h \in Int /\ g[x] <= h
      BY <1>3, <3>1, <3>2
    <3>4. h # x
      BY <3>1, <3>3
    <3> QED
      BY <1>8, <1>9, <2>3, <3>2, <3>4
  <2> QED
    BY <2>2, <2>3
<1> HIDE DEF h1, f1, g1, T
<1>11. ASSUME NEW r \in T
       PROVE  \/ f1[r] = Nil /\ \A p \in T : r <= p
              \/ f1[r] \in T /\ f1[r] < r /\ \A p \in T : p < r => p <= f1[r]
  <2>1. \/ f[r] = Nil /\ \A p \in S : r <= p
        \/ f[r] \in S /\ f[r] < r /\ \A p \in S : p < r => p <= f[r]
    BY <1>1, <1>8 DEF HoldsSet
  <2>2. r \in S /\ r # x /\ r \in Int
    BY <1>3, <1>8
  <2>3. CASE r = g[x]
    <3>1. x < r /\ \A p \in T : p < r => p < x
      BY <1>3, <1>5, <1>8, <2>2, <2>3
    <3>2. f1[r] = f[x]
      BY <1>6, <2>3
    <3>3. CASE f[x] = Nil /\ \A p \in S : x <= p
      <4>1. \A p \in T : r <= p
        BY <1>3, <1>8, <2>2, <3>1, <3>3
      <4> QED
        BY <3>2, <3>3, <4>1
    <3>4. CASE f[x] \in S /\ f[x] < x /\ \A p \in S : p < x => p <= f[x]
      <4>1. f[x] \in T /\ f[x] < r
        <5>1. f[x] \in Int /\ x \in Int /\ r \in Int
          BY <1>3, <2>2, <3>4
        <5>2. f[x] # x /\ f[x] < r
          BY <3>1, <3>4, <5>1
        <5> QED
          BY <1>9, <3>4, <5>2
      <4>2. \A p \in T : p < r => p <= f[x]
        BY <1>8, <3>1, <3>4
      <4> QED
        BY <3>2, <4>1, <4>2
    <3> QED
      BY <1>4, <3>3, <3>4
  <2>4. CASE r # g[x]
    <3>1. f1[r] = f[r]
      BY <1>6, <2>4
    <3>2. f[r] # x
      <4>1. SUFFICES ASSUME f[r] = x
                     PROVE  FALSE
        OBVIOUS
      <4>2. x < r /\ \A p \in S : p < r => p <= x
        BY <1>3, <2>1, <2>2, <4>1
      <4>3. g[x] \in S /\ x < g[x] /\ \A p \in S : x < p => g[x] <= p
        BY <1>3, <1>5, <2>2, <4>2
      <4>4. g[x] <= r /\ (g[x] < r => g[x] <= x)
        BY <2>2, <4>2, <4>3
      <4>5. g[x] \in Int /\ x \in Int /\ r \in Int
        BY <1>3, <2>2, <4>3
      <4> QED
        BY <2>4, <4>3, <4>4, <4>5
    <3> QED
      BY <1>3, <1>8, <1>9, <2>1, <2>2, <3>1, <3>2
  <2> QED
    BY <2>3, <2>4
<1>12. ASSUME NEW r \in T
       PROVE  \/ g1[r] = Nil /\ \A p \in T : p <= r
              \/ g1[r] \in T /\ r < g1[r] /\ \A p \in T : r < p => g1[r] <= p
  <2>1. \/ g[r] = Nil /\ \A p \in S : p <= r
        \/ g[r] \in S /\ r < g[r] /\ \A p \in S : r < p => g[r] <= p
    BY <1>1, <1>8 DEF HoldsSet
  <2>2. r \in S /\ r # x /\ r \in Int
    BY <1>3, <1>8
  <2>3. CASE r = f[x]
    <3>1. r < x /\ \A p \in T : r < p => x < p
      BY <1>3, <1>4, <1>8, <2>2, <2>3
    <3>2. g1[r] = g[x]
      BY <1>7, <2>3
    <3>3. CASE g[x] = Nil /\ \A p \in S : p <= x
      <4>1. \A p \in T : p <= r
        BY <1>3, <1>8, <2>2, <3>1, <3>3
      <4> QED
        BY <3>2, <3>3, <4>1
    <3>4. CASE g[x] \in S /\ x < g[x] /\ \A p \in S : x < p => g[x] <= p
      <4>1. g[x] \in T /\ r < g[x]
        <5>1. g[x] \in Int /\ x \in Int /\ r \in Int
          BY <1>3, <2>2, <3>4
        <5>2. g[x] # x /\ r < g[x]
          BY <3>1, <3>4, <5>1
        <5> QED
          BY <1>9, <3>4, <5>2
      <4>2. \A p \in T : r < p => g[x] <= p
        BY <1>8, <3>1, <3>4
      <4> QED
        BY <3>2, <4>1, <4>2
    <3> QED
      BY <1>5, <3>3, <3>4
  <2>4. CASE r # f[x]
    <3>1. g1[r] = g[r]
      BY <1>7, <2>4
    <3>2. g[r] # x
      <4>1. SUFFICES ASSUME g[r] = x
                     PROVE  FALSE
        OBVIOUS
      <4>2. r < x /\ \A p \in S : r < p => x <= p
        BY <1>3, <2>1, <2>2, <4>1
      <4>3. f[x] \in S /\ f[x] < x /\ \A p \in S : p < x => p <= f[x]
        BY <1>3, <1>4, <2>2, <4>2
      <4>4. r <= f[x] /\ (r < f[x] => x <= f[x])
        BY <2>2, <4>2, <4>3
      <4>5. f[x] \in Int /\ x \in Int /\ r \in Int
        BY <1>3, <2>2, <4>3
      <4> QED
        BY <2>4, <4>3, <4>4, <4>5
    <3> QED
      BY <1>3, <1>8, <1>9, <2>1, <2>2, <3>1, <3>2
  <2> QED
    BY <2>3, <2>4
<1>13. HoldsSet(h1, f1, g1, T)
  BY <1>10, <1>11, <1>12 DEF HoldsSet
<1> QED
  BY <1>2, <1>13 DEF Holds, T
--------------------------------------------------------------------------------
(* The list is exact *)

\* Programs that may forget the slots of pending requests, and have no other habit.
ForgetfulAtMost == Habits \subseteq {"dropPending", "closeChannel", "dropChannel"}

\* While the program runs, the list holds the pending requests, and an open
\* connection is listened to.
LInv ==
  vm = "running" => /\ Holds(queue, PendingRequests)
                    /\ bus = "open" => listening

LEMMA HoldsIsExact ==
  ASSUME TypeOK, vm = "running", Holds(queue, PendingRequests)
  PROVE  QueueExact
<1> DEFINE S == PendingRequests
           f == queue.next
           g == queue.prev
<1>1. S \subseteq Request /\ \A p \in Request : p \in Int
  BY DEF PendingRequests, Request
<1>2. HoldsSet(queue.head, f, g, S)
  BY DEF Holds
<1> HIDE DEF S, f, g
<1>3. IsNewest(queue.head, S)
  BY <1>2 DEF HoldsSet, IsNewest
<1>4. ASSUME NEW r \in S
      PROVE  IsNewest(f[r], {p \in S : p < r})
  <2>1. CASE f[r] = Nil /\ \A p \in S : r <= p
    <3>1. {p \in S : p < r} = {}
      BY <1>1, <2>1
    <3> QED
      BY <2>1, <3>1 DEF IsNewest
  <2>2. CASE f[r] \in S /\ f[r] < r /\ \A p \in S : p < r => p <= f[r]
    BY <2>2 DEF IsNewest
  <2> QED
    BY <1>2, <2>1, <2>2 DEF HoldsSet
<1>5. ASSUME NEW r \in S
      PROVE  IsOldest(g[r], {p \in S : p > r})
  <2>1. CASE g[r] = Nil /\ \A p \in S : p <= r
    <3>1. {p \in S : p > r} = {}
      BY <1>1, <2>1
    <3> QED
      BY <2>1, <3>1 DEF IsOldest
  <2>2. CASE g[r] \in S /\ r < g[r] /\ \A p \in S : r < p => g[r] <= p
    <3>1. g[r] \in {p \in S : p > r}
      BY <1>1, <2>2
    <3>2. \A p \in {p \in S : p > r} : g[r] <= p
      BY <1>1, <2>2
    <3> QED
      BY <3>1, <3>2 DEF IsOldest
  <2> QED
    BY <1>2, <2>1, <2>2 DEF HoldsSet
<1> QED
  BY <1>3, <1>4, <1>5 DEF QueueExact, S, f, g

\* The pending requests have been made; a closed connection has none, and its list
\* is empty, so that removals do nothing.
LEMMA PendingIssued ==
  ASSUME Parameters, IInv
  PROVE  PendingRequests \in SUBSET (1..issued)
  BY DEF IInv, TypeOK, Fresh, PendingRequests, Pending, Request

LEMMA ClosedIsEmpty ==
  ASSUME bus # "open", Holds(queue, PendingRequests)
  PROVE  /\ PendingRequests = {}
         /\ queue.head = Nil
         /\ \A r : DequeuePending(queue, r) = queue
         /\ \A r : Writable(queue, r)
<1>1. PendingRequests = {}
  BY DEF PendingRequests, Pending
<1>2. queue.head = Nil
  BY <1>1 DEF Holds, HoldsSet
<1> QED
  BY <1>1, <1>2 DEF DequeuePending, Writable, OverwrittenBy

LEMMA SamePending ==
  ASSUME vm' = "running" => Holds(queue, PendingRequests) /\ (bus = "open" => listening),
         UNCHANGED <<bus, listening, queue, attached>>
  PROVE  LInv'
  BY DEF LInv, PendingRequests, Pending

\* After a step that leaves the connection closed the list must be empty.
LEMMA ClosedLInv ==
  ASSUME bus' # "open", queue'.head = Nil
  PROVE  LInv'
<1>1. PendingRequests' = {}
  BY DEF PendingRequests, Pending
<1> QED
  BY <1>1 DEF LInv, Holds, HoldsSet

LEMMA DropClosed ==
  ASSUME bus # "open", bus' = bus, Holds(queue, PendingRequests),
         NEW r \in Request, NEW n, Drop(r, n, queue)
  PROVE  LInv'
<1>1. queue.head = Nil /\ DequeuePending(queue, r) = queue
  BY ClosedIsEmpty
<1>2. queue' = queue
  BY <1>1 DEF Drop
<1> QED
  BY <1>1, <1>2, ClosedLInv

\* Taking a pending request out of the list as it stops being pending.
LEMMA DetachLInv ==
  ASSUME Parameters, IInv, Holds(queue, PendingRequests), bus = "open", listening,
         NEW r \in Request, attached[r], queue' = DequeuePending(queue, r),
         attached' = [attached EXCEPT ![r] = FALSE], UNCHANGED <<bus, listening>>
  PROVE  LInv'
<1>1. r \in PendingRequests
  BY DEF PendingRequests, Pending
<1>2. PendingRequests' = PendingRequests \ {r}
  BY DEF PendingRequests, Pending, IInv, TypeOK
<1>3. /\ Ordered(queue, issued, MaxRequests)
      /\ PendingRequests \in SUBSET (1..issued)
      /\ MaxRequests \in Nat /\ issued \in 0..MaxRequests
  BY QueueIsOrdered, PendingIssued DEF IInv, TypeOK, Parameters
<1>4. Holds(DequeuePending(queue, r), PendingRequests \ {r})
  BY <1>1, <1>3, DequeueHolds
<1> QED
  BY <1>2, <1>4 DEF LInv

LEMMA SubmitLInv ==
  ASSUME Parameters, IInv, LInv, Submit
  PROVE  LInv'
<1> DEFINE r == issued + 1
<1>1. CASE Fault
  BY <1>1 DEF Fault, LInv
<1>2. CASE /\ issued' = r
           /\ queue' = QueuePending(queue, r)
           /\ attached' = [attached EXCEPT ![r] = TRUE]
           /\ UNCHANGED <<vm, conn, bus, listening, chan, inbox>>
  <2>1. /\ vm = "running" /\ bus = "open" /\ issued < MaxRequests
        /\ Holds(queue, PendingRequests) /\ listening
    BY DEF Submit, LInv
  <2>2. /\ Ordered(queue, issued, MaxRequests)
        /\ PendingRequests \in SUBSET (1..issued)
        /\ MaxRequests \in Nat /\ issued \in 0..MaxRequests
    BY QueueIsOrdered, PendingIssued DEF IInv, TypeOK, Parameters
  <2>3. PendingRequests' = PendingRequests \cup {r}
    BY <1>2, <2>1, <2>2 DEF PendingRequests, Pending, IInv, TypeOK, Request
  <2>4. Holds(QueuePending(queue, r), PendingRequests \cup {r})
    BY <2>1, <2>2, QueueHolds
  <2> QED
    BY <1>2, <2>1, <2>3, <2>4 DEF LInv
<1> QED
  BY <1>1, <1>2 DEF Submit

LEMMA CancelLInv ==
  ASSUME Parameters, IInv, LInv, ForgetfulAtMost, NEW r \in Request, Cancel(r)
  PROVE  LInv'
<1> DEFINE n == IF attached[r] THEN 2 ELSE 1
<1>1. /\ vm = "running" /\ wrapper[r] = "held" /\ MayRelease(r)
      /\ Holds(queue, PendingRequests) /\ (bus = "open" => listening)
  BY DEF Cancel, LInv
<1>2. CASE Fault
  BY <1>2 DEF Fault, LInv
<1>3. CASE /\ Drop(r, n, queue)
           /\ attached' = [attached EXCEPT ![r] = FALSE]
           /\ UNCHANGED <<vm, conn, bus, listening, issued, kind, chan, inbox>>
  <2>1. CASE bus # "open"
    BY <1>1, <1>3, <2>1, DropClosed
  <2>2. CASE bus = "open"
    <3>1. attached[r]
      BY <1>1, <2>2 DEF MayRelease, May, ForgetfulAtMost
    <3>2. refs[r] = 2
      BY <1>1, <3>1, Referenced
    <3>3. queue' = DequeuePending(queue, r)
      BY <1>3, <3>1, <3>2 DEF Drop
    <3> QED
      BY <1>1, <1>3, <2>2, <3>1, <3>3, DetachLInv
  <2> QED
    BY <2>1, <2>2
<1> QED
  BY <1>2, <1>3 DEF Cancel

LEMMA CollectSlotLInv ==
  ASSUME Parameters, IInv, LInv, ForgetfulAtMost, NEW r \in Request, CollectSlot(r)
  PROVE  LInv'
<1>1. /\ vm = "running" /\ MayRelease(r)
      /\ Holds(queue, PendingRequests) /\ (bus = "open" => listening)
      /\ bus' = bus /\ listening' = listening /\ attached' = attached
  BY DEF CollectSlot, LInv
<1>2. CASE UNCHANGED queue
  BY <1>1, <1>2, SamePending
<1>3. CASE wrapper[r] = "held" /\ Drop(r, 1, queue)
  <2>1. CASE bus # "open"
    BY <1>1, <1>3, <2>1, DropClosed
  <2>2. CASE bus = "open"
    <3>1. attached[r]
      BY <1>1, <2>2 DEF MayRelease, May, ForgetfulAtMost
    <3>2. refs[r] = 2
      BY <1>1, <1>3, <3>1, Referenced
    <3>3. UNCHANGED queue
      BY <1>3, <3>2 DEF Drop
    <3> QED
      BY <1>2, <3>3
  <2> QED
    BY <2>1, <2>2
<1> QED
  BY <1>2, <1>3 DEF CollectSlot

\* The reply handler takes the record out, and the destroy callback, if it follows,
\* takes it out again.
LEMMA ReplyLInv ==
  ASSUME Parameters, IInv, LInv, NEW r \in Request, Reply(r)
  PROVE  LInv'
<1> DEFINE q == DequeuePending(queue, r)
<1>1. /\ vm = "running" /\ bus = "open" /\ attached[r] /\ listening
      /\ Holds(queue, PendingRequests)
  BY DEF Reply, LInv
<1>2. CASE Fault
  BY <1>2 DEF Fault, LInv
<1>3. CASE Stop(q)
  BY <1>3 DEF Stop, LInv
<1>4. CASE /\ attached' = [attached EXCEPT ![r] = FALSE]
           /\ Drop(r, 1, q)
           /\ UNCHANGED <<vm, conn, bus, listening, issued, kind, wrapper, chan>>
  <2>1. /\ Ordered(queue, issued, MaxRequests) /\ r \in 1..issued
        /\ MaxRequests \in Nat /\ issued \in 0..MaxRequests
    BY <1>1, QueueIsOrdered, Referenced DEF IInv, TypeOK, Parameters
  <2>2. DequeuePending(q, r) = q
    BY <2>1, DequeueTwice
  <2>3. queue' = q
    BY <1>4, <2>2 DEF Drop
  <2> QED
    BY <1>1, <1>4, <2>3, DetachLInv
<1> QED
  BY <1>2, <1>3, <1>4 DEF Reply

LEMMA CloseBusLInv ==
  ASSUME LInv, CloseBus
  PROVE  LInv'
<1>1. /\ vm = "running" /\ bus = "open" /\ listening
      /\ Holds(queue, PendingRequests)
  BY DEF CloseBus, LInv
<1>2. CASE CloseAll("close") /\ bus' \in {"closed", "freeing"}
  BY <1>2, ClosedLInv DEF CloseAll
<1>3. CASE UNCHANGED <<vm, conn, bus, listening, issued, queue, kind, mem, attached,
                       chan>>
  BY <1>1, <1>3, SamePending
<1>4. CASE Fault
  BY <1>4 DEF Fault, LInv
<1> QED
  BY <1>1, <1>2, <1>3, <1>4 DEF CloseBus

LEMMA DisconnectNewestLInv ==
  ASSUME LInv, DisconnectNewest
  PROVE  LInv'
<1>1. vm = "running" /\ bus # "open" /\ Holds(queue, PendingRequests)
  BY DEF DisconnectNewest, LInv
<1>2. CASE Fault
  BY <1>2 DEF Fault, LInv
<1>3. ASSUME NEW r \in Request, Drop(r, 1, queue), bus' = bus
      PROVE  LInv'
  BY <1>1, <1>3, DropClosed
<1> QED
  BY <1>2, <1>3 DEF DisconnectNewest

LEMMA NextLInv ==
  ASSUME Parameters, ForgetfulAtMost, IInv, LInv, [Next]_vars
  PROVE  LInv'
<1>1. CASE UNCHANGED vars
  BY <1>1 DEF vars, LInv, PendingRequests, Pending
<1>2. CASE Submit
  BY <1>2, SubmitLInv
<1>3. CASE SubmitFails
  BY <1>3, SamePending DEF SubmitFails, LInv
<1>4. CASE CloseBus
  BY <1>4, CloseBusLInv
<1>5. CASE Hangup
  BY <1>5 DEF Hangup, May, ForgetfulAtMost
<1>6. CASE LastOwnerGone \/ BusFreed \/ CollectConn
  <2>1. /\ bus # "open" /\ bus' # "open" /\ queue' = queue
        /\ Holds(queue, PendingRequests)
    BY <1>6 DEF LastOwnerGone, BusFreed, CollectConn, LInv
  <2> QED
    BY <2>1, ClosedIsEmpty, ClosedLInv
<1>7. CASE DisconnectNewest
  BY <1>7, DisconnectNewestLInv
<1>8. ASSUME NEW r \in Request, Cancel(r) \/ CollectSlot(r) \/ Reply(r)
      PROVE  LInv'
  BY <1>8, CancelLInv, CollectSlotLInv, ReplyLInv
<1>9. ASSUME NEW r \in Request, CloseChannel(r) \/ CollectChannel(r)
      PROVE  LInv'
  BY <1>9, SamePending DEF CloseChannel, CollectChannel, LInv
<1>10. ASSUME NEW r \in Request, MatchMessage(r)
       PROVE  LInv'
  <2>1. CASE Stop(queue)
    BY <2>1 DEF Stop, LInv
  <2>2. CASE UNCHANGED <<vm, conn, bus, listening, issued, queue, kind, mem, refs,
                         attached, wrapper, chan>>
    BY <2>2, SamePending DEF LInv
  <2>3. CASE Fault
    BY <2>3 DEF Fault, LInv
  <2> QED
    BY <1>10, <2>1, <2>2, <2>3 DEF MatchMessage
<1>11. ASSUME NEW r \in Request, MatchRejected(r)
       PROVE  LInv'
  BY <1>11 DEF MatchRejected, May, ForgetfulAtMost
<1> QED
  BY <1>1, <1>2, <1>3, <1>4, <1>5, <1>6, <1>7, <1>8, <1>9, <1>10, <1>11 DEF Next

LEMMA InitLInv ==
  ASSUME Init
  PROVE  LInv
<1>1. PendingRequests = {}
  BY DEF Init, PendingRequests, Pending
<1> QED
  BY <1>1 DEF Init, LInv, Holds, HoldsSet, EmptyList

\* In a program that at most forgets the slots of pending requests, as call-method
\* does, the list of an open connection holds its pending requests and nothing
\* else: removing a finished call twice is harmless, because the second removal
\* follows at once (src/src/async.c, src/src/call.c).
THEOREM QueueStaysExact ==
  ASSUME ForgetfulAtMost
  PROVE  Spec => []QueueExact
<1>1. Init => LInv
  BY InitLInv
<1>2. IInv /\ LInv /\ [Next]_vars => LInv'
  BY Parameters, NextLInv
<1>3. IInv /\ LInv => QueueExact
  <2>1. CASE vm = "running"
    BY <2>1, HoldsIsExact DEF IInv, LInv
  <2>2. CASE vm # "running"
    BY <2>2 DEF QueueExact
  <2> QED
    BY <2>1, <2>2
<1> QED
  BY <1>1, <1>2, <1>3, IInvHolds, PTL DEF Spec
--------------------------------------------------------------------------------
(* Faults *)

\* Everything the steps below start from: as conn is never collected, it is live.
CInv == vm = "running" => conn = "live"
Sound == IInv /\ LInv /\ CInv /\ vm = "running"

\* A pending request that has lost its wrapper or its channel.
Lost(r) == Pending(r) /\ (wrapper[r] = "collected" \/ chan[r] # "open")

\* Removing a pending request writes to pending requests only, whose records live.
LEMMA NeighboursLive ==
  ASSUME Parameters, Sound, NEW r \in Request, bus = "open" => attached[r]
  PROVE  Writable(queue, r)
<1>1. CASE bus # "open"
  BY <1>1, ClosedIsEmpty DEF Sound, LInv
<1>2. CASE bus = "open"
  <2> DEFINE S == PendingRequests
             f == queue.next
             g == queue.prev
  <2>1. r \in S
    BY <1>2 DEF PendingRequests, Pending
  <2>2. HoldsSet(queue.head, f, g, S)
    BY DEF Sound, LInv, Holds
  <2>3. \A p \in S : mem[p] # "freed"
    <3>1. ASSUME NEW p \in S
          PROVE  mem[p] # "freed"
      <4>1. p \in Request /\ attached[p]
        BY DEF PendingRequests, Pending
      <4>2. refs[p] > 0 /\ (mem[p] = "live" <=> refs[p] > 0)
        BY <4>1, Referenced DEF Sound, IInv, Ownership
      <4> QED
        BY <4>2
    <3> QED
      BY <3>1
  <2> HIDE DEF S, f, g
  <2>4. (f[r] = Nil \/ f[r] \in S) /\ (g[r] = Nil \/ g[r] \in S)
    BY <2>1, <2>2 DEF HoldsSet
  <2> QED
    BY <2>3, <2>4 DEF Writable, OverwrittenBy, f, g
<1> QED
  BY <1>1, <1>2

\* The loop of closeall_pending meets only pending requests.
LEMMA ListedPending ==
  ASSUME Holds(queue, PendingRequests)
  PROVE  ListedNow \subseteq PendingRequests
<1> DEFINE S == PendingRequests
           f == queue.next
<1>1. S \in SUBSET Request
  BY DEF PendingRequests
<1>2. HoldsSet(queue.head, f, queue.prev, S)
  BY DEF Holds
<1> HIDE DEF S, f
<1>3. \A r \in S : f[r] = Nil \/ f[r] \in S
  BY <1>2 DEF HoldsSet
<1>4. ClosedUnderNext(queue, S)
  BY <1>2, <1>3 DEF HoldsSet, ClosedUnderNext, f
<1> QED
  BY <1>1, <1>4 DEF ListedNow, Listed, S

\* It is blocked by such a request or not at all.
LEMMA BlockedByLost ==
  ASSUME Parameters, Sound, NEW r \in Blocking
  PROVE  r \in Request /\ Lost(r)
<1>1. r \in ListedNow /\ Blocks(r)
  BY DEF Blocking
<1>2. r \in Request /\ Pending(r) /\ attached[r]
  BY <1>1, ListedPending DEF Sound, LInv, PendingRequests, Pending
<1>3. /\ refs[r] = (IF wrapper[r] = "held" THEN 1 ELSE 0)
                   + (IF attached[r] THEN 1 ELSE 0)
      /\ mem[r] = "live" <=> refs[r] > 0
  BY <1>2, Referenced DEF Sound, IInv, Ownership
<1>4. mem[r] # "freed" /\ ~(wrapper[r] = "held" /\ refs[r] = 1)
  BY <1>2, <1>3
<1> QED
  BY <1>1, <1>2, <1>4 DEF Blocks, Unsafe, Lost

LEMMA SafeToDestroy ==
  ASSUME Parameters, Sound, NEW r \in Request, bus = "open" => attached[r]
  PROVE  CanDestroy(r, queue) /\ \A n : CanDrop(r, n, queue)
  BY NeighboursLive DEF Sound, CInv, CanDestroy, CanDrop

LEMMA SubmitSafe ==
  ASSUME Parameters, Sound, Submit
  PROVE  vm' = vm
<1> DEFINE S == PendingRequests
<1>1. queue.head = Nil \/ queue.head \in S
  BY DEF Sound, LInv, Holds, HoldsSet
<1>2. ASSUME queue.head \in S
      PROVE  mem[queue.head] # "freed"
  <2>1. queue.head \in Request /\ attached[queue.head]
    BY <1>2 DEF PendingRequests, Pending
  <2> DEFINE h == queue.head
  <2> HIDE DEF h
  <2>2. h \in Request /\ attached[h]
    BY <2>1 DEF h
  <2>3. refs[h] > 0 /\ (mem[h] = "live" <=> refs[h] > 0)
    BY <2>2, Referenced DEF Sound, IInv, Ownership
  <2> QED
    BY <2>3 DEF h
<1> QED
  BY <1>1, <1>2 DEF Submit

LEMMA CancelSafe ==
  ASSUME Parameters, Sound, ForgetfulAtMost, NEW r \in Request, Cancel(r)
  PROVE  vm' = vm
<1>1. bus = "open" => attached[r]
  BY DEF Cancel, MayRelease, May, ForgetfulAtMost
<1> QED
  BY <1>1, SafeToDestroy DEF Cancel

LEMMA CollectSlotSafe ==
  ASSUME Parameters, Sound, ForgetfulAtMost, NEW r \in Request, CollectSlot(r)
  PROVE  vm' = vm
<1>1. bus = "open" => attached[r]
  BY DEF CollectSlot, MayRelease, May, ForgetfulAtMost
<1> QED
  BY <1>1, SafeToDestroy DEF CollectSlot

\* The second removal writes where the first one wrote.
LEMMA ReplySafe ==
  ASSUME Parameters, Sound, NEW r \in Request, Reply(r)
  PROVE  vm' = vm \/ Lost(r)
<1> DEFINE q == DequeuePending(queue, r)
<1>1. bus = "open" /\ attached[r]
  BY DEF Reply
<1>2. Writable(queue, r) /\ conn = "live"
  BY <1>1, NeighboursLive DEF Sound, CInv
<1>3. Writable(q, r)
  <2>1. /\ Ordered(queue, issued, MaxRequests) /\ r \in 1..issued
        /\ MaxRequests \in Nat /\ issued \in 0..MaxRequests
    BY <1>1, QueueIsOrdered, Referenced DEF Sound, IInv, TypeOK, Parameters
  <2>2. CASE queue.head = Nil
    BY <1>2, <2>2 DEF DequeuePending
  <2>3. CASE queue.head # Nil
    <3> DEFINE f == queue.next
               g == queue.prev
               f1 == IF g[r] = Nil THEN f ELSE [f EXCEPT ![g[r]] = f[r]]
               g1 == IF f[r] = Nil THEN g ELSE [g EXCEPT ![f[r]] = g[r]]
    <3>1. q.next = f1 /\ q.prev = g1
      BY <2>3 DEF DequeuePending
    <3>2. OrderedLinks(f, g, MaxRequests)
      BY <2>1 DEF Ordered
    <3> HIDE DEF f, g
    <3>3. f1[r] = f[r] /\ g1[r] = g[r]
      BY <2>1, <3>2 DEF OrderedLinks, Nil
    <3>4. OverwrittenBy(q, r) \subseteq OverwrittenBy(queue, r)
      BY <2>3, <3>1, <3>3 DEF OverwrittenBy, f, g
    <3> QED
      BY <1>2, <3>4 DEF Writable
  <2> QED
    BY <2>2, <2>3
<1>4. CanDrop(r, 1, q)
  BY <1>2, <1>3 DEF CanDrop, CanDestroy
<1> QED
  BY <1>1, <1>2, <1>4 DEF Reply, Lost, Pending

LEMMA DisconnectNewestSafe ==
  ASSUME Parameters, Sound, DisconnectNewest
  PROVE  vm' = vm
  BY SafeToDestroy DEF DisconnectNewest

\* A step faults or panics only over such a request.
LEMMA NextSafe ==
  ASSUME Parameters, Sound, ForgetfulAtMost, [Next]_vars
  PROVE  vm' # vm => \E r \in Request : Lost(r)
<1>1. CASE UNCHANGED vars
  BY <1>1 DEF vars
<1>2. CASE Submit \/ SubmitFails
  BY <1>2, SubmitSafe DEF SubmitFails
<1>3. CASE CloseBus
  <2>1. CASE Blocking = {}
    BY <1>3, <2>1 DEF CloseBus, Raises
  <2>2. CASE Blocking # {}
    BY <2>2, BlockedByLost
  <2> QED
    BY <2>1, <2>2
<1>4. CASE Hangup
  BY <1>4 DEF Hangup, May, ForgetfulAtMost
<1>5. CASE LastOwnerGone \/ BusFreed \/ CollectConn
  BY <1>5 DEF LastOwnerGone, BusFreed, CollectConn
<1>6. CASE DisconnectNewest
  BY <1>6, DisconnectNewestSafe
<1>7. ASSUME NEW r \in Request, Cancel(r) \/ CollectSlot(r) \/ Reply(r)
      PROVE  vm' = vm \/ Lost(r)
  BY <1>7, CancelSafe, CollectSlotSafe, ReplySafe
<1>8. ASSUME NEW r \in Request, CloseChannel(r) \/ CollectChannel(r)
      PROVE  vm' = vm
  BY <1>8 DEF CloseChannel, CollectChannel
<1>9. ASSUME NEW r \in Request, MatchMessage(r)
      PROVE  vm' = vm \/ Lost(r)
  BY <1>9 DEF MatchMessage, Lost, Pending
<1>10. ASSUME NEW r \in Request, MatchRejected(r)
       PROVE  FALSE
  BY <1>10 DEF MatchRejected, May, ForgetfulAtMost
<1> QED
  BY <1>1, <1>2, <1>3, <1>4, <1>5, <1>6, <1>7, <1>8, <1>9, <1>10 DEF Next

LEMMA NextCInv ==
  ASSUME CInv, ForgetfulAtMost, Next
  PROVE  CInv'
<1>1. CASE CloseBus
  BY <1>1 DEF CloseBus, Fault, CInv
<1>2. CASE Submit \/ SubmitFails \/ LastOwnerGone \/ DisconnectNewest \/ BusFreed
  BY <1>2 DEF Submit, SubmitFails, LastOwnerGone, DisconnectNewest, BusFreed, Fault,
              CInv
<1>3. CASE Hangup \/ CollectConn
  BY <1>3 DEF Hangup, CollectConn, May, ForgetfulAtMost
<1>4. ASSUME NEW r \in Request,
             \/ Cancel(r) \/ CollectSlot(r) \/ CloseChannel(r) \/ CollectChannel(r)
             \/ Reply(r) \/ MatchMessage(r) \/ MatchRejected(r)
      PROVE  CInv'
  BY <1>4 DEF Cancel, CollectSlot, CloseChannel, CollectChannel, Reply, MatchMessage,
              MatchRejected, Fault, Stop, CInv
<1> QED
  BY <1>1, <1>2, <1>3, <1>4 DEF Next

LEMMA InitCInv == Init => CInv
  BY DEF Init, CInv

LEMMA StepCInv ==
  ASSUME CInv, ForgetfulAtMost, [Next]_vars
  PROVE  CInv'
<1>1. CASE UNCHANGED vars
  BY <1>1 DEF vars, CInv
<1>2. CASE Next
  BY <1>2, NextCInv
<1> QED
  BY <1>1, <1>2

\* The three invariants together.
LEMMA SoundHolds ==
  ASSUME ForgetfulAtMost
  PROVE  Spec => [](IInv /\ LInv /\ CInv)
<1>1. Init => LInv /\ CInv
  BY InitLInv, InitCInv
<1>2. IInv /\ LInv /\ CInv /\ [Next]_vars => LInv' /\ CInv'
  BY Parameters, NextLInv, StepCInv
<1> QED
  BY <1>1, <1>2, IInvHolds, PTL DEF Spec

\* A program that forgets or closes what its pending requests need, and does nothing
\* worse, meets undefined behaviour or a panic outside a fiber only while some
\* request is pending that has lost its wrapper or its channel: whatever the order
\* of replies, cancellations, collections and the freeing of the sd_bus, it does not
\* while all that have are finished (src/src/call.c, src/src/async.c).
THEOREM OnlyPendingFaultsHolds ==
  ASSUME ForgetfulAtMost
  PROVE  Spec => OnlyPendingFaults
<1>1. ASSUME IInv /\ LInv /\ CInv, [Next]_vars
      PROVE  [vm' # vm =>
                \E r \in Request :
                  Pending(r) /\ (wrapper[r] = "collected" \/ chan[r] # "open")]_vars
  <2>1. CASE vm = "running"
    BY <1>1, <2>1, Parameters, NextSafe DEF Sound, Lost
  <2>2. CASE vm # "running"
    <3>1. ~Next
      BY <2>2 DEF Next, Submit, SubmitFails, CloseBus, Hangup, LastOwnerGone,
                  DisconnectNewest, BusFreed, CollectConn, Cancel, CollectSlot,
                  CloseChannel, CollectChannel, Reply, MatchMessage,
                  MatchRejected
    <3> QED
      BY <1>1, <3>1
  <2> QED
    BY <2>1, <2>2
<1> QED
  BY <1>1, SoundHolds, PTL DEF Spec, OnlyPendingFaults

--------------------------------------------------------------------------------
(* Careful programs *)

\* A program with no habits never loses the wrapper or the channel of a pending
\* request, nor the channel of one not yet made.
KeptSlots ==
  /\ NoFault
  /\ \A r \in Request : ~Lost(r)
  /\ \A r \in Request : r > issued => chan[r] = "open"

\* A step in which the requests that stay pending keep what they have.
LEMMA SameKeptSlots ==
  ASSUME KeptSlots, vm' = vm, issued \in Nat, issued' \in Nat, issued' >= issued,
         \A r \in Request : Pending(r)' => /\ Pending(r)
                                         /\ wrapper'[r] = wrapper[r]
                                         /\ chan'[r] = chan[r],
         \A r \in Request : r > issued' => chan'[r] = chan[r]
  PROVE  KeptSlots'
<1>1. \A r \in Request : r > issued' => chan[r] = "open"
  BY DEF KeptSlots, Request
<1>2. \A r \in Request : r > issued' => chan'[r] = "open"
  BY <1>1
<1>3. ASSUME NEW r \in Request
      PROVE  ~Lost(r)'
  BY DEF KeptSlots, Lost, Pending
<1> QED
  BY <1>2, <1>3 DEF KeptSlots, NoFault

\* What it may do to a channel happens after its request is over.
LEMMA ChannelKeptSlots ==
  ASSUME Parameters, IInv, KeptSlots, Habits = {}, NEW r \in Request,
         CloseChannel(r) \/ CollectChannel(r)
  PROVE  KeptSlots'
<1>1. /\ vm' = vm /\ issued' = issued /\ ~attached[r] /\ mem[r] = "live"
      /\ UNCHANGED <<bus, attached, wrapper>>
      /\ \A p \in Request : p # r => chan'[p] = chan[p]
  BY DEF CloseChannel, CollectChannel, May, IInv, TypeOK
<1>2. vm = "running" /\ issued \in Nat /\ issued >= issued
  BY DEF KeptSlots, NoFault, IInv, TypeOK
<1>3. r <= issued
  <2>1. /\ refs[r] > 0
        /\ refs[r] = (IF wrapper[r] = "held" THEN 1 ELSE 0)
                     + (IF attached[r] THEN 1 ELSE 0)
    BY <1>1, <1>2 DEF IInv, Ownership
  <2>2. wrapper[r] # "none"
    BY <1>1, <2>1
  <2> QED
    BY <1>2, <2>2, Referenced
<1>4. ASSUME NEW p \in Request, p > issued'
      PROVE  chan'[p] = chan[p]
  BY <1>1, <1>2, <1>3, <1>4 DEF Request
<1>5. ASSUME NEW p \in Request, Pending(p)'
      PROVE  Pending(p) /\ wrapper'[p] = wrapper[p] /\ chan'[p] = chan[p]
  BY <1>1, <1>5 DEF Pending
<1> QED
  BY <1>1, <1>2, <1>4, <1>5, SameKeptSlots

LEMMA NextKeptSlots ==
  ASSUME Parameters, IInv, LInv, CInv, KeptSlots, Habits = {}, [Next]_vars
  PROVE  KeptSlots'
<1>1. /\ wrapper \in [Request -> {"none", "held", "released", "collected"}]
      /\ attached \in [Request -> BOOLEAN] /\ issued \in Nat /\ issued >= issued
      /\ \A r \in Request : r > issued => ~attached[r]
      /\ vm = "running"
  BY DEF IInv, TypeOK, Fresh, KeptSlots, NoFault
<1>2. Sound /\ ForgetfulAtMost
  BY <1>1 DEF Sound, ForgetfulAtMost
<1>3. vm' = vm
  BY <1>2, NextSafe DEF KeptSlots
\* A request that was pending already, with the wrapper and the channel it had.
<1> DEFINE Same == /\ issued' \in Nat /\ issued' >= issued /\ chan' = chan
                   /\ \A r \in Request : Pending(r)' =>
                                            Pending(r) /\ wrapper'[r] = wrapper[r]
<1>4. Same => KeptSlots'
  BY <1>1, <1>3, SameKeptSlots
<1>5. CASE UNCHANGED vars
  BY <1>1, <1>4, <1>5 DEF vars, Pending
<1>6. CASE Submit
  <2>1. /\ attached' = [attached EXCEPT ![issued + 1] = TRUE]
        /\ wrapper' = [wrapper EXCEPT ![issued + 1] = "held"]
        /\ issued' = issued + 1 /\ UNCHANGED <<bus, chan>> /\ issued < MaxRequests
    BY <1>1, <1>3, <1>6 DEF Submit, Fault
  <2>2. issued + 1 \in Request /\ issued + 1 > issued
    BY <1>1, <2>1 DEF Request, Parameters
  <2>3. chan[issued + 1] = "open"
    BY <2>2 DEF KeptSlots
  <2>4. ASSUME NEW r \in Request
        PROVE  ~Lost(r)'
    <3>1. CASE r = issued + 1
      BY <1>1, <2>1, <2>3, <3>1 DEF Lost
    <3>2. CASE r # issued + 1
      BY <1>1, <2>1, <3>2 DEF Pending, Lost, KeptSlots
    <3> QED
      BY <3>1, <3>2
  <2>5. \A r \in Request : r > issued' => chan'[r] = "open"
    BY <1>1, <2>1 DEF KeptSlots, Request
  <2> QED
    BY <1>3, <2>4, <2>5 DEF KeptSlots, NoFault
<1>7. CASE SubmitFails
  <2>1. /\ wrapper' = [wrapper EXCEPT ![issued + 1] = "collected"]
        /\ issued' = issued + 1 /\ UNCHANGED <<bus, attached, chan>>
    BY <1>7 DEF SubmitFails
  <2>2. ASSUME NEW r \in Request, Pending(r)'
        PROVE  Pending(r) /\ wrapper'[r] = wrapper[r]
    <3>1. r # issued + 1
      BY <1>1, <2>1, <2>2 DEF Pending
    <3> QED
      BY <1>1, <2>1, <2>2, <3>1 DEF Pending
  <2> QED
    BY <1>1, <1>4, <2>1, <2>2
<1>8. CASE CloseBus
  <2>1. Blocking = {}
    BY <1>2, BlockedByLost DEF KeptSlots
  <2>2. bus' # "open" /\ UNCHANGED <<issued, chan>>
    BY <1>8, <2>1 DEF CloseBus, Raises
  <2> QED
    BY <1>1, <1>4, <2>2 DEF Pending
<1>9. CASE Hangup \/ CollectConn
  BY <1>9 DEF Hangup, CollectConn, May
<1>10. CASE LastOwnerGone \/ BusFreed \/ DisconnectNewest
  <2>1. bus' # "open" /\ UNCHANGED <<issued, chan>>
    BY <1>1, <1>3, <1>10 DEF LastOwnerGone, BusFreed, DisconnectNewest, Fault
  <2> QED
    BY <1>1, <1>4, <2>1 DEF Pending
<1>11. ASSUME NEW r \in Request, Cancel(r)
       PROVE  KeptSlots'
  <2>1. /\ wrapper' = [wrapper EXCEPT ![r] = "released"]
        /\ attached' = [attached EXCEPT ![r] = FALSE]
        /\ UNCHANGED <<bus, issued, chan>>
    BY <1>1, <1>3, <1>11 DEF Cancel, Fault
  <2> QED
    BY <1>1, <1>4, <2>1 DEF Pending
<1>12. ASSUME NEW r \in Request, CollectSlot(r)
       PROVE  KeptSlots'
  <2>1. /\ wrapper' = [wrapper EXCEPT ![r] = "collected"]
        /\ UNCHANGED <<bus, issued, attached, chan>>
        /\ ~(attached[r] /\ bus = "open")
    BY <1>12 DEF CollectSlot, May
  <2> QED
    BY <1>1, <1>4, <2>1 DEF Pending
<1>13. ASSUME NEW r \in Request, CloseChannel(r) \/ CollectChannel(r)
       PROVE  KeptSlots'
  BY <1>13, ChannelKeptSlots
<1>14. ASSUME NEW r \in Request, Reply(r)
       PROVE  KeptSlots'
  <2>1. UNCHANGED <<bus, wrapper, issued, chan>>
    BY <1>14 DEF Reply, Fault, Stop
  <2>2. attached' = attached \/ attached' = [attached EXCEPT ![r] = FALSE]
    BY <1>14 DEF Reply, Fault, Stop
  <2> QED
    BY <1>1, <1>4, <2>1, <2>2 DEF Pending
<1>15. ASSUME NEW r \in Request, MatchMessage(r)
       PROVE  KeptSlots'
  BY <1>1, <1>4, <1>15 DEF MatchMessage, Fault, Stop, Pending
<1>16. ASSUME NEW r \in Request, MatchRejected(r)
       PROVE  KeptSlots'
  BY <1>16 DEF MatchRejected, May
<1> QED
  BY <1>5, <1>6, <1>7, <1>8, <1>9, <1>10, <1>11, <1>12, <1>13, <1>14, <1>15, <1>16
  DEF Next

\* In a program that keeps the slots of its pending requests, releases no finished
\* one before it closes the connection, and keeps the channel of every pending request,
\* no handler of call.c, slot.c, async.c or bus.c touches freed memory or panics
\* outside a fiber, however many requests there are and in whatever order they end.
THEOREM CarefulProgramsDoNotFault ==
  ASSUME Habits = {}
  PROVE  Spec => []NoFault
<1>1. ForgetfulAtMost
  BY DEF ForgetfulAtMost
<1>2. Init => KeptSlots
  BY DEF Init, KeptSlots, NoFault, Lost, Pending
<1>3. IInv /\ LInv /\ CInv /\ KeptSlots /\ [Next]_vars => KeptSlots'
  BY Parameters, NextKeptSlots
<1>4. KeptSlots => NoFault
  BY DEF KeptSlots
<1>5. Spec => [](IInv /\ LInv /\ CInv)
  BY <1>1, SoundHolds
<1> QED
  BY <1>2, <1>3, <1>4, <1>5, PTL DEF Spec

--------------------------------------------------------------------------------
(* closeall_pending meets every record of the list *)

\* Of the strict subsets of a finite set there is a least, so a set of numbers that
\* has a bound has a greatest element.
LEMMA HasGreatest ==
  ASSUME NEW n \in Nat, NEW U \in SUBSET (1..n), U # {}
  PROVE  \E m \in U : \A p \in U : p <= m
<1> DEFINE Above(m) == {p \in U : p > m}
           F == {Above(m) : m \in U}
           R == StrictSubsetOrdering(U)
<1>1. IsFiniteSet(U)
  <2>1. IsFiniteSet(1..n)
    BY FS_Interval
  <2> QED
    BY <2>1, FS_Subset
<1>2. FiniteSubsetsOf(U) = SUBSET U
  BY <1>1, FS_FiniteSubsetsOfFinite
<1>3. IsWellFoundedOn(R, SUBSET U)
  BY <1>2, FS_StrictSubsetOrderingWellFounded
<1>4. F \subseteq SUBSET U /\ F # {}
  OBVIOUS
<1>5. \E x \in F : \A y \in F : ~ (<<y, x>> \in R)
  <2> HIDE DEF F, R
  <2> QED
    BY <1>3, <1>4, WFMin
<1>6. PICK m \in U : \A k \in U : ~ (<<Above(k), Above(m)>> \in R)
  BY <1>5
<1>7. ASSUME NEW k \in U, k > m
      PROVE  FALSE
  <2>1. \A p \in U : p > k => p > m
    BY <1>7
  <2>2. Above(k) \subseteq Above(m) /\ k \in Above(m) /\ k \notin Above(k)
    <3>1. k \in Int /\ ~(k > k)
      OBVIOUS
    <3>2. Above(k) \subseteq Above(m)
      BY <2>1
    <3> QED
      BY <1>7, <3>1, <3>2
  <2>3. Above(k) \in SUBSET U /\ Above(m) \in SUBSET U /\ Above(k) # Above(m)
    BY <2>2
  <2> HIDE DEF Above
  <2>4. <<Above(k), Above(m)>> \in R
    BY <2>2, <2>3 DEF StrictSubsetOrdering
  <2> QED
    BY <1>6, <2>4
<1> QED
  BY <1>6, <1>7

\* A set that has the head, and the next of each of its members, has every record of
\* the list: the greatest one it misses would be the next of one it has.
LEMMA ClosedHasAll ==
  ASSUME NEW n \in Nat, NEW S \in SUBSET (1..n), NEW q, Holds(q, S),
         NEW V, ClosedUnderNext(q, V)
  PROVE  S \subseteq V
<1> DEFINE h == q.head
           f == q.next
           g == q.prev
           U == S \ V
<1>1. HoldsSet(h, f, g, S) /\ \A p \in S : p \in Int /\ p # Nil
  BY DEF Holds, Nil
<1>2. (h = Nil \/ h \in V) /\ \A p \in V : f[p] = Nil \/ f[p] \in V
  BY DEF ClosedUnderNext
<1>3. SUFFICES ASSUME U # {}
               PROVE  FALSE
  OBVIOUS
<1>4. U \in SUBSET (1..n)
  OBVIOUS
<1>5. PICK m \in U : \A p \in U : p <= m
  <2> HIDE DEF U
  <2> QED
    BY <1>3, <1>4, HasGreatest
<1>6. m \in S /\ m \notin V /\ \A p \in S : p > m => p \in V
  BY <1>1, <1>5
<1> HIDE DEF h, f, g
\* The record before m in the list is the least of those that are newer.
<1>7. CASE g[m] = Nil /\ \A p \in S : p <= m
  <2>1. h \in S /\ \A p \in S : p <= h
    BY <1>1, <1>6 DEF HoldsSet
  <2>2. h \in Int /\ m \in Int /\ h <= m /\ m <= h
    BY <1>1, <1>6, <1>7, <2>1
  <2>3. h = m
    BY <2>2
  <2> QED
    BY <1>1, <1>2, <1>6, <2>3
<1>8. CASE g[m] \in S /\ m < g[m] /\ \A p \in S : m < p => g[m] <= p
  <2> DEFINE k == g[m]
  <2>1. k \in S /\ k \in V /\ m < k /\ \A p \in S : m < p => k <= p
    BY <1>1, <1>6, <1>8
  <2> HIDE DEF k
  <2>2. f[k] \in S /\ f[k] < k /\ \A p \in S : p < k => p <= f[k]
    BY <1>1, <1>6, <2>1 DEF HoldsSet
  <2>3. f[k] \in Int /\ m \in Int /\ m <= f[k] /\ ~(m < f[k])
    <3>1. f[k] \in Int /\ m \in Int /\ k \in Int
      BY <1>1, <1>6, <2>1, <2>2
    <3>2. m < f[k] => k <= f[k]
      BY <2>1, <2>2
    <3> QED
      BY <1>6, <2>1, <2>2, <3>1, <3>2
  <2>4. f[k] = m
    BY <2>3
  <2> QED
    BY <1>1, <1>2, <1>6, <2>1, <2>4
<1> QED
  BY <1>1, <1>6, <1>7, <1>8 DEF HoldsSet

LEMMA ListedIsPending ==
  ASSUME Parameters, Holds(queue, PendingRequests)
  PROVE  ListedNow = PendingRequests
<1>1. PendingRequests \in SUBSET (1..MaxRequests) /\ MaxRequests \in Nat
  BY DEF PendingRequests, Request, Parameters
<1>2. \A V \in SUBSET Request : ClosedUnderNext(queue, V) => PendingRequests \subseteq V
  BY <1>1, ClosedHasAll
<1>3. PendingRequests \subseteq ListedNow
  BY <1>2 DEF ListedNow, Listed, PendingRequests
<1> QED
  BY <1>3, ListedPending

--------------------------------------------------------------------------------
(* Closing the connection *)

\* A closing that goes through tells the pending requests and takes back their slots.
LEMMA CloseBusTells ==
  ASSUME Parameters, IInv, LInv, CloseBus, bus' # bus
  PROVE  /\ inbox' = [r \in Request |-> IF attached[r] THEN Append(inbox[r], "close")
                                                       ELSE inbox[r]]
         /\ UNCHANGED <<vm, issued, kind, attached>>
<1>1. /\ vm = "running" /\ bus = "open" /\ listening
      /\ Holds(queue, PendingRequests)
  BY DEF CloseBus, LInv
<1>2. ListedNow = PendingRequests
  BY <1>1, ListedIsPending
<1>3. CloseAll("close") /\ UNCHANGED <<vm, issued, kind, attached>>
  BY <1>1 DEF CloseBus, Fault
<1>4. \A r \in Request : r \in ListedNow <=> attached[r]
  BY <1>1, <1>2 DEF PendingRequests, Pending
<1> QED
  BY <1>3, <1>4 DEF CloseAll, TellAndRelease

\* In a program that at most loses the slots and the channels of its pending requests,
\* closing the connection gives "close" to the channel of every request that is pending,
\* and to no other, however many there are and whatever has been taken out of the list
\* before (closeall_pending in src/src/async.c, src/src/call.c:136-140).
THEOREM CloseTellsPendingHolds ==
  ASSUME ForgetfulAtMost
  PROVE  Spec => CloseTellsPending
<1>1. ASSUME IInv /\ LInv, [Next]_vars
      PROVE  [bus = "open" /\ bus' # "open" =>
                \A r \in Request :
                  inbox'[r] = IF attached[r] THEN Append(inbox[r], "close")
                                             ELSE inbox[r]]_vars
  <2>1. SUFFICES ASSUME Next, bus = "open", bus' # "open"
                 PROVE  \A r \in Request :
                          inbox'[r] = IF attached[r] THEN Append(inbox[r], "close")
                                                     ELSE inbox[r]
    BY <1>1
  <2>2. CloseBus
    BY <2>1 DEF Next, Submit, SubmitFails, Hangup, LastOwnerGone, DisconnectNewest,
                BusFreed, CollectConn, Cancel, CollectSlot, CloseChannel,
                CollectChannel, Reply, MatchMessage, MatchRejected, Fault, Stop
  <2> QED
    BY <1>1, <2>1, <2>2, Parameters, CloseBusTells
<1> QED
  BY <1>1, SoundHolds, PTL DEF Spec, CloseTellsPending

--------------------------------------------------------------------------------
(* The refinement *)

\* Programs that close no channel of a pending request, and have no other habit than
\* to forget what belongs to such a request.
NeverClosing == Habits \subseteq {"dropPending", "dropChannel"}

\* The channel of a request that is pending, or not yet made, is not closed.
Unclosed ==
  vm = "running" =>
    \A r \in Request : attached[r] \/ r > issued => chan[r] # "closed"

LEMMA SameUnclosed ==
  ASSUME TypeOK, Unclosed, vm = "running", chan' = chan,
         issued' \in Nat, issued' >= issued,
         \A r \in Request : attached'[r] => attached[r] \/ r > issued
  PROVE  Unclosed'
<1>1. \A r \in Request : r > issued' => r > issued
  BY DEF TypeOK, Request
<1> QED
  BY <1>1 DEF Unclosed

LEMMA NextUnclosed ==
  ASSUME Parameters, IInv, Unclosed, NeverClosing, [Next]_vars
  PROVE  Unclosed'
<1>1. /\ attached \in [Request -> BOOLEAN] /\ issued \in Nat /\ issued >= issued
      /\ chan \in [Request -> {"open", "closed", "collected"}] /\ TypeOK
  BY DEF IInv, TypeOK
<1>2. CASE vm' # "running"
  BY <1>2 DEF Unclosed
<1>3. CASE UNCHANGED vars
  BY <1>3 DEF vars, Unclosed
<1>4. CASE vm = "running" /\ chan' = chan
           /\ issued' \in Nat /\ issued' >= issued
           /\ \A r \in Request : attached'[r] => attached[r] \/ r > issued
  BY <1>1, <1>4, SameUnclosed
<1>5. CASE Submit /\ vm' = "running"
  <2>1. /\ attached' = [attached EXCEPT ![issued + 1] = TRUE]
        /\ vm = "running" /\ issued' = issued + 1 /\ chan' = chan
    BY <1>5 DEF Submit, Fault
  <2>2. \A r \in Request : attached'[r] => attached[r] \/ r > issued
    BY <1>1, <2>1
  <2> QED
    BY <1>1, <1>4, <2>1, <2>2
<1>6. CASE SubmitFails
  BY <1>1, <1>4, <1>6 DEF SubmitFails
<1>7. CASE CloseBus \/ LastOwnerGone \/ BusFreed \/ CollectConn
  BY <1>1, <1>2, <1>4, <1>7 DEF CloseBus, LastOwnerGone, BusFreed, CollectConn, Fault
<1>8. CASE DisconnectNewest
  BY <1>1, <1>2, <1>4, <1>8 DEF DisconnectNewest, Fault
<1>9. ASSUME NEW r \in Request, Cancel(r) \/ CollectSlot(r) \/ Reply(r) \/ MatchMessage(r)
      PROVE  Unclosed'
  BY <1>1, <1>2, <1>4, <1>9 DEF Cancel, CollectSlot, Reply, MatchMessage, Fault, Stop
<1>10. ASSUME NEW r \in Request, CloseChannel(r) \/ CollectChannel(r)
       PROVE  Unclosed'
  <2>1. /\ vm = "running" /\ mem[r] = "live" /\ UNCHANGED <<attached, issued>>
        /\ \A p \in Request : p # r => chan'[p] = chan[p]
        /\ chan'[r] = "collected" \/ ~attached[r]
    BY <1>1, <1>10 DEF CloseChannel, CollectChannel, May, NeverClosing
  <2>2. r <= issued
    <3>1. /\ refs[r] > 0
          /\ refs[r] = (IF wrapper[r] = "held" THEN 1 ELSE 0)
                       + (IF attached[r] THEN 1 ELSE 0)
      BY <2>1 DEF IInv, Ownership
    <3>2. attached[r] \/ wrapper[r] # "none"
      BY <3>1
    <3> QED
      BY <2>1, <3>2, Referenced
  <2> QED
    BY <1>1, <2>1, <2>2 DEF Unclosed, Request
<1>11. CASE Hangup \/ \E r \in Request : MatchRejected(r)
  BY <1>11 DEF Hangup, MatchRejected, May, NeverClosing
<1> QED
  BY <1>2, <1>3, <1>5, <1>6, <1>7, <1>8, <1>9, <1>10, <1>11 DEF Next

\* How a request looks to the program.
Phase(r) == IF r > issued THEN "unused" ELSE IF Pending(r) THEN "pending" ELSE "over"
Phases == [r \in Request |-> Phase(r)]

\* Steps the program does not see: of a connection that is closed and stays so, or of
\* one that stays open with the same requests pending.
LEMMA Unseen ==
  ASSUME UNCHANGED <<issued, kind, inbox>>,
         (bus = "open") = (bus' = "open"), bus = "open" => attached' = attached
  PROVE  UNCHANGED Api!vars
<1>1. Phases' = Phases
  BY DEF Phases, Phase, Pending
<1>2. UNCHANGED <<bus = "open", Phases, kind, inbox>>
  BY <1>1
<1> QED
  BY <1>2 DEF Api!vars, Phases, Phase

\* The end of request r while the connection stays open.
LEMMA Ends ==
  ASSUME Parameters, IInv, vm = "running", bus = "open", bus' = "open",
         NEW r \in Request, attached[r],
         attached' = [attached EXCEPT ![r] = FALSE], issued' = issued
  PROVE  Phases[r] = "pending" /\ Phases' = [Phases EXCEPT ![r] = "over"]
<1>1. r <= issued /\ issued \in Nat /\ attached \in [Request -> BOOLEAN]
  BY Referenced DEF IInv, TypeOK
<1>2. Phase(r) = "pending" /\ Phase(r)' = "over"
  BY <1>1 DEF Phase, Pending, Request
<1>3. \A p \in Request : p # r => Phase(p)' = Phase(p)
  BY <1>1 DEF Phase, Pending
<1> QED
  BY <1>2, <1>3 DEF Phases

\* A step that uses up the number of the next request.
LEMMA Begins ==
  ASSUME Parameters, IInv, vm = "running", issued < MaxRequests,
         NEW r, r = issued + 1, issued' = r, (bus = "open") = (bus' = "open"),
         NEW t, Phase(r)' = t,
         \A p \in Request : p # r => attached'[p] = attached[p]
  PROVE  /\ r \in Request /\ Phases[r] = "unused"
         /\ Phases' = [Phases EXCEPT ![r] = t]
<1>1. r \in Request /\ r > issued /\ issued \in Nat
  BY DEF IInv, TypeOK, Request, Parameters
<1>2. Phase(r) = "unused"
  BY <1>1 DEF Phase
<1>3. \A p \in Request : p # r => Phase(p)' = Phase(p)
  BY <1>1 DEF Phase, Pending, Request
<1> QED
  BY <1>1, <1>2, <1>3 DEF Phases

LEMMA SubmitRefines ==
  ASSUME Parameters, IInv, Submit
  PROVE  [Api!Next]_(Api!vars)
<1>1. PICK r : r = issued + 1
  OBVIOUS
<1>2. CASE Fault
  BY <1>2, Unseen DEF Fault
<1>3. CASE ~Fault
  <2>1. /\ vm = "running" /\ bus = "open" /\ issued < MaxRequests
        /\ issued' = r /\ \E k \in Kind : kind' = [kind EXCEPT ![r] = k]
        /\ attached' = [attached EXCEPT ![r] = TRUE]
        /\ UNCHANGED <<bus, inbox>>
    BY <1>1, <1>3 DEF Submit
  <2>2. issued \in Nat /\ r \in Request /\ attached \in [Request -> BOOLEAN]
    BY <1>1, <2>1 DEF IInv, TypeOK, Request, Parameters
  <2>3. Phase(r)' = "pending"
    BY <1>1, <2>1, <2>2 DEF Phase, Pending
  <2>4. Phases[r] = "unused" /\ Phases' = [Phases EXCEPT ![r] = "pending"]
    BY <1>1, <2>1, <2>2, <2>3, Begins
  <2>5. Api!Make(r)
    BY <2>1, <2>2, <2>4 DEF Api!Make, Phases, Phase, Kind, Api!Kind
  <2> QED
    BY <2>2, <2>5 DEF Api!Next, Request, Api!Request
<1> QED
  BY <1>2, <1>3

LEMMA SubmitFailsRefines ==
  ASSUME Parameters, IInv, SubmitFails
  PROVE  [Api!Next]_(Api!vars)
<1>1. PICK r : r = issued + 1
  OBVIOUS
<1>2. /\ vm = "running" /\ issued < MaxRequests /\ issued' = r
      /\ UNCHANGED <<bus, attached, kind, inbox>>
  BY <1>1 DEF SubmitFails
<1>3. issued \in Nat /\ r \in Request /\ ~attached[r]
  BY <1>1, <1>2 DEF IInv, TypeOK, Fresh, Request, Parameters
<1>4. Phase(r)' = "over"
  BY <1>1, <1>2, <1>3 DEF Phase, Pending
<1>5. Phases[r] = "unused" /\ Phases' = [Phases EXCEPT ![r] = "over"]
  BY <1>1, <1>2, <1>4, Begins
<1>6. Api!Refuse(r)
  BY <1>2, <1>5 DEF Api!Refuse, Api!Over, Phases, Phase
<1> QED
  BY <1>3, <1>6 DEF Api!Next, Request, Api!Request

LEMMA CancelRefines ==
  ASSUME Parameters, IInv, NEW r \in Request, Cancel(r)
  PROVE  [Api!Next]_(Api!vars)
<1>1. CASE Fault \/ bus # "open"
  BY <1>1, Unseen DEF Cancel, Fault
<1>2. CASE ~Fault /\ bus = "open"
  <2>1. /\ vm = "running" /\ attached' = [attached EXCEPT ![r] = FALSE]
        /\ UNCHANGED <<bus, issued, kind, inbox>>
    BY <1>2 DEF Cancel
  <2>2. CASE ~attached[r]
    <3>1. attached' = attached
      BY <2>1, <2>2 DEF IInv, TypeOK
    <3> QED
      BY <2>1, <3>1, Unseen
  <2>3. CASE attached[r]
    <3>1. Phases[r] = "pending" /\ Phases' = [Phases EXCEPT ![r] = "over"]
      BY <1>2, <2>1, <2>3, Ends
    <3>2. Api!Withdraw(r)
      BY <1>2, <2>1, <3>1 DEF Api!Withdraw, Api!Pending, Api!Over, Phases, Phase
    <3> QED
      BY <3>2 DEF Api!Next, Request, Api!Request
  <2> QED
    BY <2>2, <2>3
<1> QED
  BY <1>1, <1>2

LEMMA ReplyRefines ==
  ASSUME Parameters, IInv, NEW r \in Request, Reply(r)
  PROVE  [Api!Next]_(Api!vars)
<1>1. vm = "running" /\ bus = "open" /\ attached[r] /\ kind[r] = "Call"
  BY DEF Reply
<1>2. CASE UNCHANGED <<bus, issued, kind, attached, inbox>>
  BY <1>2, Unseen
<1>3. CASE /\ Give(r, "answer")
           /\ attached' = [attached EXCEPT ![r] = FALSE]
           /\ UNCHANGED <<bus, issued, kind>>
  <2>1. Phases[r] = "pending" /\ Phases' = [Phases EXCEPT ![r] = "over"]
    BY <1>1, <1>3, Ends
  <2>2. Api!Answer(r)
    BY <1>1, <1>3, <2>1
    DEF Api!Answer, Api!Pending, Api!Over, Api!Say, Give, Phases, Phase
  <2> QED
    BY <2>2 DEF Api!Next, Request, Api!Request
<1> QED
  BY <1>2, <1>3 DEF Reply, Stop, Fault

LEMMA MatchMessageRefines ==
  ASSUME Parameters, IInv, NEW r \in Request, MatchMessage(r)
  PROVE  [Api!Next]_(Api!vars)
<1>1. vm = "running" /\ bus = "open" /\ attached[r] /\ kind[r] = "Match"
  BY DEF MatchMessage
<1>2. CASE UNCHANGED <<bus, issued, kind, attached, inbox>>
  BY <1>2, Unseen
<1>3. CASE Give(r, "answer") /\ UNCHANGED <<bus, issued, kind, attached>>
  <2>1. r <= issued /\ r \in Int /\ issued \in Int
    BY <1>1, Referenced DEF IInv, TypeOK, Request
  <2>2. Phases[r] = "pending" /\ Phases' = Phases
    BY <1>1, <1>3, <2>1 DEF Phases, Phase, Pending
  <2>3. Api!Notify(r)
    BY <1>1, <1>3, <2>2
    DEF Api!Notify, Api!Pending, Api!Say, Give, Phases, Phase
  <2> QED
    BY <2>3 DEF Api!Next, Request, Api!Request
<1> QED
  BY <1>2, <1>3 DEF MatchMessage, Stop, Fault

LEMMA CloseBusRefines ==
  ASSUME Parameters, IInv, LInv, Unclosed, CloseBus
  PROVE  [Api!Next]_(Api!vars)
<1>1. /\ vm = "running" /\ bus = "open" /\ listening
      /\ Holds(queue, PendingRequests)
  BY DEF CloseBus, LInv
<1>2. ~Raises
  <2>1. ASSUME NEW r \in Blocking
        PROVE  chan[r] # "closed"
    BY <1>1, ListedPending DEF Blocking, PendingRequests, Pending, Unclosed
  <2> QED
    BY <2>1 DEF Raises
<1>3. CASE Fault
  BY <1>3, Unseen DEF Fault
<1>4. CASE ~Fault
  <2>1. bus' # "open"
    BY <1>1, <1>2, <1>4 DEF CloseBus
  <2>2. /\ inbox' = [r \in Request |-> IF attached[r] THEN Append(inbox[r], "close")
                                                       ELSE inbox[r]]
        /\ UNCHANGED <<issued, kind, attached>>
    BY <1>1, <2>1, CloseBusTells
  <2>3. \A r \in Request : (Phase(r) = "pending" <=> attached[r])
    <3>1. ASSUME NEW r \in Request, attached[r]
          PROVE  ~(r > issued)
      BY <1>1, <3>1, Referenced DEF Request, IInv, TypeOK
    <3> QED
      BY <1>1, <3>1 DEF Phase, Pending
  <2>4. \A r \in Request : Phase(r)' = IF Phase(r) = "pending" THEN "over" ELSE Phase(r)
    BY <2>1, <2>2 DEF Phase, Pending
  <2>5. /\ Phases' = [r \in Request |-> IF Phases[r] = "pending" THEN "over"
                                                                   ELSE Phases[r]]
        /\ inbox' = [r \in Request |-> IF Phases[r] = "pending"
                                          THEN Append(inbox[r], "close") ELSE inbox[r]]
    BY <2>2, <2>3, <2>4 DEF Phases
  <2>6. Api!Close
    BY <1>1, <2>1, <2>2, <2>5 DEF Api!Close, Phases, Phase, Request, Api!Request
  <2> QED
    BY <2>6 DEF Api!Next
<1> QED
  BY <1>3, <1>4

LEMMA NextRefines ==
  ASSUME Parameters, IInv, LInv, Unclosed, NeverClosing, [Next]_vars
  PROVE  [Api!Next]_(Api!vars)
<1>1. CASE UNCHANGED vars
  BY <1>1, Unseen DEF vars
<1>2. CASE LastOwnerGone \/ DisconnectNewest \/ BusFreed \/ CollectConn
  BY <1>2, Unseen DEF LastOwnerGone, DisconnectNewest, BusFreed, CollectConn, Fault
<1>3. ASSUME NEW r \in Request, CollectSlot(r) \/ CloseChannel(r) \/ CollectChannel(r)
      PROVE  [Api!Next]_(Api!vars)
  BY <1>3, Unseen DEF CollectSlot, CloseChannel, CollectChannel
<1>4. CASE Hangup \/ \E r \in Request : MatchRejected(r)
  BY <1>4 DEF Hangup, MatchRejected, May, NeverClosing
<1>5. CASE CloseBus
  BY <1>5, CloseBusRefines
<1>6. CASE Submit
  BY <1>6, SubmitRefines
<1>7. CASE SubmitFails
  BY <1>7, SubmitFailsRefines
<1>8. ASSUME NEW r \in Request, Cancel(r) \/ Reply(r) \/ MatchMessage(r)
      PROVE  [Api!Next]_(Api!vars)
  BY <1>8, CancelRefines, ReplyRefines, MatchMessageRefines
<1> QED
  BY <1>1, <1>2, <1>3, <1>4, <1>5, <1>6, <1>7, <1>8 DEF Next

LEMMA InitRefines ==
  ASSUME Parameters, Init
  PROVE  Api!Init /\ Unclosed
<1>1. \A r \in Request : r > 0
  BY DEF Request, Parameters
<1>2. Phases = [r \in Request |-> "unused"]
  BY <1>1 DEF Init, Phases, Phase
<1>3. Api!Init
  BY <1>2 DEF Init, Api!Init, Phases, Phase, Request, Api!Request
<1>4. Unclosed
  BY DEF Init, Unclosed
<1> QED
  BY <1>3, <1>4

\* In a program that closes no channel of a pending request, on a connection that is
\* not cut off and whose match rules are accepted, every handler of call.c, async.c,
\* slot.c and bus.c does what the docstrings of call-async, match-async, cancel and
\* close-bus promise, or nothing the program can see.
THEOREM ImplementsApiHolds ==
  ASSUME NeverClosing
  PROVE  Spec => ImplementsApi
<1>1. ForgetfulAtMost
  BY DEF NeverClosing, ForgetfulAtMost
<1>2. Init => Api!Init /\ Unclosed
  BY Parameters, InitRefines
<1>3. IInv /\ Unclosed /\ [Next]_vars => Unclosed'
  BY Parameters, NextUnclosed
<1>4. IInv /\ LInv /\ Unclosed /\ [Next]_vars => [Api!Next]_(Api!vars)
  BY Parameters, NextRefines
<1>5. Spec => [](IInv /\ LInv)
  BY <1>1, SoundHolds
<1> QED
  BY <1>2, <1>3, <1>4, <1>5, PTL DEF Spec, ImplementsApi, Api!Spec

\* What the docstrings promise carries over to the code: whatever the order of replies,
\* cancellations, collections and the closing, a call hears one status at most, and no
\* request hears anything after "close" (message_handler in src/src/call.c,
\* closeall_pending in src/src/async.c).
THEOREM AnsweredOnceHolds ==
  ASSUME NeverClosing
  PROVE  Spec => []AnsweredOnce
<1>1. Api!Spec => []Api!AnsweredOnce
  BY Api!PromisesAnswerOnce
<1> QED
  BY <1>1, ImplementsApiHolds, PTL DEF ImplementsApi, AnsweredOnce
================================================================================
