------------------------------ MODULE PendingList ------------------------------
(* The list of pending requests of a connection: AsyncPending records linked   *)
(* through their own next and prev fields, with the head in Conn.queue         *)
(* (src/src/async.c, src/src/common.h).  A list is a record of the head and of *)
(* the links of every record ever allocated: a record that has left the list   *)
(* keeps the links it had, because nothing in the code resets them.  Records   *)
(* are numbered from 1 in the order in which they are queued; 0 is NULL.       *)
EXTENDS Integers

Nil == 0

\* conn->queue = NULL and records whose links were never written.
EmptyList(N) == [head |-> Nil,
                 next |-> [p \in N |-> Nil],
                 prev |-> [p \in N |-> Nil]]

\* A queue_pending that moves the head before it links the old one, which leaves
\* the record its own predecessor (for mutation).
QueueLateLink(q, p) ==
  [head |-> p,
   next |-> [q.next EXCEPT ![p] = q.head],
   prev |-> [q.prev EXCEPT ![p] = p]]

\* queue_pending: the record becomes the head.
QueuePending(q, p) ==
  [head |-> p,
   next |-> [q.next EXCEPT ![p] = q.head],
   prev |-> IF q.head = Nil
              THEN [q.prev EXCEPT ![p] = Nil]
              ELSE [q.prev EXCEPT ![p] = Nil, ![q.head] = p]]

\* The record, other than p, whose field the removal of p overwrites.
OverwrittenBy(q, p) ==
  IF q.head = Nil THEN {} ELSE {q.prev[p], q.next[p]} \ {Nil}

\* A removal that forgets to go through the predecessor (for mutation).
DequeueHeadOnly(q, p) ==
  IF q.head = Nil THEN q
  ELSE [head |-> q.next[p],
        next |-> q.next,
        prev |-> IF q.next[p] = Nil THEN q.prev
                 ELSE [q.prev EXCEPT ![q.next[p]] = q.prev[p]]]

\* A removal that leaves the successor pointing at the removed record
\* (for mutation).
DequeueForgetBack(q, p) ==
  IF q.head = Nil THEN q
  ELSE [head |-> IF q.prev[p] = Nil THEN q.next[p] ELSE q.head,
        next |-> IF q.prev[p] = Nil THEN q.next
                 ELSE [q.next EXCEPT ![q.prev[p]] = q.next[p]],
        prev |-> q.prev]

\* dequeue_pending: nothing on an empty list; otherwise the neighbours that p
\* remembers are joined.  The links of p itself stay as they are.
DequeuePending(q, p) ==
  IF q.head = Nil THEN q
  ELSE [head |-> IF q.prev[p] = Nil THEN q.next[p] ELSE q.head,
        next |-> IF q.prev[p] = Nil THEN q.next
                 ELSE [q.next EXCEPT ![q.prev[p]] = q.next[p]],
        prev |-> IF q.next[p] = Nil THEN q.prev
                 ELSE [q.prev EXCEPT ![q.next[p]] = q.prev[p]]]

\* A set of records that holds the head and the successor of each member.
ClosedUnderNext(q, V) ==
  /\ q.head = Nil \/ q.head \in V
  /\ \A p \in V : q.next[p] = Nil \/ q.next[p] \in V

\* The records the loop of closeall_pending meets: the least closed set.
Listed(q, N) ==
  {p \in N : \A V \in SUBSET N : ClosedUnderNext(q, V) => p \in V}
================================================================================
