--------------------------- MODULE MergedIterator ---------------------------
(***************************************************************************)
(* eval_intfc::Events(), the Miterator (multitemplate.H) that merges the   *)
(* event queues into the one sequence of events ProcessEvents goes through *)
(* while it, and the programs it runs, add events to the queues.           *)
(*                                                                         *)
(* A queue is a synchronized multilist: its events by time, and those of   *)
(* one time in the order of their insertion.  The iterator has a thread per*)
(* queue, at the first event of the queue it has not returned.  Threads    *)
(* with an event are active, and sorted by it; threads without are dead. A *)
(* queue notifies the iterator of every insertion and removal.             *)
(***************************************************************************)
EXTENDS Integers, Sequences, FiniteSets, SequencesExt

CONSTANTS
  Queue,    \* the queues, named by their priorities
  NoEvent   \* NULL

\* What the iterator tells events apart by.
EventNode == [time : Nat, id : Nat]

ASSUME QueueAssumption ==
  /\ Queue \subseteq Nat /\ IsFiniteSet(Queue)
  /\ NoEvent \notin EventNode

VARIABLES
  queues,        \* the events of each queue, from head to tail
  merger,        \* the Miterator: where its threads are, and the two lists of threads
  CurrentEvent   \* the event ProcessEvents is at, and its queue

-----------------------------------------------------------------------------
(* Lists in order.  R is a set of pairs.                                   *)

\* A list that is filled one by one, each node at its place.
Arranged(S, R) ==
  [n \in 1 .. Cardinality(S) |->
     CHOOSE x \in S : Cardinality({y \in S : y = x \/ << y, x >> \in R}) = n]

\* x is put after the nodes at positions S, the first ones.
PutAfter(list, S, x) == InsertAt(list, Cardinality(S) + 1, x)
-----------------------------------------------------------------------------
(* Queues.  Events of one time have ids in the order of their insertion.   *)

EventOrder ==
  {p \in EventNode \X EventNode :
     p[1].time < p[2].time \/ (p[1].time = p[2].time /\ p[1].id < p[2].id)}

\* An event is put after those of its time, tlist::insert_node.
Enqueued(list, e) == PutAfter(list, {i \in DOMAIN list : list[i].time <= e.time}, e)

FirstNode(list) == IF list = << >> THEN NoEvent ELSE Head(list)

\* next_node and previous_node of an event of the list
Neighbour(list, e, step) ==
  LET i == CHOOSE j \in DOMAIN list : list[j] = e
  IN  IF i + step \in DOMAIN list THEN list[i + step] ELSE NoEvent
NextNode(list, e) == Neighbour(list, e, 1)
PreviousNode(list, e) == Neighbour(list, e, -1)
-----------------------------------------------------------------------------
(* The Miterator m: m.at[q] is the iterNode of thread q, m.active the      *)
(* threads with an event, from the earliest on, m.dead those without.      *)

NoThreads == [at |-> [q \in Queue |-> NoEvent], active |-> << >>, dead |-> {}, thrown |-> FALSE]

\* relptr::compare_to, for threads of different queues
ThreadOrder(at) ==
  {p \in Queue \X Queue :
     at[p[1]].time < at[p[2]].time \/ (at[p[1]].time = at[p[2]].time /\ p[1] < p[2])}

\* active_threads << q, or dead_threads << q
Filed(m, q) ==
  IF m.at[q] = NoEvent THEN [m EXCEPT !.dead = @ \cup {q}]
  ELSE LET earlier == {i \in DOMAIN m.active : << m.active[i], q >> \in ThreadOrder(m.at)}
       IN  [m EXCEPT !.active = PutAfter(@, earlier, q)]

Unfiled(m, q) == [m EXCEPT !.active = RemoveFirst(@, q), !.dead = @ \ {q}]

\* The thread q is moved to event e.
Moved(m, q, e) == Filed([Unfiled(m, q) EXCEPT !.at[q] = e], q)

\* first(): every thread goes to the beginning of its queue.
First(lists) ==
  LET at == [q \in Queue |-> FirstNode(lists[q])]
      dead == {q \in Queue : at[q] = NoEvent}
  IN  [at |-> at, active |-> Arranged(Queue \ dead, ThreadOrder(at)), dead |-> dead,
       thrown |-> FALSE]

Peek(m) == IF m.active = << >> THEN NoEvent ELSE m.at[Head(m.active)]

\* next(), when there is an event
Returned(m, lists) ==
  LET q == Head(m.active) IN Moved(m, q, NextNode(lists[q], m.at[q]))

\* Fault: a thread that has run out of events stays dead.
HandleAdditionIfActive(m, lists, q, e) ==
  IF q \in Range(m.active) /\ e.time < m.at[q].time THEN Moved(m, q, e) ELSE m

\* handle_addition: e has been put in queue q.  An event of the time of the
\* thread's event comes after it.  An event earlier than the one before the
\* thread's event (which may be e) is refused.
HandleAddition(m, lists, q, e) ==
  CASE q \in m.dead -> Moved(m, q, e)
    [] q \in Range(m.active) /\ e.time >= m.at[q].time -> m
    [] q \in Range(m.active) /\ e.time < m.at[q].time ->
         LET before == PreviousNode(lists[q], m.at[q])
         IN  IF before # NoEvent /\ e.time < before.time THEN [m EXCEPT !.thrown = TRUE]
                                                          ELSE Moved(m, q, e)

\* handle_removal: e is about to leave queue q.
HandleRemoval(m, lists, q, e) ==
  IF q \in Range(m.active) /\ m.at[q] = e THEN Moved(m, q, NextNode(lists[q], e)) ELSE m
-----------------------------------------------------------------------------
\* The start of ProcessEvents: the queues hold the events of the activities, and
\* one for initialization, e, in a queue of its own, which is returned at once.
Begins(e, events) ==
  LET lists == [q \in Queue |-> IF q = 0 THEN << e >> ELSE Arranged(events[q], EventOrder)]
      m == First(lists)
  IN  /\ queues = lists
      /\ merger = Returned(m, lists)
      /\ CurrentEvent = [queue |-> Head(m.active), event |-> Peek(m)]

\* Event e is put in queue q, which tells the iterator.
Add(q, e) ==
  LET lists == [queues EXCEPT ![q] = Enqueued(@, e)]
  IN  /\ queues' = lists
      /\ merger' = HandleAddition(merger, lists, q, e)
      /\ UNCHANGED CurrentEvent

\* ProcessEvents deletes the event it was at, and moves on to the next.
Advance ==
  LET q == Head(merger.active)
      old == CurrentEvent.event
      m == HandleRemoval(merger, queues, CurrentEvent.queue, old)
      lists == [queues EXCEPT ![CurrentEvent.queue] = RemoveFirst(@, old)]
  IN  /\ merger.active # << >>
      /\ CurrentEvent' = [queue |-> q, event |-> Peek(merger)]
      /\ queues' = lists
      /\ merger' = Returned(m, lists)

\* doModel after ProcessEvents, PurgeSchedulingEvents: the threads are
\* forgotten; the queues but that of the initialization event are cleared.
Purge ==
  /\ merger' = NoThreads
  /\ queues' = [q \in Queue |-> IF q = 0 THEN queues[q] ELSE << >>]
  /\ CurrentEvent' = [queue |-> 0, event |-> NoEvent]
=============================================================================
