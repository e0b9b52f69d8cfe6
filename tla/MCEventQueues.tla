---------------------------- MODULE MCEventQueues ----------------------------
(***************************************************************************)
(* The event loop (EventLoop), which takes the least of the set of its     *)
(* events, run side by side with the queues and the iterator that find this*)
(* event in the code (MergedIterator): what the loop schedules is put in a *)
(* queue, and when it processes an event the iterator advances.            *)
(***************************************************************************)
EXTENDS MCEventLoop, MergedIterator

ASSUME QueuesAssumption == {0, Regular, Current, Expansion} \subseteq Queue

iterVars == << queues, merger, CurrentEvent >>

Node(e) == [time |-> e.time, id |-> e.id]
InitEvent == [time |-> 0, id |-> 0]

\* The events in queue q that the iterator has not returned
Rest(q) == {Node(e) : e \in {f \in Events : f.queue = q}}

MCInit == Init /\ Begins(InitEvent, [q \in Queue |-> Rest(q)])

\* A step of the loop schedules an event, takes one, ends the loop, or neither.
Follow ==
  \/ \E e \in Events' \ Events : Add(e.queue, Node(e))
  \/ Events \ Events' # {} /\ Advance
  \/ pc # "done" /\ pc' = "done" /\ Purge
  \/ Events' = Events /\ (pc' = "done" => pc = "done") /\ UNCHANGED iterVars

MCNext == Next /\ Follow

MCSpec == MCInit /\ [][MCNext]_<< vars, iterVars >>

\* ProcessEvents goes through the events in the order EventLoop assumes: as long
\* as it runs, what Events().peek() returns is the least event by time, priority
\* of the queue and number, whatever was added since the last call, and no
\* addition is refused.
PeeksNextEvent ==
  pc # "done" =>
    /\ Events = {} => Peek(merger) = NoEvent
    /\ \A e \in Events : IsNextEvent(e) => Peek(merger) = Node(e)
    /\ ~merger.thrown
=============================================================================
