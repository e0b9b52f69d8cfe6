--------------------------- MODULE TrailingThread ---------------------------
(***************************************************************************)
(* The modeling thread (EventLoop::ProcessEvents) and the thread that      *)
(* checks constraints behind it (Constraint::check_constraints), with the  *)
(* protocol they share: thread_intfc's atomic flags and pointer, the safe  *)
(* vectors the modeling thread saves from its potential_triggers iterator, *)
(* and the trailing_miter that walks the resource histories up to the safe *)
(* nodes of the vector it owns.                                            *)
(*                                                                         *)
(* A resource history is a set of nodes <<time, n>>, ordered as prio_time  *)
(* orders them: by time, then by event number.  A safe vector is the       *)
(* modeling thread's SafeTime when it was saved and one node per resource. *)
(* Every load or store of a shared variable that the other thread can tell *)
(* apart is an action of its own; the atomics are sequentially consistent. *)
(*                                                                         *)
(* Left out: resource values, the text of messages, the GUI's list of      *)
(* violations, deletion of old nodes in the second scheduling pass, and    *)
(* the TOL/XMLTOL trailing threads, whose thread_intfc is never created.   *)
(***************************************************************************)
EXTENDS Naturals, FiniteSets

CONSTANTS
  Resource,       \* resources subject to constraints, named by evaluation_priority
  Settable,       \* those whose Add() may insert the last filtered-out node
  Nonconsumable,  \* those whose use inserts a START and a later END node
  Start,          \* time of the initialization event
  Horizon,        \* bound: latest time of any event or node
  MaxNodes,       \* bound: nodes in one history, the initial one included
  UpdateEvery     \* TIME_ADVANCES_BETWEEN_TRAILING_THREAD_UPDATES

ASSUME ResourceAssumption ==
  /\ Resource \subseteq Nat /\ Resource # {}
  /\ Settable \subseteq Resource
  /\ Nonconsumable \subseteq Resource \ Settable

ASSUME BoundAssumption ==
  /\ Start \in Nat /\ Horizon \in Nat /\ Start <= Horizon
  /\ MaxNodes \in Nat /\ MaxNodes >= 1
  /\ UpdateEvery \in Nat

Time == Start..Horizon
Node == Time \X Nat
Thread == {"model", "constraint"}
None == Horizon + 1             \* "no node was skipped": later than any node

VARIABLES
  \* the modeling thread
  mpc,            \* where ProcessEvents stands
  modelTime,      \* modelingTime: "now" of the model
  hist,           \* the resource histories
  changed,        \* the times at which each resource was used or set (history variable)
  skipped,        \* time of the node in lastSkippedNodeContainer, or None
  trigger,        \* safeNode of each iterator of potential_triggers
  advances,       \* time_advance_count
  saves,          \* safe vectors saved so far; numbers them
  \* thread_intfc, shared
  SafeTime, Done, ErrorsFound,      \* one of each per thread
  SafeVector, captured, WaitingForData, errors,   \* of the constraint thread
  \* the constraint thread
  cpc,            \* where check_constraints stands
  caller,         \* what called get_new_data: "first", "peek" or "next"
  masterTime,     \* our_master_s_current_time
  loaded,         \* the pointer read from SafeVector
  model_vector,   \* the safe vector the trailing_miter owns
  lastVectorTime, \* time_of_last_processed_vector
  node,           \* iterNode of each trailer
  onHold,         \* trailers_on_hold; the other resources are active
  prevTime,       \* time of the_previous_node
  peeked,         \* resource of the node peek() returned
  curTime,        \* curTime of check_constraints
  updated         \* resources whose constraints are to be checked

modelVars == <<mpc, modelTime, hist, changed, skipped, trigger, advances, saves>>
iterVars == <<masterTime, loaded, model_vector, lastVectorTime, node, onHold, prevTime>>
checkVars == <<peeked, curTime, updated>>
sharedVars == <<SafeTime, Done, ErrorsFound, SafeVector, captured, WaitingForData, errors>>
vars == <<modelVars, sharedVars, cpc, caller, iterVars, checkVars>>

-----------------------------------------------------------------------------
(* Nodes, histories and safe vectors                                       *)

Before(m, n) == m[1] < n[1] \/ (m[1] = n[1] /\ m[2] < n[2])

With(H, t) == H \cup {<<t, Cardinality({n \in H : n[1] = t}) + 1>>}

IsLast(n, S) == n \in S /\ \A m \in S : m = n \/ Before(m, n)
IsFirst(n, S) == n \in S /\ \A m \in S : m = n \/ Before(n, m)

NoVector == [id |-> 0, time |-> Start, safe |-> [r \in Resource |-> <<Start, 1>>]]

SavedVector == [id |-> saves + 1, time |-> SafeTime["model"], safe |-> trigger]

active == Resource \ onHold

\* The trailer at the head of active_trailers: earliest node, then priority.
IsHead(r) ==
  /\ r \in active
  /\ \A q \in active : \/ node[r][1] < node[q][1]
                       \/ node[r][1] = node[q][1] /\ r <= q

Running == cpc # "crashed"
-----------------------------------------------------------------------------
Init ==
  /\ mpc = "store"
  /\ modelTime = Start
  /\ hist = [r \in Resource |-> {<<Start, 1>>}]
  /\ changed = [r \in Resource |-> {Start}]
  /\ skipped = [r \in Resource |-> None]
  /\ trigger = [r \in Resource |-> <<Start, 1>>]
  /\ advances = 0
  /\ saves = 0
  /\ SafeTime = [t \in Thread |-> Start]
  /\ Done = [t \in Thread |-> FALSE]
  /\ ErrorsFound = [t \in Thread |-> FALSE]
  /\ SafeVector = NoVector
  /\ captured = FALSE
  /\ WaitingForData = FALSE
  /\ errors = FALSE
  /\ cpc = "await"
  /\ caller = "first"
  /\ masterTime = Start
  /\ loaded = NoVector
  /\ model_vector = NoVector
  /\ lastVectorTime = Start
  /\ node = [r \in Resource |-> <<Start, 1>>]
  /\ onHold = {}
  /\ prevTime = Start
  /\ peeked = CHOOSE r \in Resource : TRUE
  /\ curTime = Start
  /\ updated = {}

-----------------------------------------------------------------------------
(* The modeling thread: the start of ProcessEvents                         *)

\* ProcessEvents stores the first vector in the thread it has just started,
\* then sleeps until the thread has captured it.
StoreFirstVector ==
  /\ mpc = "store"
  /\ SafeVector' = SavedVector
  /\ saves' = saves + 1
  /\ mpc' = "await"
  /\ UNCHANGED <<modelTime, hist, changed, skipped, trigger, advances, SafeTime, Done,
                 ErrorsFound, captured, WaitingForData, errors, cpc, caller, iterVars,
                 checkVars>>

FirstVectorCaptured ==
  /\ mpc = "await"
  /\ captured
  /\ mpc' = "loop"
  /\ UNCHANGED <<modelTime, hist, changed, skipped, trigger, advances, saves, sharedVars,
                 cpc, caller, iterVars, checkVars>>
-----------------------------------------------------------------------------
(* The modeling thread: events that change a history (do_model)            *)

\* The event the loop is processing happens at SafeTime; between a wake-up
\* ahead of the queue and the resume event it creates, nothing else does.
AtCurrentEvent == mpc = "loop" /\ modelTime = SafeTime["model"]

HistoryUnchangedElsewhere ==
  UNCHANGED <<mpc, modelTime, trigger, advances, saves, sharedVars, cpc, caller,
              iterVars, checkVars>>

\* RES_settable::append_to_history filters the value out and remembers it.
SkipNode(r) ==
  /\ AtCurrentEvent
  /\ r \in Settable
  /\ skipped' = [skipped EXCEPT ![r] = modelTime]
  /\ UNCHANGED <<hist, changed>>
  /\ HistoryUnchangedElsewhere

\* RES_settable::Add inserts the remembered node first, at its own time,
\* then the node the client wanted.
SetNode(r) ==
  /\ AtCurrentEvent
  /\ r \notin Nonconsumable
  /\ LET H == IF skipped[r] = None THEN hist[r] ELSE With(hist[r], skipped[r])
     IN  /\ Cardinality(H) < MaxNodes
         /\ hist' = [hist EXCEPT ![r] = With(H, modelTime)]
  /\ changed' = [changed EXCEPT ![r] = @ \cup {modelTime}]
  /\ skipped' = [skipped EXCEPT ![r] = None]
  /\ HistoryUnchangedElsewhere

\* Fault: a usage may start before "now".
UseNodeInThePast(r) ==
  /\ AtCurrentEvent
  /\ r \in Nonconsumable
  /\ Cardinality(hist[r]) + 1 < MaxNodes
  /\ \E start \in Start..modelTime : \E end \in modelTime..Horizon :
       /\ hist' = [hist EXCEPT ![r] = With(With(@, start), end)]
       /\ changed' = [changed EXCEPT ![r] = @ \cup {start, end}]
  /\ UNCHANGED skipped
  /\ HistoryUnchangedElsewhere

\* RES_nonconsumable::append_to_history: the END node goes in now, although
\* no event will happen at its time.
UseNode(r) ==
  /\ AtCurrentEvent
  /\ r \in Nonconsumable
  /\ Cardinality(hist[r]) + 1 < MaxNodes
  /\ \E end \in modelTime..Horizon :
       /\ hist' = [hist EXCEPT ![r] = With(With(@, modelTime), end)]
       /\ changed' = [changed EXCEPT ![r] = @ \cup {modelTime, end}]
  /\ UNCHANGED skipped
  /\ HistoryUnchangedElsewhere

DoModel == \E r \in Resource : SkipNode(r) \/ SetNode(r) \/ UseNode(r)
-----------------------------------------------------------------------------
(* The modeling thread: advancing time                                     *)

\* The iterators of potential_triggers after it returned every node of S.
TriggersAfter(S) ==
  {f \in [Resource -> UNION {hist[r] : r \in Resource}] :
     \A r \in Resource : IsLast(f[r], S[r])}

\* advance_now_to: every UpdateEvery advances, offer vectors to the threads.
CountAdvance ==
  IF advances + 1 > UpdateEvery
    THEN advances' = 0 /\ mpc' = "offer"
    ELSE advances' = advances + 1 /\ mpc' = "loop"

\* No thread can be unlocked before the next event, at t: consume the nodes
\* before t, publish t as SafeTime, then advance_now_to(t).
AdvanceTime(t) ==
  /\ mpc = "loop"
  /\ t > SafeTime["model"]
  /\ modelTime > SafeTime["model"] => t = modelTime
  /\ trigger' \in TriggersAfter([r \in Resource |-> {n \in hist[r] : n[1] < t \/ ~Before(trigger[r], n)}])
  /\ SafeTime' = [SafeTime EXCEPT !["model"] = t]
  /\ modelTime' = t
  /\ IF t = modelTime THEN UNCHANGED <<advances, mpc>> ELSE CountAdvance
  /\ UNCHANGED <<hist, changed, skipped, saves, Done, ErrorsFound, SafeVector, captured,
                 WaitingForData, errors, cpc, caller, iterVars, checkVars>>

\* A waiting thread can be woken by a node later than the last event and
\* earlier than the next one: can_a_thread_be_unlocked moves "now" to that
\* node, and only the resume event will move SafeTime there.
WakeAhead(r) ==
  /\ AtCurrentEvent
  /\ \E n \in hist[r] :
       /\ Before(trigger[r], n)
       /\ n[1] > modelTime
       /\ trigger' \in TriggersAfter([q \in Resource |->
            {m \in hist[q] : \/ ~Before(trigger[q], m)
                             \/ m[1] < n[1]
                             \/ m[1] = n[1] /\ q < r
                             \/ q = r /\ ~Before(n, m)}])
       /\ modelTime' = n[1]
  /\ CountAdvance
  /\ UNCHANGED <<hist, changed, skipped, saves, sharedVars, cpc, caller, iterVars, checkVars>>

\* Fault: the flag is lowered before the pointer is stored.
OfferVectorFlagFirst ==
  /\ mpc = "offer"
  /\ captured' = FALSE
  /\ mpc' = IF captured THEN "raise" ELSE "loop"
  /\ UNCHANGED <<modelTime, hist, changed, skipped, trigger, advances, saves, SafeTime,
                 Done, ErrorsFound, SafeVector, WaitingForData, errors, cpc, caller,
                 iterVars, checkVars>>

\* The thread has captured its last vector, so it may be given another:
\* first the pointer ...
OfferVector ==
  /\ mpc = "offer"
  /\ IF captured
       THEN /\ SafeVector' = SavedVector
            /\ saves' = saves + 1
            /\ mpc' = "raise"
       ELSE /\ mpc' = "loop"
            /\ UNCHANGED <<SafeVector, saves>>
  /\ UNCHANGED <<modelTime, hist, changed, skipped, trigger, advances, SafeTime, Done,
                 ErrorsFound, captured, WaitingForData, errors, cpc, caller, iterVars,
                 checkVars>>

\* ... then the flag.
RaiseFlag ==
  /\ mpc = "raise"
  /\ captured' = FALSE
  /\ mpc' = "loop"
  /\ UNCHANGED <<modelTime, hist, changed, skipped, trigger, advances, saves, SafeTime,
                 Done, ErrorsFound, SafeVector, WaitingForData, errors, cpc, caller,
                 iterVars, checkVars>>

-----------------------------------------------------------------------------
(* The modeling thread: the end of ProcessEvents                           *)

\* No event is left and no node can wake a waiting thread: every remaining
\* node, however late, has been consumed on the way to this conclusion.
NoMoreEvents ==
  /\ AtCurrentEvent
  /\ trigger' \in TriggersAfter(hist)
  /\ mpc' = "feed"
  /\ UNCHANGED <<modelTime, hist, changed, skipped, advances, saves, sharedVars, cpc,
                 caller, iterVars, checkVars>>

\* feed_last_data_to_trailing_threads polls the thread: one that is done or
\* failed with a vector still unread gets nothing; otherwise it is fed when
\* it has captured its vector, or is waiting for data.
SkipFinishedThread ==
  /\ mpc = "feed"
  /\ ~captured
  /\ Done["constraint"] \/ ErrorsFound["constraint"]
  /\ mpc' = "setDone"
  /\ UNCHANGED <<modelTime, hist, changed, skipped, trigger, advances, saves, sharedVars,
                 cpc, caller, iterVars, checkVars>>

\* Under safe_vector_protector, first the flag ...
FeedFlag ==
  /\ mpc = "feed"
  /\ captured \/ (WaitingForData /\ ~Done["constraint"] /\ ~ErrorsFound["constraint"])
  /\ captured' = FALSE
  /\ mpc' = "feedStore"
  /\ UNCHANGED <<modelTime, hist, changed, skipped, trigger, advances, saves, SafeTime,
                 Done, ErrorsFound, SafeVector, WaitingForData, errors, cpc, caller,
                 iterVars, checkVars>>

\* ... then the pointer.
FeedStore ==
  /\ mpc = "feedStore"
  /\ SafeVector' = SavedVector
  /\ saves' = saves + 1
  /\ mpc' = "setDone"
  /\ UNCHANGED <<modelTime, hist, changed, skipped, trigger, advances, SafeTime, Done,
                 ErrorsFound, captured, WaitingForData, errors, cpc, caller, iterVars,
                 checkVars>>

\* safe_vector_protector of the constraint thread is held by the modeling thread.
ProtectorHeld == mpc = "feedStore"

DeclareDone ==
  /\ mpc = "setDone"
  /\ Done' = [Done EXCEPT !["model"] = TRUE]
  /\ mpc' = "checkErrors"
  /\ UNCHANGED <<modelTime, hist, changed, skipped, trigger, advances, saves, SafeTime,
                 ErrorsFound, SafeVector, captured, WaitingForData, errors, cpc, caller,
                 iterVars, checkVars>>

\* Errors a thread has left so far end ProcessEvents through its catch clause.
CheckThreadErrors ==
  /\ mpc = "checkErrors"
  /\ mpc' = IF errors THEN "failed" ELSE "join"
  /\ UNCHANGED <<modelTime, hist, changed, skipped, trigger, advances, saves, sharedVars,
                 cpc, caller, iterVars, checkVars>>

\* Any event may throw an eval_error.
ModelingError ==
  /\ AtCurrentEvent
  /\ mpc' = "failed"
  /\ UNCHANGED <<modelTime, hist, changed, skipped, trigger, advances, saves, sharedVars,
                 cpc, caller, iterVars, checkVars>>

\* The catch clause: Done first, then ErrorsFound, then join.
CatchDone ==
  /\ mpc = "failed"
  /\ Done' = [Done EXCEPT !["model"] = TRUE]
  /\ mpc' = "catching"
  /\ UNCHANGED <<modelTime, hist, changed, skipped, trigger, advances, saves, SafeTime,
                 ErrorsFound, SafeVector, captured, WaitingForData, errors, cpc, caller,
                 iterVars, checkVars>>

CatchErrors ==
  /\ mpc = "catching"
  /\ ErrorsFound' = [ErrorsFound EXCEPT !["model"] = TRUE]
  /\ mpc' = "joinFailed"
  /\ UNCHANGED <<modelTime, hist, changed, skipped, trigger, advances, saves, SafeTime,
                 Done, SafeVector, captured, WaitingForData, errors, cpc, caller,
                 iterVars, checkVars>>

\* destroy_all_threads joins the thread and reports the errors it flagged.
DestroyAllThreads ==
  /\ mpc \in {"join", "joinFailed"}
  /\ cpc = "exited"
  /\ mpc' = IF mpc = "joinFailed" \/ ErrorsFound["constraint"] THEN "threw" ELSE "returned"
  /\ UNCHANGED <<modelTime, hist, changed, skipped, trigger, advances, saves, sharedVars,
                 cpc, caller, iterVars, checkVars>>

ModelNext ==
  /\ Running
  /\ \/ StoreFirstVector \/ FirstVectorCaptured
     \/ DoModel
     \/ \E t \in Time : AdvanceTime(t)
     \/ \E r \in Resource : WakeAhead(r)
     \/ OfferVector \/ RaiseFlag
     \/ NoMoreEvents \/ SkipFinishedThread \/ FeedFlag \/ FeedStore \/ DeclareDone
     \/ CheckThreadErrors \/ ModelingError \/ CatchDone \/ CatchErrors
     \/ DestroyAllThreads
-----------------------------------------------------------------------------
(* The constraint thread: start and registration                           *)

\* dual_purpose_iterator and the trailing_miter constructor: sleep until
\* SafeVector is not NULL, keep it, raise the capture flag.
ConstructIterator ==
  /\ cpc = "await"
  /\ SafeVector.id # 0
  /\ model_vector' = SafeVector
  /\ lastVectorTime' = SafeVector.time
  /\ captured' = TRUE
  /\ cpc' = "register"
  /\ UNCHANGED <<modelVars, SafeTime, Done, ErrorsFound, SafeVector, WaitingForData, errors,
                 caller, masterTime, loaded, node, onHold, prevTime, checkVars>>

\* add_thread: every trailer starts on the safe node of its resource, active.
RegisterResources ==
  /\ cpc = "register"
  /\ node' = model_vector.safe
  /\ onHold' = {}
  /\ cpc' = "sample"
  /\ caller' = "first"
  /\ UNCHANGED <<modelVars, sharedVars, masterTime, loaded, model_vector, lastVectorTime,
                 prevTime, checkVars>>

\* Registration throws: errors and Done are set, ErrorsFound is not.
RegistrationError ==
  /\ cpc = "register"
  /\ errors' = TRUE
  /\ Done' = [Done EXCEPT !["constraint"] = TRUE]
  /\ cpc' = "exited"
  /\ UNCHANGED <<modelVars, SafeTime, ErrorsFound, SafeVector, captured, WaitingForData,
                 caller, iterVars, checkVars>>
-----------------------------------------------------------------------------
(* The constraint thread: trailing_miter::get_new_data                     *)

Sample ==
  /\ cpc = "sample"
  /\ masterTime' = SafeTime["model"]
  /\ cpc' = "test"
  /\ UNCHANGED <<modelVars, sharedVars, caller, loaded, model_vector, lastVectorTime,
                 node, onHold, prevTime, checkVars>>

\* The capture flag says whether a new vector is there; then load the pointer.
TestFlag ==
  /\ cpc = "test"
  /\ IF captured
       THEN cpc' = "serve" /\ UNCHANGED loaded
       ELSE cpc' = "adopt" /\ loaded' = SafeVector
  /\ UNCHANGED <<modelVars, sharedVars, caller, masterTime, model_vector, lastVectorTime,
                 node, onHold, prevTime, checkVars>>

\* adopt_a_new_model_iterator: delete the old vector, keep the new one, copy
\* it under safe_vector_protector.  If the pointer is the one just deleted,
\* the copy reads freed memory: its contents may be intact, or the process dies.
AdoptVector ==
  /\ cpc = "adopt"
  /\ ~ProtectorHeld
  /\ model_vector' = loaded
  /\ \/ cpc' = "capture"
     \/ loaded.id = model_vector.id /\ cpc' = "crashed"
  /\ UNCHANGED <<modelVars, sharedVars, caller, masterTime, loaded, lastVectorTime, node,
                 onHold, prevTime, checkVars>>

\* Fault: the modeling thread is not told that the vector was captured.
SetCapturedNever ==
  /\ cpc = "capture"
  /\ cpc' = "revive"
  /\ UNCHANGED <<modelVars, sharedVars, caller, iterVars, checkVars>>

SetCaptured ==
  /\ cpc = "capture"
  /\ captured' = TRUE
  /\ cpc' = "revive"
  /\ UNCHANGED <<modelVars, SafeTime, Done, ErrorsFound, SafeVector, WaitingForData, errors,
                 caller, iterVars, checkVars>>

\* Trailers on hold that are no longer on their safe node.
Lagging == {r \in onHold : node[r] # model_vector.safe[r]}

\* Fault: the loop that skips retroactively added nodes is missing.
RevivalNodeRetro(r, n) == IsFirst(n, {m \in hist[r] : Before(node[r], m)})

\* Fault: nodes at the time of the last processed vector are skipped too.
RevivalNodeStrict(r, n) ==
  IsFirst(n, {m \in hist[r] : Before(node[r], m) /\ m[1] > lastVectorTime})

\* The node a trailer is revived on: the first one after the node it was held
\* on that is not earlier than the time of the last processed vector.
RevivalNode(r, n) ==
  IsFirst(n, {m \in hist[r] : Before(node[r], m) /\ m[1] >= lastVectorTime})

ReviveTrailers ==
  /\ cpc = "revive"
  /\ WaitingForData' = FALSE
  /\ \E f \in [Resource -> UNION {hist[r] : r \in Resource}] :
       /\ \A r \in Lagging : RevivalNode(r, f[r])
       /\ \A r \in Resource \ Lagging : f[r] = node[r]
       /\ node' = f
  /\ onHold' = onHold \ Lagging
  /\ lastVectorTime' = model_vector.time
  /\ cpc' = "serve"
  /\ UNCHANGED <<modelVars, SafeTime, Done, ErrorsFound, SafeVector, captured, errors,
                 caller, masterTime, loaded, model_vector, prevTime, checkVars>>

\* The head of the active trailers may be returned.
MayServe(r) ==
  /\ IsHead(r)
  /\ node[r][1] <= masterTime
  /\ node[r][1] <= lastVectorTime

\* Fault: the trailer steps over its safe node when a later node exists.
ConsumeNodePastSafe(r) ==
  IF \A m \in hist[r] : ~Before(node[r], m)
    THEN onHold' = onHold \cup {r} /\ UNCHANGED node
    ELSE /\ \E n \in hist[r] :
              /\ IsFirst(n, {m \in hist[r] : Before(node[r], m)})
              /\ node' = [node EXCEPT ![r] = n]
         /\ UNCHANGED onHold

\* trailing_miter::next: hold the trailer on its safe node, or step it.
ConsumeNode(r) ==
  IF node[r] = model_vector.safe[r]
    THEN onHold' = onHold \cup {r} /\ UNCHANGED node
    ELSE /\ \E n \in hist[r] :
              /\ IsFirst(n, {m \in hist[r] : Before(node[r], m)})
              /\ node' = [node EXCEPT ![r] = n]
         /\ UNCHANGED onHold

\* Serving a node answers the caller: the first peek() gives curTime, every
\* other peek() gives the node to process, next() consumes it.
ServeNode(r) ==
  /\ cpc = "serve"
  /\ MayServe(r)
  /\ \/ /\ caller = "first"
        /\ curTime' = node[r][1]
        /\ cpc' = "sample" /\ caller' = "peek"
        /\ UNCHANGED <<node, onHold, prevTime, peeked>>
     \/ /\ caller = "peek"
        /\ peeked' = r
        /\ cpc' = "process"
        /\ UNCHANGED <<node, onHold, prevTime, curTime, caller>>
     \/ /\ caller = "next"
        /\ ConsumeNode(r)
        /\ prevTime' = node[r][1]
        /\ cpc' = "sample" /\ caller' = "peek"
        /\ UNCHANGED <<peeked, curTime>>
  /\ UNCHANGED <<modelVars, sharedVars, masterTime, loaded, model_vector, lastVectorTime,
                 updated>>

\* get_new_data returns NULL: the first peek() would be dereferenced, another
\* ends the loop, and the value of next() is ignored.
ReturnNull ==
  /\ cpc' = CASE caller = "first" -> "crashed"
              [] caller = "peek"  -> "finish"
              [] caller = "next"  -> "sample"
  /\ caller' = "peek"
  /\ WaitingForData' = FALSE

\* Fault: the thread does not ask whether its master is done.
FinishNever ==
  /\ cpc = "serve"
  /\ ~\E r \in Resource : MayServe(r)
  /\ cpc' = "checkErrors"
  /\ UNCHANGED <<modelVars, sharedVars, caller, iterVars, checkVars>>

\* Nothing can be served: stop if every trailer is on hold and the master is
\* done ...
FinishIfMasterDone ==
  /\ cpc = "serve"
  /\ ~\E r \in Resource : MayServe(r)
  /\ IF active = {} /\ Done["model"]
       THEN /\ Done' = [Done EXCEPT !["constraint"] = TRUE]
            /\ ReturnNull
       ELSE /\ cpc' = "checkErrors"
            /\ UNCHANGED <<Done, WaitingForData, caller>>
  /\ UNCHANGED <<modelVars, SafeTime, ErrorsFound, SafeVector, captured, errors, iterVars,
                 checkVars>>

\* ... or if the master failed; otherwise sleep and try again.
BailOutOrWait ==
  /\ cpc = "checkErrors"
  /\ IF ErrorsFound["model"]
       THEN /\ Done' = [Done EXCEPT !["constraint"] = TRUE]
            /\ ErrorsFound' = [ErrorsFound EXCEPT !["constraint"] = TRUE]
            /\ ReturnNull
       ELSE /\ WaitingForData' = TRUE
            /\ cpc' = "sample"
            /\ UNCHANGED <<Done, ErrorsFound, caller>>
  /\ UNCHANGED <<modelVars, SafeTime, SafeVector, captured, errors, iterVars, checkVars>>
-----------------------------------------------------------------------------
(* The constraint thread: the loop of check_constraints                    *)

\* A node at the current time joins the ones to check at that time.
GatherNode ==
  /\ cpc = "process"
  /\ node[peeked][1] <= curTime
  /\ updated' = IF node[peeked][1] = curTime THEN updated \cup {peeked} ELSE updated
  /\ cpc' = "sample" /\ caller' = "next"
  /\ UNCHANGED <<modelVars, sharedVars, iterVars, peeked, curTime>>

\* Fault: the node that ends a time step is not gathered for the next.
EvaluateAndForget ==
  /\ cpc = "process"
  /\ node[peeked][1] > curTime
  /\ SafeTime' = [SafeTime EXCEPT !["constraint"] = curTime]
  /\ updated' = {}
  /\ curTime' = node[peeked][1]
  /\ cpc' = "sample" /\ caller' = "next"
  /\ UNCHANGED <<modelVars, Done, ErrorsFound, SafeVector, captured, WaitingForData,
                 errors, iterVars, peeked>>

\* Fault: the thread publishes the new time and evaluates there.
EvaluateTooLate ==
  /\ cpc = "process"
  /\ node[peeked][1] > curTime
  /\ SafeTime' = [SafeTime EXCEPT !["constraint"] = node[peeked][1]]
  /\ updated' = {peeked}
  /\ curTime' = node[peeked][1]
  /\ cpc' = "sample" /\ caller' = "next"
  /\ UNCHANGED <<modelVars, Done, ErrorsFound, SafeVector, captured, WaitingForData,
                 errors, iterVars, peeked>>

\* A later node: evaluate the constraints gathered, at curTime, then advance.
EvaluateConstraints ==
  /\ cpc = "process"
  /\ node[peeked][1] > curTime
  /\ SafeTime' = [SafeTime EXCEPT !["constraint"] = curTime]
  /\ updated' = {peeked}
  /\ curTime' = node[peeked][1]
  /\ cpc' = "sample" /\ caller' = "next"
  /\ UNCHANGED <<modelVars, Done, ErrorsFound, SafeVector, captured, WaitingForData,
                 errors, iterVars, peeked>>

\* evaluate() throws: the thread ends with errors, without saying it is done.
EvaluationError ==
  /\ cpc = "process"
  /\ node[peeked][1] > curTime
  /\ SafeTime' = [SafeTime EXCEPT !["constraint"] = curTime]
  /\ errors' = TRUE
  /\ ErrorsFound' = [ErrorsFound EXCEPT !["constraint"] = TRUE]
  /\ cpc' = "exited"
  /\ UNCHANGED <<modelVars, Done, SafeVector, captured, WaitingForData, caller, iterVars,
                 checkVars>>

\* peek() returned NULL.
FinishChecking ==
  /\ cpc = "finish"
  /\ Done' = [Done EXCEPT !["constraint"] = TRUE]
  /\ cpc' = "exited"
  /\ UNCHANGED <<modelVars, SafeTime, ErrorsFound, SafeVector, captured, WaitingForData,
                 errors, caller, iterVars, checkVars>>

CheckNext ==
  /\ Running
  /\ \/ ConstructIterator \/ RegisterResources \/ RegistrationError
     \/ Sample \/ TestFlag \/ AdoptVector \/ SetCaptured \/ ReviveTrailers
     \/ \E r \in Resource : ServeNode(r)
     \/ FinishIfMasterDone \/ BailOutOrWait
     \/ GatherNode \/ EvaluateConstraints \/ EvaluationError \/ FinishChecking
-----------------------------------------------------------------------------
\* ProcessEvents has ended, or the process has.
Terminated ==
  /\ mpc \in {"returned", "threw"} \/ ~Running
  /\ UNCHANGED vars

Next == ModelNext \/ CheckNext \/ Terminated

Spec == Init /\ [][Next]_vars

\* The two threads are preemptive OS threads, and each of their waits is a
\* loop that sleeps 10 ms and looks again: each keeps taking steps while it
\* can.
FairSpec == Spec /\ WF_vars(ModelNext) /\ WF_vars(CheckNext)

-----------------------------------------------------------------------------
(* Correctness                                                             *)

Vector == [id : Nat, time : Time, safe : [Resource -> Node]]

ModelTypeOK ==
  /\ mpc \in {"store", "await", "loop", "offer", "raise", "feed", "feedStore", "setDone",
              "checkErrors", "failed", "catching", "join", "joinFailed", "returned", "threw"}
  /\ modelTime \in Time
  /\ hist \in [Resource -> SUBSET (Time \X (Nat \ {0}))]
  /\ \A r \in Resource : IsFiniteSet(hist[r])
  /\ changed \in [Resource -> SUBSET Time]
  /\ skipped \in [Resource -> Time \cup {None}]
  /\ trigger \in [Resource -> Node]
  /\ advances \in 0..UpdateEvery
  /\ saves \in Nat

SharedTypeOK ==
  /\ SafeTime \in [Thread -> Time]
  /\ Done \in [Thread -> BOOLEAN]
  /\ ErrorsFound \in [Thread -> BOOLEAN]
  /\ SafeVector \in Vector
  /\ captured \in BOOLEAN
  /\ WaitingForData \in BOOLEAN
  /\ errors \in BOOLEAN

CheckTypeOK ==
  /\ cpc \in {"await", "register", "sample", "test", "adopt", "capture", "revive", "serve",
              "checkErrors", "process", "finish", "exited", "crashed"}
  /\ caller \in {"first", "peek", "next"}
  /\ masterTime \in Time
  /\ loaded \in Vector
  /\ model_vector \in Vector
  /\ lastVectorTime \in Time
  /\ node \in [Resource -> Node]
  /\ onHold \subseteq Resource
  /\ prevTime \in Time
  /\ peeked \in Resource
  /\ curTime \in Time
  /\ updated \subseteq Resource

\* The type of every variable; a history is a finite set of nodes.
TypeOK == ModelTypeOK /\ SharedTypeOK /\ CheckTypeOK

\* The "theorem" in the comment on trailing_miter::peek(): the node returned
\* is not later than the modeling thread's iterator for the same history, so
\* it is final; the modeling thread has reached its time.
ServedNodesAreSafe ==
  cpc = "process" =>
    /\ node[peeked] \in hist[peeked]
    /\ ~Before(trigger[peeked], node[peeked])
    /\ node[peeked][1] <= SafeTime["model"]

\* The assertions of next() and peek() on the_previous_node: no trailer that
\* can be returned is behind the last node returned, even when nodes are
\* inserted retroactively while it is on hold.
TrailingTimeOrder == \A r \in active : node[r][1] >= prevTime

\* assert(new_trailing_event) in get_new_data: a trailer on hold that is no
\* longer on its safe node finds a node to be revived on.
RevivalFindsNode ==
  cpc = "revive" => \A r \in Lagging : \E n \in hist[r] : RevivalNode(r, n)

\* When check_constraints evaluates constraints at curTime, every resource
\* that was used or set at curTime is among the updated ones, so that no
\* constraint on it is left out.
EvaluationIsComplete ==
  cpc = "process" /\ node[peeked][1] > curTime =>
    {r \in Resource : curTime \in changed[r]} \subseteq updated

\* The data a trailing thread evaluates is final: no resource is used or set
\* at a time check_constraints has left behind.
NoChangeInThePast ==
  [][\A r \in Resource : \A t \in changed'[r] \ changed[r] : t >= curTime]_vars

\* "These nodes are 'safe' in the sense that the modeling thread is guaranteed
\* not to touch the piece of the history before and including the safe node"
\* (the comment on check_constraints): retroactive nodes go after them too.
SafePartIsFinal ==
  [][\A r \in Resource : \A n \in hist'[r] \ hist[r] :
       Before(SafeVector.safe[r], n) /\ Before(model_vector.safe[r], n)]_vars

\* As long as vectors are offered by advance_now_to, a lowered flag announces
\* a vector that has not been adopted yet: adopt_a_new_model_iterator never
\* deletes the vector it is about to keep.
VectorsAreFresh ==
  cpc = "adopt" /\ mpc \notin {"feedStore", "setDone"} /\ ~Done["model"] =>
    loaded.id > model_vector.id

LF == INSTANCE LeaderFollower WITH
        leader <- SafeTime["model"],
        follower <- SafeTime["constraint"],
        leading <- mpc \in {"store", "await", "loop", "offer", "raise"}

\* The requirement stated above thread_intfc::update_current_time: the two
\* threads implement a follower that only evaluates strictly behind its leader.
EvaluatesBehindLeader == LF!LFSpec

\* ProcessEvents returns or throws when no use of a resource leaves a node
\* later than the last event (Nonconsumable = {}).
Termination == <>(mpc \in {"returned", "threw"} \/ ~Running)

\* A vector the thread is told of, by advance_now_to or with the last data,
\* is captured, unless the thread ended.
VectorsAreRead == ~captured ~> captured \/ cpc \in {"exited", "crashed"}
=============================================================================
