------------------------------ MODULE EventLoop ------------------------------
(***************************************************************************)
(* The discrete-event core of the modeling thread: EventLoop::ProcessEvents*)
(* and the functions it calls to find out whether a waiting program can go *)
(* on (can_a_thread_be_unlocked and its helpers), with the statements      *)
(* through which programs interact: WAIT FOR, WAIT UNTIL a signal, a       *)
(* regular expression or a condition on a resource, signals and usages.    *)
(*                                                                         *)
(* A program (an activity or an abstract resource) is an arbitrary sequence*)
(* of such statements.  A resource is a nonconsumable one, whose use puts a*)
(* START node in its history now and an END node possibly later; what      *)
(* conditions can tell is whether it is in use.  A regular expression is   *)
(* the set of the signals that match it.                                   *)
(*                                                                         *)
(* One OS thread runs all of this, so an action is a whole call, or a part *)
(* of one between two decisions.  Left out: the scheduling queue and the   *)
(* second scheduling pass, disabled activities, evaluation errors, and     *)
(* trailing threads (module TrailingThread).                               *)
(***************************************************************************)
EXTENDS Naturals, FiniteSets

CONSTANTS
  Program,        \* the programs, named by the eventID of their first event
  CondWaiters,    \* those that may wait for a condition
  Resource,       \* named by evaluation_priority
  Signal,
  Pattern,        \* the regular expressions, as sets of signals
  MaxTime,        \* bound: latest time of any event or history node
  MaxEvents,      \* bound: largest eventID
  MaxUses         \* bound: usages of resources

ASSUME ProgramAssumption ==
  /\ Program \subseteq Nat \ {0} /\ IsFiniteSet(Program)
  /\ CondWaiters \subseteq Program
  /\ Resource \subseteq Nat
  /\ Pattern \subseteq SUBSET Signal
  /\ MaxTime \in Nat /\ MaxEvents \in Nat /\ MaxUses \in Nat
  /\ \A p \in Program : p <= MaxEvents

Time == 0..MaxTime
Never == MaxTime + 1

VARIABLES
  pc,              \* where ProcessEvents stands
  clock,           \* time_last_processed, the time of CurrentEvent
  now,             \* modelingTime
  Events,          \* the events in the queues
  currentEventID,
  running,         \* the program do_model is executing
  waitingOnSignal, \* actsOrResWaitingOnSignals
  waitingOnCond,   \* actsOrResWaitingOnCond
  finished,        \* programs that ran to their end (history variable)
  watched,         \* containersToWatchForWaitUntil
  history,         \* the nodes of all resource histories
  returned,        \* the nodes potential_triggers has returned
  recent_signals,  \* the signals and (history variable) when each was sent
  recent_patterns, \* the regular expressions compiled so far
  Matches          \* the cached matches of each

queueVars == <<Events, currentEventID>>
waitVars == <<waitingOnSignal, waitingOnCond, watched>>
resVars == <<history, returned>>
signalVars == <<recent_signals, recent_patterns, Matches>>
vars == <<pc, clock, now, running, finished, queueVars, waitVars, resVars, signalVars>>

-----------------------------------------------------------------------------
(* Events and their queues                                                 *)

Regular == 1    \* eventQueue
Current == 2    \* currentQueue
Expansion == 3  \* expansionQueue

NoCriterion == [on |-> "none", of |-> {}, busy |-> FALSE]

Criterion ==
  {NoCriterion}
  \cup [on : {"signal"}, of : {{s} : s \in Signal}, busy : {FALSE}]
  \cup [on : {"regexp"}, of : Pattern, busy : {FALSE}]
  \cup [on : {"cond"}, of : {{r} : r \in Resource}, busy : BOOLEAN]

\* The multi-iterator over the queues returns events by time, then queue,
\* then event number.
Earlier(e, f) ==
  \/ e.time < f.time
  \/ e.time = f.time /\ e.queue < f.queue
  \/ e.time = f.time /\ e.queue = f.queue /\ e.id < f.id

IsNextEvent(e) == e \in Events /\ \A f \in Events : e = f \/ Earlier(e, f)

\* add_timevent: an event that continues a program goes to the current queue
\* when it happens now.
ContinueAt(id, kind, p, t, crit) ==
  [id |-> id, kind |-> kind, who |-> p, time |-> t, end |-> t, crit |-> crit,
   queue |-> IF t = clock THEN Current ELSE Expansion]

Usage(id, kind, who, t, end, crit) ==
  [id |-> id, kind |-> kind, who |-> who, time |-> t, end |-> end, crit |-> crit,
   queue |-> Regular]
-----------------------------------------------------------------------------
(* Histories and conditions                                                *)

Level(r, t, delta) ==
  Cardinality({n \in history : n.res = r /\ n.time <= t /\ n.delta = delta})

InUse(r, t) == Level(r, t, "start") > Level(r, t, "end")

Holds(crit, t) == \A r \in crit.of : InUse(r, t) = crit.busy

\* potential_triggers returns nodes by time, then resource, then event number.
NodeBefore(m, n) ==
  \/ m.time < n.time
  \/ m.time = n.time /\ m.res < n.res
  \/ m.time = n.time /\ m.res = n.res /\ m.id < n.id

Pending == history \ returned

\* The node of a watched resource that is met first at time t.
Trigger(m, t) ==
  /\ m \in Pending /\ m.time = t /\ m.res \in watched
  /\ \A n \in Pending : n.time = t /\ n.res \in watched => n = m \/ NodeBefore(m, n)

\* Fault: the first waiter is woken without looking at its condition.
FirstInLineUntested(w, t) ==
  w \in waitingOnCond /\ \A v \in waitingOnCond : w.id <= v.id

\* try_conditions_next: the first waiter whose condition holds at t.
FirstInLine(w, t) ==
  /\ w \in waitingOnCond /\ Holds(w.crit, t)
  /\ \A v \in waitingOnCond : Holds(v.crit, t) => w.id <= v.id

CanUnlockAt(t) == \E m \in Pending, w \in waitingOnCond : Trigger(m, t) /\ FirstInLine(w, t)
-----------------------------------------------------------------------------
(* Signals                                                                 *)

SignalNames == {s.name : s \in recent_signals}

\* Fault: a pattern that has not been compiled is taken to match no signal.
HeardInCache(crit) ==
  CASE crit.on = "signal" -> crit.of \subseteq SignalNames
    [] crit.on = "regexp" -> Matches[crit.of] # {}

\* find_a_signal; a_signal_matches, through the cache of matches.
Heard(crit) ==
  CASE crit.on = "signal" -> crit.of \subseteq SignalNames
    [] crit.on = "regexp" -> IF crit.of \in recent_patterns
                               THEN Matches[crit.of] # {}
                               ELSE crit.of \cap SignalNames # {}

\* try_signals_first evaluated the waiters of S: the patterns it met are
\* compiled and their matches cached.
CachePatterns(S) ==
  LET met == {w.crit.of : w \in {v \in S : v.crit.on = "regexp"}} \ recent_patterns
  IN  /\ recent_patterns' = recent_patterns \cup met
      /\ Matches' = [p \in Pattern |-> IF p \in met THEN p \cap SignalNames ELSE Matches[p]]

-----------------------------------------------------------------------------
\* The initialization event has been processed; every program has the event
\* generate_time_events created for it.
Init ==
  /\ pc = "peek"
  /\ clock = 0 /\ now = 0
  /\ \E start \in [Program -> Time] :
       Events = {[id |-> p, kind |-> "resume", who |-> p, time |-> start[p], end |-> start[p],
                  crit |-> NoCriterion, queue |-> Expansion] : p \in Program}
  /\ currentEventID \in Program \cup {0} /\ \A p \in Program : p <= currentEventID
  /\ running = 0
  /\ finished = {}
  /\ waitingOnSignal = {} /\ waitingOnCond = {} /\ watched = {}
  /\ history = {} /\ returned = {}
  /\ recent_signals = {} /\ recent_patterns = {}
  /\ Matches = [p \in Pattern |-> {}]

-----------------------------------------------------------------------------
(* The statements of a program (Execute)                                   *)

NewID == currentEventID + 1

Enqueue(e) == Events' = Events \cup {e} /\ currentEventID' = NewID

\* MaxEvents bounds the statements that create an event.
Schedule(e) == currentEventID < MaxEvents /\ Enqueue(e)

\* The usages so far, for the bound
Uses ==
  Cardinality({e \in Events : e.kind = "use"}) + Cardinality({n \in history : n.delta = "start"})

\* "use r from start to end": the usage happens in an event of its own.
Use(r) ==
  /\ pc = "run" /\ Uses < MaxUses
  /\ \E start \in now..MaxTime : \E end \in start..MaxTime :
       Schedule(Usage(NewID, "use", r, start, end, NoCriterion))
  /\ UNCHANGED <<pc, clock, now, running, finished, waitVars, resVars, signalVars>>

\* A signal, too, is sent by an event of its own, now or later.
SendSignal(s) ==
  /\ pc = "run"
  /\ \E t \in now..MaxTime :
       Schedule(Usage(NewID, "signal", 0, t, t, [on |-> "signal", of |-> {s}, busy |-> FALSE]))
  /\ UNCHANGED <<pc, clock, now, running, finished, waitVars, resVars, signalVars>>

\* Fault: the wait is counted from the time of the previous event.
WaitForEarly ==
  /\ pc = "run"
  /\ \E t \in Time : Schedule(ContinueAt(NewID, "resume", running, t, NoCriterion))
  /\ pc' = "peek" /\ running' = 0
  /\ UNCHANGED <<clock, now, finished, waitVars, resVars, signalVars>>

\* WaitFor::execute: continue after the instruction at a later time, or now.
WaitFor ==
  /\ pc = "run"
  /\ \E t \in now..MaxTime : Schedule(ContinueAt(NewID, "resume", running, t, NoCriterion))
  /\ pc' = "peek" /\ running' = 0
  /\ UNCHANGED <<clock, now, finished, waitVars, resVars, signalVars>>

\* WaitUntil::execute: look at the criterion after the usages at this time.
WaitUntil ==
  /\ pc = "run"
  /\ \E crit \in Criterion \ {NoCriterion} :
       /\ crit.on = "cond" => running \in CondWaiters
       /\ Schedule(ContinueAt(NewID, "wait_until", running, now, crit))
  /\ pc' = "peek" /\ running' = 0
  /\ UNCHANGED <<clock, now, finished, waitVars, resVars, signalVars>>

Finish ==
  /\ pc = "run"
  /\ finished' = finished \cup {running}
  /\ pc' = "peek" /\ running' = 0
  /\ UNCHANGED <<clock, now, queueVars, waitVars, resVars, signalVars>>

Execute ==
  \/ \E r \in Resource : Use(r)
  \/ \E s \in Signal : SendSignal(s)
  \/ WaitFor \/ WaitUntil \/ Finish
-----------------------------------------------------------------------------
(* Processing an event (do_model)                                          *)

\* RES_nonconsumable::append_to_history: START and END nodes go in at once.
UseEvent(e) ==
  /\ e.kind = "use"
  /\ history' = history \cup {[res |-> e.who, time |-> e.time, id |-> 2 * e.id, delta |-> "start"],
                              [res |-> e.who, time |-> e.end, id |-> 2 * e.id + 1, delta |-> "end"]}
  /\ pc' = "peek"
  /\ UNCHANGED <<running, waitVars, returned, signalVars>>

\* add_a_signal: a signal sent twice is recorded once.
SignalEvent(e) ==
  /\ e.kind = "signal"
  /\ recent_signals' =
       recent_signals \cup {[name |-> s, sent |-> e.time] : s \in e.crit.of \ SignalNames}
  /\ Matches' = [p \in Pattern |-> IF p \in recent_patterns
                                     THEN Matches[p] \cup (e.crit.of \cap p)
                                     ELSE Matches[p]]
  /\ pc' = "peek"
  /\ UNCHANGED <<running, waitVars, resVars, recent_patterns>>

ResumeEvent(e) ==
  /\ e.kind = "resume"
  /\ running' = e.who
  /\ pc' = "run"
  /\ UNCHANGED <<waitVars, resVars, signalVars>>

Waiter(e) == [id |-> e.id, who |-> e.who, crit |-> e.crit]

\* Fault: the condition is not looked at before the program is put on hold.
WaitUntilEventUntested(e) ==
  /\ e.kind = "wait_until"
  /\ IF e.crit.on = "cond"
       THEN /\ waitingOnCond' = waitingOnCond \cup {Waiter(e)}
            /\ watched' = watched \cup e.crit.of
            /\ UNCHANGED waitingOnSignal
       ELSE /\ waitingOnSignal' = waitingOnSignal \cup {Waiter(e)}
            /\ UNCHANGED <<waitingOnCond, watched>>
  /\ pc' = "peek"
  /\ UNCHANGED <<running, resVars, signalVars>>

\* first_time_waiting_for_signal_or_condition: a condition that holds lets the
\* program go on; anything else is put on hold, signals even if present.
WaitUntilEvent(e) ==
  /\ e.kind = "wait_until"
  /\ CASE e.crit.on = "cond" /\ Holds(e.crit, e.time) ->
            pc' = "run" /\ running' = e.who /\ UNCHANGED waitVars
       [] e.crit.on = "cond" /\ ~Holds(e.crit, e.time) ->
            /\ waitingOnCond' = waitingOnCond \cup {Waiter(e)}
            /\ watched' = watched \cup e.crit.of
            /\ pc' = "peek"
            /\ UNCHANGED <<running, waitingOnSignal>>
       [] e.crit.on # "cond" ->
            /\ waitingOnSignal' = waitingOnSignal \cup {Waiter(e)}
            /\ pc' = "peek"
            /\ UNCHANGED <<running, waitingOnCond, watched>>
  /\ UNCHANGED <<resVars, signalVars>>

\* The next event happens now, or time advances to it.
ProcessEvent ==
  \E e \in Events :
    /\ IsNextEvent(e)
    /\ pc = "advance" \/ (pc = "peek" /\ e.time <= clock)
    /\ Events' = Events \ {e}
    /\ clock' = e.time /\ now' = e.time
    /\ UseEvent(e) \/ SignalEvent(e) \/ ResumeEvent(e) \/ WaitUntilEvent(e)
    /\ UNCHANGED <<currentEventID, finished>>

-----------------------------------------------------------------------------
(* can_a_thread_be_unlocked                                                *)

\* No event is left for the present value of now.
DoneForNow ==
  /\ pc = "peek"
  /\ \A e \in Events : e.time > clock
  /\ pc' = "signals"
  /\ UNCHANGED <<clock, now, running, finished, queueVars, waitVars, resVars, signalVars>>

\* Fault: the program that was woken stays in the queue of waiters.
WakeOnSignalKeepingWaiter ==
  /\ pc = "signals"
  /\ \E w \in waitingOnSignal :
       /\ recent_signals # {} /\ Heard(w.crit)
       /\ \A v \in waitingOnSignal : Heard(v.crit) => w.id <= v.id
       /\ CachePatterns({v \in waitingOnSignal : v.id <= w.id})
       /\ Enqueue(ContinueAt(NewID, "resume", w.who, now, w.crit))
  /\ pc' = "peek"
  /\ UNCHANGED <<clock, now, running, finished, waitVars, resVars, recent_signals>>

\* try_signals_first wakes the first waiter whose signal was sent.
WakeOnSignal ==
  /\ pc = "signals"
  /\ \E w \in waitingOnSignal :
       /\ recent_signals # {} /\ Heard(w.crit)
       /\ \A v \in waitingOnSignal : Heard(v.crit) => w.id <= v.id
       /\ CachePatterns({v \in waitingOnSignal : v.id <= w.id})
       /\ waitingOnSignal' = waitingOnSignal \ {w}
       /\ Enqueue(ContinueAt(NewID, "resume", w.who, now, w.crit))
  /\ pc' = "peek"
  /\ UNCHANGED <<clock, now, running, finished, waitingOnCond, watched, resVars, recent_signals>>

NoSignalHeard ==
  /\ pc = "signals"
  /\ recent_signals = {} \/ \A w \in waitingOnSignal : ~Heard(w.crit)
  /\ IF recent_signals = {} THEN UNCHANGED <<recent_patterns, Matches>>
                            ELSE CachePatterns(waitingOnSignal)
  /\ pc' = "now"
  /\ UNCHANGED <<clock, now, running, finished, queueVars, waitVars, resVars, recent_signals>>

\* The conditions are tried at time t; the first waiter whose condition holds
\* is woken, and the trigger and the nodes before it are returned.
WakeOnCondition(t) ==
  \E m \in Pending, w \in waitingOnCond :
    /\ Trigger(m, t) /\ FirstInLine(w, t)
    /\ returned' = returned \cup {n \in Pending : n = m \/ NodeBefore(n, m)}
    /\ waitingOnCond' = waitingOnCond \ {w}
    /\ now' = t
    /\ Enqueue(ContinueAt(NewID, "resume", w.who, t, w.crit))
    /\ pc' = "peek"
    /\ UNCHANGED <<clock, running, finished, waitingOnSignal, watched, history, signalVars>>

\* one_thread_can_be_unblocked_now
UnblockNow == pc = "now" /\ WakeOnCondition(clock)

NotUnblockedNow ==
  /\ pc = "now"
  /\ ~CanUnlockAt(clock)
  /\ returned' = returned \cup {n \in Pending : n.time <= clock}
  /\ pc' = "future"
  /\ UNCHANGED <<clock, now, running, finished, queueVars, waitVars, history, signalVars>>

\* Fault: the time of the next event is not looked at.
WithinNoLimits(t) == t \in Time /\ t > clock

\* The times at which a waiting program may go on before the next event.
WithinLimits(t) == t \in Time /\ t > clock /\ \A e \in Events : t < e.time

\* one_thread_can_be_unblocked_in_the_near_future, then advance_now_to.
UnblockLater ==
  /\ pc = "future"
  /\ \E t \in Time :
       /\ WithinLimits(t) /\ CanUnlockAt(t)
       /\ \A u \in Time : WithinLimits(u) /\ CanUnlockAt(u) => t <= u
       /\ WakeOnCondition(t)

\* Fault: the signals sent at this time are kept.
KeepSignals == UNCHANGED <<recent_signals, Matches>>

\* clear_signals: the pointers cached with the patterns go too.
ClearSignals ==
  /\ recent_signals' = {}
  /\ Matches' = [p \in Pattern |-> {}]

\* No program can go on before the next event: truly advance time, or stop.
NotUnblocked ==
  /\ pc = "future"
  /\ \A t \in Time : WithinLimits(t) => ~CanUnlockAt(t)
  /\ returned' = returned \cup {n \in Pending : n.time <= clock \/ WithinLimits(n.time)}
  /\ ClearSignals
  /\ IF Events = {} THEN pc' = "done" /\ recent_patterns' = {}
                    ELSE pc' = "advance" /\ UNCHANGED recent_patterns
  /\ UNCHANGED <<clock, now, running, finished, queueVars, waitVars, history>>

\* ProcessEvents has ended; what still waits will not go on.
Terminated == pc = "done" /\ UNCHANGED vars

Next ==
  \/ Execute \/ ProcessEvent \/ DoneForNow
  \/ WakeOnSignal \/ NoSignalHeard
  \/ UnblockNow \/ NotUnblockedNow \/ UnblockLater \/ NotUnblocked
  \/ Terminated

Spec == Init /\ [][Next]_vars

-----------------------------------------------------------------------------
(* Correctness                                                             *)

EventType ==
  [id : Nat, kind : {"use", "signal", "resume", "wait_until"}, who : Nat, time : Time,
   end : Time, crit : Criterion, queue : {Regular, Current, Expansion}]

NodeType == [res : Resource, time : Time, id : Nat, delta : {"start", "end"}]

WaiterType == [id : Nat, who : Program, crit : Criterion]

\* The type of every variable; a program is running exactly while do_model is
\* executing it.
TypeOK ==
  /\ pc \in {"peek", "run", "signals", "now", "future", "advance", "done"}
  /\ clock \in Time /\ now \in Time
  /\ Events \subseteq EventType
  /\ currentEventID \in Nat
  /\ running \in Program \cup {0} /\ (running # 0 <=> pc = "run")
  /\ finished \subseteq Program
  /\ waitingOnSignal \subseteq WaiterType /\ waitingOnCond \subseteq WaiterType
  /\ watched \subseteq Resource
  /\ history \subseteq NodeType /\ returned \subseteq history
  /\ recent_signals \subseteq [name : Signal, sent : Time]
  /\ recent_patterns \subseteq Pattern
  /\ Matches \in [Pattern -> SUBSET Signal]

Continuations(p) == {e \in Events : e.kind \in {"resume", "wait_until"} /\ e.who = p}
Waits(p) == {w \in waitingOnSignal \cup waitingOnCond : w.who = p}

\* The stack of a program is "stolen" from one place to the next (events,
\* instruction_node): it is always in exactly one of them.
StackIsInOnePlace ==
  \A p \in Program :
    Cardinality(Continuations(p)) + Cardinality(Waits(p))
      + (IF running = p THEN 1 ELSE 0) + (IF p \in finished THEN 1 ELSE 0) = 1

\* A program that waited for a condition continues at a time at which, after
\* everything else that happens before it, the condition holds.
WokenOnTrueCondition ==
  \A e \in Events : e.kind = "resume" /\ e.crit.on = "cond" => Holds(e.crit, e.time)

\* A signal is momentary: it is known only at the time it was sent, and lets
\* programs go on only then.
SignalsAreMomentary ==
  /\ \A s \in recent_signals : s.sent = clock
  /\ \A e \in Events :
       e.kind = "resume" /\ e.crit.on \in {"signal", "regexp"} =>
         \E s \in recent_signals : s.name \in e.crit.of /\ s.sent = e.time

\* A signal is not forgotten while a program waits for it, by name or through
\* the cached matches of a regular expression.
NoSignalMissed ==
  [][\A s \in recent_signals \ recent_signals' :
       \A w \in waitingOnSignal' : s.name \notin w.crit.of]_vars

\* No event is created in the past (the mEvent constructor, add_timevent), and
\* waking a program ahead of the queue leaves no event behind.
TimeNeverGoesBack == [][clock' >= clock /\ now' >= now]_vars

\* "the potential_triggers Miterator is in sync with 'now'" when time
\* advances (ProcessEvents): it has returned no node later than the new time,
\* and every node before it.
TriggersInSync ==
  [][clock' > clock =>
       /\ \A n \in Pending : n.time >= clock'
       /\ \A n \in returned : n.time <= clock']_vars

\* "There is no more work to do for the present value of now; we can truly
\* advance time" (ProcessEvents): when time advances, or the loop ends, no
\* waiting program's condition held at a time that is left behind.
NoLostWakeUp ==
  [][\A w \in waitingOnCond : \A t \in Time :
       t >= clock /\ (clock' > t \/ (pc' = "done" /\ pc # "done")) => ~Holds(w.crit, t)]_vars
=============================================================================
