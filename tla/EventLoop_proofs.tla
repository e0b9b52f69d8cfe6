--------------------------- MODULE EventLoop_proofs ---------------------------
(***************************************************************************)
(* Theorems about EventLoop, for every set of programs, resources, signals *)
(* and regular expressions, every horizon and every number of events.      *)
(***************************************************************************)
EXTENDS EventLoop, FiniteSetTheorems, WellFoundedInduction, TLAPS

\* What an event of each kind carries.
WellFormed(e) ==
  /\ e.time <= e.end
  /\ e.kind \in {"resume", "wait_until"} => e.who \in Program
  /\ e.kind = "use" => e.who \in Resource
  /\ e.kind = "signal" => e.crit.on = "signal"

TypeInv == TypeOK /\ \A e \in Events : WellFormed(e)

LEMMA Constants ==
  /\ Program \subseteq Nat /\ 0 \notin Program
  /\ Pattern \subseteq SUBSET Signal
  /\ Time \subseteq Nat /\ \A t \in Time : t <= t
  BY ProgramAssumption DEF Time

LEMMA CriterionFields ==
  /\ NoCriterion \in Criterion
  /\ \A s \in Signal : [on |-> "signal", of |-> {s}, busy |-> FALSE] \in Criterion
  /\ \A c \in Criterion :
       /\ c.on = "cond" => c.of \subseteq Resource
       /\ c.on = "signal" => c.of \subseteq Signal
       /\ c.on = "regexp" => c.of \in Pattern
<1>1. ASSUME NEW c \in Criterion
      PROVE  /\ c.on = "cond" => c.of \subseteq Resource
             /\ c.on = "signal" => c.of \subseteq Signal
             /\ c.on = "regexp" => c.of \in Pattern
  <2>1. CASE c = NoCriterion
    BY <2>1 DEF NoCriterion
  <2>2. CASE c \in [on : {"signal"}, of : {{s} : s \in Signal}, busy : {FALSE}]
    BY <2>2
  <2>3. CASE c \in [on : {"regexp"}, of : Pattern, busy : {FALSE}]
    BY <2>3
  <2>4. CASE c \in [on : {"cond"}, of : {{r} : r \in Resource}, busy : BOOLEAN]
    BY <2>4
  <2> QED
    BY <1>1, <2>1, <2>2, <2>3, <2>4 DEF Criterion
<1>2. NoCriterion \in Criterion
  BY DEF Criterion
<1>3. ASSUME NEW s \in Signal
      PROVE  [on |-> "signal", of |-> {s}, busy |-> FALSE] \in Criterion
  BY DEF Criterion
<1> QED
  BY <1>1, <1>2, <1>3

LEMMA InitTypeInv == Init => TypeInv
<1> SUFFICES ASSUME Init PROVE TypeInv
  OBVIOUS
<1>1. 0 \in Time
  BY ProgramAssumption DEF Time
<1>2. \A e \in Events : e \in EventType /\ WellFormed(e)
  <2> SUFFICES ASSUME NEW e \in Events PROVE e \in EventType /\ WellFormed(e)
    OBVIOUS
  <2>1. PICK start \in [Program -> Time] :
          Events = {[id |-> p, kind |-> "resume", who |-> p, time |-> start[p], end |-> start[p],
                     crit |-> NoCriterion, queue |-> Expansion] : p \in Program}
    BY DEF Init
  <2>2. PICK p \in Program :
          e = [id |-> p, kind |-> "resume", who |-> p, time |-> start[p], end |-> start[p],
               crit |-> NoCriterion, queue |-> Expansion]
    BY <2>1
  <2>3. start[p] \in Time /\ p \in Nat
    BY Constants
  <2>4. start[p] <= start[p]
    BY <2>3, Constants, Zenon
  <2> QED
    BY <2>2, <2>3, <2>4, CriterionFields DEF EventType, WellFormed, Expansion
<1> QED
  BY <1>1, <1>2, Constants DEF Init, TypeInv, TypeOK

\* Events a statement or a wake-up creates.
LEMMA NewEvents ==
  ASSUME currentEventID \in Nat, NEW t \in Time, NEW crit \in Criterion
  PROVE  /\ \A p \in Program, kind \in {"resume", "wait_until"} :
              LET e == ContinueAt(NewID, kind, p, t, crit)
              IN  e \in EventType /\ WellFormed(e) /\ e.time = t
         /\ \A r \in Resource, end \in Time :
              LET e == Usage(NewID, "use", r, t, end, crit)
              IN  t <= end => e \in EventType /\ WellFormed(e) /\ e.time = t
         /\ LET e == Usage(NewID, "signal", 0, t, t, crit)
            IN  crit.on = "signal" => e \in EventType /\ WellFormed(e) /\ e.time = t
<1>1. NewID \in Nat
  BY DEF NewID
<1>2. t \in Nat /\ t <= t /\ Resource \subseteq Nat
  BY Constants, ProgramAssumption
<1> QED
  BY <1>1, <1>2, Constants
     DEF ContinueAt, Usage, EventType, WellFormed, Regular, Current, Expansion

\* A new event keeps the queues well-typed.
LEMMA EnqueueType ==
  ASSUME TypeInv, NEW e \in EventType, WellFormed(e), Enqueue(e)
  PROVE  /\ Events' \subseteq EventType /\ \A f \in Events' : WellFormed(f)
         /\ currentEventID' \in Nat
  BY DEF TypeInv, TypeOK, Enqueue, NewID

\* A step that changes none of the queues, or removes an event, leaves the rest.
LEMMA ExecuteType == TypeInv /\ Execute => TypeInv'
<1> SUFFICES ASSUME TypeInv, Execute PROVE TypeInv'
  OBVIOUS
<1> USE DEF TypeInv, TypeOK, waitVars, resVars, signalVars
<1>1. pc = "run" /\ running \in Program /\ now \in Time /\ currentEventID \in Nat
  BY DEF Execute, Use, SendSignal, WaitFor, WaitUntil, Finish
<1>2. ASSUME NEW t \in now..MaxTime PROVE t \in Time
  BY <1>1, <1>2, ProgramAssumption DEF Time
<1>3. ASSUME NEW e \in EventType, WellFormed(e), Schedule(e)
      PROVE  /\ Events' \subseteq EventType /\ \A f \in Events' : WellFormed(f)
             /\ currentEventID' \in Nat
  BY <1>3, EnqueueType DEF Schedule
<1>4. ASSUME NEW r \in Resource, Use(r) PROVE TypeInv'
  <2>1. PICK start \in now..MaxTime : \E end \in start..MaxTime :
          Schedule(Usage(NewID, "use", r, start, end, NoCriterion))
    BY <1>4 DEF Use
  <2>2. PICK end \in start..MaxTime :
          Schedule(Usage(NewID, "use", r, start, end, NoCriterion))
    BY <2>1
  <2>3. start \in Time /\ end \in Time /\ start <= end
    BY <1>1, ProgramAssumption DEF Time
  <2>4. Usage(NewID, "use", r, start, end, NoCriterion) \in EventType
        /\ WellFormed(Usage(NewID, "use", r, start, end, NoCriterion))
    BY <1>1, <2>3, NewEvents, CriterionFields
  <2> QED
    BY <1>3, <1>4, <2>2, <2>4 DEF Use
<1>5. ASSUME NEW s \in Signal, SendSignal(s) PROVE TypeInv'
  <2> DEFINE crit == [on |-> "signal", of |-> {s}, busy |-> FALSE]
  <2>1. crit \in Criterion /\ crit.on = "signal"
    BY CriterionFields
  <2>2. PICK t \in now..MaxTime : Schedule(Usage(NewID, "signal", 0, t, t, crit))
    BY <1>5 DEF SendSignal
  <2>3. Usage(NewID, "signal", 0, t, t, crit) \in EventType
        /\ WellFormed(Usage(NewID, "signal", 0, t, t, crit))
    BY <1>1, <1>2, <2>1, NewEvents
  <2> QED
    BY <1>3, <1>5, <2>2, <2>3 DEF SendSignal
<1>6. CASE WaitFor
  <2>1. PICK t \in now..MaxTime : Schedule(ContinueAt(NewID, "resume", running, t, NoCriterion))
    BY <1>6 DEF WaitFor
  <2>2. ContinueAt(NewID, "resume", running, t, NoCriterion) \in EventType
        /\ WellFormed(ContinueAt(NewID, "resume", running, t, NoCriterion))
    BY <1>1, <1>2, NewEvents, CriterionFields
  <2> QED
    BY <1>3, <1>6, <2>1, <2>2, Constants DEF WaitFor
<1>7. CASE WaitUntil
  <2>1. PICK crit \in Criterion : Schedule(ContinueAt(NewID, "wait_until", running, now, crit))
    BY <1>7 DEF WaitUntil
  <2>2. ContinueAt(NewID, "wait_until", running, now, crit) \in EventType
        /\ WellFormed(ContinueAt(NewID, "wait_until", running, now, crit))
    BY <1>1, NewEvents
  <2> QED
    BY <1>3, <1>7, <2>1, <2>2, Constants DEF WaitUntil
<1>8. CASE Finish
  BY <1>1, <1>8, Constants DEF Finish, queueVars
<1> QED
  BY <1>4, <1>5, <1>6, <1>7, <1>8 DEF Execute

LEMMA EventFields ==
  ASSUME NEW e \in EventType
  PROVE  /\ e.id \in Nat /\ e.time \in Time /\ e.end \in Time /\ e.crit \in Criterion
  BY DEF EventType

LEMMA ProcessType == TypeInv /\ ProcessEvent => TypeInv'
<1> SUFFICES ASSUME TypeInv,
                    NEW e \in Events,
                    Events' = Events \ {e}, clock' = e.time, now' = e.time,
                    pc = "advance" \/ pc = "peek",
                    UseEvent(e) \/ SignalEvent(e) \/ ResumeEvent(e) \/ WaitUntilEvent(e),
                    UNCHANGED <<currentEventID, finished>>
             PROVE  TypeInv'
  BY DEF ProcessEvent
<1> USE DEF TypeInv, TypeOK, waitVars, resVars, signalVars
<1>1. /\ e \in EventType /\ WellFormed(e)
      /\ e.id \in Nat /\ e.time \in Time /\ e.end \in Time /\ e.crit \in Criterion
      /\ running = 0
  BY EventFields, Constants
<1>2. CASE UseEvent(e)
  <2>1. e.who \in Resource
    BY <1>1, <1>2 DEF UseEvent, WellFormed
  <2>2. /\ [res |-> e.who, time |-> e.time, id |-> 2 * e.id, delta |-> "start"] \in NodeType
        /\ [res |-> e.who, time |-> e.end, id |-> 2 * e.id + 1, delta |-> "end"] \in NodeType
    <3>1. 2 * e.id \in Nat /\ 2 * e.id + 1 \in Nat
      BY <1>1
    <3> QED
      BY <1>1, <2>1, <3>1 DEF NodeType
  <2>3. history' \subseteq NodeType /\ returned' \subseteq history'
    BY <1>2, <2>2 DEF UseEvent
  <2> QED
    BY <1>1, <1>2, <2>3 DEF UseEvent
<1>3. CASE SignalEvent(e)
  <2>1. e.crit.of \subseteq Signal
    BY <1>1, <1>3, CriterionFields DEF SignalEvent, WellFormed
  <2>2. recent_signals' \subseteq [name : Signal, sent : Time]
    BY <1>1, <1>3, <2>1 DEF SignalEvent
  <2>3. Matches' \in [Pattern -> SUBSET Signal]
    BY <1>3, <2>1 DEF SignalEvent
  <2> QED
    BY <1>1, <1>3, <2>2, <2>3 DEF SignalEvent
<1>4. CASE ResumeEvent(e)
  BY <1>1, <1>4, Constants DEF ResumeEvent, WellFormed
<1>5. CASE WaitUntilEvent(e)
  <2>1. Waiter(e) \in WaiterType /\ e.who \in Program
    BY <1>1, <1>5 DEF WaitUntilEvent, WellFormed, Waiter, WaiterType
  <2>2. e.crit.on = "cond" => e.crit.of \subseteq Resource
    BY <1>1, CriterionFields
  <2>3. /\ waitingOnSignal' \subseteq WaiterType /\ waitingOnCond' \subseteq WaiterType
        /\ watched' \subseteq Resource
        /\ pc' \in {"peek", "run"}
        /\ running' \in Program \cup {0} /\ (running' # 0 <=> pc' = "run")
    <3>1. CASE e.crit.on = "cond" /\ Holds(e.crit, e.time)
      BY <1>1, <1>5, <2>1, <3>1, Constants DEF WaitUntilEvent
    <3>2. CASE e.crit.on = "cond" /\ ~Holds(e.crit, e.time)
      BY <1>1, <1>5, <2>1, <2>2, <3>2 DEF WaitUntilEvent
    <3>3. CASE e.crit.on # "cond"
      BY <1>1, <1>5, <2>1, <3>3 DEF WaitUntilEvent
    <3> QED
      BY <3>1, <3>2, <3>3
  <2> QED
    BY <1>1, <1>5, <2>3 DEF WaitUntilEvent
<1> QED
  BY <1>2, <1>3, <1>4, <1>5

LEMMA CacheType ==
  ASSUME TypeInv, NEW S \in SUBSET WaiterType, CachePatterns(S)
  PROVE  recent_patterns' \subseteq Pattern /\ Matches' \in [Pattern -> SUBSET Signal]
<1> DEFINE met == {w.crit.of : w \in {v \in S : v.crit.on = "regexp"}} \ recent_patterns
<1>1. SignalNames \subseteq Signal
  BY DEF TypeInv, TypeOK, SignalNames
<1>2. \A w \in S : w.crit \in Criterion
  BY DEF WaiterType
<1>3. met \subseteq Pattern
  BY <1>2, CriterionFields
<1>4. recent_patterns' \subseteq Pattern
  BY <1>3 DEF CachePatterns, TypeInv, TypeOK
<1>5. Matches' = [p \in Pattern |-> IF p \in met THEN p \cap SignalNames ELSE Matches[p]]
  BY DEF CachePatterns
<1>6. \A p \in Pattern : Matches[p] \in SUBSET Signal /\ p \cap SignalNames \in SUBSET Signal
  BY <1>1 DEF TypeInv, TypeOK
<1> HIDE DEF met
<1>7. Matches' \in [Pattern -> SUBSET Signal]
  BY <1>5, <1>6
<1> QED
  BY <1>4, <1>7

LEMMA WakeConditionType ==
  ASSUME TypeInv, running = 0, NEW t \in Time, WakeOnCondition(t)
  PROVE  TypeInv'
<1>1. PICK m \in Pending, w \in waitingOnCond :
        /\ returned' = returned \cup {n \in Pending : n = m \/ NodeBefore(n, m)}
        /\ waitingOnCond' = waitingOnCond \ {w}
        /\ now' = t
        /\ Enqueue(ContinueAt(NewID, "resume", w.who, t, w.crit))
        /\ pc' = "peek"
        /\ UNCHANGED <<clock, running, finished, waitingOnSignal, watched, history, signalVars>>
  BY DEF WakeOnCondition
<1>2. w.who \in Program /\ w.crit \in Criterion
  BY DEF TypeInv, TypeOK, WaiterType
<1>3. ContinueAt(NewID, "resume", w.who, t, w.crit) \in EventType
      /\ WellFormed(ContinueAt(NewID, "resume", w.who, t, w.crit))
  BY <1>2, NewEvents DEF TypeInv, TypeOK
<1>4. /\ Events' \subseteq EventType /\ \A f \in Events' : WellFormed(f)
      /\ currentEventID' \in Nat
  BY <1>1, <1>3, EnqueueType
<1>5. returned' \subseteq history
  BY <1>1 DEF TypeInv, TypeOK, Pending
<1> QED
  BY <1>1, <1>4, <1>5 DEF TypeInv, TypeOK, signalVars

LEMMA UnlockType ==
  ASSUME TypeInv,
         \/ DoneForNow \/ WakeOnSignal \/ NoSignalHeard \/ UnblockNow
         \/ NotUnblockedNow \/ UnblockLater \/ NotUnblocked
  PROVE  TypeInv'
<1> USE DEF TypeInv, TypeOK, queueVars, waitVars, resVars, signalVars
<1>1. CASE DoneForNow
  BY <1>1 DEF DoneForNow
<1>2. CASE WakeOnSignal
  <2>1. PICK w \in waitingOnSignal :
          /\ CachePatterns({v \in waitingOnSignal : v.id <= w.id})
          /\ waitingOnSignal' = waitingOnSignal \ {w}
          /\ Enqueue(ContinueAt(NewID, "resume", w.who, now, w.crit))
    BY <1>2 DEF WakeOnSignal
  <2>2. w.who \in Program /\ w.crit \in Criterion
    BY DEF WaiterType
  <2>3. ContinueAt(NewID, "resume", w.who, now, w.crit) \in EventType
        /\ WellFormed(ContinueAt(NewID, "resume", w.who, now, w.crit))
    BY <2>2, NewEvents
  <2>4. /\ Events' \subseteq EventType /\ \A f \in Events' : WellFormed(f)
        /\ currentEventID' \in Nat
    BY <2>1, <2>3, EnqueueType
  <2>5. recent_patterns' \subseteq Pattern /\ Matches' \in [Pattern -> SUBSET Signal]
    BY <2>1, CacheType
  <2> QED
    BY <1>2, <2>1, <2>4, <2>5 DEF WakeOnSignal
<1>3. CASE NoSignalHeard
  <2>1. recent_patterns' \subseteq Pattern /\ Matches' \in [Pattern -> SUBSET Signal]
    BY <1>3, CacheType DEF NoSignalHeard
  <2> QED
    BY <1>3, <2>1 DEF NoSignalHeard
<1>4. CASE UnblockNow
  BY <1>4, WakeConditionType DEF UnblockNow
<1>5. CASE NotUnblockedNow
  BY <1>5 DEF NotUnblockedNow, Pending
<1>6. CASE UnblockLater
  <2>1. PICK t \in Time : WakeOnCondition(t)
    BY <1>6 DEF UnblockLater
  <2> QED
    BY <1>6, <2>1, WakeConditionType DEF UnblockLater
<1>7. CASE NotUnblocked
  <2>1. Matches' \in [Pattern -> SUBSET Signal] /\ recent_signals' = {}
    BY <1>7 DEF NotUnblocked, ClearSignals
  <2>2. recent_patterns' \subseteq Pattern /\ pc' \in {"done", "advance"}
    BY <1>7 DEF NotUnblocked
  <2> QED
    BY <1>7, <2>1, <2>2 DEF NotUnblocked, Pending
<1> QED
  BY <1>1, <1>2, <1>3, <1>4, <1>5, <1>6, <1>7

LEMMA NextType == TypeInv /\ [Next]_vars => TypeInv'
<1>1. TypeInv /\ UNCHANGED vars => TypeInv'
  BY DEF TypeInv, TypeOK, vars, queueVars, waitVars, resVars, signalVars
<1> QED
  BY <1>1, ExecuteType, ProcessType, UnlockType DEF Next, Terminated

\* The type invariant; what the event of a kind carries makes it inductive.
THEOREM TypeCorrect == Spec => []TypeOK
<1>1. TypeInv => TypeOK
  BY DEF TypeInv
<1> QED
  BY <1>1, InitTypeInv, NextType, PTL DEF Spec

-----------------------------------------------------------------------------
\* No event is earlier than now; if now runs ahead of the last event, because a
\* condition will hold before the next one, all nodes before now are returned.
TimeInv ==
  /\ clock <= now
  /\ \A e \in Events : now <= e.time
  /\ pc = "run" => now = clock
  /\ pc = "future" => \A n \in Pending : clock < n.time
  /\ clock < now => \A n \in Pending : now <= n.time

\* The nodes that potential_triggers has returned are not later than what is to
\* come, and when time advances it has returned everything before the next event.
TriggerInv ==
  /\ pc \notin {"advance", "done"} => \A n \in returned : n.time <= now
  /\ \A n \in returned, e \in Events : n.time <= e.time
  /\ pc = "advance" => \A n \in Pending : clock < n.time /\ \E e \in Events : e.time <= n.time

LEMMA Times ==
  TypeInv => /\ clock \in Nat /\ now \in Nat
             /\ \A e \in Events : e.time \in Nat /\ e.end \in Nat /\ e.time <= e.end
             /\ \A n \in history : n.time \in Nat
             /\ returned \subseteq history /\ Pending \subseteq history
  BY Constants DEF TypeInv, TypeOK, EventType, NodeType, WellFormed, Pending

LEMMA InitTimes == Init => TimeInv /\ TriggerInv
<1> SUFFICES ASSUME Init PROVE TimeInv /\ TriggerInv
  OBVIOUS
<1>1. \A e \in Events : e.time \in Nat
  BY InitTypeInv, Times
<1>2. clock = 0 /\ now = 0 /\ pc = "peek" /\ returned = {}
  BY DEF Init
<1> QED
  BY <1>1, <1>2 DEF TimeInv, TriggerInv

\* A statement creates at most one event, not before now.
LEMMA ExecuteTimes == TypeInv /\ TimeInv /\ TriggerInv /\ Execute => TimeInv' /\ TriggerInv'
<1> SUFFICES ASSUME TypeInv, TimeInv, TriggerInv, Execute
             PROVE  TimeInv' /\ TriggerInv'
  OBVIOUS
<1> USE DEF waitVars, resVars, signalVars
<1>1. /\ pc = "run" /\ pc' \in {"run", "peek"}
      /\ UNCHANGED <<clock, now, history, returned>>
  BY DEF Execute, Use, SendSignal, WaitFor, WaitUntil, Finish
<1>2. \A e \in Events' \ Events : e.time \in Nat /\ now <= e.time
  <2>1. ASSUME NEW r \in Resource, Use(r)
        PROVE  \A e \in Events' \ Events : e.time \in Nat /\ now <= e.time
    BY <2>1, Times, ProgramAssumption DEF Use, Schedule, Enqueue, Usage
  <2>2. ASSUME NEW s \in Signal, SendSignal(s)
        PROVE  \A e \in Events' \ Events : e.time \in Nat /\ now <= e.time
    BY <2>2, Times, ProgramAssumption DEF SendSignal, Schedule, Enqueue, Usage
  <2>3. CASE WaitFor
    BY <2>3, Times, ProgramAssumption DEF WaitFor, Schedule, Enqueue, ContinueAt
  <2>4. CASE WaitUntil
    BY <2>4, Times DEF WaitUntil, Schedule, Enqueue, ContinueAt
  <2>5. CASE Finish
    BY <2>5 DEF Finish, queueVars
  <2> QED
    BY <2>1, <2>2, <2>3, <2>4, <2>5 DEF Execute
<1>3. Pending' = Pending
  BY <1>1 DEF Pending
<1>4. TimeInv'
  BY <1>1, <1>2, <1>3, Times DEF TimeInv
<1>5. TriggerInv'
  <2>1. \A n \in returned : n.time <= now /\ n.time \in Nat
    BY <1>1, Times DEF TriggerInv
  <2>2. \A n \in returned, e \in Events' : n.time <= e.time
    BY <1>1, <1>2, <2>1, Times DEF TriggerInv
  <2> QED
    BY <1>1, <2>1, <2>2 DEF TriggerInv
<1> QED
  BY <1>4, <1>5

\* The next event is the earliest one.
LEMMA NextIsEarliest ==
  ASSUME TypeInv, NEW e, IsNextEvent(e)
  PROVE  e \in Events /\ \A f \in Events : e.time <= f.time
<1>1. \A f \in Events : f.time \in Nat
  BY Times
<1> QED
  BY <1>1 DEF IsNextEvent, Earlier

LEMMA ProcessTimes ==
  TypeInv /\ TimeInv /\ TriggerInv /\ ProcessEvent => TimeInv' /\ TriggerInv'
<1> SUFFICES ASSUME TypeInv, TimeInv, TriggerInv,
                    NEW e \in Events, IsNextEvent(e),
                    pc = "advance" \/ (pc = "peek" /\ e.time <= clock),
                    Events' = Events \ {e}, clock' = e.time, now' = e.time,
                    UseEvent(e) \/ SignalEvent(e) \/ ResumeEvent(e) \/ WaitUntilEvent(e)
             PROVE  TimeInv' /\ TriggerInv'
  BY DEF ProcessEvent
<1>1. pc' \in {"peek", "run"} /\ returned' = returned
  BY DEF UseEvent, SignalEvent, ResumeEvent, WaitUntilEvent, resVars
<1>2. \A f \in Events' : e.time <= f.time
  BY NextIsEarliest
<1>3. TimeInv'
  BY <1>1, <1>2, Times DEF TimeInv
<1>4. TriggerInv'
  BY <1>1, <1>2 DEF TriggerInv
<1> QED
  BY <1>3, <1>4

\* A program that is woken at time t continues at t.
LEMMA WakeConditionTimes ==
  ASSUME TypeInv, TimeInv, TriggerInv, pc \notin {"advance", "done"},
         NEW t \in Nat, clock <= t, now <= t, \A e \in Events : t <= e.time,
         WakeOnCondition(t)
  PROVE  TimeInv' /\ TriggerInv'
<1>1. PICK m \in Pending, w \in waitingOnCond :
        /\ Trigger(m, t)
        /\ returned' = returned \cup {n \in Pending : n = m \/ NodeBefore(n, m)}
        /\ now' = t
        /\ Enqueue(ContinueAt(NewID, "resume", w.who, t, w.crit))
        /\ pc' = "peek"
        /\ UNCHANGED <<clock, history>>
  BY DEF WakeOnCondition
<1>2. m.time = t
  BY <1>1 DEF Trigger
<1>3. /\ \A n \in returned' : n.time <= t
      /\ \A n \in Pending' : t <= n.time
  <2>1. \A n \in Pending : n = m \/ NodeBefore(n, m) => n.time <= t
    BY <1>2, Times DEF NodeBefore
  <2>2. \A n \in Pending : ~(n = m \/ NodeBefore(n, m)) => t <= n.time
    BY <1>2, Times DEF NodeBefore
  <2>3. \A n \in returned : n.time <= t
    BY Times DEF TriggerInv
  <2>4. \A n \in Pending' : n \in Pending /\ ~(n = m \/ NodeBefore(n, m))
    BY <1>1 DEF Pending
  <2> QED
    BY <1>1, <2>1, <2>2, <2>3, <2>4
<1>4. \A e \in Events' : t <= e.time /\ e.time \in Nat
  BY <1>1, Times DEF Enqueue, ContinueAt
<1>5. \A n \in returned' : n.time \in Nat
  BY <1>1, Times DEF Pending
<1>6. TimeInv'
  BY <1>1, <1>3, <1>4 DEF TimeInv
<1>7. TriggerInv'
  <2>1. \A n \in returned', e \in Events' : n.time <= e.time
    BY <1>3, <1>4, <1>5
  <2> QED
    BY <1>1, <1>3, <2>1 DEF TriggerInv
<1> QED
  BY <1>6, <1>7

LEMMA UnlockTimes ==
  ASSUME TypeInv, TimeInv, TriggerInv,
         \/ DoneForNow \/ WakeOnSignal \/ NoSignalHeard \/ UnblockNow
         \/ NotUnblockedNow \/ UnblockLater \/ NotUnblocked
  PROVE  TimeInv' /\ TriggerInv'
<1> USE DEF queueVars, waitVars, resVars, signalVars
<1>1. CASE DoneForNow \/ NoSignalHeard
  BY <1>1 DEF DoneForNow, NoSignalHeard, TimeInv, TriggerInv, Pending
<1>2. CASE WakeOnSignal
  <2>1. PICK w \in waitingOnSignal : Enqueue(ContinueAt(NewID, "resume", w.who, now, w.crit))
    BY <1>2 DEF WakeOnSignal
  <2>2. /\ pc = "signals" /\ pc' = "peek" /\ UNCHANGED <<clock, now, history, returned>>
    BY <1>2 DEF WakeOnSignal
  <2>3. \A e \in Events' : now <= e.time /\ (e \in Events \/ e.time = now)
    BY <2>1, Times DEF Enqueue, ContinueAt, TimeInv
  <2> QED
    BY <2>2, <2>3, Times DEF TimeInv, TriggerInv, Pending
<1>3. CASE UnblockNow
  <2>1. pc = "now" /\ WakeOnCondition(clock)
    BY <1>3 DEF UnblockNow
  <2>2. \E m \in Pending : m.time = clock
    BY <2>1 DEF WakeOnCondition, Trigger
  <2>3. now = clock
    BY <2>2, Times DEF TimeInv
  <2> QED
    BY <2>1, <2>3, WakeConditionTimes, Times DEF TimeInv
<1>4. CASE NotUnblockedNow
  <2>1. /\ pc = "now" /\ pc' = "future" /\ UNCHANGED <<clock, now, Events, history>>
        /\ returned' = returned \cup {n \in Pending : n.time <= clock}
    BY <1>4 DEF NotUnblockedNow
  <2>2. \A n \in returned' : n.time <= now
    BY <2>1, Times DEF TimeInv, TriggerInv
  <2>3. \A n \in Pending' : n \in Pending /\ clock < n.time
    BY <2>1, Times DEF Pending
  <2>4. \A n \in returned', e \in Events : n.time <= e.time
    BY <2>1, <2>2, Times DEF TimeInv, Pending
  <2> QED
    BY <2>1, <2>2, <2>3, <2>4 DEF TimeInv, TriggerInv
<1>5. CASE UnblockLater
  <2>1. pc = "future" /\ \E t \in Time : WithinLimits(t) /\ WakeOnCondition(t)
    BY <1>5 DEF UnblockLater
  <2>2. PICK t \in Time : WithinLimits(t) /\ WakeOnCondition(t)
    BY <2>1
  <2>3. t \in Nat /\ clock < t /\ \A e \in Events : t <= e.time
    BY <2>2, Times, Constants DEF WithinLimits
  <2>4. \E m \in Pending : m.time = t
    BY <2>2 DEF WakeOnCondition, Trigger
  <2>5. clock <= t /\ now <= t
    BY <2>3, <2>4, Times DEF TimeInv
  <2> QED
    BY <2>1, <2>2, <2>3, <2>5, WakeConditionTimes
<1>6. CASE NotUnblocked
  <2>1. /\ pc = "future" /\ UNCHANGED <<clock, now, Events, history>>
        /\ returned' = returned \cup {n \in Pending : n.time <= clock \/ WithinLimits(n.time)}
        /\ pc' \in {"done", "advance"}
    BY <1>6 DEF NotUnblocked
  <2>2. \A n \in returned', e \in Events : n.time <= e.time
    <3>1. ASSUME NEW n \in Pending, n.time <= clock \/ WithinLimits(n.time), NEW e \in Events
          PROVE  n.time <= e.time
      BY <3>1, Times DEF WithinLimits, TimeInv
    <3> QED
      BY <2>1, <3>1 DEF TriggerInv
  <2>3. \A n \in Pending' : n \in Pending /\ clock < n.time /\ \E e \in Events : e.time <= n.time
    <3>1. SUFFICES ASSUME NEW n \in Pending, ~(n.time <= clock), ~WithinLimits(n.time)
                   PROVE  clock < n.time /\ \E e \in Events : e.time <= n.time
      BY <2>1 DEF Pending
    <3>2. n.time \in Nat /\ n.time \in Time
      BY Times DEF TypeInv, TypeOK, NodeType, Pending
    <3> QED
      BY <3>1, <3>2, Times DEF WithinLimits
  <2> QED
    BY <2>1, <2>2, <2>3 DEF TimeInv, TriggerInv
<1> QED
  BY <1>1, <1>2, <1>3, <1>4, <1>5, <1>6

TimesInv == TypeInv /\ TimeInv /\ TriggerInv

LEMMA NextTimes == TimesInv /\ [Next]_vars => TimesInv'
<1>1. TimeInv /\ TriggerInv /\ UNCHANGED vars => TimeInv' /\ TriggerInv'
  BY DEF TimeInv, TriggerInv, Pending, vars, queueVars, waitVars, resVars, signalVars
<1> QED
  BY <1>1, NextType, ExecuteTimes, ProcessTimes, UnlockTimes DEF TimesInv, Next, Terminated

ClockMoves ==
  \E e \in Events :
    /\ clock' = e.time /\ IsNextEvent(e)
    /\ pc = "advance" \/ (pc = "peek" /\ e.time <= clock)

\* Only processing an event moves the clock, and now moves ahead of it only when
\* a condition will hold before the next event.
LEMMA ClockStep ==
  [Next]_vars => clock' = clock \/ ClockMoves
<1> USE DEF waitVars, resVars, signalVars, queueVars
<1>1. Execute => clock' = clock
  BY DEF Execute, Use, SendSignal, WaitFor, WaitUntil, Finish
<1>2. DoneForNow \/ WakeOnSignal \/ NoSignalHeard \/ NotUnblockedNow \/ NotUnblocked => clock' = clock
  BY DEF DoneForNow, WakeOnSignal, NoSignalHeard, NotUnblockedNow, NotUnblocked
<1>3. UnblockNow \/ UnblockLater => clock' = clock
  BY DEF UnblockNow, UnblockLater, WakeOnCondition
<1>4. ProcessEvent => ClockMoves
  BY DEF ProcessEvent, ClockMoves
<1> QED
  BY <1>1, <1>2, <1>3, <1>4 DEF Next, Terminated, vars

LEMMA NowStep == TimesInv /\ [Next]_vars => now' >= now
<1> SUFFICES ASSUME TimesInv, [Next]_vars PROVE now' >= now
  OBVIOUS
<1> USE DEF waitVars, resVars, signalVars, queueVars
<1>1. now \in Nat /\ clock \in Nat /\ TimesInv'
  BY Times, NextTimes DEF TimesInv
<1>2. Execute => now' = now
  BY DEF Execute, Use, SendSignal, WaitFor, WaitUntil, Finish
<1>3. CASE DoneForNow \/ WakeOnSignal \/ NoSignalHeard \/ NotUnblockedNow \/ NotUnblocked
  BY <1>1, <1>3 DEF DoneForNow, WakeOnSignal, NoSignalHeard, NotUnblockedNow, NotUnblocked
<1>4. CASE ProcessEvent
  BY <1>1, <1>4, Times DEF ProcessEvent, TimesInv, TimeInv
<1>5. CASE UnblockNow \/ UnblockLater
  <2>1. PICK t \in Time : WakeOnCondition(t) /\ (t = clock \/ clock < t)
    BY <1>5 DEF UnblockNow, UnblockLater, WithinLimits, TimesInv, TypeInv, TypeOK
  <2>2. now' = t /\ \E m \in Pending : m.time = t
    BY <2>1 DEF WakeOnCondition, Trigger
  <2>3. t \in Nat
    BY Constants
  <2> QED
    BY <1>1, <2>1, <2>2, <2>3, Times DEF TimesInv, TimeInv
<1> QED
  BY <1>1, <1>2, <1>3, <1>4, <1>5 DEF Next, Terminated, vars

\* Neither the time of the last event nor now ever goes back: no statement
\* creates an event in the past, and a program is woken before the next event.
THEOREM TimeAdvances == Spec => TimeNeverGoesBack
<1>1. ASSUME TimesInv, [Next]_vars PROVE clock' >= clock /\ now' >= now
  <2>1. now' >= now
    BY <1>1, NowStep
  <2>2. clock \in Nat /\ \A e \in Events : e.time \in Nat /\ clock <= e.time
    BY <1>1, Times DEF TimesInv, TimeInv
  <2>3. clock' = clock \/ \E e \in Events : clock' = e.time
    BY <1>1, ClockStep DEF ClockMoves
  <2> QED
    BY <2>1, <2>2, <2>3
<1>2. TimesInv /\ [Next]_vars => [clock' >= clock /\ now' >= now]_vars
  BY <1>1
<1>3. Init => TimesInv
  BY InitTypeInv, InitTimes DEF TimesInv
<1> QED
  BY <1>2, <1>3, NextTimes, PTL DEF Spec, TimeNeverGoesBack

\* When time advances, the iterator over the potential triggers is in sync: no
\* node that could wake a program is skipped and none is read ahead of time.
THEOREM TriggersAreInSync == Spec => TriggersInSync
<1> DEFINE InSync == clock' > clock => /\ \A n \in Pending : n.time >= clock'
                                       /\ \A n \in returned : n.time <= clock'
<1>1. ASSUME TimesInv, [Next]_vars, clock' > clock
      PROVE  /\ \A n \in Pending : n.time >= clock'
             /\ \A n \in returned : n.time <= clock'
  <2>1. PICK e \in Events : /\ clock' = e.time /\ IsNextEvent(e)
                            /\ pc = "advance" \/ (pc = "peek" /\ e.time <= clock)
    <3>1. clock \in Nat /\ clock' # clock
      BY <1>1, Times DEF TimesInv
    <3> QED
      BY <1>1, <3>1, ClockStep DEF ClockMoves
  <2>2. pc = "advance" /\ e.time \in Nat
    BY <1>1, <2>1, Times DEF TimesInv
  <2>3. \A f \in Events : f.time \in Nat /\ e.time <= f.time
    BY <1>1, <2>1, NextIsEarliest, Times DEF TimesInv
  <2> QED
    BY <1>1, <2>1, <2>2, <2>3, Times DEF TimesInv, TriggerInv
<1>2. TimesInv /\ [Next]_vars => [InSync]_vars
  BY <1>1
<1>3. Init => TimesInv
  BY InitTypeInv, InitTimes DEF TimesInv
<1> QED
  BY <1>2, <1>3, NextTimes, PTL DEF Spec, TriggersInSync

-----------------------------------------------------------------------------
\* The cached matches are right, all signals were sent now, and those who heard
\* one have gone on before a condition is looked at or now runs ahead.
SignalInv ==
  /\ \A p \in recent_patterns : Matches[p] = p \cap SignalNames
  /\ \A s \in recent_signals : s.sent = clock
  /\ pc \in {"advance", "done"} => recent_signals = {}
  /\ \A w \in waitingOnSignal : w.crit.on \in {"signal", "regexp"}
  /\ \A w \in waitingOnCond : w.crit.on = "cond"
  /\ \A e \in Events : e.kind = "wait_until" => e.crit.on # "none"
  /\ pc \in {"now", "future"} \/ clock < now =>
       \A w \in waitingOnSignal : w.crit.of \cap SignalNames = {}
  /\ pc \notin {"peek", "run"} => \A e \in Events : clock < e.time
  /\ \A e \in Events : e.kind = "resume" /\ e.crit.on \in {"signal", "regexp"} =>
       e.time = clock /\ e.crit.of \cap SignalNames # {}

LEMMA CriterionKinds ==
  ASSUME NEW c \in Criterion
  PROVE  /\ c.on \in {"none", "signal", "regexp", "cond"}
         /\ c.on = "signal" => \E s \in Signal : c.of = {s}
         /\ c.on = "regexp" => c.of \in Pattern
<1>1. CASE c = NoCriterion
  BY <1>1 DEF NoCriterion
<1>2. CASE c \in [on : {"signal"}, of : {{s} : s \in Signal}, busy : {FALSE}]
  BY <1>2
<1>3. CASE c \in [on : {"regexp"}, of : Pattern, busy : {FALSE}]
  BY <1>3
<1>4. CASE c \in [on : {"cond"}, of : {{r} : r \in Resource}, busy : BOOLEAN]
  BY <1>4
<1> QED
  BY <1>1, <1>2, <1>3, <1>4 DEF Criterion

\* By name or by pattern, cached or not: a signal is heard that was sent.
LEMMA HeardMeans ==
  ASSUME TypeInv, SignalInv, NEW w \in waitingOnSignal
  PROVE  Heard(w.crit) <=> w.crit.of \cap SignalNames # {}
<1>1. w.crit \in Criterion /\ w.crit.on \in {"signal", "regexp"}
  BY DEF TypeInv, TypeOK, WaiterType, SignalInv
<1>2. CASE w.crit.on = "signal"
  <2>1. PICK s \in Signal : w.crit.of = {s}
    BY <1>1, <1>2, CriterionKinds
  <2>2. Heard(w.crit) <=> w.crit.of \subseteq SignalNames
    BY <1>2 DEF Heard
  <2> QED
    BY <2>1, <2>2
<1>3. CASE w.crit.on = "regexp"
  <2>1. Heard(w.crit) <=> IF w.crit.of \in recent_patterns THEN Matches[w.crit.of] # {}
                          ELSE w.crit.of \cap SignalNames # {}
    BY <1>3 DEF Heard
  <2>2. w.crit.of \in recent_patterns => Matches[w.crit.of] = w.crit.of \cap SignalNames
    BY DEF SignalInv
  <2> QED
    BY <2>1, <2>2
<1> QED
  BY <1>1, <1>2, <1>3

LEMMA CacheIsRight ==
  ASSUME TypeInv, SignalInv, NEW S \in SUBSET WaiterType, CachePatterns(S)
  PROVE  \A p \in recent_patterns' : Matches'[p] = p \cap SignalNames
<1> DEFINE met == {w.crit.of : w \in {v \in S : v.crit.on = "regexp"}} \ recent_patterns
<1>1. \A w \in S : w.crit \in Criterion
  BY DEF WaiterType
<1>2. met \subseteq Pattern
  BY <1>1, CriterionFields
<1>3. recent_patterns \subseteq Pattern /\ \A p \in recent_patterns : Matches[p] = p \cap SignalNames
  BY DEF TypeInv, TypeOK, SignalInv
<1>4. /\ recent_patterns' = recent_patterns \cup met
      /\ Matches' = [p \in Pattern |-> IF p \in met THEN p \cap SignalNames ELSE Matches[p]]
  BY DEF CachePatterns
<1> HIDE DEF met
<1> QED
  BY <1>2, <1>3, <1>4

LEMMA InitSignals == Init => SignalInv
<1> SUFFICES ASSUME Init PROVE SignalInv
  OBVIOUS
<1>1. ASSUME NEW e \in Events PROVE e.kind = "resume" /\ e.crit.on = "none"
  <2>1. PICK start \in [Program -> Time] :
          Events = {[id |-> p, kind |-> "resume", who |-> p, time |-> start[p], end |-> start[p],
                     crit |-> NoCriterion, queue |-> Expansion] : p \in Program}
    BY DEF Init
  <2> QED
    BY <2>1 DEF NoCriterion
<1>2. /\ pc = "peek" /\ clock = 0 /\ now = 0
      /\ waitingOnSignal = {} /\ waitingOnCond = {}
      /\ recent_signals = {} /\ recent_patterns = {}
  BY DEF Init
<1> QED
  BY <1>1, <1>2 DEF SignalInv

\* What a statement adds to the queues lets no program go on because of a signal
\* or a condition.
LEMMA ExecuteAdds ==
  ASSUME TypeInv, Execute, NEW e \in Events' \ Events
  PROVE  /\ e.kind = "resume" => e.crit.on = "none"
         /\ e.kind = "wait_until" => e.crit.on # "none"
<1>1. ASSUME NEW r \in Resource, Use(r) PROVE e.kind = "use"
  BY <1>1 DEF Use, Schedule, Enqueue, Usage
<1>2. ASSUME NEW s \in Signal, SendSignal(s) PROVE e.kind = "signal"
  BY <1>2 DEF SendSignal, Schedule, Enqueue, Usage
<1>3. CASE WaitFor
  BY <1>3 DEF WaitFor, Schedule, Enqueue, ContinueAt, NoCriterion
<1>4. CASE WaitUntil
  <2>1. PICK crit \in Criterion \ {NoCriterion} :
          Schedule(ContinueAt(NewID, "wait_until", running, now, crit))
    BY <1>4 DEF WaitUntil
  <2>2. crit.on # "none"
    BY CriterionKinds DEF Criterion, NoCriterion
  <2> QED
    BY <2>1, <2>2 DEF Schedule, Enqueue, ContinueAt
<1>5. CASE Finish
  BY <1>5 DEF Finish, queueVars
<1> QED
  BY <1>1, <1>2, <1>3, <1>4, <1>5 DEF Execute

LEMMA ExecuteFrame ==
  Execute => /\ pc = "run" /\ pc' \in {"run", "peek"}
             /\ Events \subseteq Events'
             /\ UNCHANGED <<clock, now, waitVars, resVars, signalVars>>
  BY DEF Execute, Use, SendSignal, WaitFor, WaitUntil, Finish, Schedule, Enqueue, queueVars

LEMMA ExecuteSignals == TypeInv /\ TimeInv /\ SignalInv /\ Execute => SignalInv'
<1> SUFFICES ASSUME TypeInv, TimeInv, SignalInv, Execute PROVE SignalInv'
  OBVIOUS
<1> USE ExecuteFrame DEF waitVars, resVars, signalVars
<1>1. SignalNames' = SignalNames
  BY DEF SignalNames
<1>2. ~(clock < now) /\ clock' = clock /\ now' = now
  BY Times DEF TimeInv
<1>3. \A e \in Events' : e \in Events \/ /\ e.kind = "resume" => e.crit.on = "none"
                                         /\ e.kind = "wait_until" => e.crit.on # "none"
  BY ExecuteAdds
<1> QED
  BY <1>1, <1>2, <1>3 DEF SignalInv

\* first_time_waiting_for_signal_or_condition has three outcomes.
LEMMA WaitUntilOutcome ==
  ASSUME NEW e, WaitUntilEvent(e)
  PROVE  /\ UNCHANGED <<resVars, signalVars>> /\ e.kind = "wait_until"
         /\ \/ e.crit.on = "cond" /\ pc' = "run" /\ running' = e.who /\ UNCHANGED waitVars
            \/ /\ e.crit.on = "cond" /\ pc' = "peek" /\ running' = running
               /\ waitingOnCond' = waitingOnCond \cup {Waiter(e)}
               /\ waitingOnSignal' = waitingOnSignal
            \/ /\ e.crit.on # "cond" /\ pc' = "peek" /\ running' = running
               /\ waitingOnSignal' = waitingOnSignal \cup {Waiter(e)}
               /\ waitingOnCond' = waitingOnCond
<1>1. CASE e.crit.on = "cond" /\ Holds(e.crit, e.time)
  BY <1>1 DEF WaitUntilEvent
<1>2. CASE e.crit.on = "cond" /\ ~Holds(e.crit, e.time)
  BY <1>2 DEF WaitUntilEvent
<1>3. CASE e.crit.on # "cond"
  BY <1>3 DEF WaitUntilEvent
<1> QED
  BY <1>1, <1>2, <1>3

\* The only waiter an event adds is its own.
LEMMA WaitersAfter ==
  ASSUME NEW e, UseEvent(e) \/ ResumeEvent(e) \/ WaitUntilEvent(e)
  PROVE  /\ \A w \in waitingOnSignal' : \/ w \in waitingOnSignal
                                       \/ (w = Waiter(e) /\ e.crit.on # "cond" /\ e.kind = "wait_until")
         /\ \A w \in waitingOnCond' : w \in waitingOnCond \/ (w = Waiter(e) /\ e.crit.on = "cond")
<1>1. CASE UseEvent(e) \/ ResumeEvent(e)
  <2>1. waitingOnSignal' = waitingOnSignal /\ waitingOnCond' = waitingOnCond
    BY <1>1 DEF UseEvent, ResumeEvent, waitVars
  <2> QED
    BY <2>1
<1>2. CASE WaitUntilEvent(e)
  <2>1. /\ \/ waitingOnSignal' = waitingOnSignal
           \/ /\ waitingOnSignal' = waitingOnSignal \cup {Waiter(e)}
              /\ e.crit.on # "cond" /\ e.kind = "wait_until"
        /\ \/ waitingOnCond' = waitingOnCond
           \/ waitingOnCond' = waitingOnCond \cup {Waiter(e)} /\ e.crit.on = "cond"
    BY <1>2, WaitUntilOutcome DEF waitVars
  <2> QED
    BY <2>1
<1> QED
  BY <1>1, <1>2

LEMMA ProcessSignals ==
  TypeInv /\ TimeInv /\ SignalInv /\ ProcessEvent => SignalInv'
<1> SUFFICES ASSUME TypeInv, TimeInv, SignalInv,
                    NEW e \in Events, IsNextEvent(e),
                    pc = "advance" \/ (pc = "peek" /\ e.time <= clock),
                    Events' = Events \ {e}, clock' = e.time, now' = e.time,
                    UseEvent(e) \/ SignalEvent(e) \/ ResumeEvent(e) \/ WaitUntilEvent(e)
             PROVE  SignalInv'
  BY DEF ProcessEvent
<1>1. /\ e \in EventType /\ WellFormed(e)
      /\ e.time \in Time /\ e.crit \in Criterion /\ e.crit.on \in {"none", "signal", "regexp", "cond"}
  BY EventFields, CriterionKinds DEF TypeInv, TypeOK
<1>2. /\ pc' \in {"peek", "run"} /\ ~(clock' < now')
      /\ \A f \in Events' : f \in Events
  <2>1. pc' \in {"peek", "run"}
    BY WaitUntilOutcome DEF UseEvent, SignalEvent, ResumeEvent
  <2>2. e.time \in Nat
    BY Times
  <2> QED
    BY <2>1, <2>2
<1>3. \* no signal is left when time advances, and no program that heard one
      /\ recent_signals # {} => clock' = clock
      /\ \A f \in Events : f.kind = "resume" /\ f.crit.on \in {"signal", "regexp"} => f.time = clock'
  <2>1. CASE pc = "advance"
    <3>1. \A f \in Events : f.time # clock
      BY <2>1, Times DEF SignalInv
    <3> QED
      BY <2>1, <3>1 DEF SignalInv
  <2>2. CASE pc = "peek" /\ e.time <= clock
    <3>1. e.time = clock
      BY <2>2, Times DEF TimeInv
    <3> QED
      BY <3>1 DEF SignalInv
  <2> QED
    BY <2>1, <2>2
<1>4. CASE SignalEvent(e)
  <2>1. /\ recent_signals' =
             recent_signals \cup {[name |-> s, sent |-> e.time] : s \in e.crit.of \ SignalNames}
        /\ Matches' = [p \in Pattern |-> IF p \in recent_patterns
                                           THEN Matches[p] \cup (e.crit.of \cap p)
                                           ELSE Matches[p]]
        /\ UNCHANGED <<waitingOnSignal, waitingOnCond, recent_patterns>>
    BY <1>4 DEF SignalEvent, waitVars
  <2>2. SignalNames' = SignalNames \cup e.crit.of
    <3>1. ASSUME NEW n \in e.crit.of \ SignalNames PROVE n \in SignalNames'
      <4>1. [name |-> n, sent |-> e.time] \in recent_signals'
        BY <2>1, <3>1
      <4> QED
        BY <4>1 DEF SignalNames
    <3>2. SignalNames \subseteq SignalNames'
      BY <2>1 DEF SignalNames
    <3>3. \A s \in recent_signals' : s \in recent_signals \/ s.name \in e.crit.of
      BY <2>1
    <3>4. SignalNames' \subseteq SignalNames \cup e.crit.of
      BY <3>3 DEF SignalNames
    <3> QED
      BY <3>1, <3>2, <3>4
  <2>3. \A p \in recent_patterns' : Matches'[p] = p \cap SignalNames'
    BY <2>1, <2>2 DEF SignalInv, TypeInv, TypeOK
  <2>4. \A s \in recent_signals' : s.sent = clock'
    BY <1>3, <2>1 DEF SignalInv
  <2>5. \A f \in Events' : f.kind = "resume" /\ f.crit.on \in {"signal", "regexp"} =>
          f.time = clock' /\ f.crit.of \cap SignalNames' # {}
    BY <1>2, <1>3, <2>2 DEF SignalInv
  <2> QED
    BY <1>2, <2>1, <2>3, <2>4, <2>5 DEF SignalInv
<1>5. CASE UseEvent(e) \/ ResumeEvent(e) \/ WaitUntilEvent(e)
  <2>1. UNCHANGED <<recent_signals, recent_patterns, Matches>>
    BY <1>5, WaitUntilOutcome DEF UseEvent, ResumeEvent, signalVars
  <2>2. SignalNames' = SignalNames
    BY <2>1 DEF SignalNames
  <2>3. \A w \in waitingOnSignal' : w.crit.on \in {"signal", "regexp"}
    <3>1. e.kind = "wait_until" => e.crit.on # "none"
      BY DEF SignalInv
    <3>2. \A w \in waitingOnSignal' : \/ w \in waitingOnSignal
                                       \/ (w = Waiter(e) /\ e.crit.on # "cond" /\ e.kind = "wait_until")
      BY <1>5, WaitersAfter
    <3> QED
      BY <1>1, <3>1, <3>2 DEF Waiter, SignalInv
  <2>4. \A w \in waitingOnCond' : w.crit.on = "cond"
    <3>1. \A w \in waitingOnCond' : w \in waitingOnCond \/ (w = Waiter(e) /\ e.crit.on = "cond")
      BY <1>5, WaitersAfter
    <3> QED
      BY <3>1 DEF Waiter, SignalInv
  <2>5. \A s \in recent_signals' : s.sent = clock'
    BY <1>3, <2>1 DEF SignalInv
  <2>6. \A f \in Events' : f.kind = "resume" /\ f.crit.on \in {"signal", "regexp"} =>
          f.time = clock' /\ f.crit.of \cap SignalNames' # {}
    BY <1>2, <1>3, <2>2 DEF SignalInv
  <2> QED
    BY <1>2, <2>1, <2>2, <2>3, <2>4, <2>5, <2>6 DEF SignalInv
<1> QED
  BY <1>4, <1>5

\* A condition that is found true while now is ahead of the clock was found true
\* at the clock's time before: no such program is woken now.
LEMMA UnblockAtClock ==
  ASSUME TypeInv, TimeInv, UnblockNow
  PROVE  now = clock
<1>1. \E m \in Pending : m.time = clock
  BY DEF UnblockNow, WakeOnCondition, Trigger
<1> QED
  BY <1>1, Times DEF TimeInv

LEMMA EnqueueContinue ==
  ASSUME NEW k, NEW p, NEW t, NEW c, Enqueue(ContinueAt(NewID, k, p, t, c))
  PROVE  /\ Events' = Events \cup {ContinueAt(NewID, k, p, t, c)}
         /\ \A f \in Events' : \/ f \in Events
                               \/ /\ f = ContinueAt(NewID, k, p, t, c)
                                  /\ f.kind = k /\ f.who = p /\ f.time = t /\ f.crit = c
<1>1. PICK e : e = ContinueAt(NewID, k, p, t, c)
  OBVIOUS
<1>2. e.kind = k /\ e.who = p /\ e.time = t /\ e.crit = c
  BY <1>1 DEF ContinueAt
<1>3. Events' = Events \cup {e}
  BY <1>1 DEF Enqueue
<1> QED
  BY <1>1, <1>2, <1>3

LEMMA WakeConditionSignals ==
  ASSUME TypeInv, SignalInv, pc \in {"now", "future"}, NEW t, WakeOnCondition(t)
  PROVE  SignalInv'
<1>1. PICK m \in Pending, w \in waitingOnCond :
        /\ waitingOnCond' = waitingOnCond \ {w}
        /\ now' = t
        /\ Enqueue(ContinueAt(NewID, "resume", w.who, t, w.crit))
        /\ pc' = "peek"
        /\ UNCHANGED <<clock, waitingOnSignal, signalVars>>
  BY DEF WakeOnCondition
<1>2. w.crit.on = "cond"
  BY DEF SignalInv
<1>3. \A f \in Events' : f \in Events \/ (f.kind = "resume" /\ f.crit.on = "cond")
  BY <1>1, <1>2, EnqueueContinue
<1>4. SignalNames' = SignalNames /\ UNCHANGED <<recent_signals, recent_patterns, Matches>>
  BY <1>1 DEF SignalNames, signalVars
<1> QED
  BY <1>1, <1>3, <1>4 DEF SignalInv

LEMMA UnlockSignals ==
  ASSUME TypeInv, TimeInv, SignalInv,
         \/ DoneForNow \/ WakeOnSignal \/ NoSignalHeard \/ UnblockNow
         \/ NotUnblockedNow \/ UnblockLater \/ NotUnblocked
  PROVE  SignalInv'
<1>1. CASE DoneForNow
  <2>1. /\ pc = "peek" /\ pc' = "signals" /\ \A e \in Events : e.time > clock
        /\ UNCHANGED <<clock, now, Events, waitingOnSignal, waitingOnCond, recent_signals,
                       recent_patterns, Matches>>
    BY <1>1 DEF DoneForNow, queueVars, waitVars, signalVars
  <2>2. \A e \in Events : clock < e.time
    BY <2>1, Times
  <2>3. SignalNames' = SignalNames
    BY <2>1 DEF SignalNames
  <2> QED
    BY <2>1, <2>2, <2>3 DEF SignalInv
<1>2. CASE WakeOnSignal
  <2>1. PICK w \in waitingOnSignal :
          /\ Heard(w.crit)
          /\ CachePatterns({v \in waitingOnSignal : v.id <= w.id})
          /\ waitingOnSignal' = waitingOnSignal \ {w}
          /\ Enqueue(ContinueAt(NewID, "resume", w.who, now, w.crit))
    BY <1>2 DEF WakeOnSignal
  <2>2. /\ pc = "signals" /\ pc' = "peek" /\ UNCHANGED <<clock, now, waitingOnCond, recent_signals>>
    BY <1>2 DEF WakeOnSignal
  <2>3. SignalNames' = SignalNames
    BY <2>2 DEF SignalNames
  <2>4. \A p \in recent_patterns' : Matches'[p] = p \cap SignalNames'
    BY <2>1, <2>3, CacheIsRight DEF TypeInv, TypeOK
  <2>5. w.crit.of \cap SignalNames # {}
    BY <2>1, HeardMeans
  <2>6. now = clock
    BY <2>5, Times DEF SignalInv, TimeInv
  <2>7. \A f \in Events' : f \in Events \/ (f.kind = "resume" /\ f.crit = w.crit /\ f.time = clock)
    BY <2>1, <2>6, EnqueueContinue
  <2>8. ~(clock' < now')
    BY <2>2, <2>6, Times
  <2> QED
    BY <2>1, <2>2, <2>3, <2>4, <2>5, <2>7, <2>8 DEF SignalInv
<1>3. CASE NoSignalHeard
  <2>1. /\ pc = "signals" /\ pc' = "now"
        /\ recent_signals = {} \/ \A w \in waitingOnSignal : ~Heard(w.crit)
        /\ UNCHANGED <<clock, now, Events, waitingOnSignal, waitingOnCond, recent_signals>>
    BY <1>3 DEF NoSignalHeard, queueVars, waitVars
  <2>2. SignalNames' = SignalNames
    BY <2>1 DEF SignalNames
  <2>3. \A w \in waitingOnSignal : w.crit.of \cap SignalNames = {}
    <3>1. recent_signals = {} => SignalNames = {}
      BY DEF SignalNames
    <3> QED
      BY <2>1, <3>1, HeardMeans
  <2>4. \A p \in recent_patterns' : Matches'[p] = p \cap SignalNames'
    <3>1. CASE recent_signals = {}
      BY <1>3, <2>2, <3>1 DEF NoSignalHeard, SignalInv
    <3>2. CASE recent_signals # {}
      BY <1>3, <2>2, <3>2, CacheIsRight DEF NoSignalHeard, TypeInv, TypeOK
    <3> QED
      BY <3>1, <3>2
  <2> QED
    BY <2>1, <2>2, <2>3, <2>4 DEF SignalInv
<1>4. CASE UnblockNow
  BY <1>4, WakeConditionSignals DEF UnblockNow
<1>5. CASE NotUnblockedNow
  <2>1. /\ pc = "now" /\ pc' = "future"
        /\ UNCHANGED <<clock, now, Events, waitingOnSignal, waitingOnCond, recent_signals,
                       recent_patterns, Matches>>
    BY <1>5 DEF NotUnblockedNow, queueVars, waitVars, signalVars
  <2>2. SignalNames' = SignalNames
    BY <2>1 DEF SignalNames
  <2> QED
    BY <2>1, <2>2 DEF SignalInv
<1>6. CASE UnblockLater
  BY <1>6, WakeConditionSignals DEF UnblockLater
<1>7. CASE NotUnblocked
  <2>1. /\ pc = "future" /\ pc' \in {"done", "advance"}
        /\ recent_signals' = {} /\ Matches' = [p \in Pattern |-> {}]
        /\ recent_patterns' \subseteq recent_patterns
        /\ UNCHANGED <<clock, now, Events, waitingOnSignal, waitingOnCond>>
    BY <1>7 DEF NotUnblocked, ClearSignals, queueVars, waitVars
  <2>2. SignalNames' = {}
    BY <2>1 DEF SignalNames
  <2>3. \A p \in recent_patterns' : Matches'[p] = p \cap SignalNames'
    BY <2>1, <2>2 DEF TypeInv, TypeOK
  <2>4. \A e \in Events : e.time # clock
    BY <2>1, Times DEF SignalInv
  <2> QED
    BY <2>1, <2>2, <2>3, <2>4 DEF SignalInv
<1> QED
  BY <1>1, <1>2, <1>3, <1>4, <1>5, <1>6, <1>7

SignalsInv == TimesInv /\ SignalInv

LEMMA NextSignals == SignalsInv /\ [Next]_vars => SignalsInv'
<1>1. SignalInv /\ UNCHANGED vars => SignalInv'
  BY DEF SignalInv, SignalNames, vars, queueVars, waitVars, signalVars
<1> QED
  BY <1>1, NextTimes, ExecuteSignals, ProcessSignals, UnlockSignals
     DEF SignalsInv, TimesInv, Next, Terminated

LEMMA InitSignalsInv == Init => SignalsInv
  BY InitTypeInv, InitTimes, InitSignals DEF SignalsInv, TimesInv

\* A signal is known, and wakes programs, only at the time it was sent, whatever
\* conditions make now run ahead of the queue and whichever matches are cached.
THEOREM SignalsDoNotLast == Spec => []SignalsAreMomentary
<1>1. SignalInv => SignalsAreMomentary
  <2> SUFFICES ASSUME SignalInv, NEW e \in Events, e.kind = "resume",
                      e.crit.on \in {"signal", "regexp"}
               PROVE  \E s \in recent_signals : s.name \in e.crit.of /\ s.sent = e.time
    BY DEF SignalsAreMomentary, SignalInv
  <2>1. PICK n \in SignalNames : n \in e.crit.of
    BY DEF SignalInv
  <2>2. PICK s \in recent_signals : s.name = n
    BY <2>1 DEF SignalNames
  <2> QED
    BY <2>1, <2>2 DEF SignalInv
<1> QED
  BY <1>1, InitSignalsInv, NextSignals, PTL DEF Spec, SignalsInv

\* No signal is cleared that a waiting program wanted.
THEOREM SignalsAreHeard == Spec => NoSignalMissed
<1> DEFINE Heeded == \A s \in recent_signals \ recent_signals' :
                       \A w \in waitingOnSignal' : s.name \notin w.crit.of
<1>1. ASSUME SignalsInv, [Next]_vars PROVE Heeded
  <2>1. CASE NotUnblocked
    <3>1. pc = "future" /\ waitingOnSignal' = waitingOnSignal
      BY <2>1 DEF NotUnblocked, waitVars
    <3>2. \A s \in recent_signals : s.name \in SignalNames
      BY DEF SignalNames
    <3> QED
      BY <1>1, <3>1, <3>2 DEF SignalsInv, SignalInv
  <2>2. CASE \/ Execute \/ DoneForNow \/ WakeOnSignal \/ NoSignalHeard \/ UnblockNow
             \/ NotUnblockedNow \/ UnblockLater \/ UNCHANGED vars
    <3>1. recent_signals' = recent_signals
      BY <2>2, ExecuteFrame
         DEF DoneForNow, WakeOnSignal, NoSignalHeard, UnblockNow, NotUnblockedNow, UnblockLater,
             WakeOnCondition, vars, signalVars
    <3> QED
      BY <3>1
  <2>3. CASE ProcessEvent
    <3>1. recent_signals \subseteq recent_signals'
      BY <2>3, WaitUntilOutcome DEF ProcessEvent, UseEvent, SignalEvent, ResumeEvent, signalVars
    <3> QED
      BY <3>1
  <2> QED
    BY <1>1, <2>1, <2>2, <2>3 DEF Next, Terminated
<1>2. SignalsInv /\ [Next]_vars => [Heeded]_vars
  BY <1>1
<1> QED
  BY <1>2, InitSignalsInv, NextSignals, PTL DEF Spec, NoSignalMissed

-----------------------------------------------------------------------------
\* A program woken because a condition holds is the only one, and nothing but its
\* continuation can happen before it goes on.
ConditionWakes(e) == e.kind = "resume" /\ e.crit.on = "cond"

ConditionInv ==
  \A e \in Events :
    ConditionWakes(e) =>
      /\ Holds(e.crit, e.time)
      /\ e.time = now
      /\ pc # "run"
      /\ \A f \in Events : f = e \/ e.time < f.time

LEMMA SameHistory ==
  ASSUME history' = history, NEW crit, NEW t
  PROVE  Holds(crit, t)' <=> Holds(crit, t)
<1>1. ASSUME NEW r, NEW delta PROVE Level(r, t, delta)' = Level(r, t, delta)
  BY DEF Level
<1> QED
  BY <1>1 DEF Holds, InUse

\* A step after which no new program is woken by a condition, and which leaves
\* alone what the condition depends on.
LEMMA ConditionStays ==
  ASSUME ConditionInv, Events' = Events, now' = now, history' = history, pc' # "run"
  PROVE  ConditionInv'
<1> SUFFICES ASSUME NEW e \in Events', ConditionWakes(e)
             PROVE  /\ Holds(e.crit, e.time)'
                    /\ e.time = now'
                    /\ \A f \in Events' : f = e \/ e.time < f.time
  BY DEF ConditionInv, ConditionWakes
<1> QED
  BY SameHistory DEF ConditionInv

LEMMA ExecuteConditions == TypeInv /\ ConditionInv /\ Execute => ConditionInv'
<1> SUFFICES ASSUME TypeInv, ConditionInv, Execute, NEW e \in Events' PROVE ~ConditionWakes(e)
  BY DEF ConditionInv, ConditionWakes
<1>1. CASE e \in Events
  BY <1>1, ExecuteFrame DEF ConditionInv
<1>2. CASE e \notin Events
  BY <1>2, ExecuteAdds DEF ConditionWakes
<1> QED
  BY <1>1, <1>2

\* The next event is the program that was woken, if one was.
LEMMA ProcessConditions == TypeInv /\ ConditionInv /\ ProcessEvent => ConditionInv'
<1> SUFFICES ASSUME TypeInv, ConditionInv, NEW e \in Events, IsNextEvent(e), Events' = Events \ {e},
                    NEW f \in Events', ConditionWakes(f)
             PROVE  FALSE
  BY DEF ProcessEvent, ConditionInv, ConditionWakes
<1>1. f \in Events /\ f # e
  OBVIOUS
<1>2. f.time < e.time
  BY <1>1 DEF ConditionInv
<1>3. e.time <= f.time /\ e.time \in Nat /\ f.time \in Nat
  BY <1>1, NextIsEarliest, Times
<1> QED
  BY <1>2, <1>3

LEMMA WakeConditions ==
  ASSUME NEW t, \A e \in Events : ~ConditionWakes(e) /\ t < e.time, WakeOnCondition(t)
  PROVE  ConditionInv'
<1>1. PICK w \in waitingOnCond :
        /\ Holds(w.crit, t)
        /\ now' = t
        /\ Enqueue(ContinueAt(NewID, "resume", w.who, t, w.crit))
        /\ pc' = "peek"
        /\ history' = history
  BY DEF WakeOnCondition, FirstInLine
<1>2. PICK c : c = ContinueAt(NewID, "resume", w.who, t, w.crit)
  OBVIOUS
<1>3. Events' = Events \cup {c} /\ c.time = t /\ c.crit = w.crit
  BY <1>1, <1>2, EnqueueContinue DEF ContinueAt
<1>4. Holds(c.crit, c.time)'
  BY <1>1, <1>3, SameHistory
<1>5. \A f \in Events' : f = c \/ t < f.time
  BY <1>3
<1> QED
  BY <1>1, <1>3, <1>4, <1>5 DEF ConditionInv

LEMMA UnlockConditions ==
  ASSUME SignalsInv, ConditionInv,
         \/ DoneForNow \/ WakeOnSignal \/ NoSignalHeard \/ UnblockNow
         \/ NotUnblockedNow \/ UnblockLater \/ NotUnblocked
  PROVE  ConditionInv'
<1> USE DEF SignalsInv, TimesInv
<1>1. CASE DoneForNow \/ NoSignalHeard \/ NotUnblockedNow \/ NotUnblocked
  <2>1. Events' = Events /\ now' = now /\ history' = history /\ pc' # "run"
    BY <1>1 DEF DoneForNow, NoSignalHeard, NotUnblockedNow, NotUnblocked, queueVars, resVars
  <2> QED
    BY <2>1, ConditionStays
<1>2. \* a program is woken only when the one woken before has gone on
      ASSUME pc \in {"signals", "now", "future"}, now = clock, NEW e \in Events
      PROVE  ~ConditionWakes(e)
  <2>1. clock < e.time /\ clock \in Nat /\ e.time \in Nat
    BY <1>2, Times DEF SignalInv
  <2> QED
    BY <1>2, <2>1 DEF ConditionInv
<1>3. CASE WakeOnSignal
  <2>1. PICK w \in waitingOnSignal :
          Heard(w.crit) /\ Enqueue(ContinueAt(NewID, "resume", w.who, now, w.crit))
    BY <1>3 DEF WakeOnSignal
  <2>2. pc = "signals" /\ w.crit.of \cap SignalNames # {}
    BY <1>3, <2>1, HeardMeans DEF WakeOnSignal
  <2>3. now = clock
    BY <2>2, Times DEF SignalInv, TimeInv
  <2>4. w.crit.on # "cond"
    BY DEF SignalInv
  <2>5. \A f \in Events' : ~ConditionWakes(f)
    BY <1>2, <2>1, <2>2, <2>3, <2>4, EnqueueContinue DEF ConditionWakes
  <2> QED
    BY <2>5 DEF ConditionInv, ConditionWakes
<1>4. CASE UnblockNow
  <2>1. pc = "now" /\ now = clock /\ WakeOnCondition(clock)
    BY <1>4, UnblockAtClock DEF UnblockNow
  <2>2. \A e \in Events : clock < e.time
    BY <2>1 DEF SignalInv
  <2> QED
    BY <1>2, <2>1, <2>2, WakeConditions
<1>5. CASE UnblockLater
  <2>1. PICK t \in Time : WithinLimits(t) /\ WakeOnCondition(t)
    BY <1>5 DEF UnblockLater
  <2>2. pc = "future" /\ now' = t
    BY <1>5, <2>1 DEF UnblockLater, WakeOnCondition
  <2>3. now' >= now
    BY <1>5, NowStep DEF Next
  <2>4. ASSUME NEW e \in Events PROVE ~ConditionWakes(e) /\ t < e.time
    <3>1. t < e.time
      BY <2>1 DEF WithinLimits
    <3>2. e.time # now
      BY <2>2, <2>3, <3>1, Times, Constants
    <3> QED
      BY <3>1, <3>2 DEF ConditionInv
  <2> QED
    BY <2>1, <2>4, WakeConditions
<1> QED
  BY <1>1, <1>3, <1>4, <1>5

ConditionsInv == SignalsInv /\ ConditionInv

LEMMA NextConditions == ConditionsInv /\ [Next]_vars => ConditionsInv'
<1>1. ConditionInv /\ UNCHANGED vars => ConditionInv'
  <2> SUFFICES ASSUME ConditionInv, UNCHANGED vars PROVE ConditionInv'
    OBVIOUS
  <2>1. Events' = Events /\ now' = now /\ history' = history /\ pc' = pc
    BY DEF vars, queueVars, resVars
  <2>2. CASE pc = "run"
    BY <2>1, <2>2 DEF ConditionInv, ConditionWakes
  <2> QED
    BY <2>1, <2>2, ConditionStays
<1> QED
  BY <1>1, NextSignals, ExecuteConditions, ProcessConditions, UnlockConditions
     DEF ConditionsInv, SignalsInv, TimesInv, Next, Terminated

\* A program that waited for a condition goes on at a time at which the condition
\* holds whatever the events, signals and conditions of that time do before it.
THEOREM ConditionsHoldOnWakeUp == Spec => []WokenOnTrueCondition
<1>1. ConditionInv => WokenOnTrueCondition
  BY DEF ConditionInv, ConditionWakes, WokenOnTrueCondition
<1>2. Init => ConditionInv
  <2> SUFFICES ASSUME Init, NEW e \in Events PROVE ~ConditionWakes(e)
    BY DEF ConditionInv, ConditionWakes
  <2>1. PICK start \in [Program -> Time] :
          Events = {[id |-> p, kind |-> "resume", who |-> p, time |-> start[p], end |-> start[p],
                     crit |-> NoCriterion, queue |-> Expansion] : p \in Program}
    BY DEF Init
  <2>2. e.crit = NoCriterion
    BY <2>1
  <2> QED
    BY <2>2 DEF ConditionWakes, NoCriterion
<1> QED
  BY <1>1, <1>2, InitSignalsInv, NextConditions, PTL DEF Spec, ConditionsInv

-----------------------------------------------------------------------------
\* Where the stack of a program is.
InOnePlace(p) ==
  /\ \A e, f \in Continuations(p) : e = f
  /\ \A v, w \in Waits(p) : v = w
  /\ \/ Continuations(p) # {} /\ Waits(p) = {} /\ running # p /\ p \notin finished
     \/ Continuations(p) = {} /\ Waits(p) # {} /\ running # p /\ p \notin finished
     \/ Continuations(p) = {} /\ Waits(p) = {} /\ (running = p <=> p \notin finished)

StackInv == \A p \in Program : InOnePlace(p)

LEMMA StackStays ==
  ASSUME NEW p \in Program, InOnePlace(p),
         Continuations(p)' = Continuations(p), Waits(p)' = Waits(p),
         running' = p <=> running = p, p \in finished' <=> p \in finished
  PROVE  InOnePlace(p)'
  BY DEF InOnePlace

LEMMA SameWaits ==
  ASSUME waitingOnSignal' = waitingOnSignal, waitingOnCond' = waitingOnCond, NEW p
  PROVE  Waits(p)' = Waits(p)
  BY DEF Waits

LEMMA SameContinuations ==
  ASSUME Events' = Events, NEW p
  PROVE  Continuations(p)' = Continuations(p)
  BY DEF Continuations

LEMMA AddedContinuation ==
  ASSUME NEW e, Events' = Events \cup {e}, NEW p
  PROVE  /\ e.kind \in {"resume", "wait_until"} /\ e.who = p =>
              Continuations(p)' = Continuations(p) \cup {e}
         /\ ~(e.kind \in {"resume", "wait_until"} /\ e.who = p) =>
              Continuations(p)' = Continuations(p)
  BY DEF Continuations

LEMMA RemovedContinuation ==
  ASSUME NEW e \in Events, Events' = Events \ {e}, NEW p
  PROVE  /\ e.kind \in {"resume", "wait_until"} /\ e.who = p =>
              /\ e \in Continuations(p)
              /\ Continuations(p)' = Continuations(p) \ {e}
         /\ ~(e.kind \in {"resume", "wait_until"} /\ e.who = p) =>
              Continuations(p)' = Continuations(p)
  BY DEF Continuations

LEMMA ExecuteStacks == TypeInv /\ StackInv /\ Execute => StackInv'
<1> SUFFICES ASSUME TypeInv, StackInv, Execute, NEW p \in Program PROVE InOnePlace(p)'
  BY DEF StackInv
<1>1. /\ running \in Program /\ p # 0 /\ InOnePlace(p)
      /\ Waits(p)' = Waits(p)
  <2>1. pc = "run" /\ waitingOnSignal' = waitingOnSignal /\ waitingOnCond' = waitingOnCond
    BY ExecuteFrame DEF waitVars
  <2> QED
    BY <2>1, SameWaits, Constants DEF TypeInv, TypeOK, StackInv
<1>2. ASSUME NEW e, Events' = Events \cup {e}, e.kind \in {"use", "signal"},
             running' = running, finished' = finished
      PROVE  InOnePlace(p)'
  <2>1. Continuations(p)' = Continuations(p)
    BY <1>2, AddedContinuation
  <2> QED
    BY <1>1, <1>2, <2>1, StackStays
<1>3. ASSUME NEW e, Events' = Events \cup {e}, e.kind \in {"resume", "wait_until"},
             e.who = running, running' = 0, finished' = finished
      PROVE  InOnePlace(p)'
  <2>1. CASE p = running
    <3>1. Continuations(p)' = {e}
      BY <1>1, <1>3, <2>1, AddedContinuation DEF InOnePlace
    <3> QED
      BY <1>1, <1>3, <2>1, <3>1 DEF InOnePlace
  <2>2. CASE p # running
    <3>1. Continuations(p)' = Continuations(p)
      BY <1>3, <2>2, AddedContinuation
    <3> QED
      BY <1>1, <1>3, <2>2, <3>1, StackStays
  <2> QED
    BY <2>1, <2>2
<1>4. ASSUME NEW r \in Resource, Use(r) PROVE InOnePlace(p)'
  <2>1. PICK e : e.kind = "use" /\ Events' = Events \cup {e}
    BY <1>4 DEF Use, Schedule, Enqueue, Usage
  <2> QED
    BY <1>2, <1>4, <2>1 DEF Use
<1>5. ASSUME NEW s \in Signal, SendSignal(s) PROVE InOnePlace(p)'
  <2>1. PICK e : e.kind = "signal" /\ Events' = Events \cup {e}
    BY <1>5 DEF SendSignal, Schedule, Enqueue, Usage
  <2> QED
    BY <1>2, <1>5, <2>1 DEF SendSignal
<1>6. CASE WaitFor
  <2>1. PICK e : e.kind = "resume" /\ e.who = running /\ Events' = Events \cup {e}
    BY <1>6 DEF WaitFor, Schedule, Enqueue, ContinueAt
  <2> QED
    BY <1>3, <1>6, <2>1 DEF WaitFor
<1>7. CASE WaitUntil
  <2>1. PICK e : e.kind = "wait_until" /\ e.who = running /\ Events' = Events \cup {e}
    BY <1>7 DEF WaitUntil, Schedule, Enqueue, ContinueAt
  <2> QED
    BY <1>3, <1>7, <2>1 DEF WaitUntil
<1>8. CASE Finish
  <2>1. /\ Continuations(p)' = Continuations(p)
        /\ running' = 0 /\ finished' = finished \cup {running}
    BY <1>8, SameContinuations DEF Finish, queueVars
  <2>2. CASE p = running
    BY <1>1, <2>1, <2>2 DEF InOnePlace
  <2>3. CASE p # running
    BY <1>1, <2>1, <2>3, StackStays
  <2> QED
    BY <2>2, <2>3
<1> QED
  BY <1>4, <1>5, <1>6, <1>7, <1>8 DEF Execute

\* The event of a program that goes on, or that starts to wait.
LEMMA ProcessStacks == TypeInv /\ StackInv /\ ProcessEvent => StackInv'
<1> SUFFICES ASSUME TypeInv, StackInv, NEW p \in Program,
                    NEW e \in Events, pc \in {"advance", "peek"},
                    Events' = Events \ {e}, finished' = finished,
                    UseEvent(e) \/ SignalEvent(e) \/ ResumeEvent(e) \/ WaitUntilEvent(e)
             PROVE  InOnePlace(p)'
  BY DEF ProcessEvent, StackInv
<1>1. running = 0 /\ p # 0 /\ InOnePlace(p)
  BY Constants DEF TypeInv, TypeOK, StackInv
<1>2. CASE UseEvent(e) \/ SignalEvent(e)
  <2>1. /\ e.kind \in {"use", "signal"} /\ running' = running
        /\ waitingOnSignal' = waitingOnSignal /\ waitingOnCond' = waitingOnCond
    BY <1>2 DEF UseEvent, SignalEvent, waitVars
  <2>2. Continuations(p)' = Continuations(p)
    BY <2>1, RemovedContinuation
  <2> QED
    BY <1>1, <2>1, <2>2, SameWaits, StackStays
<1>3. CASE e.who # p
  <2>1. Continuations(p)' = Continuations(p)
    BY <1>3, RemovedContinuation
  <2>2. (running' = p <=> running = p) /\ Waits(p)' = Waits(p)
    <3>1. CASE ResumeEvent(e)
      BY <1>1, <1>3, <3>1, SameWaits DEF ResumeEvent, waitVars
    <3>2. CASE WaitUntilEvent(e)
      <4>1. running' # p
        BY <1>1, <1>3, <3>2, WaitUntilOutcome
      <4>2. \/ UNCHANGED <<waitingOnSignal, waitingOnCond>>
            \/ waitingOnCond' = waitingOnCond \cup {Waiter(e)} /\ waitingOnSignal' = waitingOnSignal
            \/ waitingOnSignal' = waitingOnSignal \cup {Waiter(e)} /\ waitingOnCond' = waitingOnCond
        BY <3>2, WaitUntilOutcome DEF waitVars
      <4>3. Waiter(e).who # p
        BY <1>3 DEF Waiter
      <4> QED
        BY <1>1, <4>1, <4>2, <4>3 DEF Waits
    <3>3. CASE UseEvent(e) \/ SignalEvent(e)
      BY <3>3, SameWaits DEF UseEvent, SignalEvent, waitVars
    <3> QED
      BY <3>1, <3>2, <3>3
  <2> QED
    BY <1>1, <2>1, <2>2, StackStays
<1>4. CASE e.who = p /\ (ResumeEvent(e) \/ WaitUntilEvent(e))
  <2>1. e.kind \in {"resume", "wait_until"}
    BY <1>4 DEF ResumeEvent, WaitUntilEvent
  <2>2. /\ Continuations(p)' = {}
        /\ Waits(p) = {} /\ p \notin finished
    BY <1>1, <1>4, <2>1, RemovedContinuation DEF InOnePlace
  <2>3. CASE running' = p /\ waitingOnSignal' = waitingOnSignal /\ waitingOnCond' = waitingOnCond
    BY <2>2, <2>3, SameWaits DEF InOnePlace
  <2>4. CASE /\ running' = running
             /\ \/ /\ waitingOnCond' = waitingOnCond \cup {Waiter(e)}
                   /\ waitingOnSignal' = waitingOnSignal
                \/ /\ waitingOnSignal' = waitingOnSignal \cup {Waiter(e)}
                   /\ waitingOnCond' = waitingOnCond
    <3>1. Waiter(e).who = p
      BY <1>4 DEF Waiter
    <3>2. Waits(p)' = {Waiter(e)}
      BY <2>2, <2>4, <3>1 DEF Waits
    <3> QED
      BY <1>1, <2>2, <2>4, <3>2 DEF InOnePlace
  <2> QED
    BY <1>4, <2>3, <2>4, WaitUntilOutcome DEF ResumeEvent, waitVars
<1> QED
  BY <1>2, <1>3, <1>4

\* The stack of a waiter becomes that of the event that continues its program.
LEMMA WakeStacks ==
  ASSUME StackInv, SignalInv, NEW p \in Program, NEW t, NEW w,
         \/ /\ w \in waitingOnSignal /\ waitingOnSignal' = waitingOnSignal \ {w}
            /\ waitingOnCond' = waitingOnCond
         \/ /\ w \in waitingOnCond /\ waitingOnCond' = waitingOnCond \ {w}
            /\ waitingOnSignal' = waitingOnSignal,
         Enqueue(ContinueAt(NewID, "resume", w.who, t, w.crit)),
         running' = running, finished' = finished
  PROVE  InOnePlace(p)'
<1>1. PICK e : /\ e.kind = "resume" /\ e.who = w.who
               /\ Events' = Events \cup {e}
  <2>1. PICK e : e = ContinueAt(NewID, "resume", w.who, t, w.crit)
    OBVIOUS
  <2>2. e.kind = "resume" /\ e.who = w.who
    BY <2>1 DEF ContinueAt
  <2> QED
    BY <2>1, <2>2, EnqueueContinue
<1>2. InOnePlace(p)
  BY DEF StackInv
<1>3. waitingOnSignal \cap waitingOnCond = {}
  BY DEF SignalInv
<1>4. Waits(p)' = Waits(p) \ {w}
  BY <1>3 DEF Waits
<1>5. CASE w.who = p
  <2>1. w \in Waits(p)
    BY <1>5 DEF Waits
  <2>2. /\ Waits(p)' = {} /\ Continuations(p) = {}
        /\ running # p /\ p \notin finished
    BY <1>2, <1>4, <2>1 DEF InOnePlace
  <2>3. Continuations(p)' = {e}
    BY <1>1, <1>5, <2>2, AddedContinuation
  <2> QED
    BY <2>2, <2>3 DEF InOnePlace
<1>6. CASE w.who # p
  <2>1. Continuations(p)' = Continuations(p)
    BY <1>1, <1>6, AddedContinuation
  <2>2. Waits(p)' = Waits(p)
    BY <1>4, <1>6 DEF Waits
  <2> QED
    BY <1>2, <2>1, <2>2, StackStays
<1> QED
  BY <1>5, <1>6

LEMMA UnlockStacks ==
  ASSUME TypeInv, StackInv, SignalInv,
         \/ DoneForNow \/ WakeOnSignal \/ NoSignalHeard \/ UnblockNow
         \/ NotUnblockedNow \/ UnblockLater \/ NotUnblocked
  PROVE  StackInv'
<1> SUFFICES ASSUME NEW p \in Program PROVE InOnePlace(p)'
  BY DEF StackInv
<1>1. CASE DoneForNow \/ NoSignalHeard \/ NotUnblockedNow \/ NotUnblocked
  <2>1. /\ Events' = Events /\ running' = running /\ finished' = finished
        /\ waitingOnSignal' = waitingOnSignal /\ waitingOnCond' = waitingOnCond
    BY <1>1 DEF DoneForNow, NoSignalHeard, NotUnblockedNow, NotUnblocked, queueVars, waitVars
  <2> QED
    BY <2>1, SameWaits, SameContinuations, StackStays DEF StackInv
<1>2. CASE WakeOnSignal
  BY <1>2, WakeStacks DEF WakeOnSignal
<1>3. CASE UnblockNow
  BY <1>3, WakeStacks DEF UnblockNow, WakeOnCondition
<1>4. CASE UnblockLater
  <2>1. PICK t \in Time : WakeOnCondition(t)
    BY <1>4 DEF UnblockLater
  <2> QED
    BY <2>1, WakeStacks DEF WakeOnCondition
<1> QED
  BY <1>1, <1>2, <1>3, <1>4

StacksInv == SignalsInv /\ StackInv

LEMMA NextStacks == StacksInv /\ [Next]_vars => StacksInv'
<1>1. StackInv /\ UNCHANGED vars => StackInv'
  BY SameWaits, SameContinuations, StackStays DEF StackInv, vars, queueVars, waitVars
<1> QED
  BY <1>1, NextSignals, ExecuteStacks, ProcessStacks, UnlockStacks
     DEF StacksInv, SignalsInv, TimesInv, Next, Terminated

LEMMA InitStacks == Init => StackInv
<1> SUFFICES ASSUME Init, NEW p \in Program PROVE InOnePlace(p)
  BY DEF StackInv
<1>1. PICK start \in [Program -> Time] :
        Events = {[id |-> q, kind |-> "resume", who |-> q, time |-> start[q], end |-> start[q],
                   crit |-> NoCriterion, queue |-> Expansion] : q \in Program}
  BY DEF Init
<1>2. PICK e : e = [id |-> p, kind |-> "resume", who |-> p, time |-> start[p], end |-> start[p],
                    crit |-> NoCriterion, queue |-> Expansion]
  OBVIOUS
<1>3. e \in Events /\ e.kind = "resume" /\ e.who = p
  BY <1>1, <1>2
<1>4. \A f \in Events : f.who = p => f = e
  BY <1>1, <1>2
<1>5. Continuations(p) = {e}
  BY <1>3, <1>4 DEF Continuations
<1>6. Waits(p) = {} /\ running # p /\ p \notin finished
  BY Constants DEF Init, Waits
<1> QED
  BY <1>5, <1>6 DEF InOnePlace

\* No stack is lost, and none is held by two events, queues of waiters or the
\* interpreter at a time: a program goes on exactly once from where it stopped.
THEOREM StacksAreStolen == Spec => []StackIsInOnePlace
<1>1. StackInv => StackIsInOnePlace
  <2> SUFFICES ASSUME StackInv, NEW p \in Program
               PROVE  Cardinality(Continuations(p)) + Cardinality(Waits(p))
                        + (IF running = p THEN 1 ELSE 0) + (IF p \in finished THEN 1 ELSE 0) = 1
    BY DEF StackIsInOnePlace
  <2>1. InOnePlace(p)
    BY DEF StackInv
  <2>2. \A S : (\A x, y \in S : x = y) => Cardinality(S) = IF S = {} THEN 0 ELSE 1
    <3> SUFFICES ASSUME NEW S, \A x, y \in S : x = y
                 PROVE  Cardinality(S) = IF S = {} THEN 0 ELSE 1
      OBVIOUS
    <3>1. CASE S = {}
      BY <3>1, FS_EmptySet
    <3>2. CASE S # {}
      <4>1. PICK x \in S : S = {x}
        BY <3>2
      <4> QED
        BY <3>2, <4>1, FS_Singleton
    <3> QED
      BY <3>1, <3>2
  <2>3. /\ Cardinality(Continuations(p)) = IF Continuations(p) = {} THEN 0 ELSE 1
        /\ Cardinality(Waits(p)) = IF Waits(p) = {} THEN 0 ELSE 1
    BY <2>1, <2>2 DEF InOnePlace
  <2> QED
    BY <2>1, <2>3 DEF InOnePlace
<1> QED
  BY <1>1, InitStacks, InitSignalsInv, NextStacks, PTL DEF Spec, StacksInv
-----------------------------------------------------------------------------
(* When no wake-up is lost: if at most one program can wait for            *)
(* conditions, none is left waiting while its condition holds.  With two,  *)
(* one may be (event_loop_lost.cfg): a node that potential_triggers has    *)
(* returned for the program it woke is not met again for another.  The     *)
(* invariant says where the news of a condition that came true is, at each *)
(* point of ProcessEvents.                                                 *)

\* While at most one program waits for conditions, a condition that comes true is
\* announced by a node that potential_triggers has not returned, and before time
\* advances no condition holds at a time that will be left behind.
OneCondWaiter == \A p, q \in CondWaiters : p = q

Announced(w, t) == \E n \in Pending : n.time = t /\ n.res \in w.crit.of

Vigil(w) ==
  /\ w.who \in CondWaiters
  /\ w.crit.of \subseteq watched
  /\ now = clock
  /\ pc \notin {"future", "advance", "done"} /\ Holds(w.crit, clock) => Announced(w, clock)
  /\ pc = "future" => ~Holds(w.crit, clock)
  /\ pc = "advance" =>
       /\ \A t \in Time : clock <= t /\ (\A e \in Events : t < e.time) => ~Holds(w.crit, t)
       /\ \A n \in returned, e \in Events : n.time < e.time

VigilInv ==
  /\ \A e \in Events : e.kind = "wait_until" /\ e.crit.on = "cond" => e.who \in CondWaiters
  /\ \A w \in waitingOnCond : Vigil(w)

LEMMA MinimumOfNat ==
  ASSUME NEW S \in SUBSET Nat, S # {}
  PROVE  \E m \in S : \A n \in S : m <= n
<1>1. PICK m \in S : \A n \in S : <<n, m>> \notin OpToRel(<, Nat)
  BY WFMin, NatLessThanWellFounded
<1>2. \A n \in S : ~(n < m)
  BY <1>1 DEF OpToRel
<1>3. \A n \in S : m <= n
  BY <1>2
<1> QED
  BY <1>3

\* The identity of a node tells which of the two nodes of a usage it is.
NodeIDs == \A n \in history : \E k \in Nat :
             \/ n.id = 2 * k /\ n.delta = "start"
             \/ n.id = 2 * k + 1 /\ n.delta = "end"

\* If watched nodes are pending at a time, one of them is met first.
LEMMA TriggerExists ==
  ASSUME TypeInv, NodeIDs, NEW t, NEW n \in Pending, n.time = t, n.res \in watched
  PROVE  \E m \in Pending : Trigger(m, t)
<1> DEFINE S == {k \in Pending : k.time = t /\ k.res \in watched}
<1>1. /\ \A k \in Pending : k \in NodeType /\ k.res \in Nat /\ k.id \in Nat /\ k.time \in Nat
      /\ n \in S
  BY ProgramAssumption, Constants DEF TypeInv, TypeOK, NodeType, Pending
<1>2. PICK m \in S : \A k \in S : m.res <= k.res
  <2>1. PICK r \in {k.res : k \in S} : \A x \in {k.res : k \in S} : r <= x
    BY <1>1, MinimumOfNat
  <2> QED
    BY <2>1
<1>3. PICK first \in {k \in S : k.res = m.res} : \A k \in S : k.res = m.res => first.id <= k.id
  <2> DEFINE T == {k \in S : k.res = m.res}
  <2>1. PICK i \in {k.id : k \in T} : \A x \in {k.id : k \in T} : i <= x
    <3> DEFINE ids == {k.id : k \in T}
    <3>1. ids \in SUBSET Nat /\ ids # {}
      BY <1>1
    <3> HIDE DEF ids
    <3>2. \E i \in ids : \A x \in ids : i <= x
      BY <3>1, MinimumOfNat
    <3> USE DEF ids
    <3> QED
      BY <3>2
  <2>2. PICK k \in T : k.id = i
    BY <2>1
  <2>3. \A x \in T : k.id <= x.id
    BY <2>1, <2>2
  <2> QED
    BY <2>2, <2>3
<1>4. ASSUME NEW k \in S, k.res = first.res, k.id = first.id PROVE k = first
  <2>1. k.delta = first.delta
    BY <1>1, <1>4 DEF NodeIDs, Pending
  <2>2. k.time = first.time
    OBVIOUS
  <2>3. k \in NodeType /\ first \in NodeType
    BY <1>1
  <2> QED
    BY <1>4, <2>1, <2>2, <2>3 DEF NodeType
<1>5. ASSUME NEW k \in S PROVE k = first \/ NodeBefore(first, k)
  <2>1. CASE k.res = first.res
    BY <1>1, <1>3, <1>4, <2>1 DEF NodeBefore
  <2>2. CASE k.res # first.res
    BY <1>1, <1>2, <1>3, <2>2 DEF NodeBefore
  <2> QED
    BY <2>1, <2>2
<1> QED
  BY <1>5 DEF Trigger

\* What a condition tells changes only at a time at which a resource it is about
\* has a node.
LEMMA HoldsChanges ==
  ASSUME NEW crit, NEW t \in Nat, NEW u \in Nat, u <= t, \A n \in history : n.time \in Nat,
         \A n \in history : n.res \in crit.of => n.time <= u \/ t < n.time
  PROVE  Holds(crit, t) <=> Holds(crit, u)
<1>1. ASSUME NEW r \in crit.of, NEW delta PROVE Level(r, t, delta) = Level(r, u, delta)
  <2>1. {n \in history : n.res = r /\ n.time <= t /\ n.delta = delta}
          = {n \in history : n.res = r /\ n.time <= u /\ n.delta = delta}
    OBVIOUS
  <2> QED
    BY <2>1 DEF Level
<1> QED
  BY <1>1 DEF Holds, InUse

\* Nodes that are added later than a time do not change what holds then.
LEMMA HoldsGrows ==
  ASSUME NEW crit, NEW t \in Nat, history \subseteq history',
         \A n \in history' : n.time \in Nat,
         \A n \in history' \ history : n.res \in crit.of => t < n.time
  PROVE  Holds(crit, t)' <=> Holds(crit, t)
<1>1. ASSUME NEW r \in crit.of, NEW delta PROVE Level(r, t, delta)' = Level(r, t, delta)
  <2>1. {n \in history' : n.res = r /\ n.time <= t /\ n.delta = delta}
          = {n \in history : n.res = r /\ n.time <= t /\ n.delta = delta}
    OBVIOUS
  <2> QED
    BY <2>1 DEF Level
<1> QED
  BY <1>1 DEF Holds, InUse

\* A program that may wait for conditions waits alone.
LEMMA WaitsAlone ==
  ASSUME OneCondWaiter, StackInv, VigilInv, NEW w \in waitingOnCond
  PROVE  waitingOnCond = {w}
<1> SUFFICES ASSUME NEW v \in waitingOnCond PROVE v = w
  OBVIOUS
<1>1. v.who = w.who /\ w.who \in Program
  BY ProgramAssumption DEF VigilInv, Vigil, OneCondWaiter
<1> QED
  BY <1>1 DEF StackInv, InOnePlace, Waits

LEMMA VigilStays ==
  ASSUME NEW w, Vigil(w), UNCHANGED <<clock, now, watched, history, returned>>,
         pc \notin {"future", "advance", "done"}, pc' \notin {"future", "advance", "done"}
  PROVE  Vigil(w)'
<1>1. Holds(w.crit, clock)' <=> Holds(w.crit, clock)
  BY SameHistory
<1>2. Announced(w, clock)' <=> Announced(w, clock)
  BY DEF Announced, Pending
<1> QED
  BY <1>1, <1>2 DEF Vigil

LEMMA ExecuteVigil == TypeInv /\ VigilInv /\ Execute => VigilInv'
<1> SUFFICES ASSUME TypeInv, VigilInv, Execute PROVE VigilInv'
  OBVIOUS
<1>1. \A w \in waitingOnCond' : Vigil(w)'
  BY ExecuteFrame, VigilStays DEF VigilInv, waitVars, resVars
<1>2. ASSUME NEW e \in Events' \ Events, e.kind = "wait_until", e.crit.on = "cond"
      PROVE  e.who \in CondWaiters
  <2>1. CASE WaitUntil
    <3>1. PICK crit \in Criterion \ {NoCriterion} :
            /\ crit.on = "cond" => running \in CondWaiters
            /\ Enqueue(ContinueAt(NewID, "wait_until", running, now, crit))
      BY <2>1 DEF WaitUntil, Schedule
    <3>2. e.crit = crit /\ e.who = running
      BY <1>2, <3>1, EnqueueContinue
    <3> QED
      BY <1>2, <3>1, <3>2
  <2>2. CASE WaitFor
    BY <1>2, <2>2 DEF WaitFor, Schedule, Enqueue, ContinueAt
  <2>3. ASSUME NEW r \in Resource, Use(r) PROVE FALSE
    BY <1>2, <2>3 DEF Use, Schedule, Enqueue, Usage
  <2>4. ASSUME NEW s \in Signal, SendSignal(s) PROVE FALSE
    BY <1>2, <2>4 DEF SendSignal, Schedule, Enqueue, Usage
  <2>5. CASE Finish
    BY <1>2, <2>5 DEF Finish, queueVars
  <2> QED
    BY <2>1, <2>2, <2>3, <2>4, <2>5 DEF Execute
<1> QED
  BY <1>1, <1>2 DEF VigilInv

\* A program starts to wait for a condition only if it does not hold.
LEMMA NewCondWaiter ==
  ASSUME NEW e, WaitUntilEvent(e), NEW w \in waitingOnCond' \ waitingOnCond
  PROVE  /\ w = Waiter(e) /\ e.kind = "wait_until" /\ e.crit.on = "cond"
         /\ ~Holds(e.crit, e.time) /\ e.crit.of \subseteq watched' /\ history' = history
<1>1. CASE e.crit.on = "cond" /\ Holds(e.crit, e.time)
  BY <1>1 DEF WaitUntilEvent, waitVars
<1>2. CASE e.crit.on = "cond" /\ ~Holds(e.crit, e.time)
  BY <1>2 DEF WaitUntilEvent, resVars
<1>3. CASE e.crit.on # "cond"
  BY <1>3 DEF WaitUntilEvent
<1> QED
  BY <1>1, <1>2, <1>3

\* What an event does to histories and to who waits for conditions.
LEMMA EventFrame ==
  ASSUME NEW e, e.time <= e.end, e.time \in Nat, e.end \in Nat,
         UseEvent(e) \/ SignalEvent(e) \/ ResumeEvent(e) \/ WaitUntilEvent(e)
  PROVE  /\ pc' \in {"peek", "run"} /\ returned' = returned
         /\ watched \subseteq watched' /\ history \subseteq history'
         /\ \A n \in history' \ history : e.time <= n.time
         /\ ~WaitUntilEvent(e) => waitingOnCond' = waitingOnCond
<1>1. CASE UseEvent(e)
  BY <1>1 DEF UseEvent, waitVars
<1>2. CASE SignalEvent(e) \/ ResumeEvent(e)
  BY <1>2 DEF SignalEvent, ResumeEvent, waitVars, resVars
<1>3. CASE WaitUntilEvent(e)
  <2>1. watched \subseteq watched'
    BY <1>3 DEF WaitUntilEvent, waitVars
  <2> QED
    BY <1>3, <2>1, WaitUntilOutcome DEF resVars
<1> QED
  BY <1>1, <1>2, <1>3

LEMMA ProcessVigil ==
  SignalsInv /\ VigilInv /\ ProcessEvent => VigilInv'
<1> SUFFICES ASSUME SignalsInv, VigilInv, ProcessEvent,
                    NEW e \in Events, IsNextEvent(e),
                    pc = "advance" \/ (pc = "peek" /\ e.time <= clock),
                    Events' = Events \ {e}, clock' = e.time, now' = e.time,
                    UseEvent(e) \/ SignalEvent(e) \/ ResumeEvent(e) \/ WaitUntilEvent(e)
             PROVE  VigilInv'
  BY DEF ProcessEvent
<1> USE DEF SignalsInv, TimesInv
<1>1. /\ e.time \in Nat /\ e.end \in Nat /\ e.time <= e.end /\ clock \in Nat
      /\ returned \subseteq history
      /\ \A n \in history : n.time \in Nat
      /\ \A f \in Events : e.time <= f.time /\ f.time \in Nat
  BY Times, NextIsEarliest
<1>2. \A n \in history' : n.time \in Nat
  <2>1. TypeInv'
    BY NextType DEF Next
  <2> QED
    BY <2>1, Constants DEF TypeInv, TypeOK, NodeType
<1>3. /\ pc' \in {"peek", "run"} /\ returned' = returned
      /\ watched \subseteq watched' /\ history \subseteq history'
      /\ \A n \in history' \ history : e.time <= n.time
      /\ ~WaitUntilEvent(e) => waitingOnCond' = waitingOnCond
  BY <1>1, EventFrame
<1>4. ASSUME NEW w \in waitingOnCond PROVE Vigil(w)'
  <2>1. ASSUME Holds(w.crit, clock)', ~Announced(w, clock)' PROVE FALSE
    <3>1. \A n \in history' : n.res \in w.crit.of /\ n.time = e.time => n \in returned
      BY <1>3, <2>1 DEF Announced, Pending
    <3>2. Holds(w.crit, e.time)
      <4>1. \A n \in history' \ history : n.res \in w.crit.of => e.time < n.time
        BY <1>1, <1>2, <1>3, <3>1
      <4>2. Holds(w.crit, e.time)'
        BY <2>1 DEF Holds, InUse, Level
      <4> QED
        BY <1>1, <1>2, <1>3, <4>1, <4>2, HoldsGrows
    <3>3. CASE pc = "peek"
      <4>1. e.time = clock
        BY <1>1, <3>3, Times DEF TimeInv
      <4> QED
        BY <1>3, <3>1, <3>2, <3>3, <4>1 DEF VigilInv, Vigil, Announced, Pending
    <3>4. CASE pc = "advance"
      <4> DEFINE u == e.time - 1
      <4>1. u \in Nat /\ clock <= u /\ u < e.time
        BY <1>1, <3>4 DEF SignalInv
      <4>2. u \in Time /\ \A f \in Events : u < f.time
        BY <1>1, <4>1, EventFields, ProgramAssumption DEF TypeInv, TypeOK, Time
      <4>3. ~Holds(w.crit, u)
        BY <3>4, <4>1, <4>2 DEF VigilInv, Vigil
      <4>4. \A n \in history : n.res \in w.crit.of => n.time # e.time
        BY <1>1, <1>3, <3>1, <3>4 DEF VigilInv, Vigil
      <4>5. \A n \in history : n.res \in w.crit.of => n.time <= u \/ e.time < n.time
        BY <1>1, <4>4
      <4> HIDE DEF u
      <4> QED
        BY <1>1, <3>2, <4>1, <4>3, <4>5, HoldsChanges
    <3> QED
      BY <3>3, <3>4
  <2> QED
    BY <1>3, <2>1 DEF VigilInv, Vigil
<1>5. ASSUME NEW w \in waitingOnCond' \ waitingOnCond PROVE Vigil(w)'
  <2>1. WaitUntilEvent(e)
    BY <1>3, <1>5
  <2>2. /\ w = Waiter(e) /\ e.kind = "wait_until" /\ e.crit.on = "cond"
        /\ ~Holds(e.crit, e.time) /\ e.crit.of \subseteq watched' /\ history' = history
    BY <1>5, <2>1, NewCondWaiter
  <2>3. w.crit = e.crit /\ w.who = e.who
    BY <2>2 DEF Waiter
  <2>4. ~Holds(w.crit, clock)'
    BY <2>2, <2>3, SameHistory
  <2> QED
    BY <1>3, <2>2, <2>3, <2>4 DEF VigilInv, Vigil
<1> QED
  BY <1>4, <1>5 DEF VigilInv

\* A condition that holds and is announced wakes the program that waits for it.
LEMMA AnnouncedUnlocks ==
  ASSUME TypeInv, NodeIDs, NEW w, waitingOnCond = {w}, w.crit.of \subseteq watched,
         NEW t, Holds(w.crit, t), Announced(w, t)
  PROVE  CanUnlockAt(t)
<1>1. PICK m \in Pending : Trigger(m, t)
  BY TriggerExists DEF Announced
<1>2. FirstInLine(w, t)
  <2>1. w.id \in Nat
    BY DEF TypeInv, TypeOK, WaiterType
  <2> QED
    BY <2>1 DEF FirstInLine
<1> QED
  BY <1>1, <1>2 DEF CanUnlockAt

\* No condition that is waited for holds before the next event.
LEMMA NothingToWake ==
  ASSUME OneCondWaiter, SignalsInv, StackInv, NodeIDs, VigilInv, pc = "future",
         \A t \in Time : WithinLimits(t) => ~CanUnlockAt(t),
         NEW w \in waitingOnCond, NEW t \in Time, clock <= t, \A e \in Events : t < e.time
  PROVE  ~Holds(w.crit, t)
<1> USE DEF SignalsInv, TimesInv
<1> DEFINE S == {u \in Nat : clock <= u /\ u <= t /\ Holds(w.crit, u)}
<1>1. SUFFICES ASSUME Holds(w.crit, t) PROVE FALSE
  OBVIOUS
<1>2. /\ t \in Nat /\ clock \in Nat /\ returned \subseteq history
      /\ \A n \in history : n.time \in Nat
      /\ \A e \in Events : e.time \in Nat
  BY Times, Constants
<1>3. PICK u \in S : \A x \in S : u <= x
  <2>1. t \in S
    BY <1>1, <1>2
  <2> QED
    BY <2>1, MinimumOfNat
<1>4. Vigil(w) /\ waitingOnCond = {w}
  BY WaitsAlone DEF VigilInv
<1>5. /\ clock < u /\ u \in Nat /\ u - 1 \in Nat /\ clock <= u - 1 /\ u - 1 <= u
      /\ ~Holds(w.crit, u - 1)
  <2>1. u # clock
    BY <1>4 DEF Vigil
  <2>2. clock < u /\ u - 1 \in Nat /\ clock <= u - 1 /\ u - 1 <= t /\ ~(u <= u - 1)
    BY <1>2, <2>1
  <2> QED
    BY <1>3, <2>2
<1>6. u \in Time /\ WithinLimits(u)
  <2>1. u \in Time
    BY <1>2, ProgramAssumption DEF Time
  <2> QED
    BY <1>2, <1>5, <2>1 DEF WithinLimits
<1>7. PICK n \in history : n.res \in w.crit.of /\ ~(n.time <= u - 1 \/ u < n.time)
  BY <1>2, <1>5, HoldsChanges
<1>8. n.time = u /\ n \notin returned
  <2>1. n.time = u
    BY <1>2, <1>5, <1>7
  <2>2. now = clock /\ \A k \in returned : k.time <= now
    BY <1>4 DEF Vigil, TriggerInv
  <2> QED
    BY <1>2, <1>5, <2>1, <2>2
<1>9. Holds(w.crit, u) /\ Announced(w, u)
  BY <1>7, <1>8 DEF Announced, Pending
<1> QED
  BY <1>4, <1>6, <1>9, AnnouncedUnlocks DEF Vigil

LEMMA UnlockVigil ==
  ASSUME OneCondWaiter, SignalsInv, StackInv, NodeIDs, VigilInv,
         \/ DoneForNow \/ WakeOnSignal \/ NoSignalHeard \/ UnblockNow
         \/ NotUnblockedNow \/ UnblockLater \/ NotUnblocked
  PROVE  VigilInv'
<1> USE DEF SignalsInv, TimesInv
<1>1. ASSUME NEW e \in Events', e.kind = "wait_until", e.crit.on = "cond" PROVE e.who \in CondWaiters
  <2>1. CASE DoneForNow \/ NoSignalHeard \/ NotUnblockedNow \/ NotUnblocked
    BY <1>1, <2>1 DEF VigilInv, DoneForNow, NoSignalHeard, NotUnblockedNow, NotUnblocked, queueVars
  <2>2. ASSUME NEW w, NEW t, Enqueue(ContinueAt(NewID, "resume", w.who, t, w.crit))
        PROVE  e \in Events
    BY <1>1, <2>2, EnqueueContinue
  <2>3. CASE WakeOnSignal \/ UnblockNow \/ UnblockLater
    BY <1>1, <2>2, <2>3 DEF VigilInv, WakeOnSignal, UnblockNow, UnblockLater, WakeOnCondition
  <2> QED
    BY <2>1, <2>3
<1>2. CASE DoneForNow \/ WakeOnSignal \/ NoSignalHeard
  <2>1. /\ pc \in {"peek", "signals"} /\ pc' \in {"peek", "signals", "now"}
        /\ waitingOnCond' = waitingOnCond
        /\ UNCHANGED <<clock, now, watched, history, returned>>
    BY <1>2 DEF DoneForNow, WakeOnSignal, NoSignalHeard, waitVars, resVars
  <2> QED
    BY <1>1, <2>1, VigilStays DEF VigilInv
<1>3. CASE UnblockNow \/ UnblockLater
  <2>1. waitingOnCond' = {}
    BY <1>3, WaitsAlone DEF UnblockNow, UnblockLater, WakeOnCondition
  <2> QED
    BY <1>1, <2>1 DEF VigilInv
<1>4. CASE NotUnblockedNow
  <2>1. /\ pc = "now" /\ pc' = "future" /\ ~CanUnlockAt(clock) /\ waitingOnCond' = waitingOnCond
        /\ UNCHANGED <<clock, now, watched, history>>
    BY <1>4 DEF NotUnblockedNow, waitVars
  <2>2. ASSUME NEW w \in waitingOnCond PROVE Vigil(w)'
    <3>1. Vigil(w) /\ waitingOnCond = {w}
      BY WaitsAlone DEF VigilInv
    <3>2. ~Holds(w.crit, clock)
      BY <2>1, <3>1, AnnouncedUnlocks DEF Vigil
    <3>3. ~Holds(w.crit, clock)'
      BY <2>1, <3>2, SameHistory
    <3> QED
      BY <2>1, <3>1, <3>3 DEF Vigil
  <2> QED
    BY <1>1, <2>1, <2>2 DEF VigilInv
<1>5. CASE NotUnblocked
  <2>1. /\ pc = "future" /\ pc' \in {"done", "advance"} /\ waitingOnCond' = waitingOnCond
        /\ \A t \in Time : WithinLimits(t) => ~CanUnlockAt(t)
        /\ returned' = returned \cup {n \in Pending : n.time <= clock \/ WithinLimits(n.time)}
        /\ UNCHANGED <<clock, now, watched, history, Events>>
    BY <1>5 DEF NotUnblocked, waitVars, queueVars
  <2>2. ASSUME NEW w \in waitingOnCond PROVE Vigil(w)'
    <3>1. Vigil(w)
      BY DEF VigilInv
    <3>2. ASSUME NEW t \in Time, clock <= t, \A e \in Events : t < e.time PROVE ~Holds(w.crit, t)'
      BY <2>1, <3>2, NothingToWake, SameHistory
    <3>3. ASSUME NEW n \in returned', NEW e \in Events PROVE n.time < e.time
      <4>1. clock < e.time /\ clock \in Nat /\ e.time \in Nat /\ n.time \in Nat
        BY <2>1, Times DEF SignalInv
      <4>2. CASE n \in returned
        BY <2>1, <3>1, <4>1, <4>2 DEF Vigil, TriggerInv
      <4>3. CASE n \in Pending /\ (n.time <= clock \/ WithinLimits(n.time))
        BY <4>1, <4>3 DEF WithinLimits
      <4> QED
        BY <2>1, <4>2, <4>3
    <3> QED
      BY <2>1, <3>1, <3>2, <3>3 DEF Vigil
  <2> QED
    BY <1>1, <2>1, <2>2 DEF VigilInv
<1> QED
  BY <1>2, <1>3, <1>4, <1>5

WakeUpInv == StacksInv /\ NodeIDs /\ VigilInv

LEMMA InitWakeUp == Init => WakeUpInv
<1>1. ASSUME Init PROVE VigilInv
  <2>1. PICK start \in [Program -> Time] :
          Events = {[id |-> p, kind |-> "resume", who |-> p, time |-> start[p], end |-> start[p],
                     crit |-> NoCriterion, queue |-> Expansion] : p \in Program}
    BY <1>1 DEF Init
  <2>2. \A e \in Events : e.kind = "resume"
    BY <2>1
  <2> QED
    BY <1>1, <2>2 DEF Init, VigilInv
<1>2. Init => NodeIDs
  BY DEF Init, NodeIDs
<1> QED
  BY <1>1, <1>2, InitSignalsInv, InitStacks DEF WakeUpInv, StacksInv

LEMMA NextNodeIDs == TypeInv /\ NodeIDs /\ [Next]_vars => NodeIDs'
<1> SUFFICES ASSUME TypeInv, NodeIDs, [Next]_vars PROVE NodeIDs'
  OBVIOUS
<1>1. CASE history' = history
  BY <1>1 DEF NodeIDs
<1>2. ASSUME NEW e \in Events, UseEvent(e) PROVE NodeIDs'
  <2>1. e.id \in Nat
    BY DEF TypeInv, TypeOK, EventType
  <2>2. \A n \in history' : \/ n \in history
                            \/ n.id = 2 * e.id /\ n.delta = "start"
                            \/ n.id = 2 * e.id + 1 /\ n.delta = "end"
    BY <1>2 DEF UseEvent
  <2> QED
    BY <2>1, <2>2 DEF NodeIDs
<1>3. CASE ProcessEvent
  <2>1. PICK e \in Events : UseEvent(e) \/ SignalEvent(e) \/ ResumeEvent(e) \/ WaitUntilEvent(e)
    BY <1>3 DEF ProcessEvent
  <2>2. CASE SignalEvent(e) \/ ResumeEvent(e) \/ WaitUntilEvent(e)
    BY <1>1, <2>2, WaitUntilOutcome DEF SignalEvent, ResumeEvent, resVars
  <2> QED
    BY <1>2, <2>1, <2>2
<1>4. Execute \/ UNCHANGED vars => history' = history
  BY ExecuteFrame DEF vars, resVars
<1>5. DoneForNow \/ WakeOnSignal \/ NoSignalHeard \/ UnblockNow \/ NotUnblockedNow \/ UnblockLater
        \/ NotUnblocked => history' = history
  BY DEF DoneForNow, WakeOnSignal, NoSignalHeard, UnblockNow, NotUnblockedNow, UnblockLater,
         NotUnblocked, WakeOnCondition, resVars
<1> QED
  BY <1>1, <1>3, <1>4, <1>5 DEF Next, Terminated

LEMMA NextWakeUp == OneCondWaiter /\ WakeUpInv /\ [Next]_vars => WakeUpInv'
<1>1. VigilInv /\ UNCHANGED vars => VigilInv'
  <2> SUFFICES ASSUME VigilInv, UNCHANGED vars PROVE VigilInv'
    OBVIOUS
  <2>1. UNCHANGED <<pc, clock, now, Events, waitingOnCond, watched, history, returned>>
    BY DEF vars, queueVars, waitVars, resVars
  <2>2. ASSUME NEW w \in waitingOnCond PROVE Vigil(w)'
    <3>1. Vigil(w)
      BY DEF VigilInv
    <3>2. \A t \in Time \cup {clock} : Holds(w.crit, t)' <=> Holds(w.crit, t)
      BY <2>1, SameHistory
    <3>3. Announced(w, clock)' <=> Announced(w, clock)
      BY <2>1 DEF Announced, Pending
    <3>4. Holds(w.crit, clock)' <=> Holds(w.crit, clock)
      BY <2>1, SameHistory
    <3> QED
      BY <2>1, <3>1, <3>2, <3>3, <3>4 DEF Vigil
  <2> QED
    BY <2>1, <2>2 DEF VigilInv
<1> QED
  BY <1>1, NextStacks, NextNodeIDs, ExecuteVigil, ProcessVigil, UnlockVigil
     DEF WakeUpInv, StacksInv, SignalsInv, TimesInv, Next, Terminated

\* With one program that waits for conditions, ProcessEvents leaves no time behind
\* at which the condition it waits for held: "There is no more work to do for the
\* present value of now; we can truly advance time".
THEOREM WakeUpsAreNotLost ==
  ASSUME OneCondWaiter
  PROVE  Spec => NoLostWakeUp
<1> DEFINE NoneLost == \A w \in waitingOnCond : \A t \in Time :
              t >= clock /\ (clock' > t \/ (pc' = "done" /\ pc # "done")) => ~Holds(w.crit, t)
<1>1. ASSUME WakeUpInv, [Next]_vars, NEW w \in waitingOnCond, NEW t \in Time, t >= clock
      PROVE  clock' > t \/ (pc' = "done" /\ pc # "done") => ~Holds(w.crit, t)
  <2> USE DEF WakeUpInv, StacksInv, SignalsInv, TimesInv
  <2>1. t \in Nat /\ clock \in Nat /\ \A e \in Events : e.time \in Nat
    BY <1>1, Times, Constants
  <2>2. CASE clock' > t
    <3>1. PICK e \in Events : /\ clock' = e.time /\ IsNextEvent(e)
                              /\ pc = "advance" \/ (pc = "peek" /\ e.time <= clock)
      BY <1>1, <2>1, <2>2, ClockStep DEF ClockMoves
    <3>2. pc = "advance" /\ \A f \in Events : t < f.time
      BY <1>1, <2>1, <2>2, <3>1, NextIsEarliest
    <3> QED
      BY <1>1, <2>1, <3>2 DEF VigilInv, Vigil
  <2>3. CASE pc' = "done" /\ pc # "done"
    <3>1. NotUnblocked
      BY <1>1, <2>3, ExecuteFrame, WaitUntilOutcome
         DEF Next, Terminated, ProcessEvent, UseEvent, SignalEvent, ResumeEvent, DoneForNow,
             WakeOnSignal, NoSignalHeard, UnblockNow, NotUnblockedNow, UnblockLater,
             WakeOnCondition, vars
    <3>2. pc = "future" /\ Events = {} /\ \A u \in Time : WithinLimits(u) => ~CanUnlockAt(u)
      BY <2>3, <3>1 DEF NotUnblocked
    <3> QED
      BY <1>1, <2>1, <3>2, NothingToWake
  <2> QED
    BY <2>2, <2>3
<1>2. WakeUpInv /\ [Next]_vars => [NoneLost]_vars
  BY <1>1
<1>3. WakeUpInv /\ [Next]_vars => WakeUpInv'
  BY NextWakeUp
<1> QED
  BY <1>2, <1>3, InitWakeUp, PTL DEF Spec, NoLostWakeUp
=============================================================================
