-------------------------- MODULE ViolationListing --------------------------
(***************************************************************************)
(* Constraint violations in a TOL: what iterateOverTOLevents does with the *)
(* list that Constraints leaves.  It merges the list with the other events *)
(* of the plan in order of time, lists the violations between start and    *)
(* end, reports first those that were active before start, and in the end  *)
(* those that were never released.  Other events are only the times at     *)
(* which there are some; one or more of them come before a violation at    *)
(* the same time.                                                          *)
(***************************************************************************)
EXTENDS Constraints

CONSTANTS
  MaxOutputs,           \* bound: TOLs written
  MaxTimes              \* bound: times of other events

ASSUME OutputAssumption == MaxOutputs \in Nat /\ MaxTimes \in Nat \ {0}

VARIABLES
  opc,                  \* "off", "loop" or "done"
  outputs,
  start, end,           \* of the TOL
  theTOLlist,           \* the violation in the list, 0 for none
  others,               \* the times of the other events to come
  last_processed_vio,
  active_violations,    \* [ID, again, vio]: again tells a second entry with an ID
  we_have_passed_the_start_time,
  listed, earlier_violations, unreleased_violations

outVars == <<opc, outputs, start, end, theTOLlist, others, last_processed_vio, active_violations,
             we_have_passed_the_start_time, listed, earlier_violations, unreleased_violations>>
vars == <<conVars, outVars>>

OutInit ==
  /\ Init
  /\ opc = "off" /\ outputs = 0 /\ start = 0 /\ end = 0
  /\ theTOLlist = 0 /\ others = {} /\ last_processed_vio = 0 /\ active_violations = {}
  /\ we_have_passed_the_start_time = FALSE
  /\ listed = <<>> /\ earlier_violations = {} /\ unreleased_violations = {}

-----------------------------------------------------------------------------
\* find(ID) finds the entry with secondary key 0 only; insertion gives an entry
\* whose ID is already there another secondary key.
Deactivated(active, v) == active \ {a \in active : a.ID = violations[v].ID /\ ~a.again}

Activated(active, v) ==
  active \cup {[ID |-> violations[v].ID, vio |-> v,
                again |-> \E a \in active : a.ID = violations[v].ID]}

\* Fault: releases are taken for violations.
TrackedAsActive(active, v) ==
  IF violations[v].con \in Forbidden THEN Activated(active, v) ELSE active

\* Unreleased violations of forbidden conditions are kept track of.
Tracked(active, v) ==
  IF violations[v].con \notin Forbidden THEN active
  ELSE IF violations[v].severity = "RELEASE" THEN Deactivated(active, v)
  ELSE Activated(active, v)

\* Modeling has taken place, and a TOL is asked for.  The first violation goes
\* into theTOLlist, and is already tracked.
StartOutput ==
  /\ pc = "idle" /\ runs > 0 /\ opc # "loop" /\ outputs < MaxOutputs
  /\ opc' = "loop" /\ outputs' = outputs + 1
  /\ start' \in 0..Horizon /\ end' \in start'..Horizon
  /\ others' \in {T \in SUBSET (0..Horizon) : 0 \in T /\ Cardinality(T) <= MaxTimes}
  /\ IF last_safe_node = 0
       THEN theTOLlist' = 0 /\ active_violations' = {}
       ELSE theTOLlist' = 1 /\ active_violations' = Tracked({}, 1)
  /\ last_processed_vio' = 0
  /\ we_have_passed_the_start_time' = FALSE
  /\ listed' = <<>> /\ earlier_violations' = {} /\ unreleased_violations' = {}
  /\ UNCHANGED conVars

\* The first event at or after start: what is active now is reported.
PassStart(etime) ==
  IF etime >= start /\ ~we_have_passed_the_start_time
    THEN /\ we_have_passed_the_start_time' = TRUE
         /\ earlier_violations' = {a.vio : a \in active_violations}
         /\ currentID' = currentID + Cardinality(active_violations)
    ELSE UNCHANGED <<we_have_passed_the_start_time, earlier_violations, currentID>>

IsFirst(etime) ==
  /\ \A t \in others : etime <= t
  /\ theTOLlist # 0 => etime <= violations[theTOLlist].at

ProcessOther ==
  /\ opc = "loop"
  /\ \E etime \in others :
       /\ IsFirst(etime) /\ etime <= end
       /\ PassStart(etime)
       /\ others' = others \ {etime}
  /\ UNCHANGED <<opc, outputs, start, end, theTOLlist, last_processed_vio, active_violations, listed,
                 unreleased_violations, loopVars, automata, violations, last_safe_node, seen>>

\* Fault: the last violation is not put in the list.
NextVioShort(v) == IF v + 1 < last_safe_node THEN v + 1 ELSE 0

NextVio(v) == IF v # last_safe_node THEN v + 1 ELSE 0

\* case CONS_VIO
ProcessViolation ==
  /\ opc = "loop"
  /\ theTOLlist # 0
  /\ LET vio == theTOLlist
         etime == violations[vio].at
     IN  /\ IsFirst(etime) /\ etime \notin others /\ etime <= end
         /\ PassStart(etime)
         /\ active_violations' = Tracked(active_violations, vio)
         /\ listed' = IF etime >= start THEN Append(listed, vio) ELSE listed
         /\ last_processed_vio' = vio
         /\ theTOLlist' = NextVio(vio)
  /\ UNCHANGED <<opc, outputs, start, end, others, unreleased_violations, loopVars, automata,
                 violations, last_safe_node, seen>>

\* No event is left, or none up to end: unreleased violations are reported.
EndOutput ==
  /\ opc = "loop"
  /\ \A t \in others : t > end
  /\ theTOLlist # 0 => violations[theTOLlist].at > end
  /\ opc' = "done"
  /\ unreleased_violations' = {a.vio : a \in active_violations}
  /\ currentID' = currentID + Cardinality(active_violations)
  /\ active_violations' = {}
  /\ UNCHANGED <<outputs, start, end, theTOLlist, others, last_processed_vio, listed,
                 we_have_passed_the_start_time, earlier_violations, loopVars, automata, violations,
                 last_safe_node, seen>>

\* One command at a time: modeling does not start while a TOL is written.
ModelAgain ==
  /\ opc # "loop"
  /\ CheckNext
  /\ opc' = "off"
  /\ UNCHANGED <<outputs, start, end, theTOLlist, others, last_processed_vio, active_violations,
                 we_have_passed_the_start_time, listed, earlier_violations, unreleased_violations>>

\* No command is under way, and none comes.
AtRest == pc = "idle" /\ opc # "loop" /\ UNCHANGED vars

Next == ModelAgain \/ StartOutput \/ ProcessOther \/ ProcessViolation \/ EndOutput \/ AtRest

Spec == OutInit /\ [][Next]_vars
-----------------------------------------------------------------------------
(* Correctness                                                             *)

\* A TOL lists every violation and release between its start and its end that
\* the constraint thread found, once, in order; an error leaves only those
\* of the round it happened in out.
ListsViolations ==
  opc = "done" =>
    LET wanted == {n \in DOMAIN violations : violations[n].at \in start..end
                     /\ (failed => violations[n].at < curTime)}
    IN  /\ {listed[k] : k \in DOMAIN listed} = wanted
        /\ \A j, k \in DOMAIN listed : j < k => listed[j] < listed[k]

\* The violations of forbidden conditions reported before t and not released before t.
ActiveBefore(t, n) ==
  /\ violations[n].con \in Forbidden /\ violations[n].severity = "ERROR" /\ violations[n].at < t
  /\ \A m \in 1..last_safe_node :
       violations[m].ID = violations[n].ID /\ violations[m].severity = "RELEASE" => violations[m].at >= t

\* "We need to keep track of unreleased violations" (AP-1484): a TOL reports as
\* unreleased the violations whose release is not in it, and as earlier those
\* that were active when it starts.  The first violation of all is an exception:
\* it is tracked twice, from the beginning, and released only once.
ActiveViolationsReported ==
  opc = "done" =>
    LET known == 1..last_safe_node
    IN  /\ unreleased_violations \ {1} = {n \in known : ActiveBefore(end + 1, n)} \ {1}
        /\ \A n \in known : ActiveBefore(end + 1, n) => n \in unreleased_violations
        /\ we_have_passed_the_start_time =>
             /\ earlier_violations \ {1} = {n \in known : ActiveBefore(start, n)} \ {1}
             /\ \A n \in known : ActiveBefore(start, n) => n \in earlier_violations
=============================================================================
