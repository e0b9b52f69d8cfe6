----------------------------- MODULE Constraints -----------------------------
(***************************************************************************)
(* The constraint thread's own work: the loop of check_constraints and the *)
(* finite automata of its two kinds of constraints.  How the thread learns *)
(* of history nodes is TrailingThread's subject; here the nodes at one     *)
(* time simply name the constraints that depend on them, and the value of  *)
(* a condition is arbitrary each time it is evaluated.                     *)
(***************************************************************************)
EXTENDS Integers, Sequences, FiniteSets

CONSTANTS
  Forbidden,      \* constraints of class ForbiddenCondition
  Maximum,        \* constraints of class MaximumDuration
  MaxDuration,    \* maximum_duration of the latter
  Horizon,        \* bound: times are 0..Horizon
  MaxRuns         \* bound: modeling runs in one process

Constraint == Forbidden \cup Maximum

ASSUME ConstraintAssumption ==
  /\ Forbidden \cap Maximum = {} /\ Constraint # {}
  /\ MaxDuration \in [Maximum -> Nat]
  /\ Horizon \in Nat /\ MaxRuns \in Nat

VARIABLES
  pc,             \* "idle" (no modeling), "gather" or "evaluate"
  runs,           \* modeling runs started
  failed,         \* the last run ended with an error
  curTime, constraints_to_check,
  condition_has_been_true, id_of_last_violation, in_violation, since,
  violations,     \* Constraint::violations(), a list in order of time
  last_safe_node, \* a position in violations, 0 for NULL
  currentID,      \* con_violation::currentID
  seen            \* the evaluations of this run (history variable)

automata == <<condition_has_been_true, id_of_last_violation, in_violation, since>>
loopVars == <<pc, runs, failed, curTime, constraints_to_check>>
conVars == <<loopVars, automata, violations, last_safe_node, currentID, seen>>

Violation == [at : 0..Horizon, con : Constraint, severity : {"ERROR", "RELEASE"}, ID : Nat]

Init ==
  /\ pc = "idle" /\ runs = 0 /\ failed = FALSE
  /\ curTime = 0 /\ constraints_to_check = {}
  /\ condition_has_been_true = [c \in Constraint |-> FALSE]
  /\ id_of_last_violation = [c \in Forbidden |-> 0]
  /\ in_violation = [c \in Maximum |-> FALSE]
  /\ since = [c \in Maximum |-> 0]
  /\ violations = <<>> /\ last_safe_node = 0 /\ currentID = 0
  /\ seen = [c \in Constraint |-> <<>>]

-----------------------------------------------------------------------------
(* The automata                                                            *)

Report(c, severity, id) ==
  violations' = Append(violations, [at |-> curTime, con |-> c, severity |-> severity, ID |-> id])

\* Fault: a release is given an ID of its own.
EvaluateForbiddenAnew(c, val) ==
  /\ condition_has_been_true' = [condition_has_been_true EXCEPT ![c] = val]
  /\ UNCHANGED <<in_violation, since>>
  /\ IF condition_has_been_true[c] = val
       THEN UNCHANGED <<violations, currentID, id_of_last_violation>>
       ELSE /\ Report(c, IF val THEN "ERROR" ELSE "RELEASE", currentID)
            /\ currentID' = currentID + 1
            /\ id_of_last_violation' = [id_of_last_violation EXCEPT ![c] = currentID]

\* ForbiddenCondition::evaluate: report when the condition becomes true, and,
\* with the same ID, when it no longer is.
EvaluateForbidden(c, val) ==
  /\ condition_has_been_true' = [condition_has_been_true EXCEPT ![c] = val]
  /\ UNCHANGED <<in_violation, since>>
  /\ \/ /\ condition_has_been_true[c] = val
        /\ UNCHANGED <<violations, currentID, id_of_last_violation>>
     \/ /\ ~condition_has_been_true[c] /\ val
        /\ Report(c, "ERROR", currentID)
        /\ currentID' = currentID + 1
        /\ id_of_last_violation' = [id_of_last_violation EXCEPT ![c] = currentID]
     \/ /\ condition_has_been_true[c] /\ ~val
        /\ Report(c, "RELEASE", id_of_last_violation[c])
        /\ UNCHANGED <<currentID, id_of_last_violation>>

TooLong(c) == curTime - since[c] > MaxDuration[c]

\* Fault: a violation that ends with the condition is not reported.
EvaluateMaximumWhileTrue(c, val) ==
  LET reports == val /\ ~in_violation[c] /\ condition_has_been_true[c] /\ TooLong(c)
  IN  /\ condition_has_been_true' = [condition_has_been_true EXCEPT ![c] = val]
      /\ in_violation' = [in_violation EXCEPT ![c] = val /\ (@ \/ reports)]
      /\ since' = IF val /\ ~condition_has_been_true[c] THEN [since EXCEPT ![c] = curTime] ELSE since
      /\ IF reports
           THEN Report(c, "ERROR", currentID) /\ currentID' = currentID + 1
           ELSE UNCHANGED <<violations, currentID>>
      /\ UNCHANGED id_of_last_violation

\* MaximumDuration::evaluate: report once, at the first evaluation that finds
\* that the condition has lasted too long, also if it is no longer true.
EvaluateMaximum(c, val) ==
  /\ UNCHANGED id_of_last_violation
  /\ \/ /\ in_violation[c]
        /\ in_violation' = [in_violation EXCEPT ![c] = val]
        /\ condition_has_been_true' = [condition_has_been_true EXCEPT ![c] = @ /\ val]
        /\ UNCHANGED <<since, violations, currentID>>
     \/ /\ ~in_violation[c] /\ ~condition_has_been_true[c]
        /\ condition_has_been_true' = [condition_has_been_true EXCEPT ![c] = val]
        /\ since' = IF val THEN [since EXCEPT ![c] = curTime] ELSE since
        /\ UNCHANGED <<in_violation, violations, currentID>>
     \/ /\ ~in_violation[c] /\ condition_has_been_true[c]
        /\ condition_has_been_true' = [condition_has_been_true EXCEPT ![c] = val]
        /\ in_violation' = [in_violation EXCEPT ![c] = val /\ TooLong(c)]
        /\ IF TooLong(c)
             THEN Report(c, "ERROR", currentID) /\ currentID' = currentID + 1
             ELSE UNCHANGED <<violations, currentID>>
        /\ UNCHANGED since
-----------------------------------------------------------------------------
(* The loop of check_constraints                                           *)

\* Modeling starts: the lists are cleared.  The automata stay as the previous
\* run left them, because nothing calls Constraint::initialize.  Every history
\* starts with a node, so that all constraints are checked at the first time.
StartRun ==
  /\ pc = "idle" /\ runs < MaxRuns
  /\ pc' = "gather" /\ runs' = runs + 1 /\ failed' = FALSE
  /\ curTime' = 0 /\ constraints_to_check' = Constraint
  /\ violations' = <<>> /\ last_safe_node' = 0
  /\ seen' = [c \in Constraint |-> <<>>]
  /\ UNCHANGED <<automata, currentID>>

\* A node later than curTime: the constraints gathered so far are evaluated.
NextNodeIsLater ==
  /\ pc = "gather"
  /\ curTime < Horizon
  /\ pc' = "evaluate"
  /\ UNCHANGED <<runs, failed, curTime, constraints_to_check, automata, violations,
                 last_safe_node, currentID, seen>>

\* Fault: what one constraint reports is safe at once.
EvaluateAndStore(c, val) ==
  /\ pc = "evaluate"
  /\ c \in constraints_to_check
  /\ constraints_to_check' = constraints_to_check \ {c}
  /\ IF c \in Forbidden THEN EvaluateForbidden(c, val) ELSE EvaluateMaximum(c, val)
  /\ last_safe_node' = Len(violations')
  /\ seen' = [seen EXCEPT ![c] = Append(@, [at |-> curTime, val |-> val])]
  /\ UNCHANGED <<pc, runs, failed, curTime>>

Evaluate(c, val) ==
  /\ pc = "evaluate"
  /\ c \in constraints_to_check
  /\ constraints_to_check' = constraints_to_check \ {c}
  /\ IF c \in Forbidden THEN EvaluateForbidden(c, val) ELSE EvaluateMaximum(c, val)
  /\ seen' = [seen EXCEPT ![c] = Append(@, [at |-> curTime, val |-> val])]
  /\ UNCHANGED <<pc, runs, failed, curTime, last_safe_node>>

\* The condition or, after the state of the automaton has changed, the message
\* cannot be evaluated: the thread reports an error and ends.
EvaluationFails(c) ==
  /\ pc = "evaluate"
  /\ c \in constraints_to_check
  /\ \/ UNCHANGED automata
     \/ /\ c \in Forbidden
        /\ condition_has_been_true' = [condition_has_been_true EXCEPT ![c] = ~@]
        /\ UNCHANGED <<id_of_last_violation, in_violation, since>>
     \/ /\ c \in Maximum
        /\ ~in_violation[c] /\ condition_has_been_true[c] /\ TooLong(c)
        /\ \/ in_violation' = [in_violation EXCEPT ![c] = TRUE] /\ UNCHANGED condition_has_been_true
           \/ /\ condition_has_been_true' = [condition_has_been_true EXCEPT ![c] = FALSE]
              /\ UNCHANGED in_violation
        /\ UNCHANGED <<id_of_last_violation, since>>
  /\ pc' = "idle" /\ failed' = TRUE /\ constraints_to_check' = {}
  /\ UNCHANGED <<runs, curTime, violations, last_safe_node, currentID, seen>>

NewSafeNode ==
  IF last_safe_node = 0 \/ violations[Len(violations)].at > violations[last_safe_node].at
    THEN Len(violations) ELSE last_safe_node

\* All is evaluated at curTime; the later nodes are processed.
AdvanceTime ==
  /\ pc = "evaluate"
  /\ constraints_to_check = {}
  /\ last_safe_node' = NewSafeNode
  /\ curTime' \in (curTime + 1)..Horizon
  /\ constraints_to_check' \in SUBSET Constraint \ {{}}
  /\ pc' = "gather"
  /\ UNCHANGED <<runs, failed, automata, violations, currentID, seen>>

\* No node is left: what is gathered is not evaluated.
NoNodeIsLeft ==
  /\ pc = "gather"
  /\ pc' = "idle" /\ constraints_to_check' = {}
  /\ UNCHANGED <<runs, failed, curTime, automata, violations, last_safe_node, currentID, seen>>

CheckNext ==
  \/ StartRun \/ NextNodeIsLater \/ AdvanceTime \/ NoNodeIsLeft
  \/ \E c \in Constraint : EvaluationFails(c) \/ \E val \in BOOLEAN : Evaluate(c, val)

CheckSpec == Init /\ [][CheckNext]_conVars
-----------------------------------------------------------------------------
(* Correctness                                                             *)

\* The type of every variable; the last safe node is one of the list.
TypeOK ==
  /\ pc \in {"idle", "gather", "evaluate"} /\ runs \in 0..MaxRuns /\ failed \in BOOLEAN
  /\ curTime \in 0..Horizon /\ constraints_to_check \in SUBSET Constraint
  /\ condition_has_been_true \in [Constraint -> BOOLEAN]
  /\ id_of_last_violation \in [Forbidden -> Nat]
  /\ in_violation \in [Maximum -> BOOLEAN] /\ since \in [Maximum -> 0..Horizon]
  /\ violations \in Seq(Violation) /\ last_safe_node \in 0..Len(violations)
  /\ currentID \in Nat
  /\ seen \in [Constraint -> Seq([at : 0..Horizon, val : BOOLEAN])]

ReportsOf(c) == {n \in DOMAIN violations : violations[n].con = c}

Before(c, k) == IF k = 1 THEN FALSE ELSE seen[c][k - 1].val

\* Becomes[c, val]: the times at which c's condition was found to have become val.
Becomes(c, val) == {seen[c][k].at : k \in {k \in DOMAIN seen[c] : seen[c][k].val = val /\ Before(c, k) # val}}

TimesOf(c, severity) == {violations[n].at : n \in {n \in ReportsOf(c) : violations[n].severity = severity}}

\* ForbiddenCondition: the violations and releases that are reported are the
\* changes of the condition over the run, each once, in order, and a release has the ID of
\* the violation before it and of no other constraint's (the TOL and the GUI
\* match them by ID).
ForbiddenReports ==
  \A c \in Forbidden :
    /\ TimesOf(c, "ERROR") = Becomes(c, TRUE)
    /\ TimesOf(c, "RELEASE") = Becomes(c, FALSE)
    /\ \A m, n \in ReportsOf(c) : m < n => violations[m].at < violations[n].at
    /\ \A n \in ReportsOf(c) : \A m \in DOMAIN violations :
         violations[m].ID = violations[n].ID /\ m < n =>
           /\ violations[m].con = c
           /\ violations[m].severity = "ERROR" /\ violations[n].severity = "RELEASE"
           /\ \A k \in ReportsOf(c) : k <= m \/ k >= n
    /\ \A n \in ReportsOf(c) : violations[n].severity = "RELEASE" =>
         \E m \in 1..(n - 1) : violations[m].ID = violations[n].ID

\* The evaluations of c from the one that found its condition true, at k, to
\* the first that finds it false or to the last.
Lasting(c, k) ==
  {j \in k..Len(seen[c]) : \A i \in k..(j - 1) : seen[c][i].val}

\* MaximumDuration: every stretch of time over which the condition holds is
\* reported once if an evaluation finds it longer than the maximum, and the
\* report has the time of the first one that does.
MaximumReports ==
  \A c \in Maximum :
    LET starts == {k \in DOMAIN seen[c] : seen[c][k].val /\ ~Before(c, k)}
        late(k) == {j \in Lasting(c, k) : seen[c][j].at - seen[c][k].at > MaxDuration[c]}
        due == {k \in starts : late(k) # {}}
        first(k) == CHOOSE j \in late(k) : \A i \in late(k) : j <= i
    IN  /\ Cardinality(ReportsOf(c)) = Cardinality(due)
        /\ TimesOf(c, "ERROR") = {seen[c][first(k)].at : k \in due}

\* last_safe_node "won't be touched again, and so it is safe for the trailing
\* threads to consult it": what lies up to it stays as it is, and whatever is
\* reported afterwards is later.
SafeViolationsAreFinal ==
  [][ runs' = runs =>
        /\ last_safe_node' >= last_safe_node
        /\ \A n \in 1..last_safe_node : violations'[n] = violations[n]
        /\ \A n \in (Len(violations) + 1)..Len(violations') :
             \A m \in 1..last_safe_node : violations'[n].at > violations[m].at ]_conVars
=============================================================================
