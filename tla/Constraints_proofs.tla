-------------------------- MODULE Constraints_proofs --------------------------
(***************************************************************************)
(* Theorems about Constraints, for every set of constraints, every number  *)
(* of runs and every horizon; and about ViolationListing, for every number *)
(* of TOLs and every start and end of them: what a TOL says of the         *)
(* violations is what the constraint thread left in the list.              *)
(***************************************************************************)
EXTENDS ViolationListing, FiniteSetTheorems, WellFoundedInduction, TLAPS

\* Everything in the list was reported by now, and what is safe to consult
\* was reported before: the time of a round that is complete has passed.
SafeInv ==
  /\ \A n \in DOMAIN violations : violations[n].at <= curTime
  /\ \A n \in 1..last_safe_node : violations[n].at < curTime

IInv == TypeOK /\ SafeInv

\* What the evaluation of one constraint does to the list: nothing, or it adds
\* one report at the present time.
Extends ==
  \/ violations' = violations
  \/ \E v \in Violation : v.at = curTime /\ violations' = Append(violations, v)

LEMMA InitTypeOK == Init => TypeOK
<1> SUFFICES ASSUME Init PROVE TypeOK
  OBVIOUS
<1>1. 0 \in 0..Horizon /\ 0 \in 0..MaxRuns
  BY ConstraintAssumption
<1>2. /\ condition_has_been_true \in [Constraint -> BOOLEAN]
      /\ id_of_last_violation \in [Forbidden -> Nat]
      /\ in_violation \in [Maximum -> BOOLEAN] /\ since \in [Maximum -> 0..Horizon]
      /\ seen \in [Constraint -> Seq([at : 0..Horizon, val : BOOLEAN])]
  BY <1>1 DEF Init
<1>3. violations \in Seq(Violation) /\ last_safe_node \in 0..Len(violations)
  BY DEF Init
<1> QED
  BY <1>1, <1>2, <1>3 DEF Init, TypeOK

\* A forbidden condition reports at most once each time it is evaluated, and
\* leaves every variable in its type.
LEMMA ForbiddenEvaluation ==
  ASSUME TypeOK, NEW c \in Forbidden, NEW val \in BOOLEAN, EvaluateForbidden(c, val)
  PROVE  /\ Extends
         /\ condition_has_been_true' \in [Constraint -> BOOLEAN]
         /\ id_of_last_violation' \in [Forbidden -> Nat]
         /\ in_violation' \in [Maximum -> BOOLEAN] /\ since' \in [Maximum -> 0..Horizon]
         /\ currentID' \in Nat
<1> USE DEF TypeOK
<1>1. c \in Constraint
  BY DEF Constraint
<1>2. \A id \in Nat : \A s \in {"ERROR", "RELEASE"} :
        [at |-> curTime, con |-> c, severity |-> s, ID |-> id] \in Violation
  BY <1>1 DEF Violation
<1>3. condition_has_been_true' \in [Constraint -> BOOLEAN] /\ UNCHANGED <<in_violation, since>>
  BY <1>1 DEF EvaluateForbidden
<1>4. CASE condition_has_been_true[c] = val /\ UNCHANGED <<violations, currentID, id_of_last_violation>>
  BY <1>3, <1>4 DEF Extends
<1>5. CASE /\ Report(c, "ERROR", currentID)
           /\ currentID' = currentID + 1
           /\ id_of_last_violation' = [id_of_last_violation EXCEPT ![c] = currentID]
  <2>1. Extends
    BY <1>2, <1>5 DEF Extends, Report
  <2>2. id_of_last_violation' \in [Forbidden -> Nat] /\ currentID' \in Nat
    BY <1>5
  <2> QED
    BY <1>3, <2>1, <2>2
<1>6. CASE /\ Report(c, "RELEASE", id_of_last_violation[c])
           /\ UNCHANGED <<currentID, id_of_last_violation>>
  <2>1. id_of_last_violation[c] \in Nat
    OBVIOUS
  <2>2. Extends
    BY <1>2, <1>6, <2>1 DEF Extends, Report
  <2> QED
    BY <1>3, <1>6, <2>2
<1> QED
  BY <1>4, <1>5, <1>6 DEF EvaluateForbidden

\* The same of a maximum duration.
LEMMA MaximumEvaluation ==
  ASSUME TypeOK, NEW c \in Maximum, NEW val \in BOOLEAN, EvaluateMaximum(c, val)
  PROVE  /\ Extends
         /\ condition_has_been_true' \in [Constraint -> BOOLEAN]
         /\ id_of_last_violation' \in [Forbidden -> Nat]
         /\ in_violation' \in [Maximum -> BOOLEAN] /\ since' \in [Maximum -> 0..Horizon]
         /\ currentID' \in Nat
<1> USE DEF TypeOK
<1>1. c \in Constraint
  BY DEF Constraint
<1>2. \A id \in Nat : [at |-> curTime, con |-> c, severity |-> "ERROR", ID |-> id] \in Violation
  BY <1>1 DEF Violation
<1>3. id_of_last_violation' \in [Forbidden -> Nat]
  BY DEF EvaluateMaximum
<1>5. ASSUME Report(c, "ERROR", currentID), currentID' = currentID + 1
      PROVE  Extends /\ currentID' \in Nat
  <2> DEFINE v == [at |-> curTime, con |-> c, severity |-> "ERROR", ID |-> currentID]
  <2>1. currentID \in Nat
    OBVIOUS
  <2>2. v \in Violation /\ v.at = curTime
    BY <1>2, <2>1
  <2>3. violations' = Append(violations, v)
    BY <1>5 DEF Report
  <2>4. Extends
    BY <2>2, <2>3 DEF Extends
  <2> QED
    BY <1>5, <2>1, <2>4
<1>6. ASSUME UNCHANGED <<violations, currentID>>
      PROVE  Extends /\ currentID' \in Nat
  BY <1>6 DEF Extends
<1>7. condition_has_been_true' \in [Constraint -> BOOLEAN]
  BY <1>1 DEF EvaluateMaximum
<1>8. in_violation' \in [Maximum -> BOOLEAN]
  <2>1. CASE TooLong(c)
    BY <2>1 DEF EvaluateMaximum
  <2>2. CASE ~TooLong(c)
    BY <2>2 DEF EvaluateMaximum
  <2> QED
    BY <2>1, <2>2
<1>9. since' \in [Maximum -> 0..Horizon]
  BY DEF EvaluateMaximum
<1>10. Extends /\ currentID' \in Nat
  BY <1>5, <1>6 DEF EvaluateMaximum
<1> QED
  BY <1>3, <1>7, <1>8, <1>9, <1>10

\* The list after one evaluation: still a list, a prefix of it unchanged.
LEMMA ExtendedList ==
  ASSUME TypeOK, SafeInv, Extends, curTime' = curTime, last_safe_node' = last_safe_node
  PROVE  /\ violations' \in Seq(Violation)
         /\ Len(violations') >= Len(violations)
         /\ \A n \in DOMAIN violations : violations'[n] = violations[n]
         /\ \A n \in (Len(violations) + 1)..Len(violations') : violations'[n].at = curTime
         /\ SafeInv'
<1>1. violations \in Seq(Violation) /\ last_safe_node \in 0..Len(violations) /\ curTime \in Nat
  BY ConstraintAssumption DEF TypeOK
<1>2. CASE violations' = violations
  BY <1>1, <1>2 DEF SafeInv
<1>3. ASSUME NEW v \in Violation, v.at = curTime, violations' = Append(violations, v)
      PROVE  /\ violations' \in Seq(Violation)
             /\ Len(violations') >= Len(violations)
             /\ \A n \in DOMAIN violations : violations'[n] = violations[n]
             /\ \A n \in (Len(violations) + 1)..Len(violations') : violations'[n].at = curTime
             /\ SafeInv'
  <2>1. /\ violations' \in Seq(Violation)
        /\ Len(violations') = Len(violations) + 1
        /\ \A n \in 1..Len(violations) : violations'[n] = violations[n]
        /\ violations'[Len(violations) + 1] = v
        /\ DOMAIN violations = 1..Len(violations)
        /\ DOMAIN violations' = 1..(Len(violations) + 1)
        /\ Len(violations) \in Nat
    BY <1>1, <1>3
  <2>2. \A n \in DOMAIN violations' : violations'[n].at <= curTime
    <3> SUFFICES ASSUME NEW n \in 1..(Len(violations) + 1)
                 PROVE  violations'[n].at <= curTime
      BY <2>1
    <3>1. CASE n = Len(violations) + 1
      BY <3>1, <2>1, <1>1, <1>3
    <3>2. CASE n \in 1..Len(violations)
      BY <3>2, <2>1 DEF SafeInv
    <3> QED
      BY <3>1, <3>2, <2>1
  <2>3. \A n \in 1..last_safe_node : violations'[n].at < curTime
    BY <1>1, <2>1 DEF SafeInv
  <2>4. \A n \in (Len(violations) + 1)..Len(violations') : violations'[n].at = curTime
    <3> SUFFICES ASSUME NEW n \in (Len(violations) + 1)..Len(violations')
                 PROVE  violations'[n].at = curTime
      OBVIOUS
    <3>1. n = Len(violations) + 1
      BY <2>1
    <3> QED
      BY <3>1, <2>1, <1>3
  <2> QED
    BY <2>1, <2>2, <2>3, <2>4 DEF SafeInv
<1> QED
  BY <1>2, <1>3 DEF Extends

\* NewSafeNode never goes back, and stays within the list.
LEMMA SafeNodeAdvances ==
  ASSUME TypeOK
  PROVE  NewSafeNode \in last_safe_node..Len(violations)
<1>1. Len(violations) \in Nat /\ last_safe_node \in 0..Len(violations)
  BY DEF TypeOK
<1> QED
  BY <1>1 DEF NewSafeNode
-----------------------------------------------------------------------------
\* Initially nothing is reported.
LEMMA InitIInv == Init => IInv
<1>1. Init => SafeInv
  BY DEF Init, SafeInv
<1> QED
  BY <1>1, InitTypeOK DEF IInv

\* What evaluating a constraint does to the invariant and to the list.
LEMMA EvaluateStep ==
  ASSUME IInv, NEW c \in Constraint, NEW val \in BOOLEAN, Evaluate(c, val)
  PROVE  IInv' /\ Extends
<1>1. /\ Extends
      /\ condition_has_been_true' \in [Constraint -> BOOLEAN]
      /\ id_of_last_violation' \in [Forbidden -> Nat]
      /\ in_violation' \in [Maximum -> BOOLEAN] /\ since' \in [Maximum -> 0..Horizon]
      /\ currentID' \in Nat
  <2>1. CASE c \in Forbidden
    BY <2>1, ForbiddenEvaluation DEF IInv, Evaluate
  <2>2. CASE c \notin Forbidden
    BY <2>2, MaximumEvaluation DEF IInv, Evaluate, Constraint
  <2> QED
    BY <2>1, <2>2
<1>2. /\ violations' \in Seq(Violation)
      /\ Len(violations') >= Len(violations)
      /\ SafeInv'
  BY <1>1, ExtendedList DEF IInv, Evaluate
<1>3. last_safe_node' \in 0..Len(violations')
  <2>1. violations \in Seq(Violation) /\ last_safe_node \in 0..Len(violations)
    BY DEF IInv, TypeOK
  <2>2. Len(violations) \in Nat /\ Len(violations') \in Nat
    BY <1>2, <2>1
  <2> QED
    BY <1>2, <2>1, <2>2 DEF Evaluate
<1>4. seen' \in [Constraint -> Seq([at : 0..Horizon, val : BOOLEAN])]
  <2> DEFINE Found == [at : 0..Horizon, val : BOOLEAN]
             found == [at |-> curTime, val |-> val]
  <2>1. found \in Found /\ seen[c] \in Seq(Found)
    BY DEF IInv, TypeOK
  <2> HIDE DEF Found, found
  <2>2. Append(seen[c], found) \in Seq(Found)
    BY <2>1
  <2> USE DEF Found, found
  <2> QED
    BY <2>2 DEF IInv, TypeOK, Evaluate
<1>5. TypeOK'
  BY <1>1, <1>2, <1>3, <1>4 DEF IInv, TypeOK, Evaluate
<1> QED
  BY <1>1, <1>2, <1>5 DEF IInv

\* The invariant is inductive.
LEMMA NextIInv == IInv /\ [CheckNext]_conVars => IInv'
<1> SUFFICES ASSUME IInv, [CheckNext]_conVars
             PROVE  IInv'
  OBVIOUS
<1>0. Horizon \in Nat /\ MaxRuns \in Nat
  BY ConstraintAssumption
<1>1. CASE StartRun
  <2>1. TypeOK'
    <3>1. runs' \in 0..MaxRuns /\ curTime' \in 0..Horizon
      BY <1>0, <1>1 DEF IInv, TypeOK, StartRun
    <3>2. violations' \in Seq(Violation) /\ last_safe_node' \in 0..Len(violations')
      BY <1>1 DEF StartRun
    <3>3. seen' \in [Constraint -> Seq([at : 0..Horizon, val : BOOLEAN])]
      BY <1>1 DEF StartRun
    <3> QED
      BY <1>1, <3>1, <3>2, <3>3 DEF IInv, TypeOK, StartRun, automata
  <2>2. SafeInv'
    BY <1>1 DEF StartRun, SafeInv
  <2> QED
    BY <2>1, <2>2 DEF IInv
<1>2. CASE NextNodeIsLater
  BY <1>2 DEF IInv, TypeOK, SafeInv, NextNodeIsLater, automata
<1>3. CASE AdvanceTime
  <2>1. NewSafeNode \in last_safe_node..Len(violations)
    BY SafeNodeAdvances DEF IInv
  <2>2. /\ violations \in Seq(Violation) /\ Len(violations) \in Nat
        /\ DOMAIN violations = 1..Len(violations)
        /\ last_safe_node \in 0..Len(violations) /\ curTime \in 0..Horizon
    BY DEF IInv, TypeOK
  <2>3. last_safe_node' \in 0..Len(violations)
    BY <1>3, <2>1, <2>2 DEF AdvanceTime
  <2>4. curTime' \in 0..Horizon /\ curTime' > curTime
    BY <1>3, <1>0, <2>2 DEF AdvanceTime
  <2>5. TypeOK'
    BY <1>3, <2>3, <2>4 DEF IInv, TypeOK, AdvanceTime, automata
  <2>6. \A n \in 1..Len(violations) : violations[n].at \in Nat /\ violations[n].at < curTime'
    <3> SUFFICES ASSUME NEW n \in 1..Len(violations)
                 PROVE  violations[n].at \in Nat /\ violations[n].at < curTime'
      OBVIOUS
    <3>1. violations[n] \in Violation
      BY <2>2
    <3>2. violations[n].at \in Nat
      BY <3>1, <1>0 DEF Violation
    <3>3. violations[n].at <= curTime
      BY <2>2 DEF IInv, SafeInv
    <3> QED
      BY <3>2, <3>3, <2>2, <2>4
  <2>7. violations' = violations
    BY <1>3 DEF AdvanceTime
  <2>8. SafeInv'
    BY <2>2, <2>3, <2>4, <2>6, <2>7 DEF SafeInv
  <2> QED
    BY <2>5, <2>8 DEF IInv
<1>4. CASE NoNodeIsLeft
  BY <1>4 DEF IInv, TypeOK, SafeInv, NoNodeIsLeft, automata
<1>5. ASSUME NEW c \in Constraint, EvaluationFails(c)
      PROVE  IInv'
  <2>1. /\ condition_has_been_true' \in [Constraint -> BOOLEAN]
        /\ id_of_last_violation' \in [Forbidden -> Nat]
        /\ in_violation' \in [Maximum -> BOOLEAN] /\ since' \in [Maximum -> 0..Horizon]
    BY <1>5 DEF IInv, TypeOK, EvaluationFails, automata
  <2> QED
    BY <1>5, <2>1 DEF IInv, TypeOK, SafeInv, EvaluationFails
<1>6. ASSUME NEW c \in Constraint, NEW val \in BOOLEAN, Evaluate(c, val)
      PROVE  IInv'
  BY <1>6, EvaluateStep
<1>7. CASE UNCHANGED conVars
  BY <1>7 DEF IInv, TypeOK, SafeInv, conVars, loopVars, automata
<1> QED
  BY <1>1, <1>2, <1>3, <1>4, <1>5, <1>6, <1>7 DEF CheckNext

-----------------------------------------------------------------------------
\* Type correctness of the loop and the automata of check_constraints.
THEOREM TypeCorrect == CheckSpec => []TypeOK
<1>1. Init => IInv
  BY InitIInv
<1>2. IInv /\ [CheckNext]_conVars => IInv'
  BY NextIInv
<1>3. IInv => TypeOK
  BY DEF IInv
<1> QED
  BY <1>1, <1>2, <1>3, PTL DEF CheckSpec

\* One step keeps what is safe: the body of SafeViolationsAreFinal.
Final ==
  runs' = runs =>
    /\ last_safe_node' >= last_safe_node
    /\ \A n \in 1..last_safe_node : violations'[n] = violations[n]
    /\ \A n \in (Len(violations) + 1)..Len(violations') :
         \A m \in 1..last_safe_node : violations'[n].at > violations[m].at

LEMMA StepIsFinal == IInv /\ CheckNext => Final
<1> SUFFICES ASSUME IInv, CheckNext
             PROVE  Final
  OBVIOUS
<1>1. /\ violations \in Seq(Violation) /\ Len(violations) \in Nat
      /\ DOMAIN violations = 1..Len(violations)
      /\ last_safe_node \in 0..Len(violations) /\ curTime \in Nat
  BY ConstraintAssumption DEF IInv, TypeOK
<1>2. ASSUME violations' = violations, last_safe_node' >= last_safe_node
      PROVE  Final
  BY <1>1, <1>2 DEF Final
<1>3. last_safe_node >= last_safe_node
  BY <1>1
<1>4. CASE StartRun
  <2>1. runs' # runs
    BY <1>4, ConstraintAssumption DEF StartRun, IInv, TypeOK
  <2> QED
    BY <2>1 DEF Final
<1>5. CASE NextNodeIsLater
  BY <1>2, <1>3, <1>5 DEF NextNodeIsLater
<1>6. CASE AdvanceTime
  <2>1. NewSafeNode \in last_safe_node..Len(violations)
    BY SafeNodeAdvances DEF IInv
  <2>2. last_safe_node' >= last_safe_node
    BY <1>1, <1>6, <2>1 DEF AdvanceTime
  <2> QED
    BY <1>2, <1>6, <2>2 DEF AdvanceTime
<1>7. CASE NoNodeIsLeft
  BY <1>2, <1>3, <1>7 DEF NoNodeIsLeft
<1>8. ASSUME NEW c \in Constraint, EvaluationFails(c)
      PROVE  Final
  BY <1>2, <1>3, <1>8 DEF EvaluationFails
<1>9. ASSUME NEW c \in Constraint, NEW val \in BOOLEAN, Evaluate(c, val)
      PROVE  Final
  <2>1. Extends
    BY <1>9, EvaluateStep
  <2>2. /\ \A n \in DOMAIN violations : violations'[n] = violations[n]
        /\ \A n \in (Len(violations) + 1)..Len(violations') : violations'[n].at = curTime
    BY <1>9, <2>1, ExtendedList DEF IInv, Evaluate
  <2>3. last_safe_node' >= last_safe_node
    BY <1>3, <1>9 DEF Evaluate
  <2>4. \A n \in 1..last_safe_node : violations'[n] = violations[n]
    BY <1>1, <2>2
  <2>5. \A m \in 1..last_safe_node : violations[m].at \in Nat /\ curTime > violations[m].at
    <3> SUFFICES ASSUME NEW m \in 1..last_safe_node
                 PROVE  violations[m].at \in Nat /\ curTime > violations[m].at
      OBVIOUS
    <3>1. violations[m] \in Violation
      BY <1>1
    <3>2. violations[m].at \in Nat
      BY <3>1, ConstraintAssumption DEF Violation
    <3>3. violations[m].at < curTime
      BY DEF IInv, SafeInv
    <3> QED
      BY <1>1, <3>2, <3>3
  <2> QED
    BY <2>2, <2>3, <2>4, <2>5 DEF Final
<1> QED
  BY <1>4, <1>5, <1>6, <1>7, <1>8, <1>9 DEF CheckNext

\* What lies up to last_safe_node is never touched again, and nothing is ever
\* reported before it or at its time: a reader needs no lock.
THEOREM SafeViolationsFinal == CheckSpec => SafeViolationsAreFinal
<1>1. Init => IInv
  BY InitIInv
<1>2. IInv /\ [CheckNext]_conVars => IInv'
  BY NextIInv
<1>3. IInv /\ [CheckNext]_conVars => [Final]_conVars
  BY StepIsFinal
<1>4. CheckSpec => [][Final]_conVars
  BY <1>1, <1>2, <1>3, PTL DEF CheckSpec
<1>5. [][Final]_conVars => SafeViolationsAreFinal
  BY PTL DEF SafeViolationsAreFinal, Final
<1> QED
  BY <1>4, <1>5
-----------------------------------------------------------------------------
(* What is reported, in the first run *)

\* The automata are those of the run under way: after a failure they may have
\* changed without a report.
Alive == pc # "idle" \/ runs = 0

\* The condition of c as it was found last.
Found(c) == IF seen[c] = <<>> THEN FALSE ELSE seen[c][Len(seen[c])].val

\* A constraint is evaluated at most once at each time.
SeenInv ==
  \A c \in Constraint :
    /\ \A j, k \in DOMAIN seen[c] : j < k => seen[c][j].at < seen[c][k].at
    /\ \A k \in DOMAIN seen[c] : seen[c][k].at <= curTime
    /\ pc = "gather" \/ (pc = "evaluate" /\ c \in constraints_to_check) =>
         \A k \in DOMAIN seen[c] : seen[c][k].at < curTime

FreshInv == \A n \in DOMAIN violations : violations[n].ID < currentID

\* m is a violation and n its release, with no report of the constraint between.
Pair(m, n) ==
  /\ violations[m].con = violations[n].con
  /\ violations[m].severity = "ERROR" /\ violations[n].severity = "RELEASE"
  /\ \A k \in ReportsOf(violations[m].con) : k <= m \/ k >= n

\* An ID is used once, or by a pair.
PairInv ==
  /\ \A m, n \in DOMAIN violations : m < n /\ violations[m].ID = violations[n].ID => Pair(m, n)
  /\ \A n \in DOMAIN violations : violations[n].severity = "RELEASE" =>
       \E m \in 1..(n - 1) : violations[m].ID = violations[n].ID

\* m is the last report of c, a violation whose ID the automaton keeps, and that
\* no other report has.
Unreleased(c, m) ==
  /\ m \in ReportsOf(c) /\ \A k \in ReportsOf(c) : k <= m
  /\ violations[m].severity = "ERROR" /\ violations[m].ID = id_of_last_violation[c]
  /\ \A n \in DOMAIN violations : violations[n].ID = violations[m].ID => n = m

ForbiddenInv(c) ==
  /\ TimesOf(c, "ERROR") = Becomes(c, TRUE) /\ TimesOf(c, "RELEASE") = Becomes(c, FALSE)
  /\ \A m, n \in ReportsOf(c) : m < n => violations[m].at < violations[n].at
  /\ Alive => condition_has_been_true[c] = Found(c)
  /\ Alive /\ condition_has_been_true[c] => \E m \in DOMAIN violations : Unreleased(c, m)

Starts(c) == {k \in DOMAIN seen[c] : seen[c][k].val /\ ~Before(c, k)}
Late(c, k) == {j \in Lasting(c, k) : seen[c][j].at - seen[c][k].at > MaxDuration[c]}
Due(c) == {k \in Starts(c) : Late(c, k) # {}}
FirstLate(c, k) == CHOOSE j \in Late(c, k) : \A i \in Late(c, k) : j <= i

\* The stretch that starts at k has not ended.
Current(c, k) == k \in Starts(c) /\ \A i \in k..Len(seen[c]) : seen[c][i].val

MaximumInv(c) ==
  /\ Cardinality(ReportsOf(c)) = Cardinality(Due(c))
  /\ TimesOf(c, "ERROR") = {seen[c][FirstLate(c, k)].at : k \in Due(c)}
  /\ Alive => condition_has_been_true[c] = Found(c) /\ (in_violation[c] => condition_has_been_true[c])
  /\ Alive /\ condition_has_been_true[c] =>
       \E k \in DOMAIN seen[c] :
         /\ Current(c, k) /\ (in_violation[c] <=> k \in Due(c))
         /\ ~in_violation[c] => since[c] = seen[c][k].at

\* Before the first run the automata and the histories are as Init leaves them.
Untouched == runs = 0 => pc = "idle" /\ \A c \in Constraint : seen[c] = <<>>

ReportInv ==
  runs <= 1 =>
    /\ FreshInv /\ PairInv /\ Untouched
    /\ \A c \in Forbidden : ForbiddenInv(c)
    /\ \A c \in Maximum : MaximumInv(c)

RunInv == IInv /\ SeenInv /\ ReportInv

\* One more element at the end of a list.
LEMMA Appended ==
  ASSUME NEW S, NEW s \in Seq(S), NEW x \in S, NEW t, t = Append(s, x)
  PROVE  /\ t \in Seq(S) /\ Len(s) \in Nat /\ Len(t) = Len(s) + 1
         /\ DOMAIN s = 1..Len(s) /\ DOMAIN t = 1..(Len(s) + 1)
         /\ \A n \in 1..Len(s) : t[n] = s[n]
         /\ t[Len(s) + 1] = x
OBVIOUS

\* What is known of each report.
LEMMA ReportTypes ==
  ASSUME TypeOK, NEW n \in DOMAIN violations
  PROVE  /\ Len(violations) \in Nat /\ n \in 1..Len(violations) /\ n \in Nat
         /\ violations[n].at \in Nat /\ violations[n].ID \in Nat /\ violations[n].con \in Constraint
         /\ violations[n].severity \in {"ERROR", "RELEASE"}
<1>1. violations \in Seq(Violation)
  BY DEF TypeOK
<1>2. Len(violations) \in Nat /\ n \in 1..Len(violations) /\ violations[n] \in Violation
  BY <1>1
<1> QED
  BY <1>2, ConstraintAssumption DEF Violation

\* One more report changes what is said of its constraint only.
LEMMA OneMoreReport ==
  ASSUME TypeOK, NEW v \in Violation, violations' = Append(violations, v), NEW d
  PROVE  LET new == Len(violations) + 1
         IN  /\ ReportsOf(d)' = IF v.con = d THEN ReportsOf(d) \cup {new} ELSE ReportsOf(d)
             /\ \A s : TimesOf(d, s)' = IF v.con = d /\ v.severity = s
                                        THEN TimesOf(d, s) \cup {v.at} ELSE TimesOf(d, s)
             /\ v.con # d => \A s : TimesOf(d, s)' = TimesOf(d, s)
<1> DEFINE new == Len(violations) + 1
<1>1. /\ Len(violations) \in Nat
      /\ DOMAIN violations = 1..Len(violations) /\ DOMAIN violations' = 1..new
      /\ \A n \in 1..Len(violations) : violations'[n] = violations[n]
      /\ violations'[new] = v
  BY Appended DEF TypeOK
<1>2. DOMAIN violations' = DOMAIN violations \cup {new}
      /\ new \notin DOMAIN violations
  BY <1>1
<1> HIDE DEF new
<1>3. ReportsOf(d)' = IF v.con = d THEN ReportsOf(d) \cup {new} ELSE ReportsOf(d)
  BY <1>1, <1>2 DEF ReportsOf
<1>4. ASSUME NEW s
      PROVE  TimesOf(d, s)' = IF v.con = d /\ v.severity = s
                              THEN TimesOf(d, s) \cup {v.at} ELSE TimesOf(d, s)
  <2>1. \A n \in ReportsOf(d) : violations'[n] = violations[n]
    BY <1>1 DEF ReportsOf
  <2> DEFINE N == {n \in ReportsOf(d) : violations[n].severity = s}
             N1 == {n \in ReportsOf(d)' : violations'[n].severity = s}
  <2>2. TimesOf(d, s) = {violations[n].at : n \in N} /\ TimesOf(d, s)' = {violations'[n].at : n \in N1}
    BY DEF TimesOf
  <2>3. N1 = IF v.con = d /\ v.severity = s THEN N \cup {new} ELSE N
    BY <1>1, <1>3, <2>1
  <2>4. \A n \in N : violations'[n] = violations[n]
    BY <2>1
  <2>5. CASE v.con = d /\ v.severity = s
    <3>1. N1 = N \cup {new}
      BY <2>3, <2>5
    <3> HIDE DEF N, N1
    <3>2. {violations'[n].at : n \in N \cup {new}} = {violations[n].at : n \in N} \cup {v.at}
      <4>1. \A y : y \in {violations'[n].at : n \in N \cup {new}}
                   <=> y = violations'[new].at \/ \E n \in N : y = violations'[n].at
        OBVIOUS
      <4>2. \A y : (\E n \in N : y = violations'[n].at) <=> \E n \in N : y = violations[n].at
        BY <2>4
      <4> QED
        <5>1. violations'[new].at = v.at
          BY <1>1
        <5>2. ASSUME NEW y
              PROVE  y \in {violations'[n].at : n \in N \cup {new}}
                     <=> y \in {violations[n].at : n \in N} \cup {v.at}
          <6>1. y \in {violations[n].at : n \in N} <=> \E n \in N : y = violations[n].at
            OBVIOUS
          <6>2. y \in {violations'[n].at : n \in N \cup {new}}
                <=> y = v.at \/ y \in {violations[n].at : n \in N}
            BY <4>1, <4>2, <5>1, <6>1, Zenon
          <6> QED
            BY <6>2
        <5> QED
          BY <5>2
    <3> QED
      BY <2>2, <2>5, <3>1, <3>2
  <2>6. CASE ~(v.con = d /\ v.severity = s)
    <3>1. N1 = N
      BY <2>3, <2>6
    <3> HIDE DEF N, N1
    <3>2. {violations'[n].at : n \in N} = {violations[n].at : n \in N}
      BY <2>4
    <3> QED
      BY <2>2, <2>6, <3>1, <3>2
  <2> QED
    BY <2>5, <2>6
<1> QED
  BY <1>3, <1>4 DEF new

\* One more evaluation of c: the condition becomes val, or was val before.
LEMMA OneMoreEvaluation ==
  ASSUME TypeOK, NEW c \in Constraint, NEW val \in BOOLEAN,
         seen' = [seen EXCEPT ![c] = Append(@, [at |-> curTime, val |-> val])]
  PROVE  /\ Found(c)' = val /\ Found(c) \in BOOLEAN
         /\ \A b \in BOOLEAN :
              Becomes(c, b)' = IF b = val /\ Found(c) # val THEN Becomes(c, b) \cup {curTime}
                                                            ELSE Becomes(c, b)
         /\ \A d \in Constraint : d # c => seen'[d] = seen[d]
<1> DEFINE s == seen[c]
           t == seen'[c]
           new == Len(s) + 1
           x == [at |-> curTime, val |-> val]
           Evaluation == [at : 0..Horizon, val : BOOLEAN]
<1>1. s \in Seq(Evaluation) /\ x \in Evaluation /\ t = Append(s, x)
  BY DEF TypeOK
<1> HIDE DEF Evaluation, s, t, x
<1>2. /\ Len(s) \in Nat /\ DOMAIN s = 1..Len(s) /\ DOMAIN t = 1..new /\ Len(t) = new
      /\ \A n \in 1..Len(s) : t[n] = s[n]
      /\ t[new] = x /\ x.at = curTime /\ x.val = val
      /\ \A n \in 1..Len(s) : s[n].val \in BOOLEAN
  <2>1. \A n \in 1..Len(s) : s[n] \in Evaluation
    BY <1>1
  <2>2. \A n \in 1..Len(s) : s[n].val \in BOOLEAN
    BY <2>1 DEF Evaluation
  <2> QED
    BY <1>1, <2>2, Appended DEF x
<1>3. t # <<>> /\ (s = <<>> <=> Len(s) = 0)
  BY <1>1, <1>2
<1>4. Found(c)' = val
  BY <1>2, <1>3 DEF Found, t
<1>5. Found(c) = IF Len(s) = 0 THEN FALSE ELSE s[Len(s)].val
  BY <1>3 DEF Found, s
<1>6. Found(c) \in BOOLEAN
  <2>1. CASE Len(s) = 0
    BY <1>5, <2>1
  <2>2. CASE Len(s) # 0
    <3>1. Len(s) \in 1..Len(s)
      BY <1>2, <2>2
    <3> QED
      BY <1>2, <1>5, <2>2, <3>1
  <2> QED
    BY <2>1, <2>2
<1>7. /\ \A n \in 1..Len(s) : Before(c, n)' = Before(c, n)
      /\ \A n : n = new => Before(c, n)' = Found(c)
  <2>1. /\ \A n : Before(c, n) = IF n = 1 THEN FALSE ELSE s[n - 1].val
        /\ \A n : Before(c, n)' = IF n = 1 THEN FALSE ELSE t[n - 1].val
    BY DEF Before, s, t
  <2>2. ASSUME NEW n \in 1..Len(s), n # 1 PROVE t[n - 1] = s[n - 1]
    <3>1. n - 1 \in 1..Len(s)
      BY <1>2, <2>2
    <3> QED
      BY <1>2, <3>1
  <2>3. \A n \in 1..Len(s) : Before(c, n)' = Before(c, n)
    BY <2>1, <2>2
  <2>4. ASSUME NEW n, n = new PROVE Before(c, n)' = Found(c)
    <3>1. Before(c, n)' = IF n = 1 THEN FALSE ELSE t[n - 1].val
      BY <2>1
    <3>2. CASE Len(s) = 0
      <4>1. n = 1
        BY <2>4, <3>2
      <4>2. Before(c, n)' = FALSE
        BY <3>1, <4>1
      <4>3. Found(c) = FALSE
        BY <1>5, <3>2
      <4> QED
        BY <4>2, <4>3
    <3>3. CASE Len(s) # 0
      <4>1. Len(s) \in 1..Len(s) /\ n - 1 = Len(s) /\ n # 1
        BY <1>2, <2>4, <3>3
      <4>2. t[n - 1] = s[Len(s)]
        BY <1>2, <4>1
      <4> QED
        BY <1>5, <3>1, <3>3, <4>1, <4>2
    <3> QED
      BY <3>2, <3>3
  <2> QED
    BY <2>3, <2>4
<1>8. ASSUME NEW b \in BOOLEAN
      PROVE  Becomes(c, b)' = IF b = val /\ Found(c) # val THEN Becomes(c, b) \cup {curTime}
                                                           ELSE Becomes(c, b)
  <2> DEFINE K == {k \in DOMAIN s : s[k].val = b /\ Before(c, k) # b}
             K1 == {k \in DOMAIN t : t[k].val = b /\ Before(c, k)' # b}
  <2>1. Becomes(c, b) = {s[k].at : k \in K} /\ Becomes(c, b)' = {t[k].at : k \in K1}
    BY DEF Becomes, s, t
  <2>2. K1 = IF b = val /\ Found(c) # val THEN K \cup {new} ELSE K
    <3>1. DOMAIN t = DOMAIN s \cup {new} /\ new \notin DOMAIN s
      BY <1>2
    <3>2. ASSUME NEW k \in DOMAIN s PROVE k \in K1 <=> k \in K
      <4>1. t[k].val = s[k].val
        BY <1>2, <3>2
      <4>2. Before(c, k)' = Before(c, k)
        BY <1>2, <1>7, <3>2
      <4> QED
        BY <3>1, <3>2, <4>1, <4>2
    <3>3. new \in K1 <=> (val = b /\ Found(c) # b)
      <4>1. \A k : k = new => (k \in K1 <=> (t[k].val = b /\ Found(c) # b))
        BY <1>7, <3>1
      <4> QED
        BY <1>2, <4>1
    <3>4. K1 \subseteq DOMAIN s \cup {new} /\ K \subseteq DOMAIN s
      BY <3>1
    <3> HIDE DEF K, K1, new
    <3>5. CASE b = val /\ Found(c) # val
      <4>1. new \in K1
        BY <3>3, <3>5
      <4> QED
        BY <3>1, <3>2, <3>4, <3>5, <4>1
    <3>6. CASE ~(b = val /\ Found(c) # val)
      <4>1. new \notin K1
        BY <3>3, <3>6
      <4>2. K1 = K
        BY <3>1, <3>2, <3>4, <4>1
      <4> QED
        BY <3>6, <4>2
    <3> QED
      BY <3>5, <3>6
  <2>3. \A k \in K : t[k].at = s[k].at
    BY <1>2
  <2>4. t[new].at = curTime
    BY <1>2
  <2> HIDE DEF K, K1, new
  <2>5. CASE b = val /\ Found(c) # val
    <3>1. K1 = K \cup {new}
      BY <2>2, <2>5
    <3>2. {t[k].at : k \in K \cup {new}} = {s[k].at : k \in K} \cup {curTime}
      <4>1. \A y : y \in {t[k].at : k \in K \cup {new}} <=> y = t[new].at \/ \E k \in K : y = t[k].at
        OBVIOUS
      <4>2. \A y : (\E k \in K : y = t[k].at) <=> \E k \in K : y = s[k].at
        BY <2>3
      <4> QED
        BY <2>4, <4>1, <4>2
    <3> QED
      BY <2>1, <2>5, <3>1, <3>2
  <2>6. CASE ~(b = val /\ Found(c) # val)
    <3>1. K1 = K
      BY <2>2, <2>6
    <3>2. {t[k].at : k \in K} = {s[k].at : k \in K}
      BY <2>3
    <3> QED
      BY <2>1, <2>6, <3>1, <3>2
  <2> QED
    BY <2>5, <2>6
<1>9. \A d \in Constraint : d # c => seen'[d] = seen[d]
  BY DEF TypeOK
<1> QED
  BY <1>4, <1>6, <1>8, <1>9

\* What is said of the histories and of the list while they stay as they are.
LEMMA SameSeen ==
  ASSUME NEW c, seen'[c] = seen[c]
  PROVE  /\ Found(c)' = Found(c)
         /\ \A b : Becomes(c, b)' = Becomes(c, b)
         /\ Starts(c)' = Starts(c) /\ Due(c)' = Due(c)
         /\ \A k : Late(c, k)' = Late(c, k) /\ FirstLate(c, k)' = FirstLate(c, k)
         /\ \A k : Current(c, k)' <=> Current(c, k)
<1>1. \A k : Before(c, k)' = Before(c, k)
  BY DEF Before
<1>2. Found(c)' = Found(c)
  BY DEF Found
<1>3. \A b : Becomes(c, b)' = Becomes(c, b)
  BY <1>1 DEF Becomes
<1>4. Starts(c)' = Starts(c)
  BY <1>1 DEF Starts
<1>5. \A k : Late(c, k)' = Late(c, k)
  BY DEF Late, Lasting
<1>6. \A k : FirstLate(c, k)' = FirstLate(c, k)
  BY <1>5 DEF FirstLate
<1>7. Due(c)' = Due(c)
  BY <1>4, <1>5 DEF Due
<1>8. \A k : Current(c, k)' <=> Current(c, k)
  BY <1>4 DEF Current
<1> QED
  BY <1>2, <1>3, <1>4, <1>5, <1>6, <1>7, <1>8

LEMMA SameReports ==
  ASSUME violations' = violations
  PROVE  \A d : ReportsOf(d)' = ReportsOf(d) /\ \A s : TimesOf(d, s)' = TimesOf(d, s)
<1>1. \A d : ReportsOf(d)' = ReportsOf(d)
  BY DEF ReportsOf
<1> QED
  BY <1>1 DEF TimesOf

\* A step that reports nothing and evaluates nothing keeps what is said of a
\* constraint whose automaton it leaves alone, or whose run it ends.
LEMMA QuietForbidden ==
  ASSUME NEW c \in Forbidden, ForbiddenInv(c), violations' = violations, seen'[c] = seen[c],
         Alive' => /\ Alive
                   /\ condition_has_been_true'[c] = condition_has_been_true[c]
                   /\ id_of_last_violation'[c] = id_of_last_violation[c]
  PROVE  ForbiddenInv(c)'
<1>1. /\ ReportsOf(c)' = ReportsOf(c)
      /\ TimesOf(c, "ERROR")' = TimesOf(c, "ERROR") /\ TimesOf(c, "RELEASE")' = TimesOf(c, "RELEASE")
  BY SameReports
<1>2. /\ Found(c)' = Found(c)
      /\ Becomes(c, TRUE)' = Becomes(c, TRUE) /\ Becomes(c, FALSE)' = Becomes(c, FALSE)
  BY SameSeen
<1>3. ASSUME Alive', condition_has_been_true'[c]
      PROVE  \E m \in DOMAIN violations' : Unreleased(c, m)'
  <2>1. PICK m \in DOMAIN violations : Unreleased(c, m)
    BY <1>3 DEF ForbiddenInv
  <2>2. Unreleased(c, m)'
    BY <1>1, <1>3, <2>1 DEF Unreleased
  <2> QED
    BY <2>2
<1> QED
  BY <1>1, <1>2, <1>3 DEF ForbiddenInv

LEMMA QuietMaximum ==
  ASSUME NEW c \in Maximum, MaximumInv(c), violations' = violations, seen'[c] = seen[c],
         Alive' => /\ Alive
                   /\ condition_has_been_true'[c] = condition_has_been_true[c]
                   /\ in_violation'[c] = in_violation[c] /\ since'[c] = since[c]
  PROVE  MaximumInv(c)'
<1>1. ReportsOf(c)' = ReportsOf(c) /\ TimesOf(c, "ERROR")' = TimesOf(c, "ERROR")
  BY SameReports
<1>2. /\ Found(c)' = Found(c) /\ Due(c)' = Due(c)
      /\ \A k : FirstLate(c, k)' = FirstLate(c, k)
      /\ \A k : Current(c, k)' <=> Current(c, k)
  BY SameSeen
<1>3. {seen'[c][FirstLate(c, k)'].at : k \in Due(c)'} = {seen[c][FirstLate(c, k)].at : k \in Due(c)}
  BY <1>2
<1>4. ASSUME Alive', condition_has_been_true'[c]
      PROVE  \E k \in DOMAIN seen'[c] :
               /\ Current(c, k)' /\ (in_violation'[c] <=> k \in Due(c)')
               /\ ~in_violation'[c] => since'[c] = seen'[c][k].at
  BY <1>2, <1>4 DEF MaximumInv
<1> QED
  BY <1>1, <1>2, <1>3, <1>4 DEF MaximumInv

\* A report of one constraint keeps what is said of another one.
LEMMA OthersForbidden ==
  ASSUME TypeOK, NEW v \in Violation, violations' = Append(violations, v),
         NEW d \in Forbidden, v.con # d, ForbiddenInv(d), seen'[d] = seen[d],
         \A m : Unreleased(d, m) => violations[m].ID # v.ID,
         Alive' => /\ Alive
                   /\ condition_has_been_true'[d] = condition_has_been_true[d]
                   /\ id_of_last_violation'[d] = id_of_last_violation[d]
  PROVE  ForbiddenInv(d)'
<1> DEFINE new == Len(violations) + 1
<1>1. /\ Len(violations) \in Nat
      /\ DOMAIN violations = 1..Len(violations) /\ DOMAIN violations' = 1..new
      /\ \A n \in 1..Len(violations) : violations'[n] = violations[n]
      /\ violations'[new] = v
  BY Appended DEF TypeOK
<1>2. /\ ReportsOf(d)' = ReportsOf(d)
      /\ TimesOf(d, "ERROR")' = TimesOf(d, "ERROR") /\ TimesOf(d, "RELEASE")' = TimesOf(d, "RELEASE")
  <2>1. ReportsOf(d)' = ReportsOf(d)
    BY OneMoreReport
  <2>2. \A s : TimesOf(d, s)' = TimesOf(d, s)
    BY OneMoreReport
  <2> QED
    BY <2>1, <2>2
<1>3. /\ Found(d)' = Found(d)
      /\ Becomes(d, TRUE)' = Becomes(d, TRUE) /\ Becomes(d, FALSE)' = Becomes(d, FALSE)
  BY SameSeen
<1>4. \A n \in ReportsOf(d) : n \in 1..Len(violations) /\ violations'[n] = violations[n]
  BY <1>1 DEF ReportsOf
<1>5. ASSUME Alive', condition_has_been_true'[d]
      PROVE  \E m \in DOMAIN violations' : Unreleased(d, m)'
  <2>1. PICK m \in DOMAIN violations : Unreleased(d, m)
    BY <1>5 DEF ForbiddenInv
  <2>2. m \in ReportsOf(d) /\ m \in 1..new /\ violations'[m] = violations[m]
    BY <1>1, <1>4, <2>1 DEF Unreleased
  <2>3. ASSUME NEW n \in 1..new, violations'[n].ID = violations[m].ID
        PROVE  n = m
    <3>1. n # new
      BY <1>1, <2>1, <2>3
    <3>2. n \in 1..Len(violations) /\ violations'[n] = violations[n]
      BY <1>1, <3>1
    <3> QED
      BY <1>1, <2>1, <2>3, <3>2 DEF Unreleased
  <2>4. Unreleased(d, m)'
    BY <1>1, <1>2, <1>5, <2>1, <2>2, <2>3 DEF Unreleased
  <2> QED
    BY <1>1, <2>2, <2>4
<1>6. \A m, n \in ReportsOf(d) : m < n => violations'[m].at < violations'[n].at
  BY <1>4 DEF ForbiddenInv
<1> QED
  BY <1>2, <1>3, <1>5, <1>6 DEF ForbiddenInv

LEMMA OthersMaximum ==
  ASSUME TypeOK, NEW v \in Violation, violations' = Append(violations, v),
         NEW d \in Maximum, v.con # d, MaximumInv(d), seen'[d] = seen[d],
         Alive' => /\ Alive
                   /\ condition_has_been_true'[d] = condition_has_been_true[d]
                   /\ in_violation'[d] = in_violation[d] /\ since'[d] = since[d]
  PROVE  MaximumInv(d)'
<1>1. ReportsOf(d)' = ReportsOf(d) /\ TimesOf(d, "ERROR")' = TimesOf(d, "ERROR")
  <2>1. ReportsOf(d)' = ReportsOf(d)
    BY OneMoreReport
  <2>2. \A s : TimesOf(d, s)' = TimesOf(d, s)
    BY OneMoreReport
  <2> QED
    BY <2>1, <2>2
<1>2. /\ Found(d)' = Found(d) /\ Due(d)' = Due(d)
      /\ \A k : FirstLate(d, k)' = FirstLate(d, k)
      /\ \A k : Current(d, k)' <=> Current(d, k)
  BY SameSeen
<1>3. {seen'[d][FirstLate(d, k)'].at : k \in Due(d)'} = {seen[d][FirstLate(d, k)].at : k \in Due(d)}
  BY <1>2
<1>4. ASSUME Alive', condition_has_been_true'[d]
      PROVE  \E k \in DOMAIN seen'[d] :
               /\ Current(d, k)' /\ (in_violation'[d] <=> k \in Due(d)')
               /\ ~in_violation'[d] => since'[d] = seen'[d][k].at
  BY <1>2, <1>4 DEF MaximumInv
<1> QED
  BY <1>1, <1>2, <1>3, <1>4 DEF MaximumInv

\* A report has an ID of its own, or is the release of the violation whose ID it has.
LEMMA ReportPairs ==
  ASSUME TypeOK, FreshInv, PairInv, NEW v \in Violation, violations' = Append(violations, v),
         \/ v.severity = "ERROR" /\ v.ID = currentID /\ currentID' = currentID + 1
         \/ /\ v.severity = "RELEASE" /\ currentID' = currentID
            /\ \E m \in DOMAIN violations : Unreleased(v.con, m) /\ v.ID = violations[m].ID
  PROVE  FreshInv' /\ PairInv'
<1> DEFINE new == Len(violations) + 1
<1>1. /\ Len(violations) \in Nat
      /\ DOMAIN violations = 1..Len(violations) /\ DOMAIN violations' = 1..new
      /\ \A n \in 1..Len(violations) : violations'[n] = violations[n]
      /\ violations'[new] = v
  BY Appended DEF TypeOK
<1>2. currentID \in Nat /\ \A n \in 1..Len(violations) : violations[n].ID \in Nat /\ violations[n].ID < currentID
  BY <1>1, ReportTypes DEF TypeOK, FreshInv
<1>3. \A d : ReportsOf(d)' \subseteq ReportsOf(d) \cup {new}
  BY <1>1 DEF ReportsOf
<1>4. v.ID \in Nat /\ v.ID < currentID' /\ currentID' >= currentID /\ currentID' \in Nat
  <2>1. CASE v.severity = "ERROR" /\ v.ID = currentID /\ currentID' = currentID + 1
    BY <1>2, <2>1
  <2>2. ASSUME currentID' = currentID, NEW m \in DOMAIN violations, v.ID = violations[m].ID
        PROVE  v.ID \in Nat /\ v.ID < currentID' /\ currentID' >= currentID /\ currentID' \in Nat
    BY <1>1, <1>2, <2>2
  <2> QED
    BY <2>1, <2>2
<1>5. FreshInv'
  <2> SUFFICES ASSUME NEW n \in 1..new PROVE violations'[n].ID < currentID'
    BY <1>1 DEF FreshInv
  <2>1. CASE n = new
    BY <1>1, <1>4, <2>1
  <2>2. CASE n \in 1..Len(violations)
    BY <1>1, <1>2, <1>4, <2>2
  <2> QED
    BY <1>1, <2>1, <2>2
<1>6. ASSUME NEW m \in 1..new, NEW n \in 1..new, m < n, violations'[m].ID = violations'[n].ID
      PROVE  Pair(m, n)'
  <2>1. m \in 1..Len(violations) /\ violations'[m] = violations[m]
    BY <1>1, <1>6
  <2>2. CASE n # new
    <3>1. n \in 1..Len(violations) /\ violations'[n] = violations[n]
      BY <1>1, <2>2
    <3>2. Pair(m, n)
      BY <1>1, <1>6, <2>1, <3>1 DEF PairInv
    <3>3. \A k \in ReportsOf(violations[m].con) : k <= m \/ k >= n
      BY <3>2 DEF Pair
    <3>4. ASSUME NEW k \in 1..new, violations'[k].con = violations'[m].con
          PROVE  k <= m \/ k >= n
      <4>1. CASE k = new
        BY <1>1, <4>1
      <4>2. CASE k # new
        <5>1. k \in 1..Len(violations) /\ violations'[k] = violations[k]
          BY <1>1, <4>2
        <5>2. k \in ReportsOf(violations[m].con)
          BY <1>1, <2>1, <3>4, <5>1 DEF ReportsOf
        <5> QED
          BY <3>3, <5>2
      <4> QED
        BY <4>1, <4>2
    <3>5. /\ violations'[m].con = violations'[n].con
          /\ violations'[m].severity = "ERROR" /\ violations'[n].severity = "RELEASE"
      BY <2>1, <3>1, <3>2 DEF Pair
    <3> QED
      BY <1>1, <3>4, <3>5 DEF Pair, ReportsOf
  <2>3. CASE n = new
    <3>1. violations[m].ID = v.ID
      BY <1>1, <1>6, <2>1, <2>3
    <3>2. v.severity = "RELEASE" /\ Unreleased(v.con, m)
      <4>1. v.ID # currentID
        BY <1>2, <2>1, <3>1
      <4>2. PICK i \in DOMAIN violations : Unreleased(v.con, i) /\ v.ID = violations[i].ID
        BY <4>1
      <4>3. m = i
        BY <1>1, <2>1, <3>1, <4>2 DEF Unreleased
      <4> QED
        BY <4>1, <4>2, <4>3
    <3>3. violations[m].con = v.con /\ violations[m].severity = "ERROR"
      BY <3>2 DEF Unreleased, ReportsOf
    <3>4. \A k \in ReportsOf(v.con) : k <= m
      BY <3>2 DEF Unreleased
    <3>5. violations'[m].con = v.con /\ violations'[n] = v
      BY <1>1, <2>1, <2>3, <3>3
    <3>6. ASSUME NEW k \in 1..new, violations'[k].con = violations'[m].con
          PROVE  k <= m \/ k >= n
      <4>1. CASE k = new
        BY <1>1, <2>3, <4>1
      <4>2. CASE k # new
        <5>1. k \in 1..Len(violations) /\ violations'[k] = violations[k]
          BY <1>1, <4>2
        <5>2. k \in ReportsOf(v.con)
          BY <1>1, <3>5, <3>6, <5>1 DEF ReportsOf
        <5> QED
          BY <3>4, <5>2
      <4> QED
        BY <4>1, <4>2
    <3>7. /\ violations'[m].con = violations'[n].con
          /\ violations'[m].severity = "ERROR" /\ violations'[n].severity = "RELEASE"
      BY <2>1, <3>2, <3>3, <3>5
    <3> QED
      BY <1>1, <3>6, <3>7 DEF Pair, ReportsOf
  <2> QED
    BY <2>2, <2>3
<1>7. ASSUME NEW n \in 1..new, violations'[n].severity = "RELEASE"
      PROVE  \E m \in 1..(n - 1) : violations'[m].ID = violations'[n].ID
  <2>1. CASE n # new
    <3>1. n \in 1..Len(violations) /\ violations'[n] = violations[n]
      BY <1>1, <2>1
    <3>2. PICK m \in 1..(n - 1) : violations[m].ID = violations[n].ID
      BY <1>1, <1>7, <3>1 DEF PairInv
    <3>3. m \in 1..Len(violations)
      BY <1>1, <3>1, <3>2
    <3> QED
      BY <1>1, <3>1, <3>2, <3>3
  <2>2. CASE n = new
    <3>1. PICK m \in DOMAIN violations : v.ID = violations[m].ID
      BY <1>1, <1>7, <2>2
    <3>2. m \in 1..(n - 1) /\ violations'[m] = violations[m]
      BY <1>1, <2>2, <3>1
    <3> QED
      BY <1>1, <2>2, <3>1, <3>2
  <2> QED
    BY <2>1, <2>2
<1>8. PairInv'
  BY <1>1, <1>6, <1>7 DEF PairInv
<1> QED
  BY <1>5, <1>8

\* What a forbidden condition reports was found at the times of its evaluations.
LEMMA ReportsAreFound ==
  ASSUME TypeOK, NEW c \in Forbidden, ForbiddenInv(c), NEW T,
         \A k \in DOMAIN seen[c] : seen[c][k].at < T,
         NEW n \in ReportsOf(c)
  PROVE  violations[n].at < T
<1>1. violations[n].severity \in {"ERROR", "RELEASE"}
  BY ReportTypes DEF ReportsOf
<1>2. violations[n].at \in TimesOf(c, "ERROR") \cup TimesOf(c, "RELEASE")
  BY <1>1 DEF TimesOf
<1>3. violations[n].at \in Becomes(c, TRUE) \cup Becomes(c, FALSE)
  BY <1>2 DEF ForbiddenInv
<1> QED
  BY <1>3 DEF Becomes

\* The evaluation of a forbidden condition.
LEMMA ForbiddenStep ==
  ASSUME IInv, SeenInv, FreshInv, PairInv, Alive,
         NEW c \in Forbidden, ForbiddenInv(c), NEW val \in BOOLEAN, Evaluate(c, val)
  PROVE  /\ ForbiddenInv(c)'
         /\ \/ violations' = violations /\ currentID' = currentID
            \/ \E v \in Violation :
                 /\ v.con = c /\ violations' = Append(violations, v)
                 /\ \/ v.severity = "ERROR" /\ v.ID = currentID /\ currentID' = currentID + 1
                    \/ /\ v.severity = "RELEASE" /\ currentID' = currentID
                       /\ \E m \in DOMAIN violations : Unreleased(c, m) /\ v.ID = violations[m].ID
<1> DEFINE new == Len(violations) + 1
<1>1. TypeOK /\ c \in Constraint /\ pc = "evaluate" /\ EvaluateForbidden(c, val) /\ Alive
  BY DEF IInv, Evaluate, Constraint
<1>2. condition_has_been_true[c] = Found(c) /\ condition_has_been_true'[c] = val
  BY <1>1 DEF ForbiddenInv, EvaluateForbidden, TypeOK
<1>3. /\ Found(c)' = val /\ Found(c) \in BOOLEAN
      /\ \A b \in BOOLEAN : Becomes(c, b)' = IF b = val /\ Found(c) # val THEN Becomes(c, b) \cup {curTime}
                                                                         ELSE Becomes(c, b)
  BY <1>1, OneMoreEvaluation DEF Evaluate
<1>4. CASE condition_has_been_true[c] = val /\ UNCHANGED <<violations, currentID, id_of_last_violation>>
  <2>1. /\ Becomes(c, TRUE)' = Becomes(c, TRUE) /\ Becomes(c, FALSE)' = Becomes(c, FALSE)
    BY <1>2, <1>3, <1>4
  <2>2. /\ ReportsOf(c)' = ReportsOf(c)
        /\ TimesOf(c, "ERROR")' = TimesOf(c, "ERROR") /\ TimesOf(c, "RELEASE")' = TimesOf(c, "RELEASE")
    BY <1>4, SameReports
  <2>3. ASSUME condition_has_been_true'[c] PROVE \E m \in DOMAIN violations' : Unreleased(c, m)'
    <3>1. PICK m \in DOMAIN violations : Unreleased(c, m)
      BY <1>1, <1>2, <1>4, <2>3 DEF ForbiddenInv
    <3>2. Unreleased(c, m)'
      BY <1>4, <2>2, <3>1 DEF Unreleased
    <3> QED
      BY <1>4, <3>2
  <2>4. ForbiddenInv(c)'
    BY <1>2, <1>3, <1>4, <2>1, <2>2, <2>3 DEF ForbiddenInv
  <2> QED
    BY <1>4, <2>4
<1>5. \A n \in ReportsOf(c) : violations[n].at < curTime
  <2>1. \A k \in DOMAIN seen[c] : seen[c][k].at < curTime
    BY <1>1 DEF SeenInv, Evaluate
  <2> QED
    BY <1>1, <2>1, ReportsAreFound
<1>6. ASSUME NEW v \in Violation, v.con = c, v.at = curTime, violations' = Append(violations, v),
             v.severity = IF val THEN "ERROR" ELSE "RELEASE", condition_has_been_true[c] # val,
             val => v.ID = currentID /\ id_of_last_violation'[c] = currentID
      PROVE  ForbiddenInv(c)'
  <2>1. /\ Len(violations) \in Nat
        /\ DOMAIN violations = 1..Len(violations) /\ DOMAIN violations' = 1..new
        /\ \A n \in 1..Len(violations) : violations'[n] = violations[n]
        /\ violations'[new] = v
    BY <1>1, <1>6, Appended DEF TypeOK
  <2>2. /\ ReportsOf(c)' = ReportsOf(c) \cup {new}
        /\ \A s : TimesOf(c, s)' = IF v.severity = s THEN TimesOf(c, s) \cup {v.at} ELSE TimesOf(c, s)
    BY <1>1, <1>6, OneMoreReport
  <2>3. TimesOf(c, "ERROR")' = Becomes(c, TRUE)' /\ TimesOf(c, "RELEASE")' = Becomes(c, FALSE)'
    <3>1. Found(c) # val
      BY <1>2, <1>6
    <3>2. TimesOf(c, "ERROR") = Becomes(c, TRUE) /\ TimesOf(c, "RELEASE") = Becomes(c, FALSE)
      BY DEF ForbiddenInv
    <3>3. CASE val = TRUE
      <4>1. TimesOf(c, "ERROR")' = TimesOf(c, "ERROR") \cup {curTime} /\ TimesOf(c, "RELEASE")' = TimesOf(c, "RELEASE")
        BY <1>6, <2>2, <3>3
      <4>2. Becomes(c, TRUE)' = Becomes(c, TRUE) \cup {curTime} /\ Becomes(c, FALSE)' = Becomes(c, FALSE)
        BY <1>3, <3>1, <3>3
      <4> QED
        BY <3>2, <4>1, <4>2
    <3>4. CASE val = FALSE
      <4>1. TimesOf(c, "ERROR")' = TimesOf(c, "ERROR") /\ TimesOf(c, "RELEASE")' = TimesOf(c, "RELEASE") \cup {curTime}
        BY <1>6, <2>2, <3>4
      <4>2. Becomes(c, TRUE)' = Becomes(c, TRUE) /\ Becomes(c, FALSE)' = Becomes(c, FALSE) \cup {curTime}
        BY <1>3, <3>1, <3>4
      <4> QED
        BY <3>2, <4>1, <4>2
    <3> QED
      BY <3>3, <3>4
  <2>4. \A n \in ReportsOf(c) : n \in 1..Len(violations) /\ violations'[n] = violations[n]
    BY <2>1 DEF ReportsOf
  <2>5. ASSUME NEW m \in ReportsOf(c) \cup {new}, NEW n \in ReportsOf(c) \cup {new}, m < n
        PROVE  violations'[m].at < violations'[n].at
    <3>1. m # new
      BY <2>1, <2>4, <2>5
    <3>2. CASE n = new
      BY <1>5, <1>6, <2>1, <2>4, <2>5, <3>1, <3>2
    <3>3. CASE n # new
      BY <2>4, <2>5, <3>1, <3>3 DEF ForbiddenInv
    <3> QED
      BY <3>2, <3>3
  <2>6. ASSUME val, NEW m, m = new PROVE Unreleased(c, m)'
    <3>1. \A k \in ReportsOf(c) \cup {new} : k <= m
      BY <2>1, <2>4, <2>6
    <3>2. ASSUME NEW n \in 1..new, violations'[n].ID = currentID PROVE n = m
      <4>1. CASE n \in 1..Len(violations)
        <5>1. violations[n].ID \in Nat /\ currentID \in Nat /\ violations[n].ID < currentID
          BY <1>1, <2>1, <4>1, ReportTypes DEF FreshInv, TypeOK
        <5> QED
          BY <2>1, <3>2, <4>1, <5>1
      <4> QED
        BY <2>1, <2>6, <4>1
    <3>3. m \in ReportsOf(c)' /\ violations'[m] = v
      BY <2>1, <2>2, <2>6
    <3>4. v.severity = "ERROR" /\ v.ID = currentID /\ id_of_last_violation'[c] = currentID
      BY <1>6, <2>6
    <3> QED
      BY <2>1, <2>2, <3>1, <3>2, <3>3, <3>4 DEF Unreleased
  <2>7. ASSUME condition_has_been_true'[c] PROVE \E m \in DOMAIN violations' : Unreleased(c, m)'
    <3>1. new \in 1..new
      BY <2>1
    <3> QED
      BY <1>2, <2>1, <2>6, <2>7, <3>1
  <2>8. \A m, n \in ReportsOf(c)' : m < n => violations'[m].at < violations'[n].at
    BY <2>2, <2>5
  <2> QED
    BY <1>2, <1>3, <2>3, <2>7, <2>8 DEF ForbiddenInv
<1>7. CASE /\ ~condition_has_been_true[c] /\ val
           /\ Report(c, "ERROR", currentID)
           /\ currentID' = currentID + 1
           /\ id_of_last_violation' = [id_of_last_violation EXCEPT ![c] = currentID]
  <2> DEFINE v == [at |-> curTime, con |-> c, severity |-> "ERROR", ID |-> currentID]
  <2>1. v \in Violation /\ violations' = Append(violations, v) /\ id_of_last_violation'[c] = currentID
    BY <1>1, <1>7 DEF Violation, Report, TypeOK
  <2>2. /\ v.con = c /\ v.at = curTime /\ v.severity = "ERROR" /\ v.ID = currentID
        /\ v.severity = IF val THEN "ERROR" ELSE "RELEASE"
    BY <1>7
  <2> HIDE DEF v
  <2>3. condition_has_been_true[c] # val
    BY <1>7
  <2>4. ForbiddenInv(c)'
    BY <1>6, <2>1, <2>2, <2>3
  <2> QED
    BY <1>7, <2>1, <2>2, <2>4
<1>8. CASE /\ condition_has_been_true[c] /\ ~val
           /\ Report(c, "RELEASE", id_of_last_violation[c])
           /\ UNCHANGED <<currentID, id_of_last_violation>>
  <2> DEFINE v == [at |-> curTime, con |-> c, severity |-> "RELEASE", ID |-> id_of_last_violation[c]]
  <2>1. v \in Violation /\ violations' = Append(violations, v)
    BY <1>1, <1>8 DEF Violation, Report, TypeOK
  <2>2. /\ v.con = c /\ v.at = curTime /\ v.severity = "RELEASE" /\ v.ID = id_of_last_violation[c]
        /\ v.severity = IF val THEN "ERROR" ELSE "RELEASE"
    BY <1>8
  <2> HIDE DEF v
  <2>3. condition_has_been_true[c] # val
    BY <1>8
  <2>4. ForbiddenInv(c)'
    BY <1>6, <1>8, <2>1, <2>2, <2>3
  <2>5. PICK m \in DOMAIN violations : Unreleased(c, m)
    BY <1>1, <1>8 DEF ForbiddenInv
  <2>6. v.ID = violations[m].ID
    BY <2>2, <2>5 DEF Unreleased
  <2> QED
    BY <1>8, <2>1, <2>2, <2>4, <2>5, <2>6
<1> QED
  BY <1>1, <1>4, <1>7, <1>8 DEF EvaluateForbidden

\* What CHOOSE gives for the first element of a set of positions.
LEMMA FirstOf ==
  ASSUME NEW S, S \subseteq Nat, S # {}
  PROVE  LET j == CHOOSE j \in S : \A i \in S : j <= i
         IN  j \in S /\ \A i \in S : j <= i
<1>1. PICK m \in S : \A n \in S : ~ (<<n, m>> \in OpToRel(<, Nat))
  BY WFMin, NatLessThanWellFounded
<1>2. \A n \in S : ~ (n < m)
  BY <1>1 DEF OpToRel
<1>3. \E j \in S : \A i \in S : j <= i
  BY <1>2
<1> QED
  BY <1>3

\* At most one stretch is under way, and none if the condition was found false.
LEMMA OneCurrent ==
  ASSUME TypeOK, NEW c \in Constraint, NEW k, Current(c, k)
  PROVE  Found(c) = TRUE /\ \A j : Current(c, j) => j = k
<1> DEFINE Evaluation == [at : 0..Horizon, val : BOOLEAN]
<1>1. seen[c] \in Seq(Evaluation)
  BY DEF TypeOK
<1>2. /\ Len(seen[c]) \in Nat /\ DOMAIN seen[c] = 1..Len(seen[c])
      /\ \A i \in 1..Len(seen[c]) : seen[c][i].val \in BOOLEAN
  <2> HIDE DEF Evaluation
  <2>1. /\ Len(seen[c]) \in Nat /\ DOMAIN seen[c] = 1..Len(seen[c])
        /\ \A i \in 1..Len(seen[c]) : seen[c][i] \in Evaluation
    BY <1>1
  <2> QED
    BY <2>1 DEF Evaluation
<1>3. ASSUME NEW j, Current(c, j)
      PROVE  /\ j \in 1..Len(seen[c]) /\ j \in Nat
             /\ \A i \in j..Len(seen[c]) : seen[c][i].val
             /\ j = 1 \/ ~seen[c][j - 1].val
  BY <1>2, <1>3 DEF Current, Starts, Before
<1>4. Found(c) = TRUE
  <2>1. Len(seen[c]) \in k..Len(seen[c]) /\ seen[c] # <<>>
    BY <1>2, <1>3
  <2>2. seen[c][Len(seen[c])].val /\ seen[c][Len(seen[c])].val \in BOOLEAN
    BY <1>2, <1>3, <2>1
  <2> QED
    BY <2>1, <2>2 DEF Found
<1>5. ASSUME NEW i, NEW j, Current(c, i), Current(c, j)
      PROVE  ~(i < j)
  <2> SUFFICES ASSUME i < j PROVE FALSE
    OBVIOUS
  <2>1. j - 1 \in i..Len(seen[c]) /\ j # 1
    BY <1>2, <1>3, <1>5
  <2> QED
    BY <1>3, <1>5, <2>1
<1>6. ASSUME NEW j, Current(c, j) PROVE j = k
  <2>1. j \in Nat /\ k \in Nat
    BY <1>3, <1>6
  <2> QED
    BY <1>5, <1>6, <2>1
<1> QED
  BY <1>4, <1>6

\* The evaluation after which the stretch from k is due: k is under way, and it
\* is now too long.
TooLongAt(c, k) == Current(c, k) /\ curTime - seen[c][k].at > MaxDuration[c]

\* One more evaluation of c adds to the stretches that are due the one that is
\* under way, if it has become too long, with the present time.
LEMMA StretchStep ==
  ASSUME TypeOK, NEW c \in Maximum, NEW val \in BOOLEAN,
         seen' = [seen EXCEPT ![c] = Append(@, [at |-> curTime, val |-> val])]
  PROVE  /\ Due(c)' = Due(c) \cup {k \in DOMAIN seen[c] : TooLongAt(c, k)}
         /\ \A k \in Due(c) : seen'[c][FirstLate(c, k)'].at = seen[c][FirstLate(c, k)].at
         /\ \A k \in Due(c)' \ Due(c) : seen'[c][FirstLate(c, k)'].at = curTime
         /\ \A k \in DOMAIN seen[c] : k \in DOMAIN seen'[c] /\ seen'[c][k] = seen[c][k]
         /\ \A k : val /\ Current(c, k) => Current(c, k)'
         /\ \A k : val /\ ~Found(c) /\ k = Len(seen[c]) + 1 =>
              /\ Current(c, k)' /\ k \in DOMAIN seen'[c] /\ seen'[c][k].at = curTime
              /\ k \notin Due(c)'
<1> DEFINE s == seen[c]
           t == seen'[c]
           new == Len(s) + 1
           x == [at |-> curTime, val |-> val]
           Evaluation == [at : 0..Horizon, val : BOOLEAN]
<1>1. c \in Constraint /\ s \in Seq(Evaluation) /\ x \in Evaluation /\ t = Append(s, x)
  BY DEF TypeOK, Constraint
<1>2. /\ Len(s) \in Nat /\ DOMAIN s = 1..Len(s) /\ DOMAIN t = 1..new /\ Len(t) = new
      /\ \A n \in 1..Len(s) : t[n] = s[n]
      /\ t[new].at = curTime /\ t[new].val = val /\ curTime \in Nat
      /\ \A n \in 1..Len(s) : s[n].val \in BOOLEAN /\ s[n].at \in Nat
      /\ MaxDuration[c] \in Nat
  <2>1. curTime \in Nat /\ MaxDuration[c] \in Nat /\ 0..Horizon \subseteq Nat
    BY ConstraintAssumption DEF TypeOK
  <2> HIDE DEF x, s, t, Evaluation
  <2>2. /\ Len(s) \in Nat /\ DOMAIN s = 1..Len(s) /\ DOMAIN t = 1..new
        /\ \A n \in 1..Len(s) : t[n] = s[n] /\ s[n] \in Evaluation
        /\ t \in Seq(Evaluation) /\ Len(t) = new /\ t[new] = x
    BY <1>1, Appended
  <2>3. \A n \in 1..Len(s) : s[n].val \in BOOLEAN /\ s[n].at \in Nat
    BY <2>1, <2>2 DEF Evaluation
  <2> QED
    BY <2>1, <2>2, <2>3 DEF x
<1>3. /\ \A n : Before(c, n) = IF n = 1 THEN FALSE ELSE s[n - 1].val
      /\ \A n : Before(c, n)' = IF n = 1 THEN FALSE ELSE t[n - 1].val
  BY DEF Before
<1>4. Found(c) = IF Len(s) = 0 THEN FALSE ELSE s[Len(s)].val
  BY <1>1 DEF Found
<1>5. \A k \in 1..Len(s) : k \in Starts(c)' <=> k \in Starts(c)
  <2> SUFFICES ASSUME NEW k \in 1..Len(s) PROVE k \in Starts(c)' <=> k \in Starts(c)
    OBVIOUS
  <2>1. CASE k = 1
    <3>1. Before(c, k) = FALSE /\ Before(c, k)' = FALSE
      BY <1>3, <2>1
    <3>2. k \in DOMAIN s /\ k \in DOMAIN t /\ t[k] = s[k]
      BY <1>2
    <3> QED
      BY <3>1, <3>2 DEF Starts
  <2>2. CASE k # 1
    <3>1. k - 1 \in 1..Len(s) /\ k \in DOMAIN s /\ k \in DOMAIN t
      BY <1>2, <2>2
    <3>2. t[k] = s[k] /\ t[k - 1] = s[k - 1]
      BY <1>2, <3>1
    <3>3. Before(c, k)' = Before(c, k)
      BY <1>3, <2>2, <3>2
    <3> QED
      BY <3>1, <3>2, <3>3 DEF Starts
  <2> QED
    BY <2>1, <2>2
<1>6. \A k : k = new => (k \in Starts(c)' <=> val /\ ~Found(c))
  <2> SUFFICES ASSUME NEW k, k = new PROVE k \in Starts(c)' <=> val /\ ~Found(c)
    OBVIOUS
  <2>1. k \in Starts(c)' <=> val /\ ~Before(c, k)'
    BY <1>2 DEF Starts
  <2>2. CASE Len(s) = 0
    <3>1. k = 1
      BY <2>2
    <3>2. Found(c) = FALSE
      BY <1>4, <2>2
    <3>3. Before(c, k)' = FALSE
      BY <1>3, <3>1
    <3> QED
      BY <2>1, <3>2, <3>3
  <2>3. CASE Len(s) # 0
    <3>1. k # 1 /\ k - 1 = Len(s) /\ Len(s) \in 1..Len(s)
      BY <1>2, <2>3
    <3>2. t[k - 1] = s[Len(s)]
      BY <1>2, <3>1
    <3>3. Before(c, k)' = s[Len(s)].val /\ Found(c) = s[Len(s)].val
      BY <1>3, <1>4, <2>3, <3>1, <3>2
    <3> QED
      BY <2>1, <3>3
  <2> QED
    BY <2>2, <2>3
<1>7. Starts(c) \subseteq 1..Len(s) /\ Starts(c)' \subseteq 1..new
  BY <1>2 DEF Starts
<1>8. ASSUME NEW k \in 1..Len(s)
      PROVE  /\ Lasting(c, k) \subseteq k..Len(s)
             /\ Lasting(c, k)' = IF \A i \in k..Len(s) : s[i].val THEN Lasting(c, k) \cup {new} ELSE Lasting(c, k)
  <2>1. Lasting(c, k) = {j \in k..Len(s) : \A i \in k..(j - 1) : s[i].val}
    BY DEF Lasting
  <2>2. Lasting(c, k)' = {j \in k..new : \A i \in k..(j - 1) : t[i].val}
    BY <1>2 DEF Lasting
  <2>3. k..new = (k..Len(s)) \cup {new} /\ new - 1 = Len(s) /\ new \notin k..Len(s)
    BY <1>2
  <2>4. \A i \in k..Len(s) : t[i] = s[i]
    BY <1>2
  <2>5. \A j \in k..Len(s) : k..(j - 1) \subseteq k..Len(s)
    BY <1>2
  <2>6. \A j \in k..Len(s) : (\A i \in k..(j - 1) : t[i].val) <=> (\A i \in k..(j - 1) : s[i].val)
    BY <2>4, <2>5
  <2>7. (\A i \in k..(new - 1) : t[i].val) <=> (\A i \in k..Len(s) : s[i].val)
    BY <2>3, <2>4
  <2> HIDE DEF new, s, t
  <2>8. ASSUME NEW j
        PROVE  j \in Lasting(c, k)' <=> j \in Lasting(c, k) \/ (j = new /\ \A i \in k..Len(s) : s[i].val)
    <3>1. CASE j = new
      BY <2>1, <2>2, <2>3, <2>7, <3>1
    <3>2. CASE j # new
      BY <2>1, <2>2, <2>3, <2>6, <3>2
    <3> QED
      BY <3>1, <3>2
  <2> QED
    BY <2>1, <2>8
<1>9. ASSUME NEW k \in Starts(c)
      PROVE  /\ Late(c, k) \subseteq 1..Len(s)
             /\ Late(c, k)' = IF TooLongAt(c, k) THEN Late(c, k) \cup {new} ELSE Late(c, k)
  <2>1. k \in 1..Len(s) /\ t[k] = s[k]
    BY <1>2, <1>7
  <2>2. Lasting(c, k) \subseteq 1..Len(s) /\ \A j \in Lasting(c, k) : t[j] = s[j]
    BY <1>2, <1>8, <2>1
  <2>3. Current(c, k) <=> \A i \in k..Len(s) : s[i].val
    BY DEF Current
  <2>4. TooLongAt(c, k) <=> (\A i \in k..Len(s) : s[i].val) /\ t[new].at - t[k].at > MaxDuration[c]
    BY <1>2, <2>1, <2>3 DEF TooLongAt
  <2>5. Late(c, k) = {j \in Lasting(c, k) : s[j].at - s[k].at > MaxDuration[c]}
    BY DEF Late
  <2>6. Late(c, k)' = {j \in Lasting(c, k)' : t[j].at - t[k].at > MaxDuration[c]}
    BY DEF Late
  <2>7. new \notin Lasting(c, k)
    BY <1>2, <2>2
  <2> HIDE DEF new, s, t
  <2>8. ASSUME NEW j PROVE j \in Late(c, k)' <=> j \in Late(c, k) \/ (j = new /\ TooLongAt(c, k))
    <3>1. CASE j = new
      BY <1>8, <2>1, <2>4, <2>5, <2>6, <2>7, <3>1
    <3>2. CASE j # new
      <4>1. j \in Lasting(c, k)' <=> j \in Lasting(c, k)
        BY <1>8, <2>1, <3>2
      <4> QED
        BY <2>1, <2>2, <2>5, <2>6, <3>2, <4>1
    <3> QED
      BY <3>1, <3>2
  <2> QED
    BY <2>2, <2>5, <2>8
<1>10. \A k : k = new => Late(c, k)' = {}
  <2> SUFFICES ASSUME NEW k, k = new, NEW j \in Lasting(c, k)' PROVE ~(t[j].at - t[k].at > MaxDuration[c])
    BY DEF Late
  <2>1. j \in k..new
    BY <1>2 DEF Lasting
  <2>2. j = k
    BY <1>2, <2>1
  <2> QED
    BY <1>2, <2>2
<1>11. Due(c)' = Due(c) \cup {k \in DOMAIN s : TooLongAt(c, k)}
  <2>1. ASSUME NEW k PROVE k \in Due(c)' <=> k \in Due(c) \/ (k \in DOMAIN s /\ TooLongAt(c, k))
    <3>1. CASE k \in Starts(c)
      <4>1. k \in Starts(c)' /\ k \in DOMAIN s
        BY <1>2, <1>5, <1>7, <3>1
      <4>2. Late(c, k)' # {} <=> Late(c, k) # {} \/ TooLongAt(c, k)
        BY <1>9, <3>1
      <4> QED
        BY <3>1, <4>1, <4>2 DEF Due
    <3>2. CASE k \notin Starts(c)
      <4>1. ~TooLongAt(c, k) /\ k \notin Due(c)
        BY <3>2 DEF TooLongAt, Current, Due
      <4>2. k \in Starts(c)' => k = new
        BY <1>2, <1>5, <1>7, <3>2
      <4>3. k \notin Due(c)'
        BY <1>10, <4>2 DEF Due
      <4> QED
        BY <4>1, <4>3
    <3> QED
      BY <3>1, <3>2
  <2> QED
    BY <2>1
<1>12. ASSUME NEW k \in Due(c) PROVE t[FirstLate(c, k)'].at = s[FirstLate(c, k)].at
  <2>1. k \in Starts(c) /\ Late(c, k) # {}
    BY DEF Due
  <2>2. Late(c, k) \subseteq 1..Len(s) /\ Late(c, k)' = IF TooLongAt(c, k) THEN Late(c, k) \cup {new} ELSE Late(c, k)
    BY <1>9, <2>1
  <2>3. FirstLate(c, k) \in Late(c, k) /\ \A i \in Late(c, k) : FirstLate(c, k) <= i
    <3>1. Late(c, k) \subseteq Nat
      BY <1>2, <2>2
    <3> QED
      BY <2>1, <3>1, FirstOf DEF FirstLate
  <2>4. FirstLate(c, k)' \in Late(c, k)' /\ \A i \in Late(c, k)' : FirstLate(c, k)' <= i
    <3>1. Late(c, k)' \subseteq Nat /\ Late(c, k)' # {}
      BY <1>2, <2>1, <2>2
    <3>2. FirstLate(c, k)' = CHOOSE j \in Late(c, k)' : \A i \in Late(c, k)' : j <= i
      BY DEF FirstLate
    <3> QED
      BY <3>1, <3>2, FirstOf
  <2>5. Late(c, k) \subseteq Late(c, k)' /\ Late(c, k)' \subseteq Late(c, k) \cup {new}
    BY <2>2
  <2>6. FirstLate(c, k) \in 1..Len(s) /\ FirstLate(c, k)' <= FirstLate(c, k)
    BY <2>2, <2>3, <2>4, <2>5
  <2>7. FirstLate(c, k)' \in Late(c, k)
    BY <1>2, <2>4, <2>5, <2>6
  <2>8. FirstLate(c, k)' = FirstLate(c, k)
    BY <1>2, <2>2, <2>3, <2>6, <2>7
  <2> QED
    BY <1>2, <2>6, <2>8
<1>13. ASSUME NEW k \in Due(c)', k \notin Due(c) PROVE t[FirstLate(c, k)'].at = curTime
  <2>1. k \in Starts(c) /\ TooLongAt(c, k)
    BY <1>11, <1>13 DEF TooLongAt, Current
  <2>2. Late(c, k) = {}
    BY <1>13, <2>1 DEF Due
  <2>3. Late(c, k)' = {new}
    BY <1>9, <2>1, <2>2
  <2>4. FirstLate(c, k)' = CHOOSE j \in Late(c, k)' : \A i \in Late(c, k)' : j <= i
    BY DEF FirstLate
  <2>5. FirstLate(c, k)' \in {new}
    <3>1. {new} \subseteq Nat
      BY <1>2
    <3> QED
      BY <2>3, <2>4, <3>1, FirstOf
  <2> QED
    BY <1>2, <2>5
<1>14. \A k \in DOMAIN s : k \in DOMAIN t /\ t[k] = s[k]
  BY <1>2
<1>15. ASSUME val, NEW k, Current(c, k) PROVE Current(c, k)'
  <2>1. k \in 1..Len(s) /\ k \in Starts(c)'
    BY <1>5, <1>7, <1>15 DEF Current
  <2>2. ASSUME NEW i \in k..new PROVE t[i].val
    <3>1. CASE i = new
      BY <1>2, <1>15, <3>1
    <3>2. CASE i # new
      <4>1. i \in k..Len(s) /\ t[i] = s[i]
        BY <1>2, <2>1, <3>2
      <4> QED
        BY <1>15, <4>1 DEF Current
    <3> QED
      BY <3>1, <3>2
  <2> QED
    BY <1>2, <2>1, <2>2 DEF Current
<1>16. ASSUME val, ~Found(c), NEW k, k = new
       PROVE  Current(c, k)' /\ k \in DOMAIN t /\ t[k].at = curTime /\ k \notin Due(c)'
  <2>1. k \in Starts(c)' /\ Late(c, k)' = {} /\ k \in DOMAIN t /\ t[k].at = curTime
    BY <1>2, <1>6, <1>10, <1>16
  <2>2. \A i \in k..new : t[i].val
    <3>1. \A i \in k..new : i = new
      BY <1>2, <1>16
    <3> QED
      BY <1>2, <1>16, <3>1
  <2>3. k \notin Due(c)'
    BY <2>1 DEF Due
  <2> QED
    BY <1>2, <2>1, <2>2, <2>3 DEF Current
<1> QED
  BY <1>11, <1>12, <1>13, <1>14, <1>15, <1>16

LEMMA FiniteParts ==
  ASSUME TypeOK, NEW c \in Constraint
  PROVE  /\ IsFiniteSet(ReportsOf(c)) /\ IsFiniteSet(Due(c))
         /\ Cardinality(ReportsOf(c)) \in Nat /\ Cardinality(Due(c)) \in Nat
         /\ Len(violations) + 1 \notin ReportsOf(c)
<1>1. /\ Len(violations) \in Nat /\ DOMAIN violations = 1..Len(violations)
      /\ Len(seen[c]) \in Nat /\ DOMAIN seen[c] = 1..Len(seen[c])
  BY DEF TypeOK
<1>2. ReportsOf(c) \in SUBSET (1..Len(violations)) /\ Due(c) \in SUBSET (1..Len(seen[c]))
  BY <1>1 DEF ReportsOf, Due, Starts
<1>3. IsFiniteSet(1..Len(violations)) /\ IsFiniteSet(1..Len(seen[c]))
  <2>1. \A n \in Nat : IsFiniteSet(1..n)
    <3> SUFFICES ASSUME NEW n \in Nat PROVE IsFiniteSet(1..n)
      OBVIOUS
    <3>1. 1 \in Int /\ n \in Int
      OBVIOUS
    <3> QED
      BY <3>1, FS_Interval
  <2> QED
    BY <1>1, <2>1
<1>4. IsFiniteSet(ReportsOf(c)) /\ IsFiniteSet(Due(c))
  BY <1>2, <1>3, FS_Subset
<1> QED
  BY <1>1, <1>2, <1>4, FS_CardinalityType

\* The evaluation of a maximum duration.
LEMMA MaximumStep ==
  ASSUME IInv, Alive, NEW c \in Maximum, MaximumInv(c), NEW val \in BOOLEAN, Evaluate(c, val)
  PROVE  /\ MaximumInv(c)'
         /\ \/ violations' = violations /\ currentID' = currentID
            \/ \E v \in Violation :
                 /\ v.con = c /\ violations' = Append(violations, v)
                 /\ v.severity = "ERROR" /\ v.ID = currentID /\ currentID' = currentID + 1
<1>1. TypeOK /\ c \in Constraint /\ pc = "evaluate" /\ EvaluateMaximum(c, val) /\ Alive
  BY ConstraintAssumption DEF IInv, Evaluate, Constraint
<1>2. /\ condition_has_been_true[c] = Found(c)
      /\ condition_has_been_true[c] \in BOOLEAN /\ in_violation[c] \in BOOLEAN
      /\ in_violation[c] => condition_has_been_true[c]
  BY <1>1 DEF MaximumInv, TypeOK
<1>3. Found(c)' = val
  BY <1>1, OneMoreEvaluation DEF Evaluate
<1> DEFINE Under == {k \in DOMAIN seen[c] : TooLongAt(c, k)}
           Dues == {seen[c][FirstLate(c, k)].at : k \in Due(c)}
           Dues1 == {seen'[c][FirstLate(c, k)'].at : k \in Due(c)'}
<1>4. /\ Due(c)' = Due(c) \cup Under
      /\ \A k \in Due(c) : seen'[c][FirstLate(c, k)'].at = seen[c][FirstLate(c, k)].at
      /\ \A k \in Due(c)' \ Due(c) : seen'[c][FirstLate(c, k)'].at = curTime
      /\ \A k \in DOMAIN seen[c] : k \in DOMAIN seen'[c] /\ seen'[c][k] = seen[c][k]
      /\ \A k : val /\ Current(c, k) => Current(c, k)'
      /\ \A k : val /\ ~Found(c) /\ k = Len(seen[c]) + 1 =>
           /\ Current(c, k)' /\ k \in DOMAIN seen'[c] /\ seen'[c][k].at = curTime
           /\ k \notin Due(c)'
  BY <1>1, StretchStep DEF Evaluate
<1>5. \A k, j : Current(c, k) /\ Current(c, j) => j = k /\ Found(c)
  BY <1>1, OneCurrent
\* Nothing is reported: what is due was due before.
<1>6. ASSUME Under \subseteq Due(c), UNCHANGED violations
      PROVE  /\ Due(c)' = Due(c)
             /\ Cardinality(ReportsOf(c)') = Cardinality(Due(c)')
             /\ TimesOf(c, "ERROR")' = Dues1
  <2>1. Due(c)' = Due(c)
    BY <1>4, <1>6
  <2>2. Dues1 = Dues
    BY <1>4, <2>1
  <2>3. ReportsOf(c)' = ReportsOf(c) /\ TimesOf(c, "ERROR")' = TimesOf(c, "ERROR")
    BY <1>6, SameReports
  <2> QED
    BY <2>1, <2>2, <2>3 DEF MaximumInv
<1>7. CASE /\ in_violation[c]
           /\ in_violation' = [in_violation EXCEPT ![c] = val]
           /\ condition_has_been_true' = [condition_has_been_true EXCEPT ![c] = @ /\ val]
           /\ UNCHANGED <<since, violations, currentID>>
  <2>1. PICK k \in DOMAIN seen[c] : Current(c, k) /\ k \in Due(c)
    BY <1>1, <1>2, <1>7 DEF MaximumInv
  <2>2. Under \subseteq Due(c)
    BY <1>5, <2>1 DEF TooLongAt
  <2>3. condition_has_been_true'[c] = val /\ in_violation'[c] = val
    BY <1>1, <1>2, <1>7 DEF TypeOK
  <2>4. val => k \in DOMAIN seen'[c] /\ Current(c, k)' /\ k \in Due(c)'
    BY <1>4, <2>1
  <2>5. MaximumInv(c)'
    BY <1>3, <1>6, <1>7, <2>2, <2>3, <2>4 DEF MaximumInv
  <2> QED
    BY <1>7, <2>5
<1>8. CASE /\ ~in_violation[c] /\ ~condition_has_been_true[c]
           /\ condition_has_been_true' = [condition_has_been_true EXCEPT ![c] = val]
           /\ since' = IF val THEN [since EXCEPT ![c] = curTime] ELSE since
           /\ UNCHANGED <<in_violation, violations, currentID>>
  <2>1. Under \subseteq Due(c)
    BY <1>2, <1>5, <1>8 DEF TooLongAt
  <2>2. condition_has_been_true'[c] = val /\ ~in_violation'[c] /\ (val => since'[c] = curTime)
    BY <1>1, <1>8 DEF TypeOK
  <2>3. \A k : val /\ k = Len(seen[c]) + 1 => /\ k \in DOMAIN seen'[c] /\ Current(c, k)' /\ k \notin Due(c)'
                                             /\ seen'[c][k].at = curTime
    BY <1>2, <1>4, <1>8
  <2>4. val => \E k \in DOMAIN seen'[c] :
                 /\ Current(c, k)' /\ (in_violation'[c] <=> k \in Due(c)')
                 /\ ~in_violation'[c] => since'[c] = seen'[c][k].at
    BY <2>2, <2>3
  <2>5. MaximumInv(c)'
    BY <1>3, <1>6, <1>8, <2>1, <2>2, <2>4 DEF MaximumInv
  <2> QED
    BY <1>8, <2>5
<1>9. CASE /\ ~in_violation[c] /\ condition_has_been_true[c]
           /\ condition_has_been_true' = [condition_has_been_true EXCEPT ![c] = val]
           /\ in_violation' = [in_violation EXCEPT ![c] = val /\ TooLong(c)]
           /\ IF TooLong(c)
                THEN Report(c, "ERROR", currentID) /\ currentID' = currentID + 1
                ELSE UNCHANGED <<violations, currentID>>
           /\ UNCHANGED since
  <2>1. PICK k \in DOMAIN seen[c] : Current(c, k) /\ k \notin Due(c) /\ since[c] = seen[c][k].at
    BY <1>1, <1>9 DEF MaximumInv
  <2>2. TooLong(c) <=> TooLongAt(c, k)
    BY <2>1 DEF TooLong, TooLongAt
  <2>3. Under = IF TooLong(c) THEN {k} ELSE {}
    BY <1>5, <2>1, <2>2 DEF TooLongAt
  <2>4. condition_has_been_true'[c] = val /\ (in_violation'[c] <=> val /\ TooLong(c)) /\ since'[c] = since[c]
    BY <1>1, <1>9 DEF TypeOK
  <2>5. val => k \in DOMAIN seen'[c] /\ Current(c, k)' /\ seen'[c][k].at = since[c]
    BY <1>4, <2>1
  <2>6. CASE ~TooLong(c)
    <3>1. Under \subseteq Due(c) /\ violations' = violations /\ currentID' = currentID
      BY <1>9, <2>3, <2>6
    <3>2. k \notin Due(c)'
      BY <1>6, <2>1, <3>1
    <3>3. val => \E j \in DOMAIN seen'[c] :
                   /\ Current(c, j)' /\ (in_violation'[c] <=> j \in Due(c)')
                   /\ ~in_violation'[c] => since'[c] = seen'[c][j].at
      BY <2>4, <2>5, <2>6, <3>2
    <3>4. MaximumInv(c)'
      BY <1>3, <1>6, <2>4, <2>6, <3>1, <3>3 DEF MaximumInv
    <3> QED
      BY <3>1, <3>4
  <2>7. CASE TooLong(c)
    <3> DEFINE v == [at |-> curTime, con |-> c, severity |-> "ERROR", ID |-> currentID]
               new == Len(violations) + 1
    <3>1. v \in Violation /\ violations' = Append(violations, v) /\ currentID' = currentID + 1
      BY <1>1, <1>9, <2>7 DEF Violation, Report, TypeOK
    <3>2. v.con = c /\ v.at = curTime /\ v.severity = "ERROR" /\ v.ID = currentID
      OBVIOUS
    <3> HIDE DEF v
    <3>3. ReportsOf(c)' = ReportsOf(c) \cup {new} /\ TimesOf(c, "ERROR")' = TimesOf(c, "ERROR") \cup {curTime}
      BY <1>1, <3>1, <3>2, OneMoreReport
    <3>4. Due(c)' = Due(c) \cup {k}
      BY <1>4, <2>3, <2>7
    <3>5. Cardinality(ReportsOf(c)') = Cardinality(Due(c)')
      <4> HIDE DEF new
      <4>1. new \notin ReportsOf(c) /\ IsFiniteSet(ReportsOf(c)) /\ IsFiniteSet(Due(c))
        BY <1>1, FiniteParts DEF new
      <4>2. Cardinality(ReportsOf(c) \cup {new}) = Cardinality(ReportsOf(c)) + 1
        BY <4>1, FS_AddElement
      <4>3. Cardinality(Due(c) \cup {k}) = Cardinality(Due(c)) + 1
        BY <2>1, <4>1, FS_AddElement
      <4>4. Cardinality(ReportsOf(c)) = Cardinality(Due(c))
        BY DEF MaximumInv
      <4> QED
        BY <3>3, <3>4, <4>2, <4>3, <4>4
    <3>6. TimesOf(c, "ERROR")' = Dues1
      <4>1. seen'[c][FirstLate(c, k)'].at = curTime
        BY <1>4, <2>1, <3>4
      <4>2. \A j \in Due(c) : seen'[c][FirstLate(c, j)'].at = seen[c][FirstLate(c, j)].at
        BY <1>4
      <4>3. TimesOf(c, "ERROR") = Dues
        BY DEF MaximumInv
      <4>4. Dues1 = Dues \cup {curTime}
        <5>1. \A y : y \in Dues1 <=> \E j \in Due(c) \cup {k} : y = seen'[c][FirstLate(c, j)'].at
          BY <3>4
        <5>2. \A y : y \in Dues1 <=> y = curTime \/ \E j \in Due(c) : y = seen[c][FirstLate(c, j)].at
          BY <4>1, <4>2, <5>1
        <5> QED
          BY <5>2
      <4> QED
        BY <3>3, <4>3, <4>4
    <3>7. val => \E j \in DOMAIN seen'[c] :
                   /\ Current(c, j)' /\ (in_violation'[c] <=> j \in Due(c)')
                   /\ ~in_violation'[c] => since'[c] = seen'[c][j].at
      BY <2>4, <2>5, <2>7, <3>4
    <3>8. MaximumInv(c)'
      BY <1>3, <2>4, <3>5, <3>6, <3>7 DEF MaximumInv
    <3> QED
      BY <3>1, <3>2, <3>8
  <2> QED
    BY <2>6, <2>7
<1> QED
  BY <1>1, <1>7, <1>8, <1>9 DEF EvaluateMaximum

-----------------------------------------------------------------------------
LEMMA InitRunInv == Init => RunInv
<1> SUFFICES ASSUME Init PROVE RunInv
  OBVIOUS
<1>1. IInv
  BY InitIInv
<1>2. \A c \in Constraint : seen[c] = <<>> /\ condition_has_been_true[c] = FALSE
  BY DEF Init
<1>3. SeenInv
  BY <1>2 DEF SeenInv
<1>4. FreshInv /\ PairInv /\ Untouched
  BY <1>2 DEF Init, FreshInv, PairInv, Untouched
<1>5. ASSUME NEW c \in Constraint, NEW s
      PROVE  /\ ReportsOf(c) = {} /\ TimesOf(c, s) = {} /\ Due(c) = {} /\ Found(c) = FALSE
             /\ Becomes(c, TRUE) = {} /\ Becomes(c, FALSE) = {}
  <2>1. ReportsOf(c) = {}
    BY DEF Init, ReportsOf
  <2>2. DOMAIN seen[c] = {}
    BY <1>2
  <2> QED
    BY <1>2, <2>1, <2>2 DEF TimesOf, Due, Starts, Found, Becomes
<1>6. \A c \in Forbidden : ForbiddenInv(c)
  BY <1>2, <1>5 DEF ForbiddenInv, Constraint
<1>7. ASSUME NEW c \in Maximum PROVE MaximumInv(c)
  <2>1. c \in Constraint /\ in_violation[c] = FALSE
    BY DEF Init, Constraint
  <2> QED
    BY <1>2, <1>5, <2>1 DEF MaximumInv
<1> QED
  BY <1>1, <1>3, <1>4, <1>6, <1>7 DEF RunInv, ReportInv

LEMMA SeenStep == IInv /\ SeenInv /\ [CheckNext]_conVars => SeenInv'
<1> SUFFICES ASSUME IInv, SeenInv, [CheckNext]_conVars PROVE SeenInv'
  OBVIOUS
<1>1. CASE StartRun
  BY <1>1 DEF StartRun, SeenInv
<1>2. CASE NextNodeIsLater
  BY <1>2 DEF NextNodeIsLater, SeenInv
<1>3. CASE AdvanceTime
  <2>1. curTime \in Nat /\ curTime' \in Nat /\ curTime' > curTime /\ seen' = seen
    BY <1>3, ConstraintAssumption DEF AdvanceTime, IInv, TypeOK
  <2>2. ASSUME NEW c \in Constraint, NEW k \in DOMAIN seen[c]
        PROVE  seen[c][k].at \in Nat /\ seen[c][k].at < curTime'
    <3> DEFINE Evaluation == [at : 0..Horizon, val : BOOLEAN]
    <3>1. seen[c] \in Seq(Evaluation)
      BY DEF IInv, TypeOK
    <3> HIDE DEF Evaluation
    <3>2. seen[c][k] \in Evaluation
      BY <3>1
    <3>3. seen[c][k].at \in Nat
      BY <3>2, ConstraintAssumption DEF Evaluation
    <3>4. seen[c][k].at <= curTime
      BY DEF SeenInv
    <3> QED
      BY <2>1, <3>3, <3>4
  <2> QED
    BY <2>1, <2>2 DEF SeenInv
<1>4. CASE NoNodeIsLeft
  BY <1>4 DEF NoNodeIsLeft, SeenInv
<1>5. ASSUME NEW c \in Constraint, EvaluationFails(c) PROVE SeenInv'
  BY <1>5 DEF EvaluationFails, SeenInv
<1>6. ASSUME NEW c \in Constraint, NEW val \in BOOLEAN, Evaluate(c, val) PROVE SeenInv'
  <2> SUFFICES ASSUME NEW d \in Constraint
               PROVE  /\ \A j, k \in DOMAIN seen'[d] : j < k => seen'[d][j].at < seen'[d][k].at
                      /\ \A k \in DOMAIN seen'[d] : seen'[d][k].at <= curTime
                      /\ d \in constraints_to_check' => \A k \in DOMAIN seen'[d] : seen'[d][k].at < curTime
    BY <1>6 DEF Evaluate, SeenInv
  <2>1. CASE d # c
    <3>1. seen'[d] = seen[d] /\ (d \in constraints_to_check' => d \in constraints_to_check)
      BY <1>6, <2>1 DEF Evaluate, IInv, TypeOK
    <3> QED
      BY <1>6, <3>1 DEF SeenInv, Evaluate
  <2>2. CASE d = c
    <3> DEFINE Evaluation == [at : 0..Horizon, val : BOOLEAN]
               s == seen[c]
               t == seen'[c]
               new == Len(s) + 1
               x == [at |-> curTime, val |-> val]
    <3>1. s \in Seq(Evaluation) /\ x \in Evaluation /\ t = Append(s, x) /\ x.at = curTime
      BY <1>6 DEF Evaluate, IInv, TypeOK
    <3>2. d \notin constraints_to_check'
      BY <1>6, <2>2 DEF Evaluate
    <3>3. /\ \A j, k \in DOMAIN s : j < k => s[j].at < s[k].at
          /\ \A k \in DOMAIN s : s[k].at < curTime
      BY <1>6 DEF SeenInv, Evaluate
    <3>4. curTime \in Nat
      BY ConstraintAssumption DEF IInv, TypeOK
    <3> HIDE DEF Evaluation, s, t, x
    <3>5. /\ Len(s) \in Nat /\ DOMAIN s = 1..Len(s) /\ DOMAIN t = 1..new
          /\ \A n \in 1..Len(s) : t[n] = s[n]
          /\ t[new] = x
      BY <3>1, Appended
    <3>6. ASSUME NEW j \in 1..new, NEW k \in 1..new, j < k PROVE t[j].at < t[k].at
      <4>1. j \in 1..Len(s) /\ t[j] = s[j]
        BY <3>5, <3>6
      <4>2. CASE k = new
        BY <3>1, <3>3, <3>5, <4>1, <4>2
      <4>3. CASE k # new
        <5>1. k \in 1..Len(s) /\ t[k] = s[k]
          BY <3>5, <4>3
        <5> QED
          BY <3>3, <3>5, <3>6, <4>1, <5>1
      <4> QED
        BY <4>2, <4>3
    <3>7. ASSUME NEW k \in 1..new PROVE t[k].at <= curTime
      <4>1. CASE k = new
        BY <3>1, <3>4, <3>5, <4>1
      <4>2. CASE k # new
        <5>1. k \in 1..Len(s) /\ t[k] = s[k]
          BY <3>5, <4>2
        <5>2. s[k].at \in Nat
          <6>1. s[k] \in Evaluation
            BY <3>1, <5>1
          <6> QED
            BY <6>1, ConstraintAssumption DEF Evaluation
        <5> QED
          BY <3>3, <3>4, <3>5, <5>1, <5>2
      <4> QED
        BY <4>1, <4>2
    <3> QED
      BY <2>2, <3>2, <3>5, <3>6, <3>7 DEF t
  <2> QED
    BY <2>1, <2>2
<1>7. CASE UNCHANGED conVars
  BY <1>7 DEF conVars, loopVars, SeenInv
<1> QED
  BY <1>1, <1>2, <1>3, <1>4, <1>5, <1>6, <1>7 DEF CheckNext

LEMMA ReportStep == RunInv /\ [CheckNext]_conVars => ReportInv'
<1> SUFFICES ASSUME RunInv, [CheckNext]_conVars, runs' <= 1
             PROVE  /\ FreshInv' /\ PairInv' /\ Untouched'
                    /\ \A c \in Forbidden : ForbiddenInv(c)'
                    /\ \A c \in Maximum : MaximumInv(c)'
  BY DEF ReportInv
<1>0. TypeOK /\ runs \in Nat
  <2>1. TypeOK
    BY DEF RunInv, IInv
  <2>2. runs \in 0..MaxRuns
    BY <2>1 DEF TypeOK
  <2> QED
    BY <2>1, <2>2, ConstraintAssumption
<1> DEFINE Told == /\ FreshInv /\ PairInv /\ Untouched
                   /\ \A c \in Forbidden : ForbiddenInv(c)
                   /\ \A c \in Maximum : MaximumInv(c)
           Goal == /\ FreshInv' /\ PairInv' /\ Untouched'
                   /\ \A c \in Forbidden : ForbiddenInv(c)'
                   /\ \A c \in Maximum : MaximumInv(c)'
<1>1. runs' = runs => Told
  BY DEF RunInv, ReportInv
<1>2. ASSUME UNCHANGED <<runs, violations, currentID, seen>>, Untouched',
             Alive' => Alive /\ UNCHANGED automata
      PROVE  Goal
  <2>1. FreshInv'
    BY <1>1, <1>2 DEF FreshInv
  <2>2. PairInv'
    BY <1>1, <1>2 DEF PairInv, Pair, ReportsOf
  <2>3. \A c \in Forbidden : ForbiddenInv(c)'
    BY <1>1, <1>2, QuietForbidden DEF automata
  <2>4. \A c \in Maximum : MaximumInv(c)'
    BY <1>1, <1>2, QuietMaximum DEF automata
  <2> QED
    BY <1>2, <2>1, <2>2, <2>3, <2>4
<1>3. CASE StartRun
  <2>1. runs = 0 /\ runs' = 1
    BY <1>0, <1>3 DEF StartRun
  <2>2. Told /\ Alive
    BY <2>1 DEF RunInv, ReportInv, Alive
  <2>3. \A c \in Constraint : seen[c] = <<>> /\ Found(c) = FALSE
    BY <2>1, <2>2 DEF Untouched, Found
  <2>4. violations' = <<>> /\ \A c \in Constraint : seen'[c] = <<>>
    BY <1>3 DEF StartRun
  <2>5. FreshInv' /\ PairInv' /\ Untouched'
    BY <2>1, <2>4 DEF FreshInv, PairInv, Untouched
  <2>6. ASSUME NEW c \in Constraint, NEW s
        PROVE  /\ ReportsOf(c)' = {} /\ TimesOf(c, s)' = {} /\ Due(c)' = {} /\ Found(c)' = FALSE
               /\ Becomes(c, TRUE)' = {} /\ Becomes(c, FALSE)' = {}
    <3>1. ReportsOf(c)' = {}
      BY <2>4 DEF ReportsOf
    <3>2. DOMAIN seen'[c] = {} /\ seen'[c] = <<>>
      BY <2>4
    <3> QED
      BY <3>1, <3>2 DEF TimesOf, Due, Starts, Found, Becomes
  <2>7. ASSUME NEW c \in Forbidden PROVE ForbiddenInv(c)'
    <3>1. c \in Constraint
      BY DEF Constraint
    <3>2. condition_has_been_true'[c] = FALSE
      BY <1>3, <2>2, <2>3, <3>1 DEF StartRun, automata, ForbiddenInv
    <3> QED
      BY <2>6, <3>1, <3>2 DEF ForbiddenInv
  <2>8. ASSUME NEW c \in Maximum PROVE MaximumInv(c)'
    <3>1. c \in Constraint
      BY DEF Constraint
    <3>2. condition_has_been_true'[c] = FALSE /\ ~in_violation'[c]
      BY <1>3, <2>2, <2>3, <3>1 DEF StartRun, automata, MaximumInv
    <3> QED
      BY <2>6, <3>1, <3>2 DEF MaximumInv
  <2> QED
    BY <2>5, <2>7, <2>8
<1>4. CASE NextNodeIsLater
  <2>1. Untouched' /\ (Alive' => Alive /\ UNCHANGED automata)
    BY <1>1, <1>4 DEF NextNodeIsLater, Untouched, Alive
  <2> QED
    BY <1>2, <1>4, <2>1 DEF NextNodeIsLater
<1>5. CASE AdvanceTime
  <2>1. Untouched' /\ (Alive' => Alive /\ UNCHANGED automata)
    BY <1>1, <1>5 DEF AdvanceTime, Untouched, Alive
  <2> QED
    BY <1>2, <1>5, <2>1 DEF AdvanceTime
<1>6. CASE NoNodeIsLeft
  <2>1. Untouched' /\ (Alive' => Alive /\ UNCHANGED automata)
    BY <1>1, <1>6 DEF NoNodeIsLeft, Untouched, Alive
  <2> QED
    BY <1>2, <1>6, <2>1 DEF NoNodeIsLeft
<1>7. ASSUME NEW c \in Constraint, EvaluationFails(c) PROVE Goal
  <2>1. Untouched' /\ ~Alive'
    BY <1>1, <1>7 DEF EvaluationFails, Untouched, Alive
  <2> QED
    BY <1>2, <1>7, <2>1 DEF EvaluationFails
<1>8. ASSUME NEW c \in Constraint, NEW val \in BOOLEAN, Evaluate(c, val) PROVE Goal
  <2>1. Told /\ Alive /\ Alive' /\ IInv /\ SeenInv /\ pc = "evaluate"
    BY <1>1, <1>8 DEF Evaluate, Alive, RunInv
  <2>2. Untouched'
    BY <1>1, <1>8, <2>1 DEF Evaluate, Untouched
  <2>3. \A d \in Constraint : d # c => seen'[d] = seen[d]
    BY <1>0, <1>8 DEF Evaluate, TypeOK
  <2>4. /\ \A d \in Constraint : d # c => condition_has_been_true'[d] = condition_has_been_true[d]
        /\ \A d \in Forbidden : d # c => id_of_last_violation'[d] = id_of_last_violation[d]
        /\ \A d \in Maximum : d # c => in_violation'[d] = in_violation[d] /\ since'[d] = since[d]
    <3>1. CASE c \in Forbidden
      <4>1. EvaluateForbidden(c, val) /\ c \notin Maximum
        BY <1>8, <3>1, ConstraintAssumption DEF Evaluate
      <4>2. \A d \in Constraint : d # c => condition_has_been_true'[d] = condition_has_been_true[d]
        BY <1>0, <4>1 DEF EvaluateForbidden, TypeOK
      <4>3. \A d \in Forbidden : d # c => id_of_last_violation'[d] = id_of_last_violation[d]
        BY <1>0, <4>1 DEF EvaluateForbidden, TypeOK
      <4>4. \A d \in Maximum : in_violation'[d] = in_violation[d] /\ since'[d] = since[d]
        BY <4>1 DEF EvaluateForbidden
      <4> QED
        BY <4>2, <4>3, <4>4
    <3>2. CASE c \notin Forbidden
      <4>1. EvaluateMaximum(c, val)
        BY <1>8, <3>2 DEF Evaluate
      <4>2. \A d \in Constraint : d # c => condition_has_been_true'[d] = condition_has_been_true[d]
        BY <1>0, <4>1 DEF EvaluateMaximum, TypeOK
      <4>3. id_of_last_violation' = id_of_last_violation
        BY <4>1 DEF EvaluateMaximum
      <4>4. \A d \in Maximum : d # c => in_violation'[d] = in_violation[d]
        BY <1>0, <4>1 DEF EvaluateMaximum, TypeOK
      <4>5. \A d \in Maximum : d # c => since'[d] = since[d]
        BY <1>0, <4>1 DEF EvaluateMaximum, TypeOK
      <4> QED
        BY <4>2, <4>3, <4>4, <4>5
    <3> QED
      BY <3>1, <3>2
  <2>5. c \in Forbidden => ForbiddenInv(c)'
    BY <1>8, <2>1, ForbiddenStep
  <2>6. c \in Maximum => MaximumInv(c)'
    BY <1>8, <2>1, MaximumStep
  <2>7. CASE violations' = violations /\ currentID' = currentID
    <3>1. FreshInv'
      BY <2>1, <2>7 DEF FreshInv
    <3>2. PairInv'
      BY <2>1, <2>7 DEF PairInv, Pair, ReportsOf
    <3>3. ASSUME NEW d \in Forbidden, d # c PROVE ForbiddenInv(d)'
      <4>1. d \in Constraint /\ ForbiddenInv(d)
        BY <2>1 DEF Constraint
      <4>2. /\ condition_has_been_true'[d] = condition_has_been_true[d]
            /\ id_of_last_violation'[d] = id_of_last_violation[d] /\ seen'[d] = seen[d]
        BY <2>3, <2>4, <3>3, <4>1
      <4> QED
        BY <2>1, <2>7, <4>1, <4>2, QuietForbidden
    <3>4. ASSUME NEW d \in Maximum, d # c PROVE MaximumInv(d)'
      <4>1. d \in Constraint /\ MaximumInv(d)
        BY <2>1 DEF Constraint
      <4>2. /\ condition_has_been_true'[d] = condition_has_been_true[d] /\ seen'[d] = seen[d]
            /\ in_violation'[d] = in_violation[d] /\ since'[d] = since[d]
        BY <2>3, <2>4, <3>4, <4>1
      <4> QED
        BY <2>1, <2>7, <4>1, <4>2, QuietMaximum
    <3> QED
      BY <2>2, <2>5, <2>6, <3>1, <3>2, <3>3, <3>4
  <2>8. ASSUME NEW v \in Violation, v.con = c, violations' = Append(violations, v),
               \/ v.severity = "ERROR" /\ v.ID = currentID /\ currentID' = currentID + 1
               \/ /\ v.severity = "RELEASE" /\ currentID' = currentID
                  /\ \E m \in DOMAIN violations : Unreleased(c, m) /\ v.ID = violations[m].ID
        PROVE  Goal
    <3>1. FreshInv' /\ PairInv'
      BY <1>0, <2>1, <2>8, ReportPairs
    <3>2. ASSUME NEW d \in Forbidden, d # c PROVE ForbiddenInv(d)'
      <4>1. d \in Constraint /\ ForbiddenInv(d)
        BY <2>1 DEF Constraint
      <4>2. /\ condition_has_been_true'[d] = condition_has_been_true[d]
            /\ id_of_last_violation'[d] = id_of_last_violation[d] /\ seen'[d] = seen[d]
        BY <2>3, <2>4, <3>2, <4>1
      <4>3. ASSUME NEW m, Unreleased(d, m) PROVE violations[m].ID # v.ID
        <5>1. m \in DOMAIN violations /\ violations[m].con = d
          BY <4>3 DEF Unreleased, ReportsOf
        <5>2. CASE v.ID = currentID
          <6>1. violations[m].ID < currentID /\ violations[m].ID \in Nat /\ currentID \in Nat
            BY <1>0, <2>1, <5>1, ReportTypes DEF FreshInv, TypeOK
          <6> QED
            BY <5>2, <6>1
        <5>3. ASSUME NEW i \in DOMAIN violations, Unreleased(c, i), v.ID = violations[i].ID
              PROVE  violations[m].ID # v.ID
          <6>1. violations[i].con = c /\ i # m
            BY <3>2, <5>1, <5>3 DEF Unreleased, ReportsOf
          <6> QED
            BY <4>3, <5>1, <5>3, <6>1 DEF Unreleased
        <5> QED
          BY <2>8, <5>2, <5>3
      <4> QED
        BY <1>0, <2>1, <2>8, <3>2, <4>1, <4>2, <4>3, OthersForbidden
    <3>3. ASSUME NEW d \in Maximum, d # c PROVE MaximumInv(d)'
      <4>1. d \in Constraint /\ MaximumInv(d)
        BY <2>1 DEF Constraint
      <4>2. /\ condition_has_been_true'[d] = condition_has_been_true[d] /\ seen'[d] = seen[d]
            /\ in_violation'[d] = in_violation[d] /\ since'[d] = since[d]
        BY <2>3, <2>4, <3>3, <4>1
      <4> QED
        BY <1>0, <2>1, <2>8, <3>3, <4>1, <4>2, OthersMaximum
    <3> QED
      BY <2>2, <2>5, <2>6, <3>1, <3>2, <3>3
  <2>9. CASE c \in Forbidden
    <3>1. \/ violations' = violations /\ currentID' = currentID
          \/ \E v \in Violation :
               /\ v.con = c /\ violations' = Append(violations, v)
               /\ \/ v.severity = "ERROR" /\ v.ID = currentID /\ currentID' = currentID + 1
                  \/ /\ v.severity = "RELEASE" /\ currentID' = currentID
                     /\ \E m \in DOMAIN violations : Unreleased(c, m) /\ v.ID = violations[m].ID
      BY <1>8, <2>1, <2>9, ForbiddenStep
    <3> QED
      BY <2>7, <2>8, <3>1
  <2>10. CASE c \in Maximum
    <3>1. \/ violations' = violations /\ currentID' = currentID
          \/ \E v \in Violation :
               /\ v.con = c /\ violations' = Append(violations, v)
               /\ v.severity = "ERROR" /\ v.ID = currentID /\ currentID' = currentID + 1
      BY <1>8, <2>1, <2>10, MaximumStep
    <3> QED
      BY <2>7, <2>8, <3>1
  <2> QED
    BY <2>9, <2>10 DEF Constraint
<1>9. CASE UNCHANGED conVars
  <2>1. Untouched' /\ (Alive' => Alive /\ UNCHANGED automata)
    BY <1>1, <1>9 DEF conVars, loopVars, automata, Untouched, Alive
  <2> QED
    BY <1>2, <1>9, <2>1 DEF conVars, loopVars
<1> QED
  BY <1>3, <1>4, <1>5, <1>6, <1>7, <1>8, <1>9 DEF CheckNext

LEMMA RunInvariant == CheckSpec => []RunInv
<1>1. Init => RunInv
  BY InitRunInv
<1>2. RunInv /\ [CheckNext]_conVars => RunInv'
  BY NextIInv, SeenStep, ReportStep DEF RunInv
<1> QED
  BY <1>1, <1>2, PTL DEF CheckSpec

\* The invariant says what the properties say.
LEMMA RunInvReports == RunInv /\ runs <= 1 => ForbiddenReports /\ MaximumReports
<1>1. RunInv /\ runs <= 1 => ForbiddenReports
  <2> SUFFICES ASSUME RunInv, runs <= 1, NEW c \in Forbidden
               PROVE  /\ TimesOf(c, "ERROR") = Becomes(c, TRUE)
                      /\ TimesOf(c, "RELEASE") = Becomes(c, FALSE)
                      /\ \A m, n \in ReportsOf(c) : m < n => violations[m].at < violations[n].at
                      /\ \A n \in ReportsOf(c) : \A m \in DOMAIN violations :
                           violations[m].ID = violations[n].ID /\ m < n =>
                             /\ violations[m].con = c
                             /\ violations[m].severity = "ERROR" /\ violations[n].severity = "RELEASE"
                             /\ \A k \in ReportsOf(c) : k <= m \/ k >= n
                      /\ \A n \in ReportsOf(c) : violations[n].severity = "RELEASE" =>
                           \E m \in 1..(n - 1) : violations[m].ID = violations[n].ID
    BY DEF ForbiddenReports
  <2>1. ForbiddenInv(c) /\ PairInv
    BY DEF RunInv, ReportInv
  <2>2. \A n \in ReportsOf(c) : n \in DOMAIN violations /\ violations[n].con = c
    BY DEF ReportsOf
  <2>3. \A n \in ReportsOf(c) : \A m \in DOMAIN violations :
          violations[m].ID = violations[n].ID /\ m < n =>
            /\ violations[m].con = c
            /\ violations[m].severity = "ERROR" /\ violations[n].severity = "RELEASE"
            /\ \A k \in ReportsOf(c) : k <= m \/ k >= n
    BY <2>1, <2>2 DEF PairInv, Pair
  <2>4. \A n \in ReportsOf(c) : violations[n].severity = "RELEASE" =>
          \E m \in 1..(n - 1) : violations[m].ID = violations[n].ID
    BY <2>1, <2>2 DEF PairInv
  <2> QED
    BY <2>1, <2>3, <2>4 DEF ForbiddenInv
<1>2. RunInv /\ runs <= 1 => MaximumReports
  <2> SUFFICES ASSUME RunInv, runs <= 1 PROVE MaximumReports
    OBVIOUS
  <2>1. \A c \in Maximum :
          /\ Cardinality(ReportsOf(c)) = Cardinality(Due(c))
          /\ TimesOf(c, "ERROR") = {seen[c][FirstLate(c, k)].at : k \in Due(c)}
    BY DEF RunInv, ReportInv, MaximumInv
  <2> QED
    BY <2>1 DEF MaximumReports, Due, Starts, Late, FirstLate
<1> QED
  BY <1>1, <1>2

\* In the first run of a process, a forbidden condition reports each change of
\* its condition once, in order, and a release has the ID of its violation and
\* of nothing else.
THEOREM ForbiddenCorrect == CheckSpec => [](runs <= 1 => ForbiddenReports)
BY RunInvReports, RunInvariant, PTL

\* In the first run, a maximum duration reports once, at the first evaluation
\* that finds it, each stretch of time over which its condition lasts too long.
THEOREM MaximumCorrect == CheckSpec => [](runs <= 1 => MaximumReports)
BY RunInvReports, RunInvariant, PTL

-----------------------------------------------------------------------------
(* What is written of the violations (ViolationListing)                    *)

\* The list is in order of time, and all of it is safe but for the round that
\* is under way or that an error has ended.
OrderInv ==
  /\ \A m, n \in DOMAIN violations : m < n => violations[m].at <= violations[n].at
  /\ \A n \in (last_safe_node + 1)..Len(violations) : violations[n].at = curTime
  /\ pc = "gather" \/ (pc = "idle" /\ ~failed) => last_safe_node = Len(violations)

ListInv == RunInv /\ OrderInv

LEMMA ListTypes ==
  ASSUME IInv
  PROVE  /\ violations \in Seq(Violation) /\ Len(violations) \in Nat
         /\ DOMAIN violations = 1..Len(violations)
         /\ last_safe_node \in 0..Len(violations) /\ last_safe_node \in Nat
         /\ last_safe_node <= Len(violations) /\ curTime \in Nat /\ Horizon \in Nat /\ currentID \in Nat
         /\ \A n \in 1..Len(violations) :
              /\ violations[n].at \in Nat /\ violations[n].ID \in Nat
              /\ violations[n].con \in Constraint /\ violations[n].severity \in {"ERROR", "RELEASE"}
<1>1. TypeOK
  BY DEF IInv
<1>2. /\ violations \in Seq(Violation) /\ Len(violations) \in Nat
      /\ DOMAIN violations = 1..Len(violations)
      /\ last_safe_node \in 0..Len(violations) /\ curTime \in 0..Horizon /\ currentID \in Nat
  BY <1>1 DEF TypeOK
<1>3. ASSUME NEW n \in 1..Len(violations)
      PROVE  /\ violations[n].at \in Nat /\ violations[n].ID \in Nat
             /\ violations[n].con \in Constraint /\ violations[n].severity \in {"ERROR", "RELEASE"}
  BY <1>1, <1>2, ReportTypes
<1>4. last_safe_node \in Nat /\ last_safe_node <= Len(violations) /\ curTime \in Nat /\ Horizon \in Nat
  BY <1>2, ConstraintAssumption
<1> QED
  BY <1>2, <1>3, <1>4

\* The order of the list under one step of the constraint thread.
LEMMA OrderStep == IInv /\ OrderInv /\ [CheckNext]_conVars => OrderInv'
<1> SUFFICES ASSUME IInv, OrderInv, [CheckNext]_conVars PROVE OrderInv'
  OBVIOUS
<1>0. /\ Len(violations) \in Nat /\ DOMAIN violations = 1..Len(violations)
      /\ last_safe_node \in Nat /\ last_safe_node <= Len(violations) /\ curTime \in Nat
      /\ \A n \in 1..Len(violations) : violations[n].at \in Nat
  BY ListTypes
<1>1. CASE StartRun
  BY <1>1 DEF StartRun, OrderInv
<1>2. CASE NextNodeIsLater
  BY <1>2 DEF NextNodeIsLater, OrderInv
<1>3. CASE AdvanceTime
  <2>1. last_safe_node' = Len(violations)
    <3>1. CASE last_safe_node = 0 \/ last_safe_node = Len(violations)
      BY <1>3, <3>1 DEF AdvanceTime, NewSafeNode
    <3>2. CASE last_safe_node # 0 /\ last_safe_node # Len(violations)
      <4>0. last_safe_node > 0 /\ last_safe_node < Len(violations)
        <5>1. last_safe_node \in Nat /\ Len(violations) \in Nat /\ last_safe_node <= Len(violations)
          BY <1>0
        <5> QED
          BY <3>2, <5>1
      <4>1. /\ Len(violations) \in (last_safe_node + 1)..Len(violations)
            /\ last_safe_node \in 1..last_safe_node /\ last_safe_node \in 1..Len(violations)
        BY <1>0, <4>0
      <4>2. violations[Len(violations)].at = curTime
        BY <4>1 DEF OrderInv
      <4>3. violations[last_safe_node].at < curTime
        BY <4>1 DEF IInv, SafeInv
      <4> QED
        BY <1>0, <1>3, <4>1, <4>2, <4>3 DEF AdvanceTime, NewSafeNode
    <3> QED
      BY <3>1, <3>2
  <2>2. violations' = violations
    BY <1>3 DEF AdvanceTime
  <2>3. \A n \in (last_safe_node' + 1)..Len(violations) : FALSE
    BY <1>0, <2>1
  <2> QED
    BY <2>1, <2>2, <2>3 DEF OrderInv
<1>4. CASE NoNodeIsLeft
  BY <1>4 DEF NoNodeIsLeft, OrderInv
<1>5. ASSUME NEW c \in Constraint, EvaluationFails(c) PROVE OrderInv'
  BY <1>5 DEF EvaluationFails, OrderInv
<1>6. ASSUME NEW c \in Constraint, NEW val \in BOOLEAN, Evaluate(c, val) PROVE OrderInv'
  <2>1. Extends
    BY <1>6, EvaluateStep
  <2>2. UNCHANGED <<curTime, last_safe_node, pc>> /\ pc = "evaluate"
    BY <1>6 DEF Evaluate
  <2>3. CASE violations' = violations
    BY <2>2, <2>3 DEF OrderInv
  <2>4. ASSUME NEW v \in Violation, v.at = curTime, violations' = Append(violations, v)
        PROVE  OrderInv'
    <3> DEFINE new == Len(violations) + 1
    <3>1. /\ DOMAIN violations' = 1..new /\ Len(violations') = new
          /\ \A n \in 1..Len(violations) : violations'[n] = violations[n]
          /\ violations'[new] = v
      BY <2>4, Appended DEF IInv, TypeOK
    <3>2. ASSUME NEW m \in 1..new, NEW n \in 1..new, m < n
          PROVE  violations'[m].at <= violations'[n].at
      <4>1. m \in 1..Len(violations) /\ violations'[m] = violations[m]
        BY <1>0, <3>1, <3>2
      <4>2. CASE n = new
        BY <1>0, <2>4, <3>1, <4>1, <4>2 DEF IInv, SafeInv
      <4>3. CASE n # new
        <5>1. n \in 1..Len(violations) /\ violations'[n] = violations[n]
          BY <1>0, <3>1, <4>3
        <5> QED
          BY <1>0, <3>2, <4>1, <5>1 DEF OrderInv
      <4> QED
        BY <4>2, <4>3
    <3>3. ASSUME NEW n \in (last_safe_node + 1)..new PROVE violations'[n].at = curTime
      <4>1. CASE n = new
        BY <2>4, <3>1, <4>1
      <4>2. CASE n # new
        <5>1. n \in (last_safe_node + 1)..Len(violations) /\ n \in 1..Len(violations)
          BY <1>0, <4>2
        <5> QED
          BY <3>1, <5>1 DEF OrderInv
      <4> QED
        BY <4>1, <4>2
    <3> QED
      BY <2>2, <3>1, <3>2, <3>3 DEF OrderInv
  <2> QED
    BY <2>1, <2>3, <2>4 DEF Extends
<1>7. CASE UNCHANGED conVars
  BY <1>7 DEF conVars, loopVars, OrderInv
<1> QED
  BY <1>1, <1>2, <1>3, <1>4, <1>5, <1>6, <1>7 DEF CheckNext

\* A TOL takes IDs for the lines it adds, and leaves the rest alone.
IDsGrow ==
  /\ UNCHANGED <<loopVars, automata, violations, last_safe_node, seen>>
  /\ currentID' \in Nat /\ currentID' >= currentID

LEMMA GrowthKeepsListInv == ListInv /\ IDsGrow => ListInv'
<1> SUFFICES ASSUME ListInv, IDsGrow PROVE ListInv'
  OBVIOUS
<1> USE DEF IDsGrow, loopVars, automata
<1>1. IInv /\ SeenInv /\ ReportInv /\ OrderInv
  BY DEF ListInv, RunInv
<1>2. IInv' /\ SeenInv' /\ OrderInv'
  <2>1. IInv'
    BY <1>1 DEF IInv, TypeOK, SafeInv
  <2>2. SeenInv'
    BY <1>1 DEF SeenInv
  <2>3. OrderInv'
    BY <1>1 DEF OrderInv
  <2> QED
    BY <2>1, <2>2, <2>3
<1>3. ASSUME runs <= 1
      PROVE  /\ FreshInv' /\ PairInv' /\ Untouched'
             /\ \A c \in Forbidden : ForbiddenInv(c)'
             /\ \A c \in Maximum : MaximumInv(c)'
  <2>1. /\ FreshInv /\ PairInv /\ Untouched
        /\ \A c \in Forbidden : ForbiddenInv(c)
        /\ \A c \in Maximum : MaximumInv(c)
    BY <1>1, <1>3 DEF ReportInv
  <2>2. FreshInv'
    <3>1. currentID \in Nat /\ \A n \in DOMAIN violations : violations[n].ID \in Nat
      BY <1>1, ListTypes
    <3> QED
      BY <2>1, <3>1 DEF FreshInv
  <2>3. PairInv' /\ Untouched'
    BY <2>1 DEF PairInv, Pair, ReportsOf, Untouched
  <2>4. Alive' => Alive
    BY DEF Alive
  <2>5. \A c \in Forbidden : ForbiddenInv(c)'
    BY <2>1, <2>4, QuietForbidden
  <2>6. \A c \in Maximum : MaximumInv(c)'
    BY <2>1, <2>4, QuietMaximum
  <2> QED
    BY <2>2, <2>3, <2>5, <2>6
<1> QED
  BY <1>2, <1>3 DEF ListInv, RunInv, ReportInv

-----------------------------------------------------------------------------
(* What a TOL lists *)

\* The violations the merge has passed.
Processed == 1..(IF theTOLlist = 0 THEN last_safe_node ELSE theTOLlist - 1)

OutTypeOK ==
  /\ opc \in {"off", "loop", "done"}
  /\ start \in 0..Horizon /\ end \in 0..Horizon
  /\ others \in SUBSET (0..Horizon) /\ we_have_passed_the_start_time \in BOOLEAN
  /\ IsFiniteSet(active_violations)
  /\ opc # "off" => pc = "idle" /\ theTOLlist \in 0..last_safe_node

\* What is listed is what was passed and lies after the start; none of it, and
\* nothing before it, is later than the end.
ListedInv ==
  opc # "off" =>
    /\ listed \in Seq(Processed)
    /\ {listed[k] : k \in DOMAIN listed} = {n \in Processed : violations[n].at >= start}
    /\ \A j, k \in DOMAIN listed : j < k => listed[j] < listed[k]
    /\ \A n \in Processed : violations[n].at <= end
    /\ opc = "done" /\ theTOLlist # 0 => violations[theTOLlist].at > end

OutInv == ListInv /\ OutTypeOK /\ ListedInv

\* The step from one violation to the next.
LEMMA NextIsProcessed ==
  ASSUME ListInv, theTOLlist \in 1..last_safe_node, last_safe_node' = last_safe_node,
         theTOLlist' = NextVio(theTOLlist)
  PROVE  /\ Processed = 1..(theTOLlist - 1) /\ Processed' = Processed \cup {theTOLlist}
         /\ theTOLlist \notin Processed /\ \A n \in Processed : n < theTOLlist
         /\ theTOLlist' \in 0..last_safe_node
<1>1. last_safe_node \in Nat /\ theTOLlist \in Nat /\ theTOLlist # 0
  BY ListTypes DEF ListInv, RunInv
<1>2. Processed = 1..(theTOLlist - 1)
  BY <1>1 DEF Processed
<1>3. CASE theTOLlist = last_safe_node
  <2>1. Processed' = 1..theTOLlist /\ theTOLlist' = 0
    BY <1>3 DEF Processed, NextVio
  <2> QED
    BY <1>1, <1>2, <2>1
<1>4. CASE theTOLlist # last_safe_node
  <2>1. theTOLlist' = theTOLlist + 1
    BY <1>4 DEF NextVio
  <2>2. Processed' = 1..((theTOLlist + 1) - 1)
    BY <1>1, <2>1 DEF Processed
  <2> QED
    BY <1>1, <1>2, <1>4, <2>1, <2>2
<1> QED
  BY <1>3, <1>4

\* What has not been passed is not earlier than the next violation.
LEMMA RestIsLater ==
  ASSUME ListInv, theTOLlist \in 0..last_safe_node, NEW n \in 1..last_safe_node, n \notin Processed
  PROVE  theTOLlist # 0 /\ theTOLlist <= n /\ violations[theTOLlist].at <= violations[n].at
<1>1. /\ last_safe_node \in Nat /\ last_safe_node <= Len(violations) /\ Len(violations) \in Nat
      /\ DOMAIN violations = 1..Len(violations)
      /\ \A m \in 1..Len(violations) : violations[m].at \in Nat
  BY ListTypes DEF ListInv, RunInv
<1>2. theTOLlist # 0 /\ theTOLlist <= n
  BY <1>1 DEF Processed
<1>3. theTOLlist \in 1..Len(violations) /\ n \in 1..Len(violations)
  BY <1>1, <1>2
<1>4. CASE theTOLlist = n
  BY <1>1, <1>2, <1>3, <1>4
<1>5. CASE theTOLlist < n
  BY <1>1, <1>2, <1>3, <1>5 DEF ListInv, OrderInv
<1> QED
  BY <1>2, <1>3, <1>4, <1>5

LEMMA InitOutInv == OutInit => OutInv
<1> SUFFICES ASSUME OutInit PROVE OutInv
  OBVIOUS
<1>1. RunInv
  BY InitRunInv DEF OutInit
<1>2. OrderInv
  BY DEF OutInit, Init, OrderInv
<1>3. Horizon \in Nat
  BY ConstraintAssumption
<1>4. OutTypeOK
  <2>1. 0 \in 0..Horizon
    BY <1>3
  <2>2. IsFiniteSet(active_violations)
    BY FS_EmptySet DEF OutInit
  <2> QED
    BY <2>1, <2>2 DEF OutInit, OutTypeOK
<1>5. ListedInv
  BY DEF OutInit, ListedInv
<1> QED
  BY <1>1, <1>2, <1>4, <1>5 DEF OutInv, ListInv

\* What is tracked stays finite.
LEMMA TrackedIsFinite ==
  ASSUME NEW A, IsFiniteSet(A), NEW v
  PROVE  IsFiniteSet(Tracked(A, v))
<1>1. IsFiniteSet(Activated(A, v))
  BY FS_AddElement DEF Activated
<1>2. IsFiniteSet(Deactivated(A, v))
  <2>1. Deactivated(A, v) \in SUBSET A
    BY DEF Deactivated
  <2> QED
    BY <2>1, FS_Subset
<1> QED
  BY <1>1, <1>2 DEF Tracked

LEMMA StepKeepsListInv == ListInv /\ OutTypeOK /\ [Next]_vars => ListInv'
<1> SUFFICES ASSUME ListInv, OutTypeOK, [Next]_vars PROVE ListInv'
  OBVIOUS
<1>1. currentID \in Nat
  BY ListTypes DEF ListInv, RunInv
<1>2. ASSUME [CheckNext]_conVars PROVE ListInv'
  BY <1>2, NextIInv, SeenStep, ReportStep, OrderStep DEF ListInv, RunInv
<1>3. CASE UNCHANGED conVars
  BY <1>2, <1>3
<1>4. Cardinality(active_violations) \in Nat
  BY FS_CardinalityType DEF OutTypeOK
<1>5. ASSUME UNCHANGED <<loopVars, automata, violations, last_safe_node, seen>>,
             currentID' = currentID \/ currentID' = currentID + Cardinality(active_violations)
      PROVE  ListInv'
  <2>1. IDsGrow
    BY <1>1, <1>4, <1>5 DEF IDsGrow
  <2> QED
    BY <2>1, GrowthKeepsListInv
<1>6. CASE ModelAgain
  BY <1>2, <1>6 DEF ModelAgain
<1>7. CASE StartOutput
  BY <1>3, <1>7 DEF StartOutput
<1>8. CASE ProcessOther
  BY <1>5, <1>8 DEF ProcessOther, PassStart
<1>9. CASE ProcessViolation
  BY <1>5, <1>9 DEF ProcessViolation, PassStart
<1>10. CASE EndOutput
  BY <1>5, <1>10 DEF EndOutput
<1>11. CASE AtRest \/ UNCHANGED vars
  BY <1>3, <1>11 DEF AtRest, vars
<1> QED
  BY <1>6, <1>7, <1>8, <1>9, <1>10, <1>11 DEF Next

LEMMA OutTypeStep == OutInv /\ [Next]_vars => OutTypeOK'
<1> SUFFICES ASSUME OutInv, [Next]_vars PROVE OutTypeOK'
  OBVIOUS
<1> USE DEF OutInv
<1>1. Horizon \in Nat /\ last_safe_node \in Nat
  BY ListTypes DEF ListInv, RunInv
<1>2. CASE ModelAgain
  BY <1>2 DEF ModelAgain, OutTypeOK
<1>3. CASE StartOutput
  <2>1. start' \in 0..Horizon /\ end' \in 0..Horizon
    BY <1>1, <1>3 DEF StartOutput
  <2>2. others' \in SUBSET (0..Horizon)
    BY <1>3 DEF StartOutput
  <2>3. opc' = "loop" /\ pc' = "idle" /\ last_safe_node' = last_safe_node
    BY <1>3 DEF StartOutput, conVars, loopVars
  <2>4. theTOLlist' \in 0..last_safe_node /\ IsFiniteSet(active_violations')
    <3>1. CASE last_safe_node = 0
      BY <1>3, <3>1, FS_EmptySet DEF StartOutput
    <3>2. CASE last_safe_node # 0
      <4>1. theTOLlist' = 1 /\ active_violations' = Tracked({}, 1)
        BY <1>3, <3>2 DEF StartOutput
      <4>2. IsFiniteSet(active_violations')
        BY <4>1, FS_EmptySet, TrackedIsFinite
      <4> QED
        BY <1>1, <3>2, <4>1, <4>2
    <3> QED
      BY <3>1, <3>2
  <2> QED
    BY <1>3, <2>1, <2>2, <2>3, <2>4 DEF StartOutput, OutTypeOK
<1>4. CASE ProcessOther
  BY <1>4 DEF ProcessOther, PassStart, loopVars, OutTypeOK
<1>5. CASE ProcessViolation
  <2>1. theTOLlist \in 1..last_safe_node
    BY <1>1, <1>5 DEF ProcessViolation, OutTypeOK
  <2>2. theTOLlist' = NextVio(theTOLlist) /\ last_safe_node' = last_safe_node
    BY <1>5 DEF ProcessViolation
  <2>3. theTOLlist' \in 0..last_safe_node
    BY <2>1, <2>2, NextIsProcessed
  <2>4. IsFiniteSet(active_violations')
    BY <1>5, TrackedIsFinite DEF ProcessViolation, OutTypeOK
  <2>5. we_have_passed_the_start_time' \in BOOLEAN
    BY <1>5 DEF ProcessViolation, PassStart, OutTypeOK
  <2> QED
    BY <1>5, <2>2, <2>3, <2>4, <2>5 DEF ProcessViolation, loopVars, OutTypeOK
<1>6. CASE EndOutput
  BY <1>6, FS_EmptySet DEF EndOutput, loopVars, OutTypeOK
<1>7. CASE AtRest \/ UNCHANGED vars
  BY <1>7 DEF AtRest, vars, outVars, conVars, loopVars, OutTypeOK
<1> QED
  BY <1>2, <1>3, <1>4, <1>5, <1>6, <1>7 DEF Next

LEMMA ListedStep == OutInv /\ [Next]_vars => ListedInv'
<1> SUFFICES ASSUME OutInv, [Next]_vars PROVE ListedInv'
  OBVIOUS
<1> USE DEF OutInv
<1>1. CASE ModelAgain
  BY <1>1 DEF ModelAgain, ListedInv
<1>2. CASE StartOutput
  <2>1. listed' = <<>> /\ theTOLlist' = (IF last_safe_node = 0 THEN 0 ELSE 1) /\ opc' = "loop"
    BY <1>2 DEF StartOutput
  <2>2. last_safe_node' = last_safe_node
    BY <1>2 DEF StartOutput, conVars
  <2>3. Processed' = {}
    BY <2>1, <2>2 DEF Processed
  <2> QED
    BY <2>1, <2>3 DEF ListedInv
<1>3. CASE ProcessOther
  <2>1. UNCHANGED <<opc, theTOLlist, last_safe_node, violations, listed, start, end>>
    BY <1>3 DEF ProcessOther
  <2> QED
    BY <2>1 DEF ListedInv, Processed
<1>4. CASE ProcessViolation
  <2> DEFINE vio == theTOLlist
  <2>1. /\ opc = "loop" /\ opc' = "loop" /\ UNCHANGED <<last_safe_node, violations, start, end>>
        /\ theTOLlist' = NextVio(vio) /\ violations[vio].at <= end
        /\ listed' = IF violations[vio].at >= start THEN Append(listed, vio) ELSE listed
    BY <1>4 DEF ProcessViolation
  <2>2. vio \in 1..last_safe_node
    <3>1. last_safe_node \in Nat
      BY ListTypes DEF ListInv, RunInv
    <3> QED
      BY <1>4, <3>1 DEF ProcessViolation, OutTypeOK
  <2>3. /\ Processed' = Processed \cup {vio} /\ vio \notin Processed
        /\ \A n \in Processed : n < vio
    BY <2>1, <2>2, NextIsProcessed
  <2>4. /\ listed \in Seq(Processed)
        /\ {listed[k] : k \in DOMAIN listed} = {n \in Processed : violations[n].at >= start}
        /\ \A j, k \in DOMAIN listed : j < k => listed[j] < listed[k]
        /\ \A n \in Processed : violations[n].at <= end
    BY <2>1 DEF ListedInv
  <2>5. \A n \in Processed' : violations'[n].at <= end'
    BY <2>1, <2>3, <2>4
  <2>6. CASE ~(violations[vio].at >= start)
    <3>1. listed' = listed /\ listed \in Seq(Processed \cup {vio})
      BY <2>1, <2>4, <2>6
    <3>2. {n \in Processed \cup {vio} : violations[n].at >= start} = {n \in Processed : violations[n].at >= start}
      BY <2>6
    <3> QED
      BY <2>1, <2>3, <2>4, <2>5, <3>1, <3>2 DEF ListedInv
  <2>7. CASE violations[vio].at >= start
    <3> DEFINE t == listed'
               len == Len(listed)
    <3>1. listed \in Seq(Processed \cup {vio}) /\ t = Append(listed, vio) /\ vio \in Processed \cup {vio}
      BY <2>1, <2>4, <2>7
    <3>2. /\ t \in Seq(Processed \cup {vio}) /\ len \in Nat
          /\ DOMAIN listed = 1..len /\ DOMAIN t = (1..len) \cup {len + 1}
          /\ \A k \in 1..len : t[k] = listed[k] /\ listed[k] \in Processed
          /\ t[len + 1] = vio
      <4> HIDE DEF t, len, vio
      <4>1. /\ t \in Seq(Processed \cup {vio}) /\ Len(listed) \in Nat
            /\ DOMAIN listed = 1..Len(listed) /\ DOMAIN t = 1..(Len(listed) + 1)
            /\ \A k \in 1..Len(listed) : t[k] = listed[k]
            /\ t[Len(listed) + 1] = vio
        BY <3>1, Appended
      <4>2. \A k \in 1..Len(listed) : listed[k] \in Processed
        BY <2>4
      <4>3. 1..(Len(listed) + 1) = (1..Len(listed)) \cup {Len(listed) + 1}
        BY <4>1
      <4> QED
        BY <4>1, <4>2, <4>3 DEF len
    <3> HIDE DEF t
    <3>3. ASSUME NEW n
          PROVE  (\E k \in DOMAIN t : n = t[k]) <=> n \in Processed \cup {vio} /\ violations[n].at >= start
      <4>1. (\E k \in 1..len : n = t[k]) <=> n \in Processed /\ violations[n].at >= start
        <5>1. (\E k \in 1..len : n = listed[k]) <=> n \in {listed[k] : k \in DOMAIN listed}
          BY <3>2
        <5> QED
          BY <2>4, <3>2, <5>1
      <4>2. (\E k \in DOMAIN t : n = t[k]) <=> (\E k \in 1..len : n = t[k]) \/ n = vio
        BY <3>2
      <4> QED
        BY <2>7, <4>1, <4>2
    <3>4. {t[k] : k \in DOMAIN t} = {n \in Processed \cup {vio} : violations[n].at >= start}
      BY <3>3
    <3>5. ASSUME NEW j \in DOMAIN t, NEW k \in DOMAIN t, j < k PROVE t[j] < t[k]
      <4>1. j \in 1..len
        BY <3>2, <3>5
      <4>2. CASE k = len + 1
        BY <2>3, <3>2, <4>1, <4>2
      <4>3. CASE k \in 1..len
        BY <2>4, <3>2, <3>5, <4>1, <4>3
      <4> QED
        BY <3>2, <4>2, <4>3
    <3> QED
      BY <2>1, <2>3, <2>5, <3>2, <3>4, <3>5 DEF ListedInv, t
  <2> QED
    BY <2>6, <2>7
<1>5. CASE EndOutput
  <2>1. UNCHANGED <<theTOLlist, last_safe_node, violations, listed, start, end>> /\ opc = "loop"
    BY <1>5 DEF EndOutput
  <2>2. theTOLlist # 0 => violations[theTOLlist].at > end
    BY <1>5 DEF EndOutput
  <2> QED
    BY <2>1, <2>2 DEF ListedInv, Processed
<1>6. CASE AtRest \/ UNCHANGED vars
  <2>1. UNCHANGED <<opc, theTOLlist, last_safe_node, violations, listed, start, end>>
    BY <1>6 DEF AtRest, vars, outVars, conVars
  <2> QED
    BY <2>1 DEF ListedInv, Processed
<1> QED
  BY <1>1, <1>2, <1>3, <1>4, <1>5, <1>6 DEF Next

LEMMA OutInvariant == Spec => []OutInv
<1>1. OutInit => OutInv
  BY InitOutInv
<1>2. OutInv /\ [Next]_vars => OutInv'
  BY StepKeepsListInv, OutTypeStep, ListedStep DEF OutInv
<1> QED
  BY <1>1, <1>2, PTL DEF Spec

\* What is later than the end lies after what was passed, what is not lies in it.
LEMMA PassedAtTheEnd ==
  ASSUME OutInv, opc # "off", theTOLlist # 0 => violations[theTOLlist].at > end
  PROVE  \A n \in 1..last_safe_node : n \in Processed <=> violations[n].at <= end
<1> SUFFICES ASSUME NEW n \in 1..last_safe_node PROVE n \in Processed <=> violations[n].at <= end
  OBVIOUS
<1>1. /\ last_safe_node \in Nat /\ last_safe_node <= Len(violations) /\ Len(violations) \in Nat
      /\ \A m \in 1..Len(violations) : violations[m].at \in Nat
  BY ListTypes DEF OutInv, ListInv, RunInv
<1>2. end \in Nat /\ theTOLlist \in 0..last_safe_node
  BY ConstraintAssumption DEF OutInv, OutTypeOK
<1>3. n \in Processed => violations[n].at <= end
  BY DEF OutInv, ListedInv
<1>4. ASSUME n \notin Processed PROVE ~(violations[n].at <= end)
  <2>1. theTOLlist # 0 /\ theTOLlist <= n /\ violations[theTOLlist].at <= violations[n].at
    BY <1>2, <1>4, RestIsLater DEF OutInv
  <2>2. theTOLlist \in 1..Len(violations) /\ n \in 1..Len(violations)
    BY <1>1, <1>2, <2>1
  <2>3. violations[theTOLlist].at \in Nat /\ violations[n].at \in Nat
    BY <1>1, <2>2
  <2> QED
    BY <1>2, <2>1, <2>3
<1> QED
  BY <1>3, <1>4

\* A TOL lists every violation and release of the finished rounds that lies
\* between its start and its end, once, in order.
THEOREM ListingCorrect == Spec => []ListsViolations
<1>1. OutInv => ListsViolations
  <2> SUFFICES ASSUME OutInv, opc = "done" PROVE ListsViolations
    BY DEF ListsViolations
  <2> DEFINE wanted == {n \in DOMAIN violations : violations[n].at \in start..end
                          /\ (failed => violations[n].at < curTime)}
  <2>1. /\ {listed[k] : k \in DOMAIN listed} = {n \in Processed : violations[n].at >= start}
        /\ \A j, k \in DOMAIN listed : j < k => listed[j] < listed[k]
        /\ theTOLlist # 0 => violations[theTOLlist].at > end
    BY DEF OutInv, ListedInv
  <2>2. \A n \in 1..last_safe_node : n \in Processed <=> violations[n].at <= end
    BY <2>1, PassedAtTheEnd
  <2>3. /\ last_safe_node \in Nat /\ last_safe_node <= Len(violations) /\ Len(violations) \in Nat
        /\ DOMAIN violations = 1..Len(violations) /\ curTime \in Nat
        /\ \A m \in 1..Len(violations) : violations[m].at \in Nat
    BY ListTypes DEF OutInv, ListInv, RunInv
  <2>4. start \in Nat /\ end \in Nat /\ theTOLlist \in 0..last_safe_node /\ pc = "idle" /\ failed \in BOOLEAN
    BY ConstraintAssumption DEF OutInv, OutTypeOK, ListInv, RunInv, IInv, TypeOK
  <2>5. Processed \subseteq 1..last_safe_node
    BY <2>3, <2>4 DEF Processed
  <2>6. ASSUME NEW n \in 1..Len(violations)
        PROVE  n \in 1..last_safe_node <=> (failed => violations[n].at < curTime)
    <3>1. CASE n \in 1..last_safe_node
      BY <3>1 DEF OutInv, ListInv, RunInv, IInv, SafeInv
    <3>2. CASE n \notin 1..last_safe_node
      <4>1. n \in (last_safe_node + 1)..Len(violations)
        BY <2>3, <3>2
      <4>2. violations[n].at = curTime
        BY <4>1 DEF OutInv, ListInv, OrderInv
      <4>3. last_safe_node # Len(violations)
        BY <3>2
      <4>4. failed
        BY <2>4, <4>3 DEF OutInv, ListInv, OrderInv
      <4> QED
        BY <2>3, <3>2, <4>2, <4>4
    <3> QED
      BY <3>1, <3>2
  <2>7. ASSUME NEW n PROVE n \in wanted <=> n \in Processed /\ violations[n].at >= start
    <3>1. CASE n \in 1..Len(violations)
      <4>1. violations[n].at \in Nat
        BY <2>3, <3>1
      <4>2. violations[n].at \in start..end <=> violations[n].at >= start /\ violations[n].at <= end
        BY <2>4, <4>1
      <4>3. n \in wanted <=> violations[n].at \in start..end /\ n \in 1..last_safe_node
        BY <2>3, <2>6, <3>1
      <4> QED
        BY <2>2, <2>5, <4>2, <4>3
    <3>2. CASE n \notin 1..Len(violations)
      <4>1. n \notin Processed
        BY <2>3, <2>5, <3>2
      <4> QED
        BY <2>3, <3>2, <4>1
    <3> QED
      BY <3>1, <3>2
  <2>8. {listed[k] : k \in DOMAIN listed} = wanted
    BY <2>1, <2>7
  <2> QED
    BY <2>1, <2>8 DEF ListsViolations
<1> QED
  BY <1>1, OutInvariant, PTL

\* Writing a TOL leaves the reports of the first run as the constraint thread
\* made them.
THEOREM ReportsLast == Spec => [](runs <= 1 => ForbiddenReports /\ MaximumReports)
<1>1. OutInv => (runs <= 1 => ForbiddenReports /\ MaximumReports)
  BY RunInvReports DEF OutInv, ListInv
<1> QED
  BY <1>1, OutInvariant, PTL

\* No TOL touches what a reader may consult without a lock.
THEOREM SafeViolationsLast == Spec => SafeViolationsAreFinal
<1>1. OutInv /\ [Next]_vars => [Final]_conVars
  <2> SUFFICES ASSUME OutInv, [Next]_vars PROVE Final \/ UNCHANGED conVars
    OBVIOUS
  <2>1. ASSUME UNCHANGED <<violations, last_safe_node>> PROVE Final
    <3>1. /\ violations \in Seq(Violation) /\ Len(violations) \in Nat
          /\ last_safe_node \in Nat
      BY ListTypes DEF OutInv, ListInv, RunInv
    <3>2. \A n \in (Len(violations) + 1)..Len(violations) : FALSE
      BY <3>1
    <3> QED
      BY <2>1, <3>1, <3>2 DEF Final
  <2>2. CASE ModelAgain
    BY <2>2, StepIsFinal DEF ModelAgain, OutInv, ListInv, RunInv
  <2>3. CASE StartOutput \/ AtRest \/ UNCHANGED vars
    BY <2>3 DEF StartOutput, AtRest, vars
  <2>4. CASE ProcessOther
    BY <2>1, <2>4 DEF ProcessOther
  <2>5. CASE ProcessViolation
    BY <2>1, <2>5 DEF ProcessViolation
  <2>6. CASE EndOutput
    BY <2>1, <2>6 DEF EndOutput
  <2> QED
    BY <2>2, <2>3, <2>4, <2>5, <2>6 DEF Next
<1>2. Spec => [][Final]_conVars
  BY <1>1, OutInvariant, PTL DEF Spec
<1>3. [][Final]_conVars => SafeViolationsAreFinal
  BY PTL DEF SafeViolationsAreFinal, Final
<1> QED
  BY <1>2, <1>3

-----------------------------------------------------------------------------
(* What a TOL says of violations that are not released, in the first run   *)

\* n is a violation that was not released by what was passed.
Open(n) ==
  /\ violations[n].con \in Forbidden /\ violations[n].severity = "ERROR"
  /\ \A m \in Processed : violations[m].ID = violations[n].ID => violations[m].severity # "RELEASE"

Entry(n) == [ID |-> violations[n].ID, vio |-> n, again |-> FALSE]

\* The entries are those of the violations passed and open.  The first violation
\* has a second one, and both are there before it is passed.
ActiveInv ==
  /\ \A a \in active_violations :
       \/ a.vio \in Processed /\ a.vio # 1 /\ Open(a.vio) /\ a = Entry(a.vio)
       \/ a.vio = 1 /\ a.ID = violations[1].ID /\ last_safe_node # 0
  /\ \A n \in Processed : n # 1 /\ Open(n) => Entry(n) \in active_violations
  /\ last_safe_node # 0 /\ Open(1) => Entry(1) \in active_violations

\* V is what a TOL says of the violations active before t.
Says(V, t) ==
  /\ V \ {1} = {n \in 1..last_safe_node : ActiveBefore(t, n)} \ {1}
  /\ \A n \in 1..last_safe_node : ActiveBefore(t, n) => n \in V

EarlierInv ==
  IF we_have_passed_the_start_time
    THEN Says(earlier_violations, start)
    ELSE \A n \in Processed : violations[n].at < start

TrackedInv ==
  runs <= 1 /\ opc # "off" =>
    /\ EarlierInv
    /\ opc = "loop" => ActiveInv
    /\ opc = "done" => Says(unreleased_violations, end + 1)

\* Two reports with one ID are a violation and its release.
LEMMA ReleaseHasTheID ==
  ASSUME ListInv, runs <= 1
  PROVE  /\ \A m, n \in 1..Len(violations) : m < n /\ violations[m].ID = violations[n].ID => Pair(m, n)
         /\ \A n \in 1..Len(violations) : violations[n].severity = "RELEASE" => n # 1
<1>1. PairInv
  BY DEF ListInv, RunInv, ReportInv
<1>2. DOMAIN violations = 1..Len(violations)
  BY ListTypes DEF ListInv, RunInv
<1>3. \A m \in 1..(1 - 1) : FALSE
  OBVIOUS
<1> QED
  BY <1>1, <1>2, <1>3 DEF PairInv

\* The entries after the next violation is tracked, whatever was passed before.
LEMMA TrackNext ==
  ASSUME OutInv, runs <= 1, ActiveInv, NEW v \in 1..last_safe_node, theTOLlist = v,
         UNCHANGED <<last_safe_node, violations>>,
         theTOLlist' = NextVio(v),
         active_violations' = Tracked(active_violations, v)
  PROVE  ActiveInv'
<1>1. /\ last_safe_node \in Nat /\ last_safe_node <= Len(violations) /\ Len(violations) \in Nat
      /\ DOMAIN violations = 1..Len(violations)
      /\ \A n \in 1..Len(violations) : violations[n].severity \in {"ERROR", "RELEASE"}
  BY ListTypes DEF OutInv, ListInv, RunInv
<1>2. /\ Processed = 1..(v - 1) /\ Processed' = Processed \cup {v} /\ v \notin Processed
      /\ \A n \in Processed : n < v
  BY NextIsProcessed DEF OutInv
<1>3. v \in 1..Len(violations) /\ Processed \subseteq 1..Len(violations)
  BY <1>1, <1>2
<1>4. /\ \A m, n \in 1..Len(violations) : m < n /\ violations[m].ID = violations[n].ID => Pair(m, n)
      /\ \A n \in 1..Len(violations) : violations[n].severity = "RELEASE" => n # 1
  BY ReleaseHasTheID DEF OutInv
\* v closes only the violation whose release it is.
<1>5. ASSUME NEW n
      PROVE  /\ Open(n)' <=> Open(n) /\ ~(violations[v].ID = violations[n].ID /\ violations[v].severity = "RELEASE")
             /\ Entry(n)' = Entry(n)
  BY <1>2 DEF Open, Entry
<1>6. ASSUME NEW a \in active_violations
      PROVE  \/ a.vio \in Processed /\ a.vio # 1 /\ Open(a.vio) /\ a = Entry(a.vio)
             \/ a.vio = 1 /\ a.ID = violations[1].ID /\ last_safe_node # 0
  BY DEF ActiveInv
<1>7. ASSUME v # 1, violations[v].severity = "ERROR"
      PROVE  \A a \in active_violations : a.ID # violations[v].ID
  <2> SUFFICES ASSUME NEW a \in active_violations, a.ID = violations[v].ID PROVE FALSE
    OBVIOUS
  <2>1. PICK n \in 1..Len(violations) : n < v /\ violations[n].ID = violations[v].ID
    <3>1. CASE a.vio \in Processed /\ a = Entry(a.vio)
      <4>1. a.ID = violations[a.vio].ID
        BY <3>1 DEF Entry
      <4> QED
        BY <1>2, <1>3, <3>1, <4>1
    <3>2. CASE a.vio = 1 /\ a.ID = violations[1].ID
      <4>1. 1 \in 1..Len(violations) /\ 1 < v
        BY <1>1, <1>3, <1>7
      <4> QED
        BY <3>2, <4>1
    <3> QED
      BY <1>6, <3>1, <3>2
  <2>2. violations[v].severity = "RELEASE"
    BY <1>3, <1>4, <2>1 DEF Pair
  <2> QED
    BY <1>7, <2>2
<1>8. Open(v)' <=> violations[v].con \in Forbidden /\ violations[v].severity = "ERROR"
  <2>1. ASSUME NEW m \in Processed, violations[v].severity = "ERROR"
        PROVE  violations[m].ID # violations[v].ID
    <3>1. m \in 1..Len(violations) /\ m < v
      BY <1>2, <1>3
    <3> QED
      BY <1>3, <1>4, <2>1, <3>1 DEF Pair
  <2> QED
    BY <1>5, <2>1 DEF Open
<1> DEFINE new == [ID |-> violations[v].ID, vio |-> v,
                   again |-> \E a \in active_violations : a.ID = violations[v].ID]
<1>9. /\ violations[v].con \notin Forbidden => active_violations' = active_violations
      /\ violations[v].con \in Forbidden /\ violations[v].severity = "RELEASE" =>
           active_violations' = active_violations
                                \ {a \in active_violations : a.ID = violations[v].ID /\ ~a.again}
      /\ violations[v].con \in Forbidden /\ violations[v].severity = "ERROR" =>
           active_violations' = active_violations \cup {new}
  BY DEF Tracked, Activated, Deactivated
<1>10. violations[v].severity \in {"ERROR", "RELEASE"}
  BY <1>1, <1>3
<1>11. v # 1 /\ violations[v].severity = "ERROR" => new = Entry(v)
  BY <1>7 DEF Entry
<1> HIDE DEF new
\* An entry of what was passed stays while it is open.
<1>12. ASSUME NEW a \in active_violations, a \in active_violations',
              a.vio \in Processed, Open(a.vio), a = Entry(a.vio)
       PROVE  Open(a.vio)'
  <2>1. a.ID = violations[a.vio].ID /\ a.again = FALSE
    BY <1>12 DEF Entry
  <2>2. ASSUME violations[v].ID = violations[a.vio].ID, violations[v].severity = "RELEASE" PROVE FALSE
    <3>1. a.vio \in 1..Len(violations) /\ a.vio < v
      BY <1>2, <1>3, <1>12
    <3>2. violations[a.vio].con = violations[v].con
      BY <1>3, <1>4, <2>2, <3>1 DEF Pair
    <3>3. violations[v].con \in Forbidden
      BY <1>12, <3>2 DEF Open
    <3> QED
      BY <1>9, <1>12, <2>1, <2>2, <3>3
  <2> QED
    BY <1>5, <1>12, <2>2
<1>13. ASSUME NEW n, Open(n)', Entry(n) \in active_violations PROVE Entry(n) \in active_violations'
  <2>1. Entry(n).ID = violations[n].ID /\ Entry(n).again = FALSE
    BY DEF Entry
  <2>2. ~(violations[v].ID = violations[n].ID /\ violations[v].severity = "RELEASE")
    BY <1>5, <1>13
  <2> QED
    BY <1>9, <1>10, <1>13, <2>1, <2>2
<1>14. ASSUME NEW a \in active_violations'
       PROVE  \/ a.vio \in Processed' /\ a.vio # 1 /\ Open(a.vio)' /\ a = Entry(a.vio)
              \/ a.vio = 1 /\ a.ID = violations[1].ID /\ last_safe_node # 0
  <2>1. CASE a \in active_violations
    BY <1>2, <1>6, <1>12, <1>14, <2>1
  <2>2. CASE a \notin active_violations
    <3>1. a = new /\ violations[v].con \in Forbidden /\ violations[v].severity = "ERROR"
      BY <1>9, <1>10, <1>14, <2>2
    <3>2. a.vio = v /\ a.ID = violations[v].ID
      BY <3>1 DEF new
    <3>3. CASE v = 1
      BY <1>1, <3>2, <3>3
    <3>4. CASE v # 1
      <4>1. a = Entry(v) /\ Open(v)' /\ v \in Processed'
        BY <1>2, <1>8, <1>11, <3>1, <3>4
      <4> QED
        BY <3>2, <3>4, <4>1
    <3> QED
      BY <3>3, <3>4
  <2> QED
    BY <2>1, <2>2
<1>15. ASSUME NEW n \in Processed', n # 1, Open(n)' PROVE Entry(n) \in active_violations'
  <2>1. CASE n \in Processed
    <3>1. Entry(n) \in active_violations
      BY <1>5, <1>15, <2>1 DEF ActiveInv
    <3> QED
      BY <1>13, <1>15, <3>1
  <2>2. CASE n = v
    <3>1. violations[v].con \in Forbidden /\ violations[v].severity = "ERROR"
      BY <1>8, <1>15, <2>2
    <3> QED
      BY <1>9, <1>11, <1>15, <2>2, <3>1
  <2> QED
    BY <1>2, <2>1, <2>2
<1>16. ASSUME NEW n, n = 1, last_safe_node # 0, Open(n)' PROVE Entry(n) \in active_violations'
  <2>1. Entry(n) \in active_violations
    BY <1>5, <1>16 DEF ActiveInv
  <2> QED
    BY <1>13, <1>16, <2>1
<1> QED
  BY <1>5, <1>14, <1>15, <1>16 DEF ActiveInv

\* The entries are the violations active before t, if what was passed is what
\* was reported before t.
LEMMA EntriesAreActive ==
  ASSUME OutInv, ActiveInv, theTOLlist \in 0..last_safe_node, NEW t \in Nat,
         \A n \in 1..last_safe_node : n \in Processed <=> violations[n].at < t
  PROVE  Says({a.vio : a \in active_violations}, t)
<1> DEFINE V == {a.vio : a \in active_violations}
<1>1. /\ last_safe_node \in Nat /\ last_safe_node <= Len(violations) /\ Len(violations) \in Nat
      /\ \A n \in 1..Len(violations) : violations[n].at \in Nat
  BY ListTypes DEF OutInv, ListInv, RunInv
<1>2. Processed \subseteq 1..last_safe_node
  BY <1>1 DEF Processed
<1>3. ASSUME NEW n \in 1..last_safe_node PROVE ActiveBefore(t, n) <=> n \in Processed /\ Open(n)
  <2>1. ASSUME NEW m \in 1..last_safe_node PROVE violations[m].at >= t <=> m \notin Processed
    <3>1. violations[m].at \in Nat
      BY <1>1
    <3> QED
      BY <3>1
  <2> QED
    BY <1>2, <2>1 DEF ActiveBefore, Open
<1>4. ASSUME NEW n \in V, n # 1 PROVE n \in 1..last_safe_node /\ ActiveBefore(t, n)
  <2>1. n \in Processed /\ Open(n)
    BY <1>4 DEF ActiveInv
  <2> QED
    BY <1>2, <1>3, <2>1
<1>5. ASSUME NEW n \in 1..last_safe_node, ActiveBefore(t, n) PROVE n \in V
  <2>1. n \in Processed /\ Open(n)
    BY <1>3, <1>5
  <2>2. last_safe_node # 0
    BY <1>1
  <2>3. Entry(n) \in active_violations
    BY <2>1, <2>2 DEF ActiveInv
  <2>4. Entry(n).vio = n
    BY DEF Entry
  <2> QED
    BY <2>3, <2>4
<1> HIDE DEF V
<1> QED
  BY <1>4, <1>5 DEF Says, V

\* What is reported as active earlier is what was active when the TOL starts.
LEMMA PassKeepsEarlier ==
  ASSUME OutInv, opc = "loop", ActiveInv, EarlierInv, NEW etime \in Nat,
         theTOLlist # 0 => etime <= violations[theTOLlist].at,
         PassStart(etime), UNCHANGED <<violations, last_safe_node, start>>,
         \A n \in Processed' : n \in Processed \/ violations[n].at = etime
  PROVE  EarlierInv'
<1>1. /\ start \in Nat /\ theTOLlist \in 0..last_safe_node
      /\ we_have_passed_the_start_time \in BOOLEAN
  BY ConstraintAssumption DEF OutInv, OutTypeOK
<1>2. /\ last_safe_node \in Nat /\ last_safe_node <= Len(violations) /\ Len(violations) \in Nat
      /\ \A n \in 1..Len(violations) : violations[n].at \in Nat
  BY ListTypes DEF OutInv, ListInv, RunInv
<1>3. \A V, t : Says(V, t)' <=> /\ V' \ {1} = {n \in 1..last_safe_node : ActiveBefore(t', n)} \ {1}
                                /\ \A n \in 1..last_safe_node : ActiveBefore(t', n) => n \in V'
  BY DEF Says, ActiveBefore
<1>4. CASE etime >= start /\ ~we_have_passed_the_start_time
  <2>1. we_have_passed_the_start_time' /\ earlier_violations' = {a.vio : a \in active_violations}
    BY <1>4 DEF PassStart
  <2>2. ASSUME NEW n \in 1..last_safe_node PROVE n \in Processed <=> violations[n].at < start
    <3>1. n \in Processed => violations[n].at < start
      BY <1>4 DEF EarlierInv
    <3>2. ASSUME n \notin Processed PROVE ~(violations[n].at < start)
      <4>1. theTOLlist # 0 /\ theTOLlist <= n /\ violations[theTOLlist].at <= violations[n].at
        BY <1>1, <3>2, RestIsLater DEF OutInv
      <4>2. theTOLlist \in 1..Len(violations) /\ n \in 1..Len(violations)
        BY <1>1, <1>2, <4>1
      <4>3. violations[theTOLlist].at \in Nat /\ violations[n].at \in Nat
        BY <1>2, <4>2
      <4>4. etime <= violations[theTOLlist].at
        BY <4>1
      <4> QED
        BY <1>1, <1>4, <4>1, <4>3, <4>4
    <3> QED
      BY <3>1, <3>2
  <2>3. Says({a.vio : a \in active_violations}, start)
    BY <1>1, <2>2, EntriesAreActive
  <2>4. Says(earlier_violations, start)'
    BY <2>1, <2>3 DEF Says, ActiveBefore
  <2> QED
    BY <2>1, <2>4 DEF EarlierInv
<1>5. CASE ~(etime >= start /\ ~we_have_passed_the_start_time)
  <2>1. UNCHANGED <<we_have_passed_the_start_time, earlier_violations>>
    BY <1>5 DEF PassStart
  <2>2. CASE we_have_passed_the_start_time
    <3>1. Says(earlier_violations, start)'
      BY <2>1, <2>2 DEF EarlierInv, Says, ActiveBefore
    <3> QED
      BY <2>1, <2>2, <3>1 DEF EarlierInv
  <2>3. CASE ~we_have_passed_the_start_time
    <3>1. etime < start
      BY <1>1, <1>5, <2>3
    <3>2. \A n \in Processed : violations[n].at < start
      BY <2>3 DEF EarlierInv
    <3>3. \A n \in Processed' : violations'[n].at < start'
      BY <3>1, <3>2
    <3> QED
      BY <2>1, <2>3, <3>3 DEF EarlierInv
  <2> QED
    BY <2>2, <2>3
<1> QED
  BY <1>4, <1>5

LEMMA TrackedStep == OutInv /\ TrackedInv /\ [Next]_vars => TrackedInv'
<1> SUFFICES ASSUME OutInv, TrackedInv, [Next]_vars, runs' <= 1, opc' # "off"
             PROVE  /\ EarlierInv'
                    /\ opc' = "loop" => ActiveInv'
                    /\ opc' = "done" => Says(unreleased_violations, end + 1)'
  BY DEF TrackedInv
<1>1. /\ last_safe_node \in Nat /\ last_safe_node <= Len(violations) /\ Len(violations) \in Nat
      /\ \A n \in 1..Len(violations) : /\ violations[n].at \in Nat
                                       /\ violations[n].severity \in {"ERROR", "RELEASE"}
  BY ListTypes DEF OutInv, ListInv, RunInv
<1>2. others \subseteq Nat /\ end \in Nat
  BY ConstraintAssumption DEF OutInv, OutTypeOK
<1>3. CASE ModelAgain
  BY <1>3 DEF ModelAgain
<1>4. CASE StartOutput
  <2>1. /\ opc' = "loop" /\ ~we_have_passed_the_start_time' /\ UNCHANGED <<runs, violations, last_safe_node>>
        /\ theTOLlist' = (IF last_safe_node = 0 THEN 0 ELSE 1)
    BY <1>4 DEF StartOutput, conVars, loopVars
  <2>2. Processed' = {}
    BY <2>1 DEF Processed
  <2>3. EarlierInv'
    BY <2>1, <2>2 DEF EarlierInv
  <2>4. CASE last_safe_node = 0
    <3>1. active_violations' = {}
      BY <1>4, <2>4 DEF StartOutput
    <3>2. ActiveInv'
      BY <2>1, <2>2, <2>4, <3>1 DEF ActiveInv
    <3> QED
      BY <2>1, <2>3, <3>2
  <2>5. CASE last_safe_node # 0
    <3>1. active_violations' = Tracked({}, 1) /\ 1 \in 1..Len(violations)
      BY <1>1, <1>4, <2>5 DEF StartOutput
    <3>2. violations[1].severity = "ERROR"
      BY <1>1, <2>1, <3>1, ReleaseHasTheID DEF OutInv
    <3>3. active_violations' = IF violations[1].con \in Forbidden THEN {Entry(1)} ELSE {}
      BY <3>1, <3>2 DEF Tracked, Activated, Entry
    <3>4. ActiveInv'
      <4>1. Entry(1)' = Entry(1) /\ Entry(1).vio = 1 /\ Entry(1).ID = violations[1].ID
        BY <2>1 DEF Entry
      <4>2. Open(1)' => violations[1].con \in Forbidden
        BY <2>1 DEF Open
      <4> QED
        BY <2>1, <2>2, <2>5, <3>3, <4>1, <4>2 DEF ActiveInv
    <3> QED
      BY <2>1, <2>3, <3>4
  <2> QED
    BY <2>4, <2>5
<1>5. CASE ProcessOther
  <2>1. /\ opc = "loop" /\ opc' = "loop"
        /\ UNCHANGED <<runs, violations, last_safe_node, start, theTOLlist, active_violations>>
    BY <1>5 DEF ProcessOther, loopVars
  <2>2. EarlierInv /\ ActiveInv
    BY <2>1 DEF TrackedInv
  <2>3. PICK etime \in others : IsFirst(etime) /\ PassStart(etime)
    BY <1>5 DEF ProcessOther
  <2>4. Processed' = Processed
    BY <2>1 DEF Processed
  <2>5. EarlierInv'
    BY <1>2, <2>1, <2>2, <2>3, <2>4, PassKeepsEarlier DEF IsFirst
  <2>6. ActiveInv'
    BY <2>1, <2>2, <2>4 DEF ActiveInv, Open, Entry
  <2> QED
    BY <2>1, <2>5, <2>6
<1>6. CASE ProcessViolation
  <2>1. /\ opc = "loop" /\ opc' = "loop" /\ theTOLlist # 0
        /\ UNCHANGED <<runs, violations, last_safe_node, start>>
        /\ IsFirst(violations[theTOLlist].at) /\ PassStart(violations[theTOLlist].at)
        /\ active_violations' = Tracked(active_violations, theTOLlist)
        /\ theTOLlist' = NextVio(theTOLlist)
    BY <1>6 DEF ProcessViolation, loopVars
  <2>2. EarlierInv /\ ActiveInv
    BY <2>1 DEF TrackedInv
  <2>3. theTOLlist \in 0..last_safe_node
    BY <2>1 DEF OutInv, OutTypeOK
  <2>4. PICK v \in 1..last_safe_node : theTOLlist = v
    BY <1>1, <2>1, <2>3
  <2>5. Processed' = Processed \cup {v}
    BY <2>1, <2>4, NextIsProcessed DEF OutInv
  <2>6. PICK etime \in Nat : etime = violations[v].at
    BY <1>1
  <2>7. EarlierInv'
    BY <2>1, <2>2, <2>4, <2>5, <2>6, PassKeepsEarlier DEF IsFirst
  <2>8. ActiveInv'
    BY <2>1, <2>2, <2>4, TrackNext
  <2> QED
    BY <2>1, <2>7, <2>8
<1>7. CASE EndOutput
  <2>1. /\ opc = "loop" /\ opc' = "done"
        /\ UNCHANGED <<runs, violations, last_safe_node, start, end, theTOLlist,
                       we_have_passed_the_start_time, earlier_violations>>
        /\ unreleased_violations' = {a.vio : a \in active_violations}
        /\ theTOLlist # 0 => violations[theTOLlist].at > end
    BY <1>7 DEF EndOutput, loopVars
  <2>2. EarlierInv /\ ActiveInv
    BY <2>1 DEF TrackedInv
  <2>3. EarlierInv'
    BY <2>1, <2>2 DEF EarlierInv, Processed, Says, ActiveBefore
  <2>4. ASSUME NEW n \in 1..last_safe_node PROVE n \in Processed <=> violations[n].at < end + 1
    <3>1. n \in Processed <=> violations[n].at <= end
      BY <2>1, PassedAtTheEnd
    <3>2. violations[n].at \in Nat
      BY <1>1
    <3> QED
      BY <1>2, <3>1, <3>2
  <2>5. theTOLlist \in 0..last_safe_node /\ end + 1 \in Nat
    BY <1>2, <2>1 DEF OutInv, OutTypeOK
  <2>6. Says({a.vio : a \in active_violations}, end + 1)
    BY <2>2, <2>4, <2>5, EntriesAreActive
  <2>7. Says(unreleased_violations, end + 1)'
    BY <2>1, <2>6 DEF Says, ActiveBefore
  <2> QED
    BY <2>1, <2>3, <2>7
<1>8. CASE AtRest \/ UNCHANGED vars
  <2>1. UNCHANGED <<opc, runs, violations, last_safe_node, start, end, theTOLlist, active_violations,
                    we_have_passed_the_start_time, earlier_violations, unreleased_violations>>
    BY <1>8 DEF AtRest, vars, outVars, conVars, loopVars
  <2>2. EarlierInv /\ (opc = "loop" => ActiveInv) /\ (opc = "done" => Says(unreleased_violations, end + 1))
    BY <2>1 DEF TrackedInv
  <2>3. EarlierInv' /\ (opc' = "done" => Says(unreleased_violations, end + 1)')
    BY <2>1, <2>2 DEF EarlierInv, Processed, Says, ActiveBefore
  <2>4. opc' = "loop" => ActiveInv'
    BY <2>1, <2>2 DEF ActiveInv, Processed, Open, Entry
  <2> QED
    BY <2>3, <2>4
<1> QED
  BY <1>3, <1>4, <1>5, <1>6, <1>7, <1>8 DEF Next

\* In the first run of a process, a TOL reports as earlier the violations of
\* forbidden conditions that are active when it starts, and as unreleased those
\* that are active when it ends; the first violation of all may be reported
\* although it was released.
THEOREM ActiveViolationsCorrect == Spec => [](runs <= 1 => ActiveViolationsReported)
<1>1. OutInit => TrackedInv
  BY DEF OutInit, TrackedInv
<1>2. OutInv /\ TrackedInv /\ [Next]_vars => TrackedInv'
  BY TrackedStep
<1>3. TrackedInv => (runs <= 1 => ActiveViolationsReported)
  BY DEF TrackedInv, ActiveViolationsReported, EarlierInv, Says
<1> QED
  BY <1>1, <1>2, <1>3, OutInvariant, PTL DEF Spec
=============================================================================
