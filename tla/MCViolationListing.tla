------------------------- MODULE MCViolationListing -------------------------
(***************************************************************************)
(* Small instances of ViolationListing: forbid and forbid2 are forbidden   *)
(* conditions, maxdur has a maximum duration.                              *)
(***************************************************************************)
EXTENDS ViolationListing

CONSTANTS forbid, forbid2, maxdur

MCMaxDuration == [c \in Maximum |-> 1]

\* Constraint.H of initialize: "Initialize the constraint's finite automaton at
\* the beginning of a modeling run", so that what a run reports does not depend
\* on the runs before it.
EveryRunStartsAfresh == runs > 1 => ForbiddenReports
=============================================================================
