---------------------------- MODULE MCTolPipeline ----------------------------
(***************************************************************************)
(* Small instances of TolPipeline: line is an interpolated resource, step  *)
(* one that is not.                                                        *)
(***************************************************************************)
EXTENDS TolPipeline

CONSTANTS line, step, other

MCResource == {line, step}
MCStepOnly == [r \in MCResource |-> IF r = step THEN 1 ELSE 0]
MCLineDelta == [r \in {line} |-> 1]

\* The comment on handle_a_resource_event (TOL_write.C): "we faithfully
\* reproduce the entire history of interpolated resources in the (XML)TOL".
\* What min_abs_delta allows (2 * Delta, "filtering is applied twice, so halve
\* the given delta") is allowed here too.
HistoryReproduced ==
  \A n \in DOMAIN tol : \A i \in DOMAIN given[n] :
    given[n][i].res \in Interpolated =>
      \E p, q \in L!ListedIn(tol[n], given[n]) :
        /\ L!NearestBefore(p, L!ListedIn(tol[n], given[n]), given[n], i)
        /\ L!NearestAfter(q, L!ListedIn(tol[n], given[n]), given[n], i)
        /\ LET time(k) == given[n][k].at
               line1 == given[n][p].val * (time(q) - time(i)) + given[n][q].val * (time(i) - time(p))
               value == given[n][i].val * (time(q) - time(p))
           IN  L!Abs(line1 - value) <= 2 * Delta[given[n][i].res] * (time(q) - time(p))
=============================================================================
