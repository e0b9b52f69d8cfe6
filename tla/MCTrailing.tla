----------------------------- MODULE MCTrailing -----------------------------
(***************************************************************************)
(* TrailingThread on small instances, and what comments of the code claim  *)
(* about the end of modeling that the code does not keep.                  *)
(***************************************************************************)
EXTENDS TrailingThread

\* ProcessEvents returned, and the constraint thread reported no error.
FinishedWithoutErrors == mpc = "returned" /\ ~errors

\* trailing_miter::get_new_data, where it decides to return NULL for good:
\* "since we got here, we have already processed all the data there was to
\* get".  Every trailer is then on hold on the last node of its history.
AllDataServed ==
  FinishedWithoutErrors => \A r \in Resource : r \in onHold /\ IsLast(node[r], hist[r])

\* feed_last_data_to_trailing_threads, before it sets Done: "they will exit,
\* so we can join them after returning from this call".
ThreadsAreJoined ==
  mpc \in {"join", "joinFailed"} ~> mpc \in {"returned", "threw"} \/ ~Running
=============================================================================
