--------------------------- MODULE LeaderFollower ---------------------------
(***************************************************************************)
(* What the modeling thread and the thread that trails it promise to each  *)
(* other, without the protocol that keeps the promise.  The leader's clock *)
(* only moves forward while it is working.  The follower's clock only      *)
(* moves forward, and it moves to a time T only when the leader has        *)
(* already gone beyond T: the resource histories are final up to T, so     *)
(* evaluating a constraint at T is safe.  This is the "Requirement" stated *)
(* above thread_intfc::update_current_time (EventLoopUtil.C): "any         *)
(* trailing thread can safely evaluate resource values at times up to but  *)
(* not including T".                                                       *)
(***************************************************************************)
EXTENDS Naturals

CONSTANTS Start,        \* the time of the initialization event
          Horizon       \* the latest time any event can have

VARIABLES leader,       \* the leader's SafeTime
          follower,     \* the follower's SafeTime
          leading       \* the leader may still advance

lfVars == <<leader, follower, leading>>

LFInit ==
  /\ leader = Start
  /\ follower = Start
  /\ leading = TRUE

Lead ==
  /\ leading
  /\ \E t \in (leader + 1)..Horizon : leader' = t
  /\ UNCHANGED <<follower, leading>>

StopLeading ==
  /\ leading
  /\ leading' = FALSE
  /\ UNCHANGED <<leader, follower>>

Follow ==
  /\ \E t \in follower..Horizon :
       /\ t < leader
       /\ follower' = t
  /\ UNCHANGED <<leader, leading>>

LFNext == Lead \/ StopLeading \/ Follow

LFSpec == LFInit /\ [][LFNext]_lfVars
=============================================================================
