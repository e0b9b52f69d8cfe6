----------------------------- MODULE MCEventLoop -----------------------------
(***************************************************************************)
(* Small instances of EventLoop.                                           *)
(***************************************************************************)
EXTENDS EventLoop

CONSTANTS s1, s2

MCSignal == {s1, s2}
MCPattern == {{s2}}
=============================================================================
