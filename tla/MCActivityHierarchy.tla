------------------------- MODULE MCActivityHierarchy -------------------------
(***************************************************************************)
(* Five sessions on types without sections, with a decomposition, with one *)
(* on two levels, and with a nonexclusive decomposition, whose children    *)
(* are made with it: what a user does with what is displayed; the same     *)
(* with a hopper, and, on an adaptation whose sections fail, with copying; *)
(* copies of families; and what a script does, which names any instance of *)
(* the plan and also copies and groups instances.                          *)
(***************************************************************************)
EXTENDS ActivityHierarchy

CONSTANTS
  Display, Hopper, Copying, Faulty, Script,    \* the sessions, model values
  DisplayActs, CopyingActs, FewActs,           \* instances in them
  DisplayCommands, CopyingCommands, ScriptCommands

MCActs == 1 .. CopyingActs

MCMethod ==
  [t \in Types |-> CASE t = "leaf"              -> "none"
                    [] t \in {"pair", "deep"}   -> "decomposition"
                    [] t = "nest"               -> "nonexclusive"]

MCProgram ==
  [t \in Types |-> CASE t = "leaf" -> <<>>
                    [] t = "pair" -> <<"leaf", "leaf">>
                    [] t = "deep" -> <<"pair">>
                    [] t = "nest" -> <<"leaf">>]

MCCommands ==
  [w \in Sessions |-> CASE w = Display -> DisplayCommands
                          [] w = Hopper  -> DisplayCommands \union {"pasteintohopper"}
                          [] w = Copying -> CopyingCommands
                          [] w = Faulty  -> DisplayCommands \union {"copy"}
                          [] w = Script  -> ScriptCommands]

MCNamed ==
  [w \in Sessions |-> IF w = Script THEN {"active", "decomposed", "abstracted"} ELSE {"active"}]

\* 99: more sections than a command executes
MCFuels == [w \in Sessions |-> IF w = Faulty THEN {0, 1, 2, 99} ELSE {99}]

MCNewTypes == [w \in Sessions |-> IF w \in {Display, Copying} THEN Types ELSE Types \ {"deep"}]
MCInstances ==
  [w \in Sessions |-> CASE w = Display -> DisplayActs
                          [] w = Copying -> CopyingActs
                          [] OTHER       -> FewActs]
MCRoots == [w \in Sessions |-> IF w = Copying THEN 1 ELSE MCInstances[w]]
MCSelections == [w \in Sessions |-> IF w = Display THEN 2 ELSE 1]

\* The links between parents and children agree after every command, and so do
\* the cached pointers to the top (up_accelerator), unless a section fails on the
\* way, or a copy is deleted whose section has made a child in the plan:
\* instance_state_changer severs, attaches and deletes in several steps.
FamiliesAgree == LinksAgree /\ (session \notin {Faulty, Copying} => TopsAgree)

\* CUT, and PASTE of what was cut, move whole families, with the links they have;
\* COPY makes a copy of each member, but does not link the copies as it should.
FamiliesTravel == [][session # Faulty => FamiliesTravelTogether /\ CopiesAreComplete]_vars

\* What is displayed is a cut through the hierarchy, so that a pass over it
\* (DETAILALL, action_request.C:5193) comes to no instance it has deleted.
DisplayIsACut == session \in {Display, Hopper} => OneActiveOnEachPath /\ NoStalePointers

\* Creation and destruction sections go with weak activity, through detailing,
\* abstracting, cutting, pasting and regenerating (section 4 of do_it).
CreationFollowsActivity == session \in {Display, Hopper} => MadeIfWeaklyActive

\* DETAILALL_QUIET and its like, which go for another pass over the plan as long
\* as the last one found something to do, come to an end.
QuietCommandsEnd == session \in {Display, Hopper} /\ quiet # Idle ~> quiet = Idle
=============================================================================
