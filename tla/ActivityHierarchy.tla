-------------------------- MODULE ActivityHierarchy --------------------------
(***************************************************************************)
(* The plan as the commands see it: activity instances in a hierarchy,     *)
(* each on one of the lists of act_lists, and instance_state_changer,      *)
(* which moves an instance to the state a command asks for (do_it).        *)
(*                                                                         *)
(* do_it and the operations it calls are mutually recursive programs that  *)
(* change the plan as they go and may stop at an error half-way.  Each is  *)
(* an operator from the plan before to the plan after; a plan whose out is *)
(* not "ok" is left as it is (an exception on its way to the command).     *)
(* Times, legends and parameters are left out; the sections of a type are  *)
(* programs of which only the children they create and their failure are   *)
(* kept.                                                                   *)
(***************************************************************************)
EXTENDS Naturals, FiniteSets, Sequences, SequencesExt

CONSTANTS
  Acts,       \* identifiers of instances, 1..n (bound)
  Types,      \* activity types
  Method,     \* Method[t]: the decompose section of t
  Program,    \* Program[t]: types of the children that section creates
  Redetail,   \* RedetailOptionEnabled
  Sessions,   \* ways to work on a plan, one in a behaviour.  In session w:
  Commands,   \* Commands[w]: the commands that are given
  Named,      \* Named[w]: lists of the instances a command may name: the active
              \* ones are displayed and may be selected, a script may name others
  Fuels,      \* Fuels[w]: sections a command may execute before one of them fails
  NewTypes,   \* NewTypes[w]: types of the instances NEWACTIVITY makes
  Instances,  \* Instances[w]: instances that may exist at a time (bound)
  Roots,      \* Roots[w]: without a parent before another may be made (bound)
  Selections  \* Selections[w]: the most instances a command may name (bound)

Lists == {"brandnew", "active", "decomposed", "abstracted", "clipboard"}
Methods == {"none", "decomposition", "nonexclusive", "concurrent"}

ASSUME HierarchyAssumption ==
  /\ IsFiniteSet(Acts) /\ Acts = 1 .. Cardinality(Acts)
  /\ Method \in [Types -> Methods]
  /\ Program \in [Types -> Seq(Types)]
  /\ Redetail \in BOOLEAN
  /\ \A w \in Sessions :
       /\ Named[w] \subseteq Lists /\ Fuels[w] \subseteq Nat /\ NewTypes[w] \subseteq Types
       /\ Instances[w] \in Acts /\ {Roots[w], Selections[w]} \subseteq Nat \ {0}

None == 0

VARIABLES
  session,
  plan,  \* the instances, and what the command under way has met
  quiet  \* the ..ALL_QUIET command that goes for another pass, or "none", and
         \* whether the passes done so far are odd in number (bound: not counted)

vars == << session, plan, quiet >>

Unused == [list |-> "none", type |-> "none", parent |-> None, kids |-> <<>>,
           top |-> None, made |-> FALSE, scheduled |-> FALSE]

Idle == [kind |-> "none", odd |-> FALSE]
Kinds == {"abstract", "detail", "redetail"}
Passes == [kind : Kinds, odd : BOOLEAN]

Init ==
  /\ session \in Sessions
  /\ plan = [act |-> [a \in Acts |-> Unused], fuel |-> 0, out |-> "ok",
             dead |-> {}, count |-> 0, failed |-> FALSE]
  /\ quiet = Idle
-----------------------------------------------------------------------------
(* Queries. *)

On(s, l) == {a \in Acts : s.act[a].list = l}
Existing(s) == Acts \ On(s, "none")
Kids(s, a) == s.act[a].kids
Parent(s, a) == s.act[a].parent
MethodOf(s, a) == Method[s.act[a].type]
Nonexclusive(s, a) == MethodOf(s, a) = "nonexclusive"
Decomposes(s, a) == MethodOf(s, a) \in {"decomposition", "nonexclusive"}

RECURSIVE Tree(_, _)
Tree(s, a) == {a} \union UNION {Tree(s, k) : k \in ToSet(Kids(s, a))}

\* PR_manager::is_weakly_active
RECURSIVE ActiveAbove(_, _)
ActiveAbove(s, a) ==
  LET p == Parent(s, a)
  IN  /\ p # None /\ Nonexclusive(s, p)
      /\ s.act[p].list = "active" \/ ActiveAbove(s, p)

RECURSIVE ActiveBelow(_, _)
ActiveBelow(s, a) ==
  /\ Nonexclusive(s, a)
  /\ \/ Kids(s, a) = <<>>
     \/ s.act[Head(Kids(s, a))].list = "active"
     \/ ActiveBelow(s, Head(Kids(s, a)))

WeaklyActive(s, a) ==
  CASE s.act[a].list = "active"     -> TRUE
    [] s.act[a].list = "abstracted" -> ActiveAbove(s, a)
    [] s.act[a].list = "decomposed" -> ActiveBelow(s, a)
    [] OTHER                        -> FALSE

\* The lists of instances of the program, in the order of the identifiers
InOrder(acts) == SelectSeq([a \in Acts |-> a], LAMBDA a : a \in acts)
-----------------------------------------------------------------------------
(* Elementary changes.  One that comes after an error does nothing. *)

Ok(s) == s.out = "ok"
IfOk(s, t) == IF Ok(s) THEN t ELSE s
Throw(s, error) == IfOk(s, [s EXCEPT !.out = error])

Move(s, a, l) == IfOk(s, [s EXCEPT !.act[a].list = l])

SetScheduled(s, a, on) ==
  IfOk(s, IF s.act[a].scheduled = on THEN s
          ELSE LET below == Tree(s, a)
               IN  [s EXCEPT !.act = [b \in Acts |->
                      IF b \in below THEN [@[b] EXCEPT !.scheduled = on] ELSE @[b]]])

SetTop(s, a, top) ==
  IfOk(s, LET below == Tree(s, a)
          IN  [s EXCEPT !.act = [b \in Acts |->
                 IF b \in below THEN [@[b] EXCEPT !.top = top] ELSE @[b]]])

\* A section of a type: the first ones succeed, the next one fails.
Section(s) ==
  IfOk(s, IF s.fuel = 0 THEN Throw(s, "eval_error") ELSE [s EXCEPT !.fuel = @ - 1])

SetMade(s, a, made) == IfOk(s, [s EXCEPT !.act[a].made = made])
Create(s, a) == SetMade(Section(s), a, TRUE)
Destroy(s, a) == SetMade(Section(s), a, FALSE)

\* The identifier of the next instance, and the instance by its constructor
Fresh(s) ==
  LET free == On(s, "none") \intersect 1 .. Instances[session]
  IN  IF free = {} THEN None ELSE CHOOSE a \in free : \A b \in free : a <= b

New(s, t, scheduled) ==
  IF Fresh(s) = None THEN Throw(s, "full")
  ELSE IfOk(s, [s EXCEPT !.act[Fresh(s)] =
                  [Unused EXCEPT !.list = "brandnew", !.type = t,
                                 !.top = Fresh(s), !.scheduled = scheduled]])

\* ~ActivityInstance takes the pointers to the instance out of their lists.
Delete(s, a) ==
  IfOk(s, [s EXCEPT !.act = [b \in Acts |->
             IF b = a THEN Unused
             ELSE [@[b] EXCEPT !.kids = Remove(@, a), !.parent = IF @ = a THEN None ELSE @]],
                    !.dead = @ \union {a}])

\* Fault: the descendants keep their top level.
AttachKeepingTop(s, a, p) ==
  IfOk(s, IF Parent(s, a) # None THEN s
          ELSE [s EXCEPT !.act[a].parent = p, !.act[p].kids = Append(@, a)])

Attach(s, a, p) ==
  IfOk(s, IF Parent(s, a) # None THEN s
          ELSE SetTop([s EXCEPT !.act[a].parent = p, !.act[p].kids = Append(@, a)],
                      a, s.act[p].top))
-----------------------------------------------------------------------------
(* The state changer.  A request is the desired_state of do_it. *)

RECURSIVE DoIt(_, _, _)
RECURSIVE AddChild(_, _, _)
RECURSIVE Decompose(_, _)
RECURSIVE Undisplay(_, _)

\* What the constructor of instance_state_changer asks for: no change.
Same(s, a) == [to |-> s.act[a].list, parent |-> Parent(s, a),
               offspring |-> Kids(s, a) # <<>>, child |-> None]

To(s, a, l) == DoIt(s, a, [Same(s, a) EXCEPT !.to = l])

ToIfOn(s, a, from, l) == IF s.act[a].list \in from THEN To(s, a, l) ELSE s

\* The children in turn, those that are on some lists
KidsTo(s, a, from, l) ==
  LET after[i \in 0 .. Len(Kids(s, a))] ==
        IF i = 0 THEN s ELSE ToIfOn(after[i - 1], Kids(s, a)[i], from, l)
  IN  after[Len(Kids(s, a))]

\* A decomposed parent is not visible any more, and destroyed.
HideParent(s, p) ==
  IF s.act[p].list = "decomposed" THEN s
  ELSE IF Nonexclusive(s, p) THEN Move(s, p, "decomposed")
  ELSE Destroy(Move(s, p, "decomposed"), p)

ShowNew(s, c, t) ==
  IF Method[t] = "nonexclusive" THEN Decompose(Create(Move(s, c, "active"), c), c)
                                ELSE Create(Move(s, c, "active"), c)

OneDecomp(s, p, t) ==
  ShowNew(HideParent(AddChild(New(s, t, TRUE), p, Fresh(s)), p), Fresh(s), t)

\* exercise_decomposition; any statement of the section may fail.
Decompose(s, a) ==
  LET program == Program[s.act[a].type]
      after[i \in 0 .. Len(program)] ==
        IF i = 0 THEN s ELSE OneDecomp(Section(after[i - 1]), a, program[i])
  IN  after[Len(program)]

CreateAndDecompose(s, a) == Decompose(Create(s, a), a)

\* create_missing_nonexcl_children
CreateWithKids(s, a) ==
  IF Kids(s, a) = <<>> /\ Nonexclusive(s, a) THEN CreateAndDecompose(s, a) ELSE Create(s, a)

\* instantiate_new_act
Instantiate(s, a, d) == CreateWithKids(Move(s, a, d.to), a)

\* undisplay_hierarchy
Undisplay(s, a) ==
  LET Hide(t, k) ==
        IF t.act[k].list = "decomposed" THEN Undisplay(t, k)
        ELSE IF MethodOf(t, a) \in {"decomposition", "concurrent"} THEN Destroy(t, k)
        ELSE t
      after[i \in 0 .. Len(Kids(s, a))] ==
        IF i = 0 THEN s ELSE Move(Hide(after[i - 1], Kids(s, a)[i]), Kids(s, a)[i], "abstracted")
  IN  after[Len(Kids(s, a))]

\* A child is visible only if its parent is decomposed.
Abstracted(s, c) ==
  IF Ok(s) /\ s.act[c].list \in {"active", "decomposed"} THEN Move(Undisplay(s, c), c, "abstracted")
                                                         ELSE s

\* The child leaves its former parent first.
Moved(s, p, c) ==
  IF Parent(s, c) = None THEN Attach(s, c, p)
  ELSE Attach(DoIt(s, c, [Same(s, c) EXCEPT !.parent = None]), c, p)

AddChild(s, p, c) ==
  IF ~Ok(s) THEN s
  ELSE IF Parent(s, c) = p THEN SetScheduled(s, c, s.act[p].scheduled)
  ELSE Abstracted(Moved(SetScheduled(s, c, s.act[p].scheduled), p, c), c)

Childless(s, p) == s.act[p].list = "decomposed" /\ Kids(s, p) = <<>>
ShowChildless(s, p) == IF Childless(s, p) THEN To(s, p, "active") ELSE s
Orphaned(s, a) == IfOk(s, SetTop([s EXCEPT !.act[a].parent = None], a, a))

\* sever_from_parent: a parent that was decomposed into a alone is visible again.
Sever(s, a) ==
  IF a \notin ToSet(Kids(s, Parent(s, a))) THEN Throw(s, "decomp_error")
  ELSE Orphaned(ShowChildless([s EXCEPT !.act[Parent(s, a)].kids = Remove(@, a)], Parent(s, a)), a)

\* Section 1 of do_it: the children are destroyed, each after its own.
RemoveKids(s, a, d) ==
  LET Remains(t, k) == DoIt(t, k, [Same(t, k) EXCEPT !.offspring = FALSE])
      Unmade(t, k) == IF t.act[k].list = "active" \/ Nonexclusive(t, a) THEN Destroy(t, k) ELSE t
      after[i \in 0 .. Len(Kids(s, a))] ==
        IF i = 0 THEN s
        ELSE Delete(Unmade(Remains(after[i - 1], Kids(s, a)[i]), Kids(s, a)[i]), Kids(s, a)[i])
  IN  IF d.to \in {"decomposed", "newchildren"} /\ ~Decomposes(s, a)
      THEN Throw(s, "decomp_error") ELSE after[Len(Kids(s, a))]

\* do_it on an instance that is on the clipboard.
FromClipboard(s, a, d) ==
  LET childless == Kids(s, a) = <<>> /\ Nonexclusive(s, a)
      Kept(t) == IF childless THEN CreateAndDecompose(t, a) ELSE t
      Made(t) == IF s.act[a].scheduled /\ WeaklyActive(t, a) /\ ~childless THEN Create(t, a) ELSE t
  IN  IF d.to \in {"decomposed", "newchildren"} THEN Throw(s, "decomp_error")
      ELSE Made(KidsTo(Kept(Move(s, a, d.to)), a, Lists, "abstracted"))

\* The visibility switch of do_it, one operator per case.

SeverIf(s, a, leaves) == IF Ok(s) /\ Parent(s, a) # None /\ leaves THEN Sever(s, a) ELSE s
DestroyIf(s, a, was) == IF was THEN Destroy(s, a) ELSE s

\* Fault: the children stay behind.
ToClipboardAlone(s, a, d, was) ==
  SetScheduled(Move(DestroyIf(SeverIf(s, a, d.parent = None), a, was), a, "clipboard"), a, FALSE)

ToClipboard(s, a, d, was) ==
  LET moved == SeverIf(KidsTo(s, a, Lists, "clipboard"), a, d.parent = None)
  IN  SetScheduled(Move(DestroyIf(moved, a, was), a, "clipboard"), a, FALSE)

\* Fault: the parent stays visible.
ShowKidsToo(s, a) == KidsTo(s, a, {"abstracted", "brandnew"}, "active")

ShowKids(s, a) == Move(KidsTo(s, a, {"abstracted", "brandnew"}, "active"), a, "decomposed")

MakeKids(s, a, d) ==
  LET Shown(t) == IF d.to = "decomposed" /\ Kids(t, a) = <<>> THEN Move(t, a, "active") ELSE t
  IN  Shown(CreateAndDecompose(IF d.to = "decomposed" THEN Move(s, a, "decomposed") ELSE s, a))

ToDecomposed(s, a, d) ==
  CASE MethodOf(s, a) = "none"                        -> s
    [] MethodOf(s, a) # "none" /\ Kids(s, a) # <<>>   -> IF d.to = "decomposed" THEN ShowKids(s, a)
                                                                                ELSE s
    [] MethodOf(s, a) = "concurrent" /\ Kids(s, a) = <<>> -> Throw(s, "decomp_error")
    [] Decomposes(s, a) /\ Kids(s, a) = <<>>          -> MakeKids(s, a, d)

ToAbstracted(s, a) ==
  Move(IF s.act[a].list = "decomposed" THEN Undisplay(s, a) ELSE s, a, "abstracted")

ToActive(s, a) ==
  IF Kids(s, a) # <<>> THEN KidsTo(Move(s, a, "active"), a, Lists \ {"abstracted"}, "abstracted")
  ELSE IF Nonexclusive(s, a) THEN CreateAndDecompose(Move(s, a, "active"), a)
  ELSE Move(s, a, "active")

\* Fault: what is hidden is not destroyed.
AdjustCreationOnly(before, s, a, handled) ==
  IF Ok(s) /\ before.act[a].scheduled /\ WeaklyActive(s, a) /\ ~WeaklyActive(before, a) /\ ~handled
  THEN Create(s, a) ELSE s

\* Section 4: destruction or creation, when the instance stops or starts to be
\* weakly active and no case above has exercised its creation.
Adjust(before, s, a, handled) ==
  LET was == WeaklyActive(before, a)
      is  == WeaklyActive(s, a)
  IN  IF Ok(s) /\ was /\ ~is THEN Destroy(s, a)
      ELSE IF Ok(s) /\ before.act[a].scheduled /\ is /\ ~was /\ ~handled THEN Create(s, a)
      ELSE s

Switch(before, s, a, d) ==
  LET p == Parent(s, a)
      makesKids == /\ Kids(s, a) = <<>>
                   /\ \/ d.to \in {"decomposed", "newchildren"} /\ Decomposes(s, a)
                      \/ d.to = "active" /\ Nonexclusive(s, a)
  IN  CASE d.to = "clipboard" -> ToClipboard(s, a, d, WeaklyActive(before, a))
        [] d.to = "abstracted" /\ p = None -> Throw(s, "decomp_error")
        [] d.to = "abstracted" /\ p # None /\ s.act[p].list = "decomposed" -> To(s, p, "active")
        [] d.to = "abstracted" /\ p # None /\ s.act[p].list # "decomposed" ->
             Adjust(before, ToAbstracted(s, a), a, makesKids)
        [] d.to \in {"decomposed", "newchildren"} ->
             Adjust(before, ToDecomposed(s, a, d), a, makesKids)
        [] d.to = "active" -> Adjust(before, ToActive(s, a), a, makesKids)

\* Sections 1 to 3: the links that the request takes away and makes
Pruned(s, a, d) ==
  IF Ok(s) /\ Kids(s, a) # <<>> /\ (~d.offspring \/ d.to = "newchildren")
  THEN RemoveKids(s, a, d) ELSE s

Adopted(s, a, d) == IF d.child # None THEN AddChild(s, a, d.child) ELSE s
Adopting(s, a, d) == IF d.parent # None THEN Attach(s, a, d.parent) ELSE s

\* Section 4: the list
Changed(before, s, a, d) ==
  IF ~Ok(s) \/ d.to = before.act[a].list THEN s
  ELSE IF s.act[a].list = "clipboard" THEN FromClipboard(s, a, d)
  ELSE Switch(before, s, a, d)

DoIt(s, a, d) ==
  LET severed == SeverIf(s, a, d.to # "clipboard" /\ d.parent = None)
  IN  IF ~Ok(s) THEN s
      ELSE IF s.act[a].list = "brandnew" THEN Instantiate(s, a, d)
      ELSE Changed(s, Adopting(Adopted(Pruned(severed, a, d), a, d), a, d), a, d)
-----------------------------------------------------------------------------
(* The commands (Action_request). *)

\* A command that names instances runs on them in turn and stops at an error,
\* unless it reports the error and goes on with the next one.
Survive(s) ==
  IF s.out \in {"eval_error", "decomp_error"} THEN [s EXCEPT !.out = "ok", !.failed = TRUE] ELSE s

InTurn(s, acts, Step(_, _)) ==
  LET after[i \in 0 .. Len(acts)] == IF i = 0 THEN s ELSE Step(after[i - 1], acts[i])
  IN  after[Len(acts)]

\* The instances of a list made when the command began, in turn.  The list holds
\* plain pointers: one to an instance deleted since then leads nowhere, and what
\* the program does from there on is not modelled.
ForEach(s, acts, Step(_, _)) ==
  LET Reach(t, a) == IF a \in t.dead THEN Throw(t, "dangling") ELSE IfOk(t, Step(t, a))
  IN  InTurn(s, acts, Reach)

\* The plan a command leaves
Done(s, failed) == [s EXCEPT !.fuel = 0, !.dead = {}, !.count = 0, !.failed = failed,
                             !.out = IF @ = "dangling" THEN @ ELSE "ok"]

Count(s, n) == [s EXCEPT !.count = @ + n]

\* The result of a command.  One that needs more instances than Acts holds is
\* left out (bound).
Leaves(s, failed) == s.out # "full" /\ plan' = Done(s, failed)

Command(name, Effect(_)) ==
  /\ name \in Commands[session]
  /\ quiet = Idle /\ Ok(plan)
  /\ \E f \in Fuels[session] : Leaves(Effect([plan EXCEPT !.fuel = f]), FALSE)
  /\ UNCHANGED << session, quiet >>

Targets == UNION {On(plan, l) : l \in Named[session]}
Selected == {sel \in BoundedSeq(Targets, Selections[session]) : sel # <<>> /\ IsInjective(sel)}

\* get_scheduled_active_iterator, in the order of the identifiers
Displayed(s) == InOrder({a \in On(s, "active") : s.act[a].scheduled})

RECURSIVE Ancestors(_, _)
Ancestors(s, a) ==
  IF Parent(s, a) = None THEN {} ELSE {Parent(s, a)} \union Ancestors(s, Parent(s, a))

\* removeUnwantedDescendants, and step 2 of sel_remove
TopMost(s, sel) == SelectSeq(sel, LAMBDA a : Ancestors(s, a) \intersect ToSet(sel) = {})

\* What was being made is deleted after an error.
DeleteIf(s, a, errors) == IF s.out \in errors THEN Delete([s EXCEPT !.out = "ok"], a) ELSE s

\* NEWACTIVITY: CreateActivityInPlan
NewActivity(t) ==
  LET Show(s, c) == IfOk(s, To(s, c, "active"))
  IN  /\ Cardinality({a \in Existing(plan) : Parent(plan, a) = None}) < Roots[session]
      /\ Command("new", LAMBDA s : DeleteIf(Show(New(s, t, TRUE), Fresh(s)), Fresh(s), {"eval_error"}))

ClearClipboard(s) == InTurn(s, InOrder(On(s, "clipboard")), Delete)

\* put_a_copy_of_me_into_clipboard: the copy is the first instance it creates.
RECURSIVE CopyOf(_, _)
CopyOf(s, a) ==
  LET Adopt(t, c, k) == IfOk(t, DoIt(t, c, [Same(t, c) EXCEPT !.child = k]))
      CopyKid(t, c, k) == Adopt(CopyOf(t, k), c, Fresh(t))
      after[i \in 0 .. Len(Kids(s, a))] ==
        IF i = 0 THEN New(s, s.act[a].type, FALSE)
        ELSE CopyKid(after[i - 1], Fresh(s), Kids(s, a)[i])
  IN  Move(after[Len(Kids(s, a))], Fresh(s), "clipboard")

CopyEach(s, sel) == ForEach(s, TopMost(s, sel), CopyOf)
Copy(sel) == Command("copy", LAMBDA s : CopyEach(ClearClipboard(s), sel))

\* sel_remove without copying: first the parents that lose all their children
\* become visible, then the instances go to the clipboard.
ShowBereft(s, sel) ==
  LET bereft == {p \in On(s, "decomposed") : /\ Kids(s, p) # <<>>
                                            /\ ToSet(Kids(s, p)) \subseteq ToSet(sel)}
      Show(t, p) == To(t, p, "active")
  IN  InTurn(s, InOrder(bereft), Show)

CutEach(s, sel) ==
  LET Cut1(t, a) == DoIt(t, a, [Same(t, a) EXCEPT !.to = "clipboard", !.parent = None])
  IN  ForEach(s, TopMost(s, sel), Cut1)

SelRemove(s, sel) == CutEach(ShowBereft(ClearClipboard(s), sel), sel)

Cut(sel) == Command("cut", LAMBDA s : SelRemove(s, sel))

DeleteActivities(sel) == Command("delete", LAMBDA s : ClearClipboard(SelRemove(s, sel)))

\* PASTEACTIVITY of the clipboard, or of copies of what is on it, into the plan
\* or into a hopper, where instances are not scheduled
Paste(please_delete, schedule_flag) ==
  LET Show(s, a) == IfOk(s, To(SetScheduled(s, a, schedule_flag), a, "active"))
      PasteOne(s, a) == IF please_delete THEN Show(s, a) ELSE Show(CopyOf(s, a), Fresh(s))
      Tops(s) == InOrder({a \in On(s, "clipboard") : Parent(s, a) = None})
  IN  Command(IF schedule_flag THEN "paste" ELSE "pasteintohopper",
              LAMBDA s : ForEach(s, Tops(s), PasteOne))

\* GROUPACTIVITIES under an existing parent, which is deleted if that fails.
\* An ancestor of the parent is not grouped under it: do_it would not return.
Group(p, sel) ==
  LET Adopt(s, c) == DoIt(s, p, [Same(s, p) EXCEPT !.child = c])
  IN  Command("group", LAMBDA s :
        DeleteIf(ForEach(s, sel, Adopt), p, {"eval_error", "decomp_error"}))

Ungroup(sel) ==
  LET Free(s, k) == IfOk(s, DoIt(s, k, [Same(s, k) EXCEPT !.to = "active", !.parent = None]))
      Show(s, a) == IF s.act[a].list = "decomposed" THEN To(s, a, "active") ELSE s
      UngroupOne(s, a) == IF Kids(s, a) = <<>> THEN s ELSE Show(InTurn(s, Kids(s, a), Free), a)
  IN  Command("ungroup", LAMBDA s : ForEach(s, sel, UngroupOne))

AbstractEach(s, acts) ==
  LET Hide(t, a) == Survive(To(t, a, "abstracted"))
  IN  ForEach(s, acts, Hide)

Abstract(sel) == Command("abstract", LAMBDA s : AbstractEach(s, sel))

\* ABSTRACTACTIVITY FULLY: then the parents, which may be listed twice, and so on
RECURSIVE AbstractUp(_, _)
AbstractUp(s, acts) ==
  LET HasParent(a) == Parent(s, a) # None
      owned == SelectSeq(acts, HasParent)
      parents == [i \in DOMAIN owned |-> Parent(s, owned[i])]
  IN  IF acts = <<>> THEN s ELSE AbstractUp(AbstractEach(s, acts), parents)

AbstractFully(sel) == Command("abstractfully", LAMBDA s : AbstractUp(s, sel))

\* One pass over the displayed instances that have a parent
AbstractPass(s) ==
  LET Hide(t, a) ==
        IF t.act[a].list = "active" /\ Parent(t, a) # None
        THEN Count(Survive(To(t, a, "abstracted")), 1) ELSE t
  IN  ForEach(s, Displayed(s), Hide)

AbstractAll == Command("abstractall", AbstractPass)

\* DETAILACTIVITY, and REDETAILACTIVITY if new
DetailOne(s, a, new) ==
  IF new \/ Redetail \/ Kids(s, a) # <<>>
  THEN DoIt(s, a, [Same(s, a) EXCEPT !.to = "decomposed", !.offspring = @ /\ ~new])
  ELSE s

Detail(sel, new) ==
  LET Show(s, a) == DetailOne(s, a, new)
  IN  Command(IF new THEN "redetail" ELSE "detail", LAMBDA s : ForEach(s, TopMost(s, sel), Show))

\* DETAILACTIVITY FULLY: then the children of what was detailed, and so on, if the
\* command comes from a file (of).  What cannot be decomposed is passed over.
RECURSIVE DetailDown(_, _, _)
DetailDown(s, acts, of) ==
  LET Survived(t) == IF t.out = "decomp_error" THEN [t EXCEPT !.out = "ok"] ELSE t
      after[i \in 0 .. Len(acts)] ==
        IF i = 0 THEN s ELSE DetailOne(Survived(after[i - 1]), acts[i], FALSE)
      last == Survived(after[Len(acts)])
      detailed == {i \in DOMAIN acts : Ok(after[i]) /\ (Redetail \/ Kids(s, acts[i]) # <<>>)}
      children == UNION {ToSet(Kids(last, acts[i])) : i \in detailed}
  IN  IF of /\ children # {} /\ Ok(last) THEN DetailDown(last, InOrder(children), of) ELSE last

DetailFully(sel, of) ==
  Command("detailfully", LAMBDA s : DetailDown(s, TopMost(s, sel), of))

CanBeDecomposed(s, a, redetail) ==
  \/ Decomposes(s, a)
  \/ ~redetail /\ Kids(s, a) # <<>>

\* Fault: whatever is asked for counts as detailed.
DetailPassCountingAll(s, new) ==
  LET Show(t, a) == IF CanBeDecomposed(t, a, new) THEN Count(Survive(DetailOne(t, a, new)), 1)
                                                  ELSE Count(t, 1)
  IN  ForEach(s, Displayed(s), Show)

\* One pass over the displayed instances.  An error is reported and the next
\* instance is taken; the count is that of the children of what was detailed.
DetailPass(s, new) ==
  LET Counted(t, a) == IF Ok(t) THEN Count(t, Len(Kids(t, a))) ELSE Survive(t)
      Show(t, a) == IF CanBeDecomposed(t, a, new) THEN Counted(DetailOne(t, a, new), a) ELSE t
  IN  ForEach(s, Displayed(s), Show)

DetailAll(new) ==
  Command(IF new THEN "redetailall" ELSE "detailall", LAMBDA s : DetailPass(s, new))

\* REGENCHILDREN
Regenerate(sel) ==
  LET Renew(s, a) == To(s, a, "newchildren")
  IN  Command("regen", LAMBDA s : ForEach(s, TopMost(s, sel), Renew))

DeleteAllDescendants ==
  LET Strip(s, a) ==
        IF Parent(plan, a) = None /\ MethodOf(s, a) # "none"
        THEN Survive(DoIt(s, a, [Same(s, a) EXCEPT !.offspring = FALSE])) ELSE s
  IN  Command("deletedescendants", LAMBDA s : ForEach(s, Displayed(s), Strip))

\* One pass of ABSTRACTALL_QUIET, DETAILALL_QUIET or REDETAILALL_QUIET, and
\* more_left after it.  Only the first of them lets an error change its status.
AfterPass(s, kind, before) ==
  LET status_fail == kind = "abstract" /\ s.failed
      more_left == IF status_fail THEN before ELSE s.count > 0
  IN  /\ Leaves(s, status_fail /\ more_left)
      /\ quiet' = IF more_left THEN [kind |-> kind, odd |-> ~quiet.odd] ELSE Idle

Pass(s, kind) == IF kind = "abstract" THEN AbstractPass(s) ELSE DetailPass(s, kind = "redetail")

QuietPass(kind, before) ==
  \E f \in Fuels[session] : AfterPass(Pass([plan EXCEPT !.fuel = f], kind), kind, before)

AllQuiet ==
  /\ "quiet" \in Commands[session]
  /\ quiet = Idle /\ Ok(plan)
  /\ \E kind \in Kinds : QuietPass(kind, FALSE)
  /\ UNCHANGED session

AllQuietAgain ==
  /\ quiet # Idle /\ Ok(plan)
  /\ QuietPass(quiet.kind, TRUE)
  /\ UNCHANGED session

Next ==
  \/ \E t \in NewTypes[session] : NewActivity(t)
  \/ \E sel \in Selected :
       \/ Copy(sel) \/ Cut(sel) \/ DeleteActivities(sel)
       \/ Ungroup(sel) \/ Abstract(sel) \/ Regenerate(sel)
       \/ AbstractFully(sel)
       \/ \E new \in BOOLEAN : Detail(sel, new)
       \/ \E of \in BOOLEAN : DetailFully(sel, of)
       \/ \E p \in Targets : ToSet(sel) \intersect ({p} \union Ancestors(plan, p)) = {} /\ Group(p, sel)
  \/ \E please_delete, schedule_flag \in BOOLEAN : Paste(please_delete, schedule_flag)
  \/ AbstractAll
  \/ \E new \in BOOLEAN : DetailAll(new)
  \/ DeleteAllDescendants
  \/ AllQuiet
  \/ AllQuietAgain

Spec == Init /\ [][Next]_vars

\* The loop of a ..ALL_QUIET command goes on: the next pass is taken.  Only
\* AllQuietAgain changes quiet then, and it can unless Acts is exhausted.
NextPass ==
  /\ quiet # Idle /\ Ok(plan)
  /\ \E q \in Passes \union {Idle} : quiet' = q

FairSpec == Spec /\ WF_quiet(NextPass)
-----------------------------------------------------------------------------
(* What the commands keep. *)

Path(a) == {a} \union Ancestors(plan, a)

\* The pointer to the parent and the list of the children agree, whatever
\* commands moved, severed, regenerated or deleted instances: the parent of an
\* instance lists it once, and what it lists has it as its parent.
LinksAgree ==
  \A a \in Existing(plan) :
    /\ IsInjective(Kids(plan, a))
    /\ \A k \in ToSet(Kids(plan, a)) : k \in Existing(plan) /\ Parent(plan, k) = a
    /\ Parent(plan, a) # None => a \in ToSet(Kids(plan, Parent(plan, a)))

\* The cached pointer to the top of the hierarchy (up_accelerator), which
\* attaching and severing have to refresh in the whole family below, leads to
\* the root.
TopsAgree ==
  \A a \in Existing(plan) :
    plan.act[a].top = IF Parent(plan, a) = None THEN a ELSE plan.act[Parent(plan, a)].top

\* The active instances are a cut through the hierarchy: in the plan there is
\* one, and only one, between a root and each of its descendants at the bottom.
\* It is what the comment on DETAILALL (action_request.C:5193) takes for granted.
OneActiveOnEachPath ==
  \A a \in Existing(plan) \ On(plan, "clipboard") :
    Kids(plan, a) = <<>> => Cardinality(Path(a) \intersect On(plan, "active")) = 1

\* An instance that CUT takes to the clipboard, or PASTE from it, takes all its
\* descendants along, and in both cases the links below it are as before; a
\* nonexclusive instance without children gets those of its section.  It is said
\* of instances that move, whatever commands made them a family, not of copies.
WholeFamilyOn(a, onClipboard) ==
  \A b \in Tree(plan, a) :
    /\ b \in Existing(plan)' /\ (b \in On(plan, "clipboard"))' = onClipboard
    /\ Kids(plan, b) # <<>> \/ ~Nonexclusive(plan, b) => Kids(plan, b)' = Kids(plan, b)

FamiliesTravelTogether ==
  LET there == On(plan, "clipboard")
      thereAfter == On(plan, "clipboard")'
  IN  /\ \A a \in (Existing(plan) \ there) \intersect thereAfter : WholeFamilyOn(a, TRUE)
      /\ \A a \in there \ thereAfter :
           (\E schedule_flag \in BOOLEAN : Paste(TRUE, schedule_flag)) => WholeFamilyOn(a, FALSE)

\* COPY goes through the whole family of what is named and leaves it as it is: on
\* the clipboard there are as many instances of each type afterwards as there are
\* in the families.  It is not said that the copies are families again: the copy
\* of a child stays apart from that of its parent (instance_state_changer.C:207).
CopiesAreComplete ==
  \A sel \in Selected : "copy" \in Commands[session] /\ Copy(sel) =>
    LET members == UNION {Tree(plan, a) : a \in ToSet(TopMost(plan, sel))}
        OfType(acts, t) == Cardinality({a \in acts : plan.act[a].type = t})
    IN  /\ \A a \in members : Kids(plan, a)' = Kids(plan, a) /\ plan.act[a].list = plan'.act[a].list
        /\ \A t \in Types : OfType(On(plan, "clipboard"), t)' = OfType(members, t)

\* The creation section has been exercised last, and not the destruction
\* section, in weakly active instances only, and in all of them that are scheduled.
MadeIfWeaklyActive ==
  \A a \in Existing(plan) :
    /\ plan.act[a].made => WeaklyActive(plan, a)
    /\ WeaklyActive(plan, a) /\ plan.act[a].scheduled => plan.act[a].made

\* No command comes to an instance of its list that it has deleted on the way,
\* as a descendant of one it has already dealt with.
NoStalePointers == plan.out # "dangling"
=============================================================================
