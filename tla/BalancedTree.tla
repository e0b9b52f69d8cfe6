---------------------------- MODULE BalancedTree ----------------------------
(***************************************************************************)
(* tlist (templates.H), the container under the event queues, resource     *)
(* histories and violations of APGen: a linked list whose nodes also form  *)
(* a height-balanced binary tree, through which they are found.  A key that*)
(* is already there gets a second key that makes it the last of its equals.*)
(*                                                                         *)
(* With the linker intLinker each node counts something of its own, and    *)
(* what the nodes of its left and right subtrees count, so that the sum    *)
(* over all nodes up to one of them is found on the way to the root.  These*)
(* counts are adjusted by every attachment of a subtree.                   *)
(*                                                                         *)
(* The list is a synchronized one (synchronize_orders).  An insertion or   *)
(* removal is one step; it is written as the sequence of trees it goes     *)
(* through, each made from the one before.                                 *)
(***************************************************************************)
EXTENDS Integers, Sequences, SequencesExt, FiniteSets, FiniteSetsExt

CONSTANTS
  Keys,          \* the first keys, a subset of Nat \ {0}
  MaxAmbiguity,  \* bound: how many nodes get a second key before a clear
  Amount(_)      \* what the nodes with a key count, myCount

VARIABLES
  tree,           \* the root and the nodes with their links
  list,           \* the nodes from head to tail
  ambiguityCount  \* the largest second key given

vars == << tree, list, ambiguityCount >>

Null == << 0, 0 >>
Node == Keys \X (0..MaxAmbiguity)
Dir == {"left", "right"}

Opposite(d) == IF d = "right" THEN "left" ELSE "right"

\* compare_to
Less(m, n) == m[1] < n[1] \/ (m[1] = n[1] /\ m[2] < n[2])

Present == Range(list)

EmptyTree == [root |-> Null, at |-> << >>]

\* reset_links
Detached(own) ==
  [link |-> [d \in Dir |-> Null], parent |-> Null, heavy |-> "balanced",
   own |-> own, sum |-> [d \in Dir |-> 0]]
-----------------------------------------------------------------------------
(* Links and counts.  t is a tree, n and m are nodes, d is a direction.    *)

Link(t, n, d) == t.at[n].link[d]
Heavy(t, n) == t.at[n].heavy

Weight(t, n) == IF n = Null THEN 0
                ELSE t.at[n].own + t.at[n].sum["left"] + t.at[n].sum["right"]

SetHeavy(t, n, h) == [t EXCEPT !.at[n].heavy = h]

\* attach with DO_NOT_UPDATE_CONS
Hang(t, n, d, m) ==
  LET u == [t EXCEPT !.at[n].link[d] = m]
  IN  IF m = Null THEN u ELSE [u EXCEPT !.at[m].parent = n]

\* attach with UPDATE_CONS
Attach(t, n, d, m) == [Hang(t, n, d, m) EXCEPT !.at[n].sum[d] = Weight(t, m)]

MakeRoot(t, n) == [t EXCEPT !.root = n, !.at[n].parent = Null]

\* A path is a sequence of nodes and of the directions in which it leaves
\* them.  The subtree at position i of path p is replaced by that of n: at the
\* root if nothing is above, else below the node before.
Replace(t, p, i, n) ==
  IF i = 1 THEN MakeRoot(t, n) ELSE Hang(t, p[i - 1].node, p[i - 1].dir, n)
ReplaceAndCount(t, p, i, n) ==
  IF i = 1 THEN MakeRoot(t, n) ELSE Attach(t, p[i - 1].node, p[i - 1].dir, n)

\* add_cons_to_ancestors and subtract_cons_from_ancestors, up to the node stop
RECURSIVE AddToAncestors(_, _, _, _)
AddToAncestors(t, n, amount, stop) ==
  LET p == t.at[n].parent
      d == IF n = Link(t, p, "left") THEN "left" ELSE "right"
  IN  IF p \in {Null, stop} THEN t
      ELSE AddToAncestors([t EXCEPT !.at[p].sum[d] = @ + amount], p, amount, stop)

\* get_int_consumption: the sum over the nodes up to n
RECURSIVE SumFrom(_, _, _)
SumFrom(t, n, sum) ==
  LET p == t.at[n].parent
  IN  IF p = Null THEN sum
      ELSE SumFrom(t, p, IF n = Link(t, p, "right")
                           THEN sum + t.at[p].own + t.at[p].sum["left"] ELSE sum)
SumUpTo(t, n) == SumFrom(t, n, t.at[n].own + t.at[n].sum["left"])
-----------------------------------------------------------------------------
(* insert_binary_node                                                      *)

\* Fault: a key that is already there is passed on the left.
RECURSIVE InsertPathLeft(_, _, _)
InsertPathLeft(t, c, k) ==
  IF c = Null THEN << >>
  ELSE LET d == IF k <= c[1] THEN "left" ELSE "right"
       IN  << [node |-> c, dir |-> d] >> \o InsertPathLeft(t, Link(t, c, d), k)

\* The path from node c to where key k belongs; a key that is already there is
\* passed on the right, because its new equal gets the largest second key.
RECURSIVE InsertPath(_, _, _)
InsertPath(t, c, k) ==
  IF c = Null THEN << >>
  ELSE LET d == IF k < c[1] THEN "left" ELSE "right"
       IN  << [node |-> c, dir |-> d] >> \o InsertPath(t, Link(t, c, d), k)

\* The nodes of the path from position i on lean the way the new node went.
LeanAlong(t, p, i) ==
  [t EXCEPT !.at = [n \in DOMAIN @ |->
    IF \E j \in i..Len(p) : p[j].node = n
      THEN [@[n] EXCEPT !.heavy = (CHOOSE s \in Range(p) : s.node = n).dir] ELSE @[n]]]

\* Case 3: the new node went twice in direction d.
SingleRotation(t, p, f) ==
  LET top == p[f].node  mid == p[f + 1].node  d == p[f].dir  o == Opposite(d)
      t1 == Attach(t, top, d, Link(t, mid, o))
      t2 == Attach(t1, mid, o, top)
      t3 == SetHeavy(LeanAlong(t2, p, f + 2), top, "balanced")
  IN  Replace(t3, p, f, mid)

\* Cases 4 and 5: it turned at the second node.  low, the third node of the
\* path (perhaps the new one), comes up between the other two.
DoubleRotation(t, p, f, new) ==
  LET top == p[f].node  mid == p[f + 1].node  d == p[f].dir  o == Opposite(d)
      isNew == Len(p) = f + 1
      low == IF isNew THEN new ELSE p[f + 2].node
      t1 == SetHeavy(t, top, IF ~isNew /\ p[f + 2].dir = d THEN o ELSE "balanced")
      t2 == IF ~isNew /\ p[f + 2].dir = o THEN SetHeavy(t1, mid, d) ELSE t1
      t3 == Attach(t2, top, d, Link(t, low, o))
      t4 == Attach(t3, mid, o, Link(t, low, d))
      t5 == Attach(Attach(t4, low, o, top), low, d, mid)
  IN  ReplaceAndCount(LeanAlong(t5, p, f + 3), p, f, low)

\* The new node hangs below the last node of path p.  The focal point is the
\* last node of the path that was not balanced, if there is one.
Rebalanced(t, p, new) ==
  LET f == Max({0} \cup {i \in DOMAIN p : Heavy(t, p[i].node) # "balanced"})
  IN  CASE f = 0 -> LeanAlong(t, p, 1)
        [] f > 0 /\ Heavy(t, p[f].node) # p[f].dir ->
             LeanAlong(SetHeavy(t, p[f].node, "balanced"), p, f + 1)
        [] f > 0 /\ Heavy(t, p[f].node) = p[f].dir ->
             IF p[f + 1].dir = p[f].dir THEN SingleRotation(t, p, f)
                                        ELSE DoubleRotation(t, p, f, new)

\* While the tree is rebalanced the new node counts nothing.
WithNode(t, p, new) ==
  IF p = << >> THEN [root |-> new, at |-> [n \in {new} |-> Detached(Amount(new[1]))]]
  ELSE LET t1 == [t EXCEPT !.at = [n \in DOMAIN @ \cup {new} |->
                                     IF n = new THEN Detached(0) ELSE @[n]]]
           t2 == Rebalanced(Hang(t1, Last(p).node, Last(p).dir, new), p, new)
           t3 == [t2 EXCEPT !.at[new].own = Amount(new[1])]
       IN  AddToAncestors(t3, new, Amount(new[1]), Null)

\* tlist::insert_node: in the list the new node follows the last node that the
\* path leaves on the right.
InsertNode(k) ==
  LET p == InsertPath(tree, tree.root, k)
      isTaken == \E s \in Range(p) : s.node[1] = k
      new == << k, IF isTaken THEN ambiguityCount + 1 ELSE 0 >>
      earlier == SelectSeq(p, LAMBDA s : s.dir = "right")
      i == IF earlier = << >> THEN 0
           ELSE CHOOSE j \in DOMAIN list : list[j] = Last(earlier).node
  IN  /\ isTaken => ambiguityCount < MaxAmbiguity
      /\ tree' = WithNode(tree, p, new)
      /\ list' = InsertAt(list, i + 1, new)
      /\ ambiguityCount' = IF isTaken THEN ambiguityCount + 1 ELSE ambiguityCount
-----------------------------------------------------------------------------
(* Searches, from node c down.  best is the nearest node met so far.       *)

\* find, find_node
RECURSIVE Found(_, _, _)
Found(t, c, n) ==
  IF c \in {Null, n} THEN c
  ELSE Found(t, Link(t, c, IF Less(n, c) THEN "left" ELSE "right"), n)

\* find_at_or_before.  No two nodes have the same two keys.
RECURSIVE AtOrBefore(_, _, _, _)
AtOrBefore(t, c, n, best) ==
  IF c = Null THEN best
  ELSE IF c = n THEN c
  ELSE IF Less(n, c) THEN AtOrBefore(t, Link(t, c, "left"), n, best)
                     ELSE AtOrBefore(t, Link(t, c, "right"), n, c)

\* find_at_or_after
RECURSIVE AtOrAfter(_, _, _, _)
AtOrAfter(t, c, n, best) ==
  IF c = Null THEN best
  ELSE IF c = n THEN c
  ELSE IF Less(n, c) THEN AtOrAfter(t, Link(t, c, "left"), n, c)
                     ELSE AtOrAfter(t, Link(t, c, "right"), n, best)

\* preceding_node, find_adjacent_left, of a node of the tree
RECURSIVE AdjacentLeft(_, _, _, _)
AdjacentLeft(t, c, n, best) ==
  IF c = Null THEN best
  ELSE IF Less(c, n) THEN AdjacentLeft(t, Link(t, c, "right"), n, c)
                     ELSE AdjacentLeft(t, Link(t, c, "left"), n, best)

\* following_node, find_adjacent_right, of a node of the tree
RECURSIVE AdjacentRight(_, _, _, _)
AdjacentRight(t, c, n, best) ==
  IF c = Null THEN best
  ELSE IF Less(n, c) THEN AdjacentRight(t, Link(t, c, "left"), n, c)
                     ELSE AdjacentRight(t, Link(t, c, "right"), n, best)
-----------------------------------------------------------------------------
(* remove_node.  Each operator yields a tree and the path down to the node *)
(* below which the tree has become lower, in the direction of the last     *)
(* step of the path.  n is the node to remove.                             *)

Lower(t, p) == [tree |-> t, path |-> p]
Step(n, d) == << [node |-> n, dir |-> d] >>

\* Phase 1, search
RECURSIVE PathTo(_, _, _)
PathTo(t, c, n) ==
  IF c = n THEN << >>
  ELSE LET d == IF Less(n, c) THEN "left" ELSE "right"
       IN  Step(c, d) \o PathTo(t, Link(t, c, d), n)

\* The nodes from c on in direction d.
RECURSIVE Spine(_, _, _)
Spine(t, c, d) == IF c = Null THEN << >> ELSE << c >> \o Spine(t, Link(t, c, d), d)

\* Phase 2: the node is a leaf.
CutLeaf(t, p) == Lower(Hang(t, Last(p).node, Last(p).dir, Null), p)

\* Fault: the node that moves up is still counted where it was.
SwapNearestUncounted(t, p, n, h) ==
  LET s == Opposite(h)
      spine == Spine(t, Link(t, n, h), s)
      end == Last(spine)
      a == Link(t, end, h)
      t2 == Hang(t, spine[Len(spine) - 1], s, a)
      t3 == IF a = Null THEN t2 ELSE SetHeavy(t2, a, s)
      t4 == Attach(t3, end, "left", Link(t3, n, "left"))
      t5 == Attach(t4, end, "right", Link(t4, n, "right"))
  IN  Lower(SetHeavy(t5, end, Heavy(t, n)),
            p \o Step(end, h) \o [i \in 1..Len(spine) - 1 |-> Step(spine[i], s)[1]]
              \o (IF a = Null THEN << >> ELSE Step(a, s)))

\* Swap sub-case (1): the nearest node in direction h takes the place of n.
SwapNearest(t, p, n, h) ==
  LET s == Opposite(h)
      spine == Spine(t, Link(t, n, h), s)
      end == Last(spine)
      a == Link(t, end, h)
      t1 == AddToAncestors(t, end, -t.at[end].own, n)
      t2 == Hang(t1, spine[Len(spine) - 1], s, a)
      t3 == IF a = Null THEN t2 ELSE SetHeavy(t2, a, s)
      t4 == Attach(t3, end, "left", Link(t3, n, "left"))
      t5 == Attach(t4, end, "right", Link(t4, n, "right"))
  IN  Lower(SetHeavy(t5, end, Heavy(t, n)),
            p \o Step(end, h) \o [i \in 1..Len(spine) - 1 |-> Step(spine[i], s)[1]]
              \o (IF a = Null THEN << >> ELSE Step(a, s)))

\* Sub-case (2): the neighbour has nobody on the side of n.
SwapNeighbour(t, p, n, h) ==
  LET s == Opposite(h)
      a == Link(t, n, h)
      other == Link(t, a, h)
      t1 == SetHeavy(Attach(t, a, s, Link(t, n, s)), a, Heavy(t, n))
  IN  Lower(SetHeavy(t1, other, s), p \o Step(a, h) \o Step(other, s))

\* Sub-case (3): n has two leaves.
SwapStub(t, p, n, h) ==
  LET a == Link(t, n, h)
  IN  Lower(Attach(t, a, Opposite(h), Link(t, n, Opposite(h))), p \o Step(a, h))

\* Sub-case (4): n has a single leaf.
SwapOnly(t, p, n, h) ==
  LET a == Link(t, n, h)
  IN  Lower(SetHeavy(t, a, Opposite(h)), p \o Step(a, Opposite(h)))

Swapped(t, p, n) ==
  LET h == IF Heavy(t, n) = "right" THEN "right" ELSE "left"
      s == Opposite(h)
      a == Link(t, n, h)
      low == CASE Link(t, a, s) # Null -> SwapNearest(t, p, n, h)
               [] Link(t, a, s) = Null /\ Link(t, a, h) # Null -> SwapNeighbour(t, p, n, h)
               [] Link(t, a, s) = Null /\ Link(t, a, h) = Null ->
                    IF Link(t, n, s) # Null THEN SwapStub(t, p, n, h) ELSE SwapOnly(t, p, n, h)
      i == Len(p) + 1
  IN  [low EXCEPT !.tree = ReplaceAndCount(low.tree, low.path, i, low.path[i].node)]

\* rotate: the subtree of n keeps its height and leans the other way.
RECURSIVE Rotated(_, _)
Rotated(t, n) ==
  LET d == Heavy(t, n)
      o == Opposite(d)
      below == Link(t, n, d)
      inner == Rotated(t, below)
      r == IF Heavy(t, below) = o
             THEN [tree |-> Attach(inner.tree, n, d, inner.top), top |-> inner.top]
             ELSE [tree |-> t, top |-> below]
      t1 == SetHeavy(r.tree, n, IF Heavy(r.tree, r.top) = "balanced" THEN "balanced" ELSE o)
      t2 == Attach(SetHeavy(t1, r.top, o), n, d, Link(t1, r.top, o))
  IN  [tree |-> Attach(t2, r.top, o, n), top |-> r.top]

\* Steps 2 and 3: the subtree below position f of the path has become lower.
RECURSIVE Shrunk(_, _, _)
Shrunk(t, p, f) ==
  IF f = 0 THEN t
  ELSE LET n == p[f].node  d == p[f].dir  o == Opposite(d)
           q == Link(t, n, o)
           r == Rotated(t, q)
           t1 == Attach(Replace(t, p, f, q), n, o, Link(t, q, d))
           t2 == Attach(t1, q, d, n)
       IN  CASE Heavy(t, n) = "balanced" -> SetHeavy(t, n, o)
             [] Heavy(t, n) = d -> Shrunk(SetHeavy(t, n, "balanced"), p, f - 1)
             [] Heavy(t, n) = o ->
                  IF Heavy(t, q) = d THEN Shrunk(Hang(r.tree, n, o, r.top), p, f)
                  ELSE IF Heavy(t, q) = o
                    THEN Shrunk(SetHeavy(SetHeavy(t2, n, "balanced"), q, "balanced"), p, f - 1)
                    ELSE SetHeavy(SetHeavy(t2, n, o), q, d)

\* Step 1: the node x at the end of the path has lost a leaf in direction d.
\* Its child a on the other side may have a single leaf (situations A and B)
\* or two (situation C).
Restored(t, p) ==
  LET f == Len(p)
      x == p[f].node  d == p[f].dir  o == Opposite(d)
      a == Link(t, x, o)
      b == Link(t, a, d)
      t1 == SetHeavy(Attach(t, x, o, Null), x, "balanced")
      inner == Attach(Attach(SetHeavy(Attach(t1, a, d, Null), a, "balanced"), b, d, x), b, o, a)
      outer == SetHeavy(Attach(t1, a, d, x), a, "balanced")
      both == SetHeavy(Attach(SetHeavy(Attach(t1, b, d, x), b, d), a, d, b), a, d)
  IN  CASE Heavy(t, x) = "balanced" -> SetHeavy(t, x, o)
        [] Heavy(t, x) = d -> Shrunk(SetHeavy(t, x, "balanced"), p, f - 1)
        [] Heavy(t, x) = o ->
             CASE Heavy(t, a) = d -> Shrunk(Replace(inner, p, f, b), p, f - 1)
               [] Heavy(t, a) = o -> Shrunk(Replace(outer, p, f, a), p, f - 1)
               [] Heavy(t, a) = "balanced" -> Replace(both, p, f, a)

\* The ancestors forget the node before it is taken out.
WithoutNode(t, n) ==
  LET p == PathTo(t, t.root, n)
      t1 == AddToAncestors(t, n, -t.at[n].own, Null)
      t2 == [t1 EXCEPT !.at[n].own = 0]
      isLeaf == \A d \in Dir : Link(t, n, d) = Null
      low == IF isLeaf THEN CutLeaf(t2, p) ELSE Swapped(t2, p, n)
      t3 == Restored(low.tree, low.path)
  IN  IF isLeaf /\ p = << >> THEN EmptyTree
      ELSE [t3 EXCEPT !.at = [m \in DOMAIN @ \ {n} |-> @[m]]]

RemoveNode(n) ==
  /\ n \in Present
  /\ tree' = WithoutNode(tree, n)
  /\ list' = SelectSeq(list, LAMBDA m : m # n)
  /\ UNCHANGED ambiguityCount

\* clear forgets the second keys given so far.
Clear ==
  /\ tree' = EmptyTree /\ list' = << >> /\ ambiguityCount' = 0

Init == tree = EmptyTree /\ list = << >> /\ ambiguityCount = 0

Next == (\E k \in Keys : InsertNode(k)) \/ (\E n \in Node : RemoveNode(n)) \/ Clear

Spec == Init /\ [][Next]_vars
-----------------------------------------------------------------------------
(* Correctness                                                             *)

OL == INSTANCE OrderedList

\* Whatever the tree does, who walks along the list meets the nodes by key,
\* and the nodes with one key in the order of their insertion: the second keys
\* that insert_binary_node gives, and the neighbour it finds, see to it.
ImplementsOrderedList == OL!ListSpec

RECURSIVE Height(_)
Height(n) == IF n = Null THEN 0 ELSE 1 + Max({Height(Link(tree, n, d)) : d \in Dir})

RECURSIVE InOrder(_)
InOrder(n) ==
  IF n = Null THEN << >>
  ELSE InOrder(Link(tree, n, "left")) \o << n >> \o InOrder(Link(tree, n, "right"))

IsBalanced(n) ==
  LET left == Height(Link(tree, n, "left"))
      right == Height(Link(tree, n, "right"))
  IN  CASE Heavy(tree, n) = "balanced" -> left = right
        [] Heavy(tree, n) = "left" -> left = right + 1
        [] Heavy(tree, n) = "right" -> right = left + 1

IsLinked(n) ==
  /\ tree.at[n].parent = Null <=> n = tree.root
  /\ \A d \in Dir : Link(tree, n, d) # Null => tree.at[Link(tree, n, d)].parent = n

NodeAt(i) == IF i \in DOMAIN list THEN list[i] ELSE Null

\* Where the linear search of the list puts a probe.
SearchesRight(n) ==
  LET below == Cardinality({i \in DOMAIN list : Less(list[i], n)})
      isThere == n \in Present
  IN  /\ Found(tree, tree.root, n) = (IF isThere THEN n ELSE Null)
      /\ AtOrBefore(tree, tree.root, n, Null) = (IF isThere THEN n ELSE NodeAt(below))
      /\ AtOrAfter(tree, tree.root, n, Null) = NodeAt(below + 1)

\* What the "check" and "order" methods of tlist are for: after any insertions
\* and removals the tree has the nodes of the list, in the order of the list,
\* every indicator tells the two heights, which differ by one at most, and
\* every search finds what a walk along the list would.
TreeIsSearchable ==
  /\ DOMAIN tree.at = Present
  /\ InOrder(tree.root) = list
  /\ \A n \in Present : IsBalanced(n) /\ IsLinked(n)
  /\ \A k \in Keys : SearchesRight(<< k, 0 >>)
  /\ \A i \in DOMAIN list :
       /\ SearchesRight(list[i])
       /\ AdjacentLeft(tree, tree.root, list[i], Null) = NodeAt(i - 1)
       /\ AdjacentRight(tree, tree.root, list[i], Null) = NodeAt(i + 1)

\* check_consumption: get_int_consumption of a node is the sum over the nodes up
\* to it, though no rotation or removal recomputes a sum from its terms.
SumsAreRight ==
  \A i \in DOMAIN list :
    SumUpTo(tree, list[i]) = FoldSeq(LAMBDA n, sum : Amount(n[1]) + sum, 0, SubSeq(list, 1, i))
=============================================================================
