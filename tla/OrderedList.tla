----------------------------- MODULE OrderedList -----------------------------
(***************************************************************************)
(* What a synchronized tlist promises whoever walks along it: its nodes by *)
(* key, and those with one key in the order in which they were inserted.   *)
(***************************************************************************)
EXTENDS Naturals, Sequences

CONSTANT Node  \* << key, what tells nodes with that key apart >>

VARIABLE list

Key(n) == n[1]

Insert(n) ==
  /\ \A i \in DOMAIN list : list[i] # n
  /\ list' = SelectSeq(list, LAMBDA m : Key(m) <= Key(n)) \o << n >>
               \o SelectSeq(list, LAMBDA m : Key(m) > Key(n))

Remove(n) ==
  /\ \E i \in DOMAIN list : list[i] = n
  /\ list' = SelectSeq(list, LAMBDA m : m # n)

Clear == list' = << >>

Next == (\E n \in Node : Insert(n) \/ Remove(n)) \/ Clear

ListSpec == list = << >> /\ [][Next]_list
=============================================================================
