-------------------------- MODULE MCViolationLists --------------------------
(***************************************************************************)
(* The violations that modeling finds and a TOL lists (ViolationListing),  *)
(* or the container they are kept in, a synchronized tlist, by itself      *)
(* (BalancedTree).  A behaviour is one of either.  The container is tried  *)
(* with many different keys, or with few keys and many equals.             *)
(***************************************************************************)
EXTENDS MCViolationListing

CONSTANTS ListKeys, FewKeys, MaxSecondKey

ASSUME ListAssumption ==
  ListKeys \subseteq Nat \ {0} /\ FewKeys \subseteq ListKeys /\ MaxSecondKey \in Nat

VARIABLES part, tree, list, ambiguityCount

MCAmount(k) == 2 ^ k

Container == INSTANCE BalancedTree
  WITH Keys <- ListKeys, MaxAmbiguity <- MaxSecondKey, Amount <- MCAmount
containerVars == << tree, list, ambiguityCount >>

\* Bound: all keys with one second key, or few keys with all second keys.
Inserts(k) ==
  /\ part = "many" => ambiguityCount < 1 \/ \A i \in DOMAIN list : list[i][1] # k
  /\ part = "few" => k \in FewKeys
  /\ Container!InsertNode(k)

ContainerNext ==
  (\E k \in ListKeys : Inserts(k)) \/ (\E n \in Container!Node : Container!RemoveNode(n))
    \/ Container!Clear

MCInit ==
  /\ OutInit /\ Container!Init
  /\ part \in {"listing", "many", "few"}

MCNext ==
  \/ part = "listing" /\ Next /\ UNCHANGED << part, containerVars >>
  \/ part # "listing" /\ ContainerNext /\ UNCHANGED << part, vars >>

MCSpec == MCInit /\ [][MCNext]_<< part, containerVars, vars >>

\* BalancedTree's properties of the container.
ListImplementsOrderedList == Container!ImplementsOrderedList
ListIsSound == part # "listing" => Container!TreeIsSearchable /\ Container!SumsAreRight
=============================================================================
