----------------------- MODULE TrailingThread_proofs -----------------------
(***************************************************************************)
(* Proofs about the modeling thread and the constraint thread, for every   *)
(* set of resources, every horizon and every bound on the histories.       *)
(***************************************************************************)
EXTENDS TrailingThread, FiniteSetTheorems, WellFoundedInduction, TLAPS

-----------------------------------------------------------------------------
(* Type correctness                                                        *)

\* A node added to a history keeps it a finite set of nodes: event numbers
\* are counts of nodes, so they are positive numbers.
LEMMA WithType ==
  ASSUME NEW H \in SUBSET (Time \X (Nat \ {0})), IsFiniteSet(H), NEW t \in Time
  PROVE  /\ With(H, t) \in SUBSET (Time \X (Nat \ {0}))
         /\ IsFiniteSet(With(H, t))
<1> DEFINE S == {n \in H : n[1] = t}
<1>1. Cardinality(S) \in Nat
  <2>1. IsFiniteSet(S)
    BY FS_Subset
  <2>2. QED
    BY <2>1, FS_CardinalityType
<1>2. Cardinality(S) + 1 \in Nat \ {0}
  BY <1>1
<1>3. <<t, Cardinality(S) + 1>> \in Time \X (Nat \ {0})
  BY <1>2
<1>4. IsFiniteSet(H \cup {<<t, Cardinality(S) + 1>>})
  BY FS_AddElement
<1>5. QED
  BY <1>3, <1>4 DEF With

LEMMA StartIsATime == Start \in Time /\ Time \subseteq Nat
BY BoundAssumption DEF Time

LEMMA InitTypeOK == Init => TypeOK
<1> SUFFICES ASSUME Init PROVE TypeOK
  OBVIOUS
<1> USE StartIsATime
<1>1. \A r \in Resource : IsFiniteSet(hist[r])
  BY FS_Singleton DEF Init
<1>2. NoVector \in Vector
  BY DEF NoVector, Vector, Node
<1>3. ModelTypeOK
  <2>1. hist \in [Resource -> SUBSET (Time \X (Nat \ {0}))]
    BY DEF Init
  <2>2. skipped \in [Resource -> Time \cup {None}]
    BY DEF Init
  <2>3. changed \in [Resource -> SUBSET Time] /\ trigger \in [Resource -> Node]
    BY DEF Init, Node
  <2>4. mpc = "store" /\ modelTime \in Time /\ advances \in 0..UpdateEvery /\ saves \in Nat
    BY BoundAssumption DEF Init
  <2>5. QED
    BY <1>1, <2>1, <2>2, <2>3, <2>4 DEF ModelTypeOK
<1>4. SharedTypeOK
  BY <1>2 DEF Init, SharedTypeOK, Thread
<1>5. peeked \in Resource
  BY ResourceAssumption DEF Init
<1>6. CheckTypeOK
  BY <1>2, <1>5 DEF Init, CheckTypeOK, Node
<1>7. QED
  BY <1>3, <1>4, <1>6 DEF TypeOK

\* The vector the modeling thread saves is a safe vector.
LEMMA SavedVectorType == ModelTypeOK /\ SharedTypeOK => SavedVector \in Vector
BY DEF ModelTypeOK, SharedTypeOK, SavedVector, Vector, Thread

\* The iterators the modeling thread can be left with are functions to nodes.
LEMMA TriggersAfterType ==
  ASSUME ModelTypeOK, NEW S, NEW f \in TriggersAfter(S)
  PROVE  f \in [Resource -> Node]
BY DEF TriggersAfter, ModelTypeOK, Node

\* A step of the modeling thread keeps the types of what it writes.
LEMMA ModelTypeStep ==
  ASSUME TypeOK, ModelNext
  PROVE  TypeOK'
<1> USE DEF TypeOK
<1> DEFINE Kept == UNCHANGED <<cpc, caller, iterVars, checkVars>>
<1>0. ASSUME Kept PROVE CheckTypeOK'
  BY <1>0 DEF CheckTypeOK, iterVars, checkVars
<1>1. CASE StoreFirstVector
  BY <1>1, <1>0, SavedVectorType DEF StoreFirstVector, ModelTypeOK, SharedTypeOK
<1>2. CASE FirstVectorCaptured
  BY <1>2, <1>0 DEF FirstVectorCaptured, ModelTypeOK, SharedTypeOK, sharedVars
<1>3. CASE DoModel
  <2> USE DEF HistoryUnchangedElsewhere
  <2>1. PICK r \in Resource : SkipNode(r) \/ SetNode(r) \/ UseNode(r)
    BY <1>3 DEF DoModel
  <2>2. CASE SkipNode(r)
    BY <2>2, <1>0 DEF SkipNode, ModelTypeOK, SharedTypeOK, sharedVars
  <2>3. CASE SetNode(r)
    <3> DEFINE H == IF skipped[r] = None THEN hist[r] ELSE With(hist[r], skipped[r])
    <3>1. H \in SUBSET (Time \X (Nat \ {0})) /\ IsFiniteSet(H)
      <4>1. skipped[r] # None => skipped[r] \in Time
        BY DEF ModelTypeOK
      <4>2. hist[r] \in SUBSET (Time \X (Nat \ {0})) /\ IsFiniteSet(hist[r])
        BY DEF ModelTypeOK
      <4>3. QED
        BY <4>1, <4>2, WithType
    <3>2. /\ With(H, modelTime) \in SUBSET (Time \X (Nat \ {0}))
          /\ IsFiniteSet(With(H, modelTime))
      BY <3>1, WithType DEF ModelTypeOK
    <3>3. hist' = [hist EXCEPT ![r] = With(H, modelTime)]
      BY <2>3 DEF SetNode
    <3> HIDE DEF H
    <3>4. ModelTypeOK'
      BY <2>3, <3>2, <3>3 DEF SetNode, ModelTypeOK
    <3>5. QED
      BY <2>3, <3>4, <1>0 DEF SetNode, SharedTypeOK, sharedVars
  <2>4. CASE UseNode(r)
    <3>1. PICK end \in modelTime..Horizon :
            /\ hist' = [hist EXCEPT ![r] = With(With(@, modelTime), end)]
            /\ changed' = [changed EXCEPT ![r] = @ \cup {modelTime, end}]
      BY <2>4 DEF UseNode
    <3>2. end \in Time
      BY BoundAssumption DEF ModelTypeOK, Time
    <3>3. hist[r] \in SUBSET (Time \X (Nat \ {0})) /\ IsFiniteSet(hist[r]) /\ modelTime \in Time
      BY DEF ModelTypeOK
    <3>4. /\ With(hist[r], modelTime) \in SUBSET (Time \X (Nat \ {0}))
          /\ IsFiniteSet(With(hist[r], modelTime))
      BY <3>3, WithType
    <3>5. /\ With(With(hist[r], modelTime), end) \in SUBSET (Time \X (Nat \ {0}))
          /\ IsFiniteSet(With(With(hist[r], modelTime), end))
      BY <3>2, <3>4, WithType
    <3>6. ModelTypeOK'
      BY <2>4, <3>1, <3>2, <3>5 DEF UseNode, ModelTypeOK
    <3>7. QED
      BY <2>4, <3>6, <1>0 DEF UseNode, SharedTypeOK, sharedVars
  <2>5. QED
    BY <2>1, <2>2, <2>3, <2>4
<1>4. ASSUME NEW t \in Time, AdvanceTime(t) PROVE TypeOK'
  <2>1. trigger' \in [Resource -> Node]
    BY <1>4, TriggersAfterType DEF AdvanceTime
  <2>2. advances' \in 0..UpdateEvery /\ mpc' \in {"loop", "offer"}
    BY <1>4, BoundAssumption DEF AdvanceTime, CountAdvance, ModelTypeOK
  <2>3. ModelTypeOK'
    BY <1>4, <2>1, <2>2 DEF AdvanceTime, ModelTypeOK
  <2>4. QED
    BY <1>4, <2>3, <1>0 DEF AdvanceTime, SharedTypeOK
<1>5. ASSUME NEW r \in Resource, WakeAhead(r) PROVE TypeOK'
  <2>1. trigger' \in [Resource -> Node]
    BY <1>5, TriggersAfterType DEF WakeAhead
  <2>2. advances' \in 0..UpdateEvery /\ mpc' \in {"loop", "offer"}
    BY <1>5, BoundAssumption DEF WakeAhead, CountAdvance, ModelTypeOK
  <2>3. modelTime' \in Time
    BY <1>5 DEF WakeAhead, ModelTypeOK
  <2>4. ModelTypeOK'
    BY <1>5, <2>1, <2>2, <2>3 DEF WakeAhead, ModelTypeOK
  <2>5. QED
    BY <1>5, <2>4, <1>0 DEF WakeAhead, SharedTypeOK, sharedVars
<1>6. CASE OfferVector
  BY <1>6, <1>0, SavedVectorType DEF OfferVector, ModelTypeOK, SharedTypeOK
<1>7. CASE RaiseFlag
  BY <1>7, <1>0 DEF RaiseFlag, ModelTypeOK, SharedTypeOK
<1>8. CASE NoMoreEvents
  <2>1. trigger' \in [Resource -> Node]
    BY <1>8, TriggersAfterType DEF NoMoreEvents
  <2>2. QED
    BY <1>8, <2>1, <1>0 DEF NoMoreEvents, ModelTypeOK, SharedTypeOK, sharedVars
<1>9. CASE SkipFinishedThread
  BY <1>9, <1>0 DEF SkipFinishedThread, ModelTypeOK, SharedTypeOK, sharedVars
<1>10. CASE FeedFlag
  BY <1>10, <1>0 DEF FeedFlag, ModelTypeOK, SharedTypeOK
<1>11. CASE FeedStore
  BY <1>11, <1>0, SavedVectorType DEF FeedStore, ModelTypeOK, SharedTypeOK
<1>12. CASE DeclareDone
  BY <1>12, <1>0 DEF DeclareDone, ModelTypeOK, SharedTypeOK
<1>13. CASE CheckThreadErrors
  BY <1>13, <1>0 DEF CheckThreadErrors, ModelTypeOK, SharedTypeOK, sharedVars
<1>14. CASE ModelingError
  BY <1>14, <1>0 DEF ModelingError, ModelTypeOK, SharedTypeOK, sharedVars
<1>15. CASE CatchDone
  BY <1>15, <1>0 DEF CatchDone, ModelTypeOK, SharedTypeOK
<1>16. CASE CatchErrors
  BY <1>16, <1>0 DEF CatchErrors, ModelTypeOK, SharedTypeOK
<1>17. CASE DestroyAllThreads
  BY <1>17, <1>0 DEF DestroyAllThreads, ModelTypeOK, SharedTypeOK, sharedVars
<1>18. QED
  BY <1>1, <1>2, <1>3, <1>4, <1>5, <1>6, <1>7, <1>8, <1>9, <1>10, <1>11, <1>12, <1>13,
     <1>14, <1>15, <1>16, <1>17 DEF ModelNext

\* A node found in a history, or carried by a safe vector, is a node.
LEMMA HistoryNodes == ModelTypeOK => \A r \in Resource : \A n \in hist[r] : n \in Node
BY DEF ModelTypeOK, Node

LEMMA CheckTypeStep ==
  ASSUME TypeOK, CheckNext
  PROVE  TypeOK'
<1> USE DEF TypeOK
<1> DEFINE Kept == UNCHANGED modelVars
<1>0. ASSUME Kept PROVE ModelTypeOK'
  BY <1>0 DEF ModelTypeOK, modelVars
<1>1. CASE ConstructIterator
  <2>1. CheckTypeOK'
    BY <1>1 DEF ConstructIterator, CheckTypeOK, SharedTypeOK, Vector, checkVars
  <2>2. QED
    BY <1>1, <1>0, <2>1 DEF ConstructIterator, SharedTypeOK
<1>2. CASE RegisterResources
  <2>1. CheckTypeOK'
    BY <1>2 DEF RegisterResources, CheckTypeOK, Vector, checkVars
  <2>2. QED
    BY <1>2, <1>0, <2>1 DEF RegisterResources, SharedTypeOK, sharedVars
<1>3. CASE RegistrationError
  BY <1>3, <1>0 DEF RegistrationError, CheckTypeOK, SharedTypeOK, iterVars, checkVars
<1>4. CASE Sample
  BY <1>4, <1>0 DEF Sample, CheckTypeOK, SharedTypeOK, sharedVars, checkVars, Thread
<1>5. CASE TestFlag
  BY <1>5, <1>0 DEF TestFlag, CheckTypeOK, SharedTypeOK, sharedVars, checkVars
<1>6. CASE AdoptVector
  BY <1>6, <1>0 DEF AdoptVector, CheckTypeOK, SharedTypeOK, sharedVars, checkVars
<1>7. CASE SetCaptured
  BY <1>7, <1>0 DEF SetCaptured, CheckTypeOK, SharedTypeOK, iterVars, checkVars
<1>8. CASE ReviveTrailers
  <2>1. PICK f \in [Resource -> UNION {hist[r] : r \in Resource}] : node' = f
    BY <1>8 DEF ReviveTrailers
  <2>2. UNION {hist[r] : r \in Resource} \subseteq Node
    BY HistoryNodes
  <2>3. node' \in [Resource -> Node]
    BY <2>1, <2>2
  <2>4. CheckTypeOK'
    BY <1>8, <2>3 DEF ReviveTrailers, CheckTypeOK, Vector, checkVars
  <2>5. QED
    BY <1>8, <1>0, <2>4 DEF ReviveTrailers, SharedTypeOK
<1>9. ASSUME NEW r \in Resource, ServeNode(r) PROVE TypeOK'
  <2>1. node[r][1] \in Time
    BY DEF CheckTypeOK, Node
  <2>2. CASE caller = "next" /\ ConsumeNode(r) /\ prevTime' = node[r][1] /\ cpc' = "sample"
             /\ caller' = "peek" /\ UNCHANGED <<peeked, curTime>>
    <3>1. node' \in [Resource -> Node] /\ onHold' \subseteq Resource
      <4>1. CASE node[r] = model_vector.safe[r]
        BY <2>2, <4>1 DEF ConsumeNode, CheckTypeOK
      <4>2. CASE node[r] # model_vector.safe[r]
        <5>1. PICK n \in hist[r] : node' = [node EXCEPT ![r] = n]
          BY <2>2, <4>2 DEF ConsumeNode
        <5>2. n \in Node
          BY HistoryNodes
        <5>3. QED
          BY <2>2, <4>2, <5>1, <5>2 DEF ConsumeNode, CheckTypeOK
      <4>3. QED
        BY <4>1, <4>2
    <3>2. CheckTypeOK'
      BY <1>9, <2>1, <2>2, <3>1 DEF ServeNode, CheckTypeOK
    <3>3. QED
      BY <1>9, <1>0, <3>2 DEF ServeNode, SharedTypeOK, sharedVars
  <2>3. CASE caller # "next"
    <3>1. CheckTypeOK'
      BY <1>9, <2>1, <2>3 DEF ServeNode, CheckTypeOK
    <3>2. QED
      BY <1>9, <1>0, <3>1 DEF ServeNode, SharedTypeOK, sharedVars
  <2>4. QED
    BY <1>9, <2>2, <2>3 DEF ServeNode
<1>10. CASE FinishIfMasterDone
  <2>1. CheckTypeOK'
    BY <1>10 DEF FinishIfMasterDone, ReturnNull, CheckTypeOK, iterVars, checkVars
  <2>2. QED
    BY <1>10, <1>0, <2>1 DEF FinishIfMasterDone, ReturnNull, SharedTypeOK
<1>11. CASE BailOutOrWait
  <2>1. CheckTypeOK'
    BY <1>11 DEF BailOutOrWait, ReturnNull, CheckTypeOK, iterVars, checkVars
  <2>2. QED
    BY <1>11, <1>0, <2>1 DEF BailOutOrWait, ReturnNull, SharedTypeOK
<1>12. CASE GatherNode
  BY <1>12, <1>0 DEF GatherNode, CheckTypeOK, SharedTypeOK, sharedVars, iterVars
<1>13. CASE EvaluateConstraints
  <2>1. node[peeked][1] \in Time
    BY DEF CheckTypeOK, Node
  <2>2. QED
    BY <1>13, <1>0, <2>1 DEF EvaluateConstraints, CheckTypeOK, SharedTypeOK, iterVars, Thread
<1>14. CASE EvaluationError
  BY <1>14, <1>0 DEF EvaluationError, CheckTypeOK, SharedTypeOK, iterVars, checkVars
<1>15. CASE FinishChecking
  BY <1>15, <1>0 DEF FinishChecking, CheckTypeOK, SharedTypeOK, iterVars, checkVars
<1>16. QED
  BY <1>1, <1>2, <1>3, <1>4, <1>5, <1>6, <1>7, <1>8, <1>9, <1>10, <1>11, <1>12, <1>13,
     <1>14, <1>15 DEF CheckNext

\* Every variable of the two threads has its type in every reachable state.
THEOREM TypeCorrect == Spec => []TypeOK
<1>1. ASSUME TypeOK, UNCHANGED vars PROVE TypeOK'
  BY <1>1 DEF TypeOK, ModelTypeOK, SharedTypeOK, CheckTypeOK, vars, modelVars, sharedVars,
              iterVars, checkVars
<1>2. TypeOK /\ [Next]_vars => TypeOK'
  BY <1>1, ModelTypeStep, CheckTypeStep DEF Next, Terminated
<1>3. QED
  BY InitTypeOK, <1>2, PTL DEF Spec
-----------------------------------------------------------------------------
(* The constraint thread stays behind the modeling thread                  *)

\* The clocks that bound what get_new_data may return never overtake the
\* modeling thread's SafeTime, and neither does anything derived from them.
TimeInv ==
  /\ SafeTime["model"] <= modelTime
  /\ SafeVector.time <= SafeTime["model"]
  /\ masterTime <= SafeTime["model"]
  /\ curTime <= SafeTime["model"]
  /\ SafeTime["constraint"] <= curTime
  /\ cpc = "process" => node[peeked][1] <= SafeTime["model"]
  /\ cpc \in {"await", "register"} => caller = "first"
  /\ cpc = "process" => caller = "peek"
  /\ caller = "first" => SafeTime["constraint"] = Start

LEMMA InitTimeInv == Init => TimeInv
BY StartIsATime DEF Init, TimeInv, NoVector, Thread

\* Typed instances of the clocks, for the arithmetic of the steps below.
LEMMA Clocks ==
  ASSUME TypeOK
  PROVE  /\ SafeTime["model"] \in Nat /\ SafeTime["constraint"] \in Nat
         /\ modelTime \in Nat /\ masterTime \in Nat /\ curTime \in Nat
         /\ SafeVector.time \in Nat
         /\ \A r \in Resource : node[r][1] \in Nat
         /\ peeked \in Resource
         /\ \A r \in Resource : \A n \in hist[r] : n[1] \in Nat
<1>1. SafeTime["model"] \in Time /\ SafeTime["constraint"] \in Time /\ SafeVector.time \in Time
  BY DEF TypeOK, SharedTypeOK, Vector, Thread
<1>2. modelTime \in Time /\ \A r \in Resource : \A n \in hist[r] : n[1] \in Time
  BY DEF TypeOK, ModelTypeOK
<1>3. /\ masterTime \in Time /\ curTime \in Time /\ peeked \in Resource
      /\ \A r \in Resource : node[r][1] \in Time
  BY DEF TypeOK, CheckTypeOK, Node
<1>4. QED
  BY <1>1, <1>2, <1>3, StartIsATime

\* The modeling thread only moves its clocks forward, its SafeTime last.
LEMMA TimeInvModelStep ==
  ASSUME TypeOK, TimeInv, ModelNext
  PROVE  TimeInv'
<1> USE Clocks DEF TimeInv
<1>1. ASSUME UNCHANGED <<modelTime, SafeTime, cpc, caller, iterVars, checkVars>>,
             SafeVector' = SafeVector \/ SafeVector' = SavedVector
      PROVE  TimeInv'
  BY <1>1 DEF SavedVector, iterVars, checkVars
<1>2. CASE StoreFirstVector \/ FirstVectorCaptured \/ OfferVector \/ RaiseFlag \/ NoMoreEvents
           \/ SkipFinishedThread \/ FeedFlag \/ FeedStore \/ DeclareDone \/ CheckThreadErrors
           \/ ModelingError \/ CatchDone \/ CatchErrors \/ DestroyAllThreads
  BY <1>1, <1>2 DEF StoreFirstVector, FirstVectorCaptured, OfferVector, RaiseFlag,
     NoMoreEvents, SkipFinishedThread, FeedFlag, FeedStore, DeclareDone, CheckThreadErrors,
     ModelingError, CatchDone, CatchErrors, DestroyAllThreads, sharedVars
<1>3. CASE DoModel
  BY <1>1, <1>3 DEF DoModel, SkipNode, SetNode, UseNode, HistoryUnchangedElsewhere, sharedVars
<1>4. ASSUME NEW t \in Time, AdvanceTime(t) PROVE TimeInv'
  <2>1. t \in Nat /\ t > SafeTime["model"]
    BY <1>4, StartIsATime DEF AdvanceTime
  <2>2. SafeTime'["model"] = t /\ SafeTime'["constraint"] = SafeTime["constraint"]
    BY <1>4 DEF AdvanceTime, TypeOK, SharedTypeOK, Thread
  <2>3. modelTime' = t /\ UNCHANGED <<SafeVector, cpc, caller, masterTime, curTime, peeked, node>>
    BY <1>4 DEF AdvanceTime, iterVars, checkVars
  <2>4. QED
    BY <2>1, <2>2, <2>3
<1>5. ASSUME NEW r \in Resource, WakeAhead(r) PROVE TimeInv'
  <2>1. modelTime' > modelTime /\ modelTime' \in Nat
    BY <1>5 DEF WakeAhead
  <2>2. UNCHANGED <<SafeTime, SafeVector, cpc, caller, masterTime, curTime, peeked, node>>
    BY <1>5 DEF WakeAhead, sharedVars, iterVars, checkVars
  <2>3. QED
    BY <2>1, <2>2
<1>6. QED
  BY <1>2, <1>3, <1>4, <1>5 DEF ModelNext

\* The constraint thread samples SafeTime before it serves a node, and only
\* leaves a time behind for one it has been served.
LEMMA TimeInvCheckStep ==
  ASSUME TypeOK, TimeInv, CheckNext
  PROVE  TimeInv'
<1> USE Clocks DEF TimeInv
<1>1. ASSUME UNCHANGED <<modelTime, SafeTime, SafeVector, masterTime, curTime>>,
             cpc' # "process", caller' = "first" => caller = "first",
             cpc' \in {"await", "register"} => caller' = "first"
      PROVE  TimeInv'
  BY <1>1
<1>2. CASE ConstructIterator \/ RegisterResources \/ RegistrationError \/ TestFlag
           \/ AdoptVector \/ SetCaptured \/ ReviveTrailers \/ GatherNode \/ FinishChecking
  BY <1>1, <1>2 DEF ConstructIterator, RegisterResources, RegistrationError, TestFlag,
     AdoptVector, SetCaptured, ReviveTrailers, GatherNode, FinishChecking, modelVars,
     sharedVars, iterVars, checkVars
<1>3. CASE FinishIfMasterDone \/ BailOutOrWait
  <2>1. cpc' \in {"crashed", "finish", "sample", "checkErrors"}
    BY <1>3 DEF FinishIfMasterDone, BailOutOrWait, ReturnNull, TypeOK, CheckTypeOK
  <2>2. caller' = "first" => caller = "first"
    BY <1>3 DEF FinishIfMasterDone, BailOutOrWait, ReturnNull
  <2>3. QED
    BY <1>1, <1>3, <2>1, <2>2 DEF FinishIfMasterDone, BailOutOrWait, modelVars, iterVars,
       checkVars
<1>4. CASE Sample
  BY <1>4 DEF Sample, modelVars, sharedVars, checkVars
<1>5. ASSUME NEW r \in Resource, ServeNode(r) PROVE TimeInv'
  <2>1. node[r][1] <= masterTime
    BY <1>5 DEF ServeNode, MayServe
  <2>2. UNCHANGED <<modelTime, SafeTime, SafeVector, masterTime>>
    BY <1>5 DEF ServeNode, modelVars, sharedVars
  <2>3. CASE caller = "first"
    <3>1. cpc' = "sample" /\ caller' = "peek" /\ curTime' = node[r][1]
      BY <1>5, <2>3 DEF ServeNode
    <3>2. Start <= node[r][1]
      BY StartIsATime DEF TypeOK, CheckTypeOK, Node, Time
    <3>3. QED
      BY <2>1, <2>2, <2>3, <3>1, <3>2
  <2>4. CASE caller = "peek"
    BY <1>5, <2>1, <2>2, <2>4 DEF ServeNode
  <2>5. CASE caller = "next"
    BY <1>5, <2>2, <2>5 DEF ServeNode
  <2>6. QED
    BY <2>3, <2>4, <2>5 DEF TypeOK, CheckTypeOK
<1>6. CASE EvaluateConstraints \/ EvaluationError
  <2>1. /\ SafeTime'["model"] = SafeTime["model"]
        /\ SafeTime'["constraint"] = curTime
    BY <1>6 DEF EvaluateConstraints, EvaluationError, TypeOK, SharedTypeOK, Thread
  <2>2. curTime' \in Nat /\ curTime' >= curTime /\ curTime' <= SafeTime["model"]
    BY <1>6 DEF EvaluateConstraints, EvaluationError, checkVars
  <2>3. /\ UNCHANGED <<modelTime, SafeVector, masterTime>>
        /\ cpc' \in {"sample", "exited"} /\ caller' # "first"
    BY <1>6 DEF EvaluateConstraints, EvaluationError, modelVars, iterVars
  <2>4. QED
    BY <2>1, <2>2, <2>3
<1>7. QED
  BY <1>2, <1>3, <1>4, <1>5, <1>6 DEF CheckNext

LEMMA TimeInvariant == Spec => []TimeInv
<1>1. ASSUME TimeInv, UNCHANGED vars PROVE TimeInv'
  BY <1>1 DEF TimeInv, vars, modelVars, sharedVars, iterVars, checkVars
<1>2. TypeOK /\ TimeInv /\ [Next]_vars => TimeInv'
  BY <1>1, TimeInvModelStep, TimeInvCheckStep DEF Next, Terminated
<1>3. QED
  BY InitTimeInv, TypeCorrect, <1>2, PTL DEF Spec
-----------------------------------------------------------------------------
(* What the trailing thread reads is final                                 *)

LEMMA ChangesAreNotInThePast ==
  ASSUME TypeOK, TimeInv, [Next]_vars
  PROVE  \A r \in Resource : \A t \in changed'[r] \ changed[r] : t >= curTime
<1> SUFFICES ASSUME NEW r \in Resource, NEW t \in changed'[r] \ changed[r]
             PROVE  t >= curTime
  OBVIOUS
<1>1. changed' # changed
  OBVIOUS
<1>2. DoModel
  <2>1. ModelNext
    <3>1. ASSUME UNCHANGED changed PROVE FALSE
      BY <1>1, <3>1
    <3>2. CheckNext => UNCHANGED changed
      BY DEF CheckNext, ConstructIterator, RegisterResources, RegistrationError, Sample,
         TestFlag, AdoptVector, SetCaptured, ReviveTrailers, ServeNode, FinishIfMasterDone,
         BailOutOrWait, GatherNode, EvaluateConstraints, EvaluationError, FinishChecking,
         modelVars
    <3>3. Terminated \/ UNCHANGED vars => UNCHANGED changed
      BY DEF Terminated, vars, modelVars
    <3>4. QED
      BY <3>1, <3>2, <3>3 DEF Next
  <2>2. QED
    BY <1>1, <2>1 DEF ModelNext, StoreFirstVector, FirstVectorCaptured, AdvanceTime,
       WakeAhead, OfferVector, RaiseFlag, NoMoreEvents, SkipFinishedThread, FeedFlag,
       FeedStore, DeclareDone, CheckThreadErrors, ModelingError, CatchDone, CatchErrors,
       DestroyAllThreads
<1>3. PICK q \in Resource : SetNode(q) \/ UseNode(q)
  BY <1>1, <1>2 DEF DoModel, SkipNode
<1>4. changed \in [Resource -> SUBSET Time]
  BY DEF TypeOK, ModelTypeOK
<1>5. modelTime \in Nat /\ curTime \in Nat /\ curTime <= modelTime
  <2>1. modelTime = SafeTime["model"]
    BY <1>3 DEF SetNode, UseNode, AtCurrentEvent
  <2>2. QED
    BY <2>1, Clocks DEF TimeInv
<1>6. CASE SetNode(q)
  <2>1. changed' = [changed EXCEPT ![q] = @ \cup {modelTime}]
    BY <1>6 DEF SetNode
  <2>2. t = modelTime
    BY <1>4, <2>1
  <2>3. QED
    BY <1>5, <2>2
<1>7. CASE UseNode(q)
  <2>1. PICK end \in modelTime..Horizon :
          changed' = [changed EXCEPT ![q] = @ \cup {modelTime, end}]
    BY <1>7 DEF UseNode
  <2>2. t = modelTime \/ t = end
    BY <1>4, <2>1
  <2>3. end \in Nat /\ end >= modelTime
    BY <1>5, BoundAssumption
  <2>4. QED
    BY <1>5, <2>2, <2>3
<1>8. QED
  BY <1>3, <1>6, <1>7

\* Whatever the thread interleaving, no resource changes at a time at which
\* check_constraints has evaluated constraints.
THEOREM PastIsFinal == Spec => NoChangeInThePast
<1>1. TypeOK /\ TimeInv /\ [Next]_vars =>
        [\A r \in Resource : \A t \in changed'[r] \ changed[r] : t >= curTime]_vars
  BY ChangesAreNotInThePast
<1>2. QED
  BY TypeCorrect, TimeInvariant, <1>1, PTL DEF Spec, NoChangeInThePast
-----------------------------------------------------------------------------
(* The two threads implement LeaderFollower                                *)

LEMMA LFInitialState == Init => LF!LFInit
BY DEF Init, LF!LFInit, Thread

\* Only AdvanceTime moves the leader, and a thread that stopped leading does
\* not lead again.
LEMMA LFModelStep ==
  ASSUME TypeOK, TimeInv, ModelNext
  PROVE  [LF!LFNext]_(LF!lfVars)
<1> DEFINE leading == mpc \in {"store", "await", "loop", "offer", "raise"}
<1>1. ASSUME UNCHANGED SafeTime, leading' => leading
      PROVE  [LF!LFNext]_(LF!lfVars)
  BY <1>1 DEF LF!LFNext, LF!StopLeading, LF!lfVars
<1>2. CASE StoreFirstVector \/ FirstVectorCaptured \/ OfferVector \/ RaiseFlag \/ NoMoreEvents
           \/ SkipFinishedThread \/ FeedFlag \/ FeedStore \/ DeclareDone \/ CheckThreadErrors
           \/ ModelingError \/ CatchDone \/ CatchErrors \/ DestroyAllThreads
  BY <1>1, <1>2 DEF StoreFirstVector, FirstVectorCaptured, OfferVector, RaiseFlag,
     NoMoreEvents, SkipFinishedThread, FeedFlag, FeedStore, DeclareDone, CheckThreadErrors,
     ModelingError, CatchDone, CatchErrors, DestroyAllThreads, sharedVars
<1>3. CASE DoModel
  BY <1>1, <1>3 DEF DoModel, SkipNode, SetNode, UseNode, HistoryUnchangedElsewhere, sharedVars
<1>4. ASSUME NEW t \in Time, AdvanceTime(t) PROVE [LF!LFNext]_(LF!lfVars)
  <2>1. leading /\ leading'
    BY <1>4 DEF AdvanceTime, CountAdvance
  <2>2. /\ SafeTime'["model"] = t
        /\ SafeTime'["constraint"] = SafeTime["constraint"]
    BY <1>4 DEF AdvanceTime, TypeOK, SharedTypeOK, Thread
  <2>3. t \in (SafeTime["model"] + 1)..Horizon
    BY <1>4, Clocks, BoundAssumption DEF AdvanceTime, Time
  <2>4. LF!Lead
    BY <2>1, <2>2, <2>3 DEF LF!Lead
  <2>5. QED
    BY <2>4 DEF LF!LFNext
<1>5. ASSUME NEW r \in Resource, WakeAhead(r) PROVE [LF!LFNext]_(LF!lfVars)
  BY <1>1, <1>5 DEF WakeAhead, CountAdvance, AtCurrentEvent, sharedVars
<1>6. QED
  BY <1>2, <1>3, <1>4, <1>5 DEF ModelNext

\* Only an evaluation moves the follower, to a time the leader went beyond.
LEMMA LFCheckStep ==
  ASSUME TypeOK, TimeInv, CheckNext
  PROVE  [LF!LFNext]_(LF!lfVars)
<1>1. UNCHANGED mpc
  BY DEF CheckNext, ConstructIterator, RegisterResources, RegistrationError, Sample,
     TestFlag, AdoptVector, SetCaptured, ReviveTrailers, ServeNode, FinishIfMasterDone,
     BailOutOrWait, GatherNode, EvaluateConstraints, EvaluationError, FinishChecking,
     modelVars
<1>2. CASE UNCHANGED SafeTime
  BY <1>1, <1>2 DEF LF!lfVars
<1>3. CASE EvaluateConstraints \/ EvaluationError
  <2>1. cpc = "process" /\ node[peeked][1] > curTime
    BY <1>3 DEF EvaluateConstraints, EvaluationError
  <2>2. /\ SafeTime'["constraint"] = curTime
        /\ SafeTime'["model"] = SafeTime["model"]
    BY <1>3 DEF EvaluateConstraints, EvaluationError, TypeOK, SharedTypeOK, Thread
  <2>3. /\ curTime \in SafeTime["constraint"]..Horizon
        /\ curTime < SafeTime["model"]
    <3>1. curTime <= Horizon /\ Horizon \in Nat
      BY BoundAssumption DEF TypeOK, CheckTypeOK, Time
    <3>2. QED
      BY <2>1, <3>1, Clocks DEF TimeInv
  <2>4. LF!Follow
    BY <1>1, <2>2, <2>3 DEF LF!Follow
  <2>5. QED
    BY <2>4 DEF LF!LFNext
<1>4. CASE ~(EvaluateConstraints \/ EvaluationError)
  <2>1. UNCHANGED SafeTime
    BY <1>4 DEF CheckNext, ConstructIterator, RegisterResources, RegistrationError, Sample,
       TestFlag, AdoptVector, SetCaptured, ReviveTrailers, ServeNode, FinishIfMasterDone,
       BailOutOrWait, GatherNode, FinishChecking, sharedVars
  <2>2. QED
    BY <1>2, <2>1
<1>5. QED
  BY <1>3, <1>4

\* The protocol of flags, pointers and vectors implements a follower that
\* evaluates strictly behind its leader, on a clock that never goes back.
THEOREM ImplementsLeaderFollower == Spec => EvaluatesBehindLeader
<1>1. ASSUME UNCHANGED vars PROVE UNCHANGED LF!lfVars
  BY <1>1 DEF vars, modelVars, sharedVars, LF!lfVars
<1>2. TypeOK /\ TimeInv /\ [Next]_vars => [LF!LFNext]_(LF!lfVars)
  BY <1>1, LFModelStep, LFCheckStep DEF Next, Terminated
<1>3. QED
  BY LFInitialState, TypeCorrect, TimeInvariant, <1>2, PTL
     DEF Spec, EvaluatesBehindLeader, LF!LFSpec
-----------------------------------------------------------------------------
(* A lowered flag announces a new vector                                   *)

\* The modeling thread still offers vectors pointer first, flag second.
Offering == mpc \notin {"feedStore", "setDone"} /\ ~Done["model"]

\* The flag is down while a vector is adopted; while vectors are offered, the
\* pointer behind a lowered flag, or about to be announced by lowering it, is
\* newer than the vector the trailing_miter owns.
HandoverInv ==
  /\ SafeVector.id <= saves
  /\ model_vector.id <= SafeVector.id
  /\ cpc \in {"await", "adopt", "capture"} => ~captured
  /\ Offering /\ mpc = "raise" => captured /\ SafeVector.id > model_vector.id
  /\ Offering /\ ~captured /\ cpc \notin {"await", "capture"} => SafeVector.id > model_vector.id
  /\ Offering /\ cpc = "adopt" => loaded = SafeVector
  /\ cpc = "adopt" => loaded.id <= SafeVector.id
  /\ mpc = "store" => SafeVector.id = 0
  /\ SafeVector.id = 0 => cpc = "await"

LEMMA InitHandoverInv == Init => HandoverInv
BY DEF Init, HandoverInv, NoVector

LEMMA VectorIds ==
  ASSUME TypeOK
  PROVE  /\ saves \in Nat /\ SafeVector.id \in Nat /\ loaded.id \in Nat
         /\ model_vector.id \in Nat /\ captured \in BOOLEAN
         /\ SavedVector.id = saves + 1
BY DEF TypeOK, ModelTypeOK, SharedTypeOK, CheckTypeOK, Vector, SavedVector

LEMMA HandoverModelStep ==
  ASSUME TypeOK, HandoverInv, ModelNext
  PROVE  HandoverInv'
<1> USE VectorIds DEF HandoverInv, Offering
<1>1. UNCHANGED <<cpc, loaded, model_vector>>
  BY DEF ModelNext, StoreFirstVector, FirstVectorCaptured, DoModel, SkipNode, SetNode, UseNode,
     HistoryUnchangedElsewhere, AdvanceTime, WakeAhead, OfferVector, RaiseFlag, NoMoreEvents,
     SkipFinishedThread, FeedFlag, FeedStore, DeclareDone, CheckThreadErrors, ModelingError,
     CatchDone, CatchErrors, DestroyAllThreads, iterVars
<1>2. ASSUME UNCHANGED <<saves, Done, SafeVector, captured>>,
             mpc' \notin {"store", "raise"},
             mpc \in {"feedStore", "setDone"} => mpc' \in {"feedStore", "setDone"}
      PROVE  HandoverInv'
  BY <1>1, <1>2
<1>3. CASE FirstVectorCaptured \/ NoMoreEvents \/ SkipFinishedThread \/ CheckThreadErrors
           \/ ModelingError \/ DestroyAllThreads
  BY <1>2, <1>3 DEF FirstVectorCaptured, NoMoreEvents, SkipFinishedThread, CheckThreadErrors,
     ModelingError, DestroyAllThreads, AtCurrentEvent, sharedVars
<1>4. CASE DoModel
  BY <1>2, <1>4 DEF DoModel, SkipNode, SetNode, UseNode, AtCurrentEvent,
     HistoryUnchangedElsewhere, sharedVars
<1>5. ASSUME NEW t \in Time, AdvanceTime(t) PROVE HandoverInv'
  BY <1>2, <1>5 DEF AdvanceTime, CountAdvance
<1>6. ASSUME NEW r \in Resource, WakeAhead(r) PROVE HandoverInv'
  BY <1>2, <1>6 DEF WakeAhead, CountAdvance, AtCurrentEvent, sharedVars
<1>7. CASE StoreFirstVector
  <2>1. cpc = "await" /\ mpc' = "await" /\ saves' = saves + 1 /\ SafeVector'.id = saves + 1
    BY <1>7 DEF StoreFirstVector
  <2>2. UNCHANGED <<Done, captured>>
    BY <1>7 DEF StoreFirstVector
  <2>3. QED
    BY <1>1, <2>1, <2>2
<1>8. CASE OfferVector
  <2>1. CASE captured
    <3>1. mpc' = "raise" /\ saves' = saves + 1 /\ SafeVector'.id = saves + 1
      BY <1>8, <2>1 DEF OfferVector
    <3>2. UNCHANGED <<Done, captured>>
      BY <1>8 DEF OfferVector
    <3>3. QED
      BY <1>1, <2>1, <3>1, <3>2
  <2>2. CASE ~captured
    BY <1>2, <1>8, <2>2 DEF OfferVector
  <2>3. QED
    BY <2>1, <2>2
<1>9. CASE RaiseFlag
  <2>1. mpc = "raise" /\ mpc' = "loop" /\ captured' = FALSE
    BY <1>9 DEF RaiseFlag
  <2>2. UNCHANGED <<Done, saves, SafeVector>>
    BY <1>9 DEF RaiseFlag
  <2>3. QED
    BY <1>1, <2>1, <2>2
<1>10. CASE FeedFlag
  <2>1. mpc' = "feedStore" /\ captured' = FALSE /\ UNCHANGED <<saves, SafeVector>>
    BY <1>10 DEF FeedFlag
  <2>2. QED
    BY <1>1, <2>1
<1>11. CASE FeedStore
  <2>1. mpc' = "setDone" /\ saves' = saves + 1 /\ SafeVector'.id = saves + 1
    BY <1>11 DEF FeedStore
  <2>2. UNCHANGED captured
    BY <1>11 DEF FeedStore
  <2>3. QED
    BY <1>1, <2>1, <2>2
<1>12. CASE DeclareDone \/ CatchDone
  <2>1. Done'["model"] = TRUE
    BY <1>12 DEF DeclareDone, CatchDone, TypeOK, SharedTypeOK, Thread
  <2>2. UNCHANGED <<saves, SafeVector, captured>> /\ mpc' # "store"
    BY <1>12 DEF DeclareDone, CatchDone
  <2>3. QED
    BY <1>1, <2>1, <2>2
<1>13. CASE CatchErrors
  BY <1>2, <1>13 DEF CatchErrors
<1>14. QED
  BY <1>3, <1>4, <1>5, <1>6, <1>7, <1>8, <1>9, <1>10, <1>11, <1>12, <1>13 DEF ModelNext

LEMMA HandoverCheckStep ==
  ASSUME TypeOK, HandoverInv, CheckNext
  PROVE  HandoverInv'
<1> USE VectorIds DEF HandoverInv, Offering
<1>1. /\ UNCHANGED <<mpc, saves, SafeVector>>
      /\ Done'["model"] = Done["model"]
  BY DEF CheckNext, ConstructIterator, RegisterResources, RegistrationError, Sample,
     TestFlag, AdoptVector, SetCaptured, ReviveTrailers, ServeNode, FinishIfMasterDone,
     BailOutOrWait, ReturnNull, GatherNode, EvaluateConstraints, EvaluationError,
     FinishChecking, modelVars, sharedVars, TypeOK, SharedTypeOK, Thread
<1>2. ASSUME UNCHANGED <<captured, model_vector>>,
             cpc \notin {"await", "adopt", "capture"},
             cpc' \notin {"await", "adopt", "capture"}
      PROVE  HandoverInv'
  BY <1>1, <1>2
<1>3. CASE RegisterResources \/ RegistrationError \/ Sample \/ ReviveTrailers \/ GatherNode
           \/ EvaluateConstraints \/ EvaluationError \/ FinishChecking
  BY <1>2, <1>3 DEF RegisterResources, RegistrationError, Sample, ReviveTrailers, GatherNode,
     EvaluateConstraints, EvaluationError, FinishChecking, sharedVars, iterVars
<1>4. CASE FinishIfMasterDone \/ BailOutOrWait
  <2>1. cpc' \in {"crashed", "finish", "sample", "checkErrors"}
    BY <1>4 DEF FinishIfMasterDone, BailOutOrWait, ReturnNull, TypeOK, CheckTypeOK
  <2>2. QED
    BY <1>2, <1>4, <2>1 DEF FinishIfMasterDone, BailOutOrWait, iterVars
<1>5. ASSUME NEW r \in Resource, ServeNode(r) PROVE HandoverInv'
  BY <1>2, <1>5 DEF ServeNode, sharedVars
<1>6. CASE ConstructIterator
  <2>1. cpc = "await" /\ cpc' = "register" /\ captured' = TRUE /\ model_vector' = SafeVector
    BY <1>6 DEF ConstructIterator
  <2>2. SafeVector.id # 0
    BY <1>6 DEF ConstructIterator
  <2>3. mpc # "store"
    <3>1. mpc = "store" => SafeVector.id = 0
      OBVIOUS
    <3>2. QED
      BY <2>2, <3>1
  <2>4. QED
    BY <1>1, <2>1, <2>2, <2>3
<1>7. CASE TestFlag
  <2>1. CASE captured
    BY <1>2, <1>7, <2>1 DEF TestFlag, sharedVars
  <2>2. CASE ~captured
    <3>1. cpc = "test" /\ cpc' = "adopt" /\ loaded' = SafeVector
      BY <1>7, <2>2 DEF TestFlag
    <3>2. UNCHANGED <<captured, model_vector>>
      BY <1>7 DEF TestFlag, sharedVars
    <3>3. QED
      BY <1>1, <2>2, <3>1, <3>2
  <2>3. QED
    BY <2>1, <2>2
<1>8. CASE AdoptVector
  <2>1. /\ cpc = "adopt" /\ model_vector' = loaded
        /\ UNCHANGED <<captured, loaded>>
        /\ cpc' = "capture" \/ (cpc' = "crashed" /\ loaded.id = model_vector.id)
    BY <1>8 DEF AdoptVector, sharedVars
  <2>2. QED
    BY <1>1, <2>1
<1>9. CASE SetCaptured
  <2>1. cpc = "capture" /\ cpc' = "revive" /\ captured' = TRUE /\ UNCHANGED model_vector
    BY <1>9 DEF SetCaptured, iterVars
  <2>2. QED
    BY <1>1, <2>1
<1>10. QED
  BY <1>3, <1>4, <1>5, <1>6, <1>7, <1>8, <1>9 DEF CheckNext

LEMMA HandoverInvariant == Spec => []HandoverInv
<1>1. ASSUME HandoverInv, UNCHANGED vars PROVE HandoverInv'
  BY <1>1 DEF HandoverInv, Offering, vars, modelVars, sharedVars, iterVars, checkVars
<1>2. TypeOK /\ HandoverInv /\ [Next]_vars => HandoverInv'
  BY <1>1, HandoverModelStep, HandoverCheckStep DEF Next, Terminated
<1>3. QED
  BY InitHandoverInv, TypeCorrect, <1>2, PTL DEF Spec

\* While advance_now_to offers vectors, the pointer a trailing thread adopts
\* is never the one it already owns and is about to delete.
THEOREM HandoverIsFresh == Spec => []VectorsAreFresh
<1>1. TypeOK /\ HandoverInv => VectorsAreFresh
  BY VectorIds DEF HandoverInv, Offering, VectorsAreFresh
<1>2. QED
  BY TypeCorrect, HandoverInvariant, <1>1, PTL
-----------------------------------------------------------------------------
(* The pieces of the histories that a safe vector closes                   *)

Modeling == {"store", "await", "loop", "offer", "raise"}

\* Event numbers count the nodes of a history at one time.
Numbered(H) == \A n \in H : n[2] <= Cardinality({m \in H : m[1] = n[1]})

\* Where a history can still grow: after every node the modeling thread has
\* consumed, and a node that was filtered out after every node of its history.
HistoryInv ==
  /\ \A r \in Resource : Numbered(hist[r])
  /\ \A r \in Resource \ Nonconsumable : \A n \in hist[r] : n[1] <= modelTime
  /\ \A r \in Resource : skipped[r] # None =>
       /\ r \in Settable
       /\ skipped[r] <= modelTime
       /\ \A n \in hist[r] : n[1] <= skipped[r]
  /\ \A r \in Resource : trigger[r] \in hist[r]
  /\ mpc \in Modeling => \A r \in Resource : trigger[r][1] <= modelTime

OnHistory(v) == \A r \in Resource : v.safe[r] \in hist[r]

\* A safe node never moves back, and when it moves it moves past the time at
\* which the earlier vector was saved.
Follows(w, v) ==
  /\ v.time <= w.time
  /\ \A r \in Resource : /\ ~Before(w.safe[r], v.safe[r])
                         /\ w.safe[r] = v.safe[r] \/ v.time <= w.safe[r][1]

\* A node after a safe node but earlier than the time of its vector was
\* inserted retroactively, along with one that is not earlier.
Covered(v) ==
  \A r \in Resource : \A n \in hist[r] :
    Before(v.safe[r], n) /\ n[1] < v.time =>
      \E m \in hist[r] : v.time <= m[1] /\ m[1] <= SafeTime["model"]

\* The vectors in flight, from the one the constraint thread owns to the one
\* the modeling thread would save now.
VectorInv ==
  /\ OnHistory(SafeVector) /\ OnHistory(model_vector)
  /\ Follows(SafeVector, model_vector) /\ Follows(SavedVector, SafeVector)
  /\ cpc = "adopt" =>
       OnHistory(loaded) /\ Follows(loaded, model_vector) /\ Follows(SafeVector, loaded)
  /\ Covered(SafeVector) /\ Covered(SavedVector)

\* A vector has been adopted and its trailers have not been revived yet.
Adopting == cpc \in {"capture", "revive", "crashed"}

\* Every trailer stands at or before its safe node; on it when it is on hold,
\* unless a vector that moves the safe node is being adopted.
TrailerInv ==
  /\ \A r \in Resource : node[r] \in hist[r] /\ ~Before(model_vector.safe[r], node[r])
  /\ \A r \in onHold : \/ node[r] = model_vector.safe[r]
                       \/ Adopting /\ lastVectorTime <= model_vector.safe[r][1]
  /\ cpc \in {"await", "register"} => onHold = {} /\ prevTime = Start /\ node = NoVector.safe
  /\ Adopting \/ lastVectorTime = model_vector.time
  /\ lastVectorTime <= model_vector.time
  /\ prevTime <= lastVectorTime
  /\ TrailingTimeOrder

SafetyInv == HistoryInv /\ VectorInv /\ TrailerInv

LEMMA NodeParts == \A n \in Node : n[1] \in Time /\ n[1] \in Nat /\ n[2] \in Nat
BY StartIsATime DEF Node

\* prio_time: nodes are totally ordered.
LEMMA NodeOrder ==
  ASSUME NEW k \in Node, NEW m \in Node, NEW n \in Node
  PROVE  /\ ~Before(m, m)
         /\ Before(m, n) => ~Before(n, m) /\ m[1] <= n[1] /\ m # n
         /\ m = n \/ Before(m, n) \/ Before(n, m)
         /\ ~Before(k, m) /\ ~Before(m, n) => ~Before(k, n)
         /\ ~Before(m, k) /\ Before(m, n) => Before(k, n)
         /\ Before(k, m) /\ ~Before(n, m) => Before(k, n)
         /\ ~Before(n, m) => m[1] <= n[1]
<1>1. /\ k[1] \in Nat /\ m[1] \in Nat /\ n[1] \in Nat
      /\ k[2] \in Nat /\ m[2] \in Nat /\ n[2] \in Nat
  BY NodeParts
<1>2. m = <<m[1], m[2]>> /\ n = <<n[1], n[2]>>
  BY DEF Node
<1>3. m = n \/ Before(m, n) \/ Before(n, m)
  BY <1>1, <1>2 DEF Before
<1>4. QED
  BY <1>1, <1>3 DEF Before

\* The types the order is used with.
LEMMA TypedNodes ==
  ASSUME TypeOK
  PROVE  /\ \A r \in Resource : \A n \in hist[r] : n \in Node
         /\ \A r \in Resource : IsFiniteSet(hist[r])
         /\ \A r \in Resource : trigger[r] \in Node /\ node[r] \in Node
         /\ \A r \in Resource : SafeVector.safe[r] \in Node /\ model_vector.safe[r] \in Node
                                /\ loaded.safe[r] \in Node /\ SavedVector.safe[r] \in Node
         /\ SafeVector.time \in Time /\ model_vector.time \in Time /\ loaded.time \in Time
         /\ SavedVector.time \in Time
         /\ SafeTime["model"] \in Time /\ modelTime \in Time
         /\ lastVectorTime \in Time /\ prevTime \in Time /\ masterTime \in Time
         /\ onHold \subseteq Resource
<1>1. SavedVector \in Vector
  BY SavedVectorType DEF TypeOK
<1>2. QED
  BY <1>1, HistoryNodes DEF TypeOK, ModelTypeOK, SharedTypeOK, CheckTypeOK, Vector, Thread

\* A node inserted at t keeps the numbering, and comes after every node that
\* is not later than t.
LEMMA WithOrder ==
  ASSUME NEW H \in SUBSET (Time \X (Nat \ {0})), IsFiniteSet(H), Numbered(H), NEW t \in Time
  PROVE  /\ Numbered(With(H, t))
         /\ H \subseteq With(H, t)
         /\ \E n \in With(H, t) : n[1] = t
         /\ \A n \in With(H, t) \ H :
              n[1] = t /\ \A m \in H : m[1] <= t => Before(m, n)
<1> DEFINE S(u) == {n \in H : n[1] = u}
           x == <<t, Cardinality(S(t)) + 1>>
<1>1. \A u \in Time : IsFiniteSet(S(u)) /\ Cardinality(S(u)) \in Nat
  BY FS_Subset, FS_CardinalityType
<1>0. \A m \in H : m[1] \in Nat
  BY StartIsATime
<1>2. With(H, t) = H \cup {x} /\ x[1] = t /\ x[2] = Cardinality(S(t)) + 1
  BY DEF With
<1>3. \A m \in H : m[2] \in Nat /\ m[1] \in Time /\ m[2] <= Cardinality(S(m[1]))
  BY DEF Numbered
<1>4. t \in Nat
  BY StartIsATime
<1> HIDE DEF x
<1>5. \A m \in H : m[1] <= t => Before(m, x)
  <2> SUFFICES ASSUME NEW m \in H, m[1] <= t PROVE Before(m, x)
    OBVIOUS
  <2>1. CASE m[1] = t
    <3>1. m[2] <= Cardinality(S(t)) /\ m[2] \in Nat /\ Cardinality(S(t)) \in Nat
      BY <1>1, <1>3, <2>1
    <3>2. QED
      BY <1>2, <2>1, <3>1 DEF Before
  <2>2. CASE m[1] # t
    <3>1. m[1] \in Nat /\ m[1] < t
      BY <1>0, <1>4, <2>2
    <3>2. QED
      BY <1>2, <3>1 DEF Before
  <2>3. QED
    BY <2>1, <2>2
<1>6. Numbered(With(H, t))
  <2> SUFFICES ASSUME NEW n \in H \cup {x}
               PROVE  n[2] <= Cardinality({m \in H \cup {x} : m[1] = n[1]})
    BY <1>2 DEF Numbered
  <2>1. CASE n[1] = t
    <3>1. {m \in H \cup {x} : m[1] = n[1]} = S(t) \cup {x}
      BY <1>2, <2>1
    <3>2. x \notin S(t)
      <4>1. \A m \in S(t) : m[2] \in Nat /\ m[2] <= Cardinality(S(t))
        BY <1>3
      <4>2. Cardinality(S(t)) \in Nat /\ x[2] = Cardinality(S(t)) + 1
        BY <1>1, <1>2
      <4> HIDE DEF S
      <4>3. QED
        BY <4>1, <4>2
    <3>3. Cardinality(S(t) \cup {x}) = Cardinality(S(t)) + 1
      BY <1>1, <3>2, FS_AddElement
    <3>4. n[2] <= Cardinality(S(t)) + 1
      <4>1. Cardinality(S(t)) \in Nat
        BY <1>1
      <4>2. n # x => n[2] \in Nat /\ n[2] <= Cardinality(S(t))
        BY <1>3, <2>1
      <4>3. x[2] = Cardinality(S(t)) + 1
        BY <1>2
      <4> HIDE DEF S
      <4>4. QED
        BY <4>1, <4>2, <4>3
    <3>5. QED
      BY <3>1, <3>3, <3>4
  <2>2. CASE n[1] # t
    <3>1. n \in H
      BY <1>2, <2>2
    <3>2. {m \in H \cup {x} : m[1] = n[1]} = S(n[1])
      BY <1>2, <2>2
    <3>3. QED
      BY <1>3, <3>1, <3>2
  <2>3. QED
    BY <2>1, <2>2
<1>7. QED
  BY <1>2, <1>5, <1>6

LEMMA InitSafetyInv == Init => SafetyInv
<1> SUFFICES ASSUME Init PROVE SafetyInv
  OBVIOUS
<1> DEFINE first == <<Start, 1>>
<1>1. /\ hist = [r \in Resource |-> {first}]
      /\ trigger = [r \in Resource |-> first]
      /\ node = [r \in Resource |-> first]
      /\ SafeVector = NoVector /\ model_vector = NoVector
      /\ NoVector.safe = [r \in Resource |-> first] /\ NoVector.time = Start
      /\ SavedVector.safe = [r \in Resource |-> first] /\ SavedVector.time = Start
  BY DEF Init, NoVector, SavedVector, Thread
<1>2. first \in Node /\ first[1] = Start
  BY StartIsATime DEF Node
<1>3. Numbered({first})
  <2>1. {m \in {first} : m[1] = first[1]} = {first}
    OBVIOUS
  <2>2. Cardinality({first}) = 1
    BY FS_Singleton
  <2>3. QED
    BY <2>1, <2>2 DEF Numbered
<1>4. ~Before(first, first)
  BY <1>2, NodeOrder
<1> HIDE DEF first
<1>5. HistoryInv
  <2>1. modelTime = Start /\ Start \in Nat /\ \A r \in Resource : skipped[r] = None
    BY StartIsATime DEF Init
  <2>2. \A r \in Resource : hist[r] = {first} /\ trigger[r] = first
    BY <1>1
  <2>3. QED
    BY <1>2, <1>3, <2>1, <2>2 DEF HistoryInv
<1>6. VectorInv
  BY <1>1, <1>2, <1>4, StartIsATime DEF Init, VectorInv, OnHistory, Follows, Covered
<1>7. TrailerInv
  BY <1>1, <1>2, <1>4, StartIsATime DEF Init, TrailerInv, TrailingTimeOrder, active
<1>8. QED
  BY <1>5, <1>6, <1>7 DEF SafetyInv

\* Whatever is inserted goes after the nodes the modeling thread consumed,
\* and never without a node at the current time.
LEMMA HistoryGrows ==
  ASSUME TypeOK, HistoryInv, DoModel
  PROVE  /\ HistoryInv'
         /\ \A r \in Resource :
              /\ hist[r] \subseteq hist'[r]
              /\ \A n \in hist'[r] \ hist[r] :
                   Before(trigger[r], n) /\ \E m \in hist'[r] : m[1] = modelTime
<1>1. PICK r \in Resource : SkipNode(r) \/ SetNode(r) \/ UseNode(r)
  BY DEF DoModel
<1>2. /\ hist[r] \in SUBSET (Time \X (Nat \ {0})) /\ IsFiniteSet(hist[r])
      /\ modelTime \in Time /\ modelTime \in Nat /\ Numbered(hist[r])
      /\ hist \in [Resource -> SUBSET (Time \X (Nat \ {0}))]
      /\ skipped \in [Resource -> Time \cup {None}]
      /\ \A q \in Resource : \A n \in hist[q] : n[1] \in Nat
  BY Clocks DEF TypeOK, ModelTypeOK, HistoryInv
<1>3. /\ mpc = "loop" /\ UNCHANGED <<mpc, modelTime, trigger>>
      /\ trigger[r] \in hist[r] /\ trigger[r][1] <= modelTime
  BY <1>1 DEF SkipNode, SetNode, UseNode, AtCurrentEvent, HistoryUnchangedElsewhere, HistoryInv,
     Modeling
<1>4. CASE SkipNode(r)
  <2>1. hist' = hist /\ skipped' = [skipped EXCEPT ![r] = modelTime] /\ r \in Settable
    BY <1>4 DEF SkipNode
  <2>2. \A n \in hist[r] : n[1] <= modelTime
    BY <2>1, ResourceAssumption DEF HistoryInv
  <2>3. HistoryInv'
    BY <1>2, <1>3, <2>1, <2>2 DEF HistoryInv, Modeling
  <2>4. QED
    BY <2>1, <2>3
<1>5. CASE SetNode(r)
  <2> DEFINE H == IF skipped[r] = None THEN hist[r] ELSE With(hist[r], skipped[r])
  <2>1. /\ hist' = [hist EXCEPT ![r] = With(H, modelTime)]
        /\ skipped' = [skipped EXCEPT ![r] = None] /\ r \notin Nonconsumable
    BY <1>5 DEF SetNode
  <2>2. \A n \in hist[r] : n[1] <= modelTime
    BY <2>1 DEF HistoryInv
  <2>3. /\ H \in SUBSET (Time \X (Nat \ {0})) /\ IsFiniteSet(H) /\ Numbered(H)
        /\ hist[r] \subseteq H
        /\ \A n \in H \ hist[r] : n[1] <= modelTime /\ Before(trigger[r], n)
    <3>1. CASE skipped[r] = None
      BY <1>2, <3>1
    <3>2. CASE skipped[r] # None
      <4>1. /\ skipped[r] \in Time /\ skipped[r] <= modelTime
            /\ trigger[r][1] <= skipped[r]
        BY <1>2, <1>3, <3>2 DEF HistoryInv
      <4>2. H = With(hist[r], skipped[r])
        BY <3>2
      <4>3. H \in SUBSET (Time \X (Nat \ {0})) /\ IsFiniteSet(H)
        BY <1>2, <4>1, <4>2, WithType
      <4>4. /\ Numbered(H) /\ hist[r] \subseteq H
            /\ \A n \in H \ hist[r] :
                 n[1] = skipped[r] /\ \A m \in hist[r] : m[1] <= skipped[r] => Before(m, n)
        BY <1>2, <4>1, <4>2, WithOrder
      <4>5. QED
        BY <1>3, <4>1, <4>3, <4>4
    <3>3. QED
      BY <3>1, <3>2
  <2> HIDE DEF H
  <2>4. /\ Numbered(With(H, modelTime)) /\ H \subseteq With(H, modelTime)
        /\ \E n \in With(H, modelTime) : n[1] = modelTime
        /\ \A n \in With(H, modelTime) \ H :
             n[1] = modelTime /\ \A m \in H : m[1] <= modelTime => Before(m, n)
    BY <1>2, <2>3, WithOrder
  <2>5. \A n \in With(H, modelTime) \ hist[r] : n[1] <= modelTime /\ Before(trigger[r], n)
    BY <1>2, <1>3, <2>3, <2>4
  <2>6. /\ hist'[r] = With(H, modelTime) /\ \A q \in Resource \ {r} : hist'[q] = hist[q]
        /\ skipped'[r] = None /\ \A q \in Resource \ {r} : skipped'[q] = skipped[q]
    BY <1>2, <2>1
  <2>7. HistoryInv'
    BY <1>3, <2>1, <2>2, <2>3, <2>4, <2>5, <2>6 DEF HistoryInv, Modeling
  <2>8. QED
    BY <2>3, <2>4, <2>5, <2>6, <2>7
<1>6. CASE UseNode(r)
  <2>1. PICK end \in modelTime..Horizon :
          hist' = [hist EXCEPT ![r] = With(With(@, modelTime), end)]
    BY <1>6 DEF UseNode
  <2> DEFINE H == With(hist[r], modelTime)
  <2>2. end \in Time /\ modelTime <= end
    BY <1>2, BoundAssumption DEF Time
  <2>3. /\ H \in SUBSET (Time \X (Nat \ {0})) /\ IsFiniteSet(H) /\ Numbered(H)
        /\ hist[r] \subseteq H /\ \E n \in H : n[1] = modelTime
        /\ \A n \in H \ hist[r] : Before(trigger[r], n)
    BY <1>2, <1>3, WithType, WithOrder
  <2>4. r \in Nonconsumable /\ UNCHANGED skipped /\ hist' = [hist EXCEPT ![r] = With(H, end)]
    BY <1>6, <2>1 DEF UseNode
  <2> HIDE DEF H
  <2>5. trigger[r][1] <= end
    BY <1>2, <1>3, <2>2, StartIsATime
  <2>6. /\ Numbered(With(H, end)) /\ H \subseteq With(H, end)
        /\ \A n \in With(H, end) \ H : Before(trigger[r], n)
    BY <1>3, <2>2, <2>3, <2>5, WithOrder
  <2>7. hist'[r] = With(H, end) /\ \A q \in Resource \ {r} : hist'[q] = hist[q]
    BY <1>2, <2>4
  <2>8. skipped[r] = None
    BY <2>4, ResourceAssumption DEF HistoryInv
  <2>9. HistoryInv'
    BY <1>3, <2>3, <2>4, <2>6, <2>7, <2>8 DEF HistoryInv, Modeling
  <2>10. QED
    BY <2>3, <2>6, <2>7, <2>9
<1>7. QED
  BY <1>1, <1>4, <1>5, <1>6

\* An iterator of the modeling thread never moves back, leaves nothing behind
\* that is not later than b, and when it moves it moves past the time of the
\* last vector saved.
LEMMA TriggersMove ==
  ASSUME TypeOK, HistoryInv, VectorInv, NEW S, NEW f \in TriggersAfter(S),
         NEW b \in Nat, SafeTime["model"] <= b,
         \A r \in Resource :
           /\ S[r] \subseteq hist[r]
           /\ \A n \in hist[r] : n[1] <= b \/ ~Before(trigger[r], n) => n \in S[r]
  PROVE  \A r \in Resource :
           /\ f[r] \in S[r]
           /\ ~Before(f[r], trigger[r])
           /\ \A n \in hist[r] : Before(f[r], n) => n[1] > b
           /\ f[r] = SafeVector.safe[r] \/ SafeVector.time <= f[r][1]
<1> SUFFICES ASSUME NEW r \in Resource
             PROVE  /\ f[r] \in S[r]
                    /\ ~Before(f[r], trigger[r])
                    /\ \A n \in hist[r] : Before(f[r], n) => n[1] > b
                    /\ f[r] = SafeVector.safe[r] \/ SafeVector.time <= f[r][1]
  OBVIOUS
<1>1. f[r] \in S[r] /\ \A m \in S[r] : m = f[r] \/ Before(m, f[r])
  BY DEF TriggersAfter, IsLast
<1>2. /\ f[r] \in hist[r] /\ f[r] \in Node /\ trigger[r] \in hist[r] /\ trigger[r] \in Node
      /\ SafeVector.safe[r] \in Node
      /\ \A n \in hist[r] : n \in Node /\ n[1] \in Nat
  BY <1>1, TypedNodes, NodeParts DEF HistoryInv
<1>3. ~Before(f[r], trigger[r])
  BY <1>1, <1>2, NodeOrder
<1>4. \A n \in hist[r] : Before(f[r], n) => n[1] > b
  BY <1>1, <1>2, NodeOrder
<1>5. /\ ~Before(trigger[r], SafeVector.safe[r])
      /\ trigger[r] = SafeVector.safe[r] \/ SafeVector.time <= trigger[r][1]
  BY DEF VectorInv, Follows, SavedVector
<1>6. CASE f[r] = trigger[r]
  BY <1>1, <1>3, <1>4, <1>5, <1>6
<1>7. CASE f[r] # trigger[r]
  <2>1. Before(SafeVector.safe[r], f[r])
    BY <1>2, <1>3, <1>5, <1>7, NodeOrder
  <2>2. SafeVector.time \in Nat /\ SafeTime["model"] \in Nat
    BY Clocks
  <2>3. ASSUME f[r][1] < SafeVector.time PROVE FALSE
    <3>1. PICK m \in hist[r] : SafeVector.time <= m[1] /\ m[1] <= SafeTime["model"]
      BY <1>2, <2>1, <2>3 DEF VectorInv, Covered
    <3>2. m \in S[r]
      BY <1>2, <2>2, <3>1
    <3>3. m[1] <= f[r][1]
      BY <1>1, <1>2, <3>2, NodeOrder
    <3>4. QED
      BY <1>2, <2>2, <2>3, <3>1, <3>3
  <2>4. QED
    BY <1>1, <1>2, <1>3, <1>4, <2>2, <2>3
<1>8. QED
  BY <1>6, <1>7

\* What the modeling thread leaves alone: the trailers, and the vectors the
\* constraint thread has taken.
LEMMA TrailersUntouched ==
  ASSUME TypeOK, TrailerInv, UNCHANGED <<cpc, caller, iterVars, checkVars>>,
         \A r \in Resource : hist[r] \subseteq hist'[r]
  PROVE  TrailerInv'
<1>1. UNCHANGED <<cpc, node, onHold, prevTime, lastVectorTime, model_vector>>
  BY DEF iterVars
<1>2. QED
  BY <1>1 DEF TrailerInv, TrailingTimeOrder, active, Adopting, NoVector

\* The iterators of the modeling thread advance with its time.
LEMMA TriggerStep ==
  ASSUME TypeOK, TypeOK', SafetyInv, NEW S, trigger' \in TriggersAfter(S), NEW b \in Nat,
         SafeTime["model"] <= b, SafeTime["model"] <= SafeTime'["model"],
         SafeTime'["model"] <= b + 1, modelTime <= modelTime',
         \A r \in Resource :
           /\ S[r] \subseteq hist[r]
           /\ \A n \in hist[r] : n[1] <= b \/ ~Before(trigger[r], n) => n \in S[r],
         mpc' \in Modeling => \A r \in Resource : \A n \in S[r] : n[1] <= modelTime',
         UNCHANGED <<hist, skipped, SafeVector, cpc, caller, iterVars, checkVars>>
  PROVE  SafetyInv'
<1>1. \A r \in Resource :
        /\ trigger'[r] \in S[r]
        /\ ~Before(trigger'[r], trigger[r])
        /\ \A n \in hist[r] : Before(trigger'[r], n) => n[1] > b
        /\ trigger'[r] = SafeVector.safe[r] \/ SafeVector.time <= trigger'[r][1]
  BY TriggersMove DEF SafetyInv
<1>2. /\ modelTime \in Nat /\ modelTime' \in Nat
      /\ SafeTime["model"] \in Nat /\ SafeTime'["model"] \in Nat
      /\ SafeVector.time \in Nat
      /\ \A r \in Resource : skipped[r] # None => skipped[r] \in Nat
      /\ \A r \in Resource : \A n \in hist[r] : n[1] \in Nat
  <2>1. \A r \in Resource : skipped[r] # None => skipped[r] \in Nat
    BY StartIsATime DEF TypeOK, ModelTypeOK
  <2>2. modelTime' \in Nat /\ SafeTime'["model"] \in Nat
    BY StartIsATime DEF TypeOK, ModelTypeOK, SharedTypeOK, Thread
  <2>3. QED
    BY Clocks, <2>1, <2>2
<1>3. HistoryInv'
  BY <1>1, <1>2 DEF SafetyInv, HistoryInv
<1>4. UNCHANGED <<loaded, model_vector>>
  BY DEF iterVars
<1>5. Follows(SavedVector, SafeVector)'
  <2>1. \A r \in Resource : ~Before(trigger'[r], SafeVector.safe[r])
    <3>1. \A r \in Resource : ~Before(trigger[r], SafeVector.safe[r])
      BY DEF SafetyInv, VectorInv, Follows, SavedVector
    <3>2. \A r \in Resource : trigger[r] \in Node /\ trigger'[r] \in Node /\ SafeVector.safe[r] \in Node
      BY <1>1, TypedNodes
    <3>3. QED
      BY <1>1, <3>1, <3>2, NodeOrder
  <2>2. SafeVector.time <= SafeTime'["model"]
    BY <1>2 DEF SafetyInv, VectorInv, Follows, SavedVector
  <2>3. QED
    BY <1>1, <2>1, <2>2 DEF Follows, SavedVector
<1>6. Covered(SafeVector)'
  BY <1>2 DEF SafetyInv, VectorInv, Covered
<1>7. Covered(SavedVector)'
  BY <1>1, <1>2 DEF Covered, SavedVector
<1>8. VectorInv'
  BY <1>4, <1>5, <1>6, <1>7 DEF SafetyInv, VectorInv, OnHistory, Follows
<1>9. TrailerInv'
  BY TrailersUntouched DEF SafetyInv
<1>10. QED
  BY <1>3, <1>8, <1>9 DEF SafetyInv

\* A vector follows itself, and what follows a follower follows.
LEMMA FollowsOrder ==
  ASSUME NEW u \in Vector, NEW v \in Vector, NEW w \in Vector
  PROVE  /\ Follows(u, u)
         /\ Follows(w, v) /\ Follows(v, u) => Follows(w, u)
<1>1. /\ u.time \in Nat /\ v.time \in Nat /\ w.time \in Nat
      /\ \A r \in Resource : u.safe[r] \in Node /\ v.safe[r] \in Node /\ w.safe[r] \in Node
  BY StartIsATime DEF Vector
<1>2. Follows(u, u)
  BY <1>1, NodeOrder DEF Follows
<1>3. ASSUME Follows(w, v), Follows(v, u) PROVE Follows(w, u)
  <2>1. u.time <= w.time
    BY <1>1, <1>3 DEF Follows
  <2>2. ASSUME NEW r \in Resource
        PROVE  /\ ~Before(w.safe[r], u.safe[r])
               /\ w.safe[r] = u.safe[r] \/ u.time <= w.safe[r][1]
    <3>1. ~Before(w.safe[r], u.safe[r])
      BY <1>1, <1>3, NodeOrder DEF Follows
    <3>2. w.safe[r][1] \in Nat
      BY <1>1, NodeParts
    <3>3. QED
      BY <1>1, <1>3, <3>1, <3>2 DEF Follows
  <2>3. QED
    BY <2>1, <2>2 DEF Follows
<1>4. QED
  BY <1>2, <1>3

LEMMA VectorTypes ==
  TypeOK => SafeVector \in Vector /\ loaded \in Vector /\ model_vector \in Vector
            /\ SavedVector \in Vector
BY SavedVectorType DEF TypeOK, SharedTypeOK, CheckTypeOK

\* The modeling thread saves a vector or leaves the vectors as they are.
LEMMA SaveStep ==
  ASSUME TypeOK, SafetyInv, SafeVector' = SafeVector \/ SafeVector' = SavedVector,
         UNCHANGED <<modelTime, hist, skipped, trigger, SafeTime, cpc, caller, iterVars, checkVars>>,
         mpc' \in Modeling => mpc \in Modeling
  PROVE  SafetyInv'
<1>1. HistoryInv'
  BY DEF SafetyInv, HistoryInv
<1>2. UNCHANGED <<loaded, model_vector>>
  BY DEF iterVars
<1>3. SavedVector'.safe = SavedVector.safe /\ SavedVector'.time = SavedVector.time
  BY DEF SavedVector
<1>4. OnHistory(SavedVector)
  BY DEF SafetyInv, HistoryInv, OnHistory, SavedVector
<1>5. Follows(SavedVector, SavedVector)
  BY VectorTypes, FollowsOrder
<1>6. /\ Follows(SavedVector, model_vector)
      /\ cpc = "adopt" => Follows(SavedVector, loaded)
  BY VectorTypes, FollowsOrder DEF SafetyInv, VectorInv
<1>7. VectorInv'
  BY <1>2, <1>3, <1>4, <1>5, <1>6 DEF SafetyInv, VectorInv, OnHistory, Covered, Follows
<1>8. TrailerInv'
  BY TrailersUntouched DEF SafetyInv
<1>9. QED
  BY <1>1, <1>7, <1>8 DEF SafetyInv

\* Events, clocks and vectors of the modeling thread, one case per action.
LEMMA SafetyInvModelStep ==
  ASSUME TypeOK, TypeOK', TimeInv, SafetyInv, ModelNext
  PROVE  SafetyInv'
<1>1. CASE StoreFirstVector \/ FirstVectorCaptured \/ OfferVector \/ RaiseFlag
           \/ SkipFinishedThread \/ FeedFlag \/ FeedStore \/ DeclareDone \/ CheckThreadErrors
           \/ ModelingError \/ CatchDone \/ CatchErrors \/ DestroyAllThreads
  <2>1. /\ SafeVector' = SafeVector \/ SafeVector' = SavedVector
        /\ UNCHANGED <<modelTime, hist, skipped, trigger, SafeTime, cpc, caller, iterVars, checkVars>>
    BY <1>1 DEF StoreFirstVector, FirstVectorCaptured, OfferVector, RaiseFlag,
       SkipFinishedThread, FeedFlag, FeedStore, DeclareDone, CheckThreadErrors,
       ModelingError, CatchDone, CatchErrors, DestroyAllThreads, sharedVars
  <2>2. mpc' \in Modeling => mpc \in Modeling
    BY <1>1 DEF StoreFirstVector, FirstVectorCaptured, OfferVector, RaiseFlag,
       SkipFinishedThread, FeedFlag, FeedStore, DeclareDone, CheckThreadErrors,
       ModelingError, CatchDone, CatchErrors, DestroyAllThreads, Modeling
  <2>3. QED
    BY <2>1, <2>2, SaveStep
<1>2. CASE DoModel
  <2>1. /\ HistoryInv'
        /\ \A r \in Resource :
             /\ hist[r] \subseteq hist'[r]
             /\ \A n \in hist'[r] \ hist[r] :
                  Before(trigger[r], n) /\ \E m \in hist'[r] : m[1] = modelTime
    BY <1>2, HistoryGrows DEF SafetyInv
  <2>2. /\ modelTime = SafeTime["model"]
        /\ UNCHANGED <<trigger, saves, SafeTime, SafeVector, cpc, caller, iterVars, checkVars>>
    BY <1>2 DEF DoModel, SkipNode, SetNode, UseNode, HistoryUnchangedElsewhere, AtCurrentEvent,
       sharedVars
  <2>3. UNCHANGED <<loaded, model_vector>> /\ SavedVector' = SavedVector
    BY <2>2 DEF SavedVector, iterVars
  <2>4. ASSUME NEW v, v.time <= SafeTime["model"], Covered(v)
        PROVE  \A r \in Resource : \A n \in hist'[r] :
                 Before(v.safe[r], n) /\ n[1] < v.time =>
                   \E m \in hist'[r] : v.time <= m[1] /\ m[1] <= SafeTime'["model"]
    <3> SUFFICES ASSUME NEW r \in Resource, NEW n \in hist'[r],
                        Before(v.safe[r], n), n[1] < v.time
                 PROVE  \E m \in hist'[r] : v.time <= m[1] /\ m[1] <= SafeTime["model"]
      BY <2>2
    <3>1. CASE n \in hist[r]
      BY <2>1, <2>4, <3>1 DEF Covered
    <3>2. CASE n \notin hist[r]
      BY <2>1, <2>2, <2>4, <3>2, Clocks
    <3>3. QED
      BY <3>1, <3>2
  <2>5. /\ SafeVector.time <= SafeTime["model"]
        /\ SavedVector.time = SafeTime["model"] /\ SafeTime["model"] \in Nat
    BY Clocks DEF TimeInv, SavedVector
  <2>6. Covered(SafeVector)'
    BY <2>2, <2>4, <2>5 DEF Covered, SafetyInv, VectorInv
  <2>7. Covered(SavedVector)'
    BY <2>3, <2>4, <2>5 DEF Covered, SafetyInv, VectorInv
  <2>8. VectorInv'
    BY <2>1, <2>2, <2>3, <2>6, <2>7 DEF SafetyInv, VectorInv, OnHistory, Follows
  <2>9. TrailerInv'
    BY <2>1, <2>2, TrailersUntouched DEF SafetyInv
  <2>10. QED
    BY <2>1, <2>8, <2>9 DEF SafetyInv
<1>3. ASSUME NEW t \in Time, AdvanceTime(t) PROVE SafetyInv'
  <2> DEFINE S == [r \in Resource |-> {n \in hist[r] : n[1] < t \/ ~Before(trigger[r], n)}]
  <2>1. /\ t \in Nat /\ t - 1 \in Nat /\ SafeTime["model"] <= t - 1 /\ modelTime <= t
        /\ SafeTime["model"] \in Nat /\ modelTime \in Nat
    BY <1>3, Clocks, StartIsATime DEF AdvanceTime, TimeInv
  <2>2. /\ trigger' \in TriggersAfter(S) /\ modelTime' = t /\ SafeTime'["model"] = t
        /\ UNCHANGED <<hist, skipped, SafeVector, cpc, caller, iterVars, checkVars>>
        /\ mpc \in Modeling
    BY <1>3 DEF AdvanceTime, Modeling, TypeOK, SharedTypeOK, Thread
  <2>3. \A r \in Resource : \A n \in hist[r] : n[1] \in Nat
    BY Clocks
  <2>4. \A r \in Resource :
          /\ S[r] \subseteq hist[r]
          /\ \A n \in hist[r] : n[1] <= t - 1 \/ ~Before(trigger[r], n) => n \in S[r]
    BY <2>1, <2>3
  <2>5. \A r \in Resource : \A n \in S[r] : n[1] <= t
    <3> SUFFICES ASSUME NEW r \in Resource, NEW n \in S[r] PROVE n[1] <= t
      OBVIOUS
    <3>1. n \in hist[r] /\ (n[1] < t \/ ~Before(trigger[r], n))
      OBVIOUS
    <3>2. trigger[r] \in Node /\ n \in Node /\ n[1] \in Nat /\ trigger[r][1] \in Nat
      BY <2>3, <3>1, TypedNodes, NodeParts
    <3>3. trigger[r][1] <= modelTime
      BY <2>2 DEF SafetyInv, HistoryInv
    <3>4. ~Before(trigger[r], n) => n[1] <= trigger[r][1]
      BY <3>2, NodeOrder
    <3>5. QED
      BY <2>1, <3>1, <3>2, <3>3, <3>4
  <2> HIDE DEF S
  <2>6. SafeTime["model"] <= SafeTime'["model"] /\ SafeTime'["model"] <= (t - 1) + 1 /\ modelTime <= modelTime'
    BY <2>1, <2>2
  <2>7. QED
    BY <2>1, <2>2, <2>4, <2>5, <2>6, TriggerStep
<1>4. ASSUME NEW r \in Resource, WakeAhead(r) PROVE SafetyInv'
  <2>1. PICK n \in hist[r] :
          /\ Before(trigger[r], n)
          /\ n[1] > modelTime
          /\ trigger' \in TriggersAfter([q \in Resource |->
               {m \in hist[q] : \/ ~Before(trigger[q], m)
                                \/ m[1] < n[1]
                                \/ m[1] = n[1] /\ q < r
                                \/ q = r /\ ~Before(n, m)}])
          /\ modelTime' = n[1]
    BY <1>4 DEF WakeAhead
  <2> DEFINE S == [q \in Resource |->
               {m \in hist[q] : \/ ~Before(trigger[q], m)
                                \/ m[1] < n[1]
                                \/ m[1] = n[1] /\ q < r
                                \/ q = r /\ ~Before(n, m)}]
  <2>2. /\ modelTime \in Nat /\ n[1] \in Nat /\ SafeTime["model"] = modelTime
        /\ mpc \in Modeling
        /\ UNCHANGED <<SafeTime, hist, skipped, SafeVector, cpc, caller, iterVars, checkVars>>
    BY <1>4, Clocks DEF WakeAhead, AtCurrentEvent, Modeling, sharedVars
  <2>3. \A q \in Resource : \A m \in hist[q] : m[1] \in Nat /\ m \in Node
    BY Clocks, TypedNodes
  <2>4. \A q \in Resource :
          /\ S[q] \subseteq hist[q]
          /\ \A m \in hist[q] : m[1] <= modelTime \/ ~Before(trigger[q], m) => m \in S[q]
    BY <2>1, <2>2, <2>3
  <2>5. \A q \in Resource : \A m \in S[q] : m[1] <= n[1]
    <3> SUFFICES ASSUME NEW q \in Resource, NEW m \in S[q] PROVE m[1] <= n[1]
      OBVIOUS
    <3>1. m \in hist[q] /\ (~Before(trigger[q], m) \/ m[1] <= n[1] \/ ~Before(n, m))
      BY <2>2, <2>3
    <3>2. /\ trigger[q] \in Node /\ m \in Node /\ n \in Node
          /\ m[1] \in Nat /\ trigger[q][1] \in Nat
      BY <2>3, <3>1, TypedNodes, NodeParts
    <3>3. trigger[q][1] <= modelTime
      BY <2>2 DEF SafetyInv, HistoryInv
    <3>4. /\ ~Before(trigger[q], m) => m[1] <= trigger[q][1]
          /\ ~Before(n, m) => m[1] <= n[1]
      BY <3>2, NodeOrder
    <3>5. QED
      BY <2>1, <2>2, <3>1, <3>2, <3>3, <3>4
  <2>6. trigger' \in TriggersAfter(S)
    BY <2>1
  <2> HIDE DEF S
  <2>7. /\ SafeTime["model"] <= modelTime /\ SafeTime["model"] <= SafeTime'["model"]
        /\ SafeTime'["model"] <= modelTime + 1 /\ modelTime <= modelTime'
    BY <2>1, <2>2
  <2>8. QED
    BY <2>1, <2>2, <2>4, <2>5, <2>6, <2>7, TriggerStep
<1>5. CASE NoMoreEvents
  <2>1. /\ trigger' \in TriggersAfter(hist) /\ mpc' \notin Modeling
        /\ UNCHANGED <<modelTime, SafeTime, hist, skipped, SafeVector, cpc, caller, iterVars, checkVars>>
    BY <1>5 DEF NoMoreEvents, Modeling, sharedVars
  <2>2. SafeTime["model"] \in Nat /\ modelTime \in Nat
    BY Clocks
  <2>3. QED
    BY <2>1, <2>2, TriggerStep
<1>6. QED
  BY <1>1, <1>2, <1>3, <1>4, <1>5 DEF ModelNext

\* The constraint thread stands still: what it owns is not disturbed by the
\* flags it raises and lowers.
LEMMA HistoriesUntouched ==
  ASSUME SafetyInv, UNCHANGED <<modelVars, SafeVector>>, SafeTime'["model"] = SafeTime["model"]
  PROVE  /\ HistoryInv'
         /\ Covered(SafeVector)' /\ Covered(SavedVector)'
         /\ Follows(SavedVector, SafeVector)' /\ OnHistory(SafeVector)'
<1>1. UNCHANGED <<mpc, modelTime, hist, skipped, trigger, saves>>
  BY DEF modelVars
<1>2. SavedVector' = SavedVector
  BY <1>1 DEF SavedVector
<1>3. QED
  BY <1>1, <1>2 DEF SafetyInv, HistoryInv, VectorInv, Covered, Follows, OnHistory

\* The constraint thread adopts vectors, revives, serves and holds trailers.
LEMMA SafetyInvCheckStep ==
  ASSUME TypeOK, TypeOK', SafetyInv, CheckNext
  PROVE  SafetyInv'
<1>1. ASSUME UNCHANGED <<modelVars, SafeVector, model_vector, node, onHold, lastVectorTime, prevTime>>,
             SafeTime'["model"] = SafeTime["model"],
             cpc' \notin {"adopt", "await", "register"}, Adopting => Adopting'
      PROVE  SafetyInv'
  <2>1. VectorInv'
    BY <1>1, HistoriesUntouched DEF SafetyInv, VectorInv, OnHistory, Follows, modelVars
  <2>2. TrailerInv'
    BY <1>1 DEF SafetyInv, TrailerInv, TrailingTimeOrder, active, Adopting, modelVars
  <2>3. QED
    BY <1>1, <2>1, <2>2, HistoriesUntouched DEF SafetyInv
<1>2. CASE RegistrationError \/ Sample \/ SetCaptured \/ GatherNode \/ FinishChecking
  <2>1. SafeTime' = SafeTime
        /\ UNCHANGED <<modelVars, SafeVector, model_vector, node, onHold, lastVectorTime, prevTime>>
    BY <1>2 DEF RegistrationError, Sample, SetCaptured, GatherNode, FinishChecking, sharedVars,
       iterVars
  <2>2. cpc' \notin {"adopt", "await", "register"} /\ (Adopting => Adopting')
    BY <1>2 DEF RegistrationError, Sample, SetCaptured, GatherNode, FinishChecking, Adopting
  <2>3. QED
    BY <1>1, <2>1, <2>2
<1>3. CASE FinishIfMasterDone \/ BailOutOrWait
  <2>1. SafeTime' = SafeTime
        /\ UNCHANGED <<modelVars, SafeVector, model_vector, node, onHold, lastVectorTime, prevTime>>
    BY <1>3 DEF FinishIfMasterDone, BailOutOrWait, iterVars
  <2>2. cpc \in {"serve", "checkErrors"} /\ cpc' \in {"crashed", "finish", "sample", "checkErrors"}
    BY <1>3 DEF FinishIfMasterDone, BailOutOrWait, ReturnNull, TypeOK, CheckTypeOK
  <2>3. QED
    BY <1>1, <2>1, <2>2 DEF Adopting
<1>4. CASE EvaluateConstraints \/ EvaluationError
  <2>1. SafeTime'["model"] = SafeTime["model"]
    BY <1>4 DEF EvaluateConstraints, EvaluationError, TypeOK, SharedTypeOK, Thread
  <2>2. UNCHANGED <<modelVars, SafeVector, model_vector, node, onHold, lastVectorTime, prevTime>>
    BY <1>4 DEF EvaluateConstraints, EvaluationError, iterVars
  <2>3. cpc = "process" /\ cpc' \in {"sample", "exited"}
    BY <1>4 DEF EvaluateConstraints, EvaluationError
  <2>4. QED
    BY <1>1, <2>1, <2>2, <2>3 DEF Adopting
<1>5. CASE ConstructIterator
  <2>1. /\ UNCHANGED <<modelVars, SafeVector, SafeTime, node, onHold, prevTime>>
        /\ model_vector' = SafeVector /\ lastVectorTime' = SafeVector.time
        /\ cpc = "await" /\ cpc' = "register"
    BY <1>5 DEF ConstructIterator
  <2>2. Follows(SafeVector, SafeVector)
    BY VectorTypes, FollowsOrder
  <2>3. VectorInv'
    BY <2>1, <2>2, HistoriesUntouched DEF SafetyInv, VectorInv, OnHistory, Follows
  <2>4. \A r \in Resource : node[r] = <<Start, 1>>
    BY <2>1 DEF SafetyInv, TrailerInv, NoVector
  <2>5. \A r \in Resource : ~Before(SafeVector.safe[r], <<Start, 1>>)
    <3> SUFFICES ASSUME NEW r \in Resource PROVE ~Before(SafeVector.safe[r], <<Start, 1>>)
      OBVIOUS
    <3>1. SafeVector.safe[r] \in Time \X (Nat \ {0})
      BY DEF SafetyInv, VectorInv, OnHistory, TypeOK, ModelTypeOK
    <3>2. /\ SafeVector.safe[r][1] \in Nat /\ Start <= SafeVector.safe[r][1]
          /\ SafeVector.safe[r][2] \in Nat /\ SafeVector.safe[r][2] >= 1
      BY <3>1, BoundAssumption DEF Time
    <3>3. QED
      BY <3>2, BoundAssumption DEF Before
  <2>6. prevTime = Start /\ Start <= SafeVector.time /\ SafeVector.time \in Nat
    BY <2>1, TypedNodes, BoundAssumption DEF SafetyInv, TrailerInv, Time
  <2>7. TrailerInv'
    BY <2>1, <2>4, <2>5, <2>6 DEF SafetyInv, TrailerInv, TrailingTimeOrder, active, Adopting,
       modelVars, NoVector
  <2>8. QED
    BY <2>1, <2>3, <2>7, HistoriesUntouched DEF SafetyInv
<1>6. CASE RegisterResources
  <2>1. /\ UNCHANGED <<modelVars, SafeVector, SafeTime, model_vector, lastVectorTime, prevTime>>
        /\ node' = model_vector.safe /\ onHold' = {}
        /\ cpc = "register" /\ cpc' = "sample"
    BY <1>6 DEF RegisterResources, sharedVars
  <2>2. VectorInv'
    BY <2>1, HistoriesUntouched DEF SafetyInv, VectorInv, OnHistory, Follows, modelVars
  <2>3. \A r \in Resource : /\ model_vector.safe[r] \in hist[r]
                            /\ ~Before(model_vector.safe[r], model_vector.safe[r])
                            /\ Start <= model_vector.safe[r][1]
    <3>1. \A r \in Resource : Start <= model_vector.safe[r][1]
      BY TypedNodes, NodeParts, BoundAssumption DEF Time
    <3>2. QED
      BY <3>1, TypedNodes, NodeOrder DEF SafetyInv, VectorInv, OnHistory
  <2>4. prevTime = Start
    BY <2>1 DEF SafetyInv, TrailerInv
  <2>5. TrailerInv'
    BY <2>1, <2>3, <2>4 DEF SafetyInv, TrailerInv, TrailingTimeOrder, active, Adopting, modelVars
  <2>6. QED
    BY <2>1, <2>2, <2>5, HistoriesUntouched DEF SafetyInv
<1>7. CASE TestFlag
  <2>1. /\ UNCHANGED <<modelVars, SafeVector, SafeTime, model_vector, node, onHold, lastVectorTime, prevTime>>
        /\ cpc = "test"
        /\ cpc' = "serve" \/ (cpc' = "adopt" /\ loaded' = SafeVector)
    BY <1>7 DEF TestFlag, sharedVars
  <2>2. CASE cpc' = "serve"
    BY <1>1, <2>1, <2>2 DEF Adopting
  <2>3. CASE cpc' = "adopt" /\ loaded' = SafeVector
    <3>1. Follows(SafeVector, SafeVector)
      BY VectorTypes, FollowsOrder
    <3>2. VectorInv'
      BY <2>1, <2>3, <3>1, HistoriesUntouched DEF SafetyInv, VectorInv, OnHistory, Follows, modelVars
    <3>3. TrailerInv'
      BY <2>1, <2>3 DEF SafetyInv, TrailerInv, TrailingTimeOrder, active, Adopting, modelVars
    <3>4. QED
      BY <2>1, <3>2, <3>3, HistoriesUntouched DEF SafetyInv
  <2>4. QED
    BY <2>1, <2>2, <2>3
<1>8. CASE AdoptVector
  <2>1. /\ UNCHANGED <<modelVars, SafeVector, SafeTime, node, onHold, lastVectorTime, prevTime>>
        /\ cpc = "adopt" /\ model_vector' = loaded /\ cpc' \in {"capture", "crashed"}
    BY <1>8 DEF AdoptVector, sharedVars
  <2>2. /\ OnHistory(loaded) /\ Follows(loaded, model_vector) /\ Follows(SafeVector, loaded)
        /\ lastVectorTime = model_vector.time
    BY <2>1 DEF SafetyInv, VectorInv, TrailerInv, Adopting
  <2>3. VectorInv'
    BY <2>1, <2>2, HistoriesUntouched DEF SafetyInv, VectorInv, OnHistory, Follows, modelVars
  <2>4. \A r \in Resource : ~Before(loaded.safe[r], node[r])
    <3> SUFFICES ASSUME NEW r \in Resource PROVE ~Before(loaded.safe[r], node[r])
      OBVIOUS
    <3>1. ~Before(loaded.safe[r], model_vector.safe[r]) /\ ~Before(model_vector.safe[r], node[r])
      BY <2>2 DEF Follows, SafetyInv, TrailerInv
    <3>2. QED
      BY <3>1, TypedNodes, NodeOrder
  <2>5. \A r \in onHold : node[r] = loaded.safe[r] \/ lastVectorTime <= loaded.safe[r][1]
    <3>1. \A r \in onHold : r \in Resource /\ node[r] = model_vector.safe[r]
      BY <2>1, TypedNodes DEF SafetyInv, TrailerInv, Adopting
    <3>2. QED
      BY <2>2, <3>1 DEF Follows
  <2>6. lastVectorTime <= loaded.time
    BY <2>2 DEF Follows
  <2>7. TrailerInv'
    BY <2>1, <2>4, <2>5, <2>6 DEF SafetyInv, TrailerInv, TrailingTimeOrder, active, Adopting, modelVars
  <2>8. QED
    BY <2>1, <2>3, <2>7, HistoriesUntouched DEF SafetyInv
<1>9. CASE ReviveTrailers
  <2>1. PICK f \in [Resource -> UNION {hist[r] : r \in Resource}] :
          /\ \A r \in Lagging : RevivalNode(r, f[r])
          /\ \A r \in Resource \ Lagging : f[r] = node[r]
          /\ node' = f
    BY <1>9 DEF ReviveTrailers
  <2>2. /\ UNCHANGED <<modelVars, SafeVector, SafeTime, model_vector, prevTime>>
        /\ onHold' = onHold \ Lagging /\ lastVectorTime' = model_vector.time
        /\ cpc = "revive" /\ cpc' = "serve"
    BY <1>9 DEF ReviveTrailers
  <2>3. VectorInv'
    BY <2>2, HistoriesUntouched DEF SafetyInv, VectorInv, OnHistory, Follows, modelVars
  <2>4. ASSUME NEW r \in Lagging
        PROVE  /\ f[r] \in hist[r] /\ ~Before(model_vector.safe[r], f[r])
               /\ lastVectorTime <= f[r][1]
    <3>1. /\ r \in Resource /\ node[r] # model_vector.safe[r]
          /\ model_vector.safe[r] \in hist[r] /\ ~Before(model_vector.safe[r], node[r])
          /\ lastVectorTime <= model_vector.safe[r][1]
      BY TypedNodes DEF Lagging, SafetyInv, TrailerInv, VectorInv, OnHistory
    <3>2. /\ f[r] \in hist[r] /\ lastVectorTime <= f[r][1]
          /\ \A m \in hist[r] : Before(node[r], m) /\ m[1] >= lastVectorTime =>
               f[r] = m \/ Before(f[r], m)
      BY <2>1 DEF RevivalNode, IsFirst
    <3>3. Before(node[r], model_vector.safe[r])
      BY <3>1, TypedNodes, NodeOrder
    <3>4. model_vector.safe[r][1] \in Nat /\ lastVectorTime \in Nat
      BY <3>1, TypedNodes, NodeParts, StartIsATime
    <3>5. f[r] = model_vector.safe[r] \/ Before(f[r], model_vector.safe[r])
      BY <3>1, <3>2, <3>3, <3>4
    <3>6. QED
      BY <3>1, <3>2, <3>5, TypedNodes, NodeOrder
  <2>5. \A r \in Resource : f[r] \in hist[r] /\ ~Before(model_vector.safe[r], f[r])
    BY <2>1, <2>4 DEF SafetyInv, TrailerInv
  <2>6. \A r \in onHold \ Lagging : f[r] = model_vector.safe[r]
    BY <2>1, TypedNodes DEF Lagging
  <2>7. prevTime <= model_vector.time /\ model_vector.time \in Nat
    <3>1. prevTime \in Nat /\ lastVectorTime \in Nat /\ model_vector.time \in Nat
      BY TypedNodes, StartIsATime
    <3>2. prevTime <= lastVectorTime /\ lastVectorTime <= model_vector.time
      BY DEF SafetyInv, TrailerInv
    <3>3. QED
      BY <3>1, <3>2
  <2>8. \A r \in Resource \ (onHold \ Lagging) : f[r][1] >= prevTime
    <3> SUFFICES ASSUME NEW r \in Resource \ (onHold \ Lagging) PROVE f[r][1] >= prevTime
      OBVIOUS
    <3>1. f[r][1] \in Nat /\ prevTime \in Nat /\ lastVectorTime \in Nat
      BY <2>5, TypedNodes, NodeParts, StartIsATime
    <3>2. CASE r \in Lagging
      BY <2>4, <3>1, <3>2 DEF SafetyInv, TrailerInv
    <3>3. CASE r \notin Lagging
      BY <2>1, <3>3 DEF SafetyInv, TrailerInv, TrailingTimeOrder, active
    <3>4. QED
      BY <3>2, <3>3
  <2>9. lastVectorTime' <= model_vector.time
    BY <2>2, <2>7
  <2>10. TrailerInv'
    BY <2>1, <2>2, <2>5, <2>6, <2>7, <2>8, <2>9
    DEF TrailerInv, TrailingTimeOrder, active, Adopting, modelVars
  <2>11. QED
    BY <2>2, <2>3, <2>10, HistoriesUntouched DEF SafetyInv
<1>10. ASSUME NEW r \in Resource, ServeNode(r) PROVE SafetyInv'
  <2>1. /\ UNCHANGED <<modelVars, SafeVector, SafeTime, model_vector, lastVectorTime>>
        /\ cpc = "serve" /\ cpc' \in {"sample", "process"}
        /\ MayServe(r)
    BY <1>10 DEF ServeNode, sharedVars
  <2>2. CASE UNCHANGED <<node, onHold, prevTime>>
    BY <1>1, <2>1, <2>2 DEF Adopting
  <2>3. CASE ConsumeNode(r) /\ prevTime' = node[r][1]
    <3>1. VectorInv'
      BY <2>1, HistoriesUntouched DEF SafetyInv, VectorInv, OnHistory, Follows, modelVars
    <3>2. /\ \A q \in active : node[q][1] >= node[r][1]
          /\ node[r][1] <= lastVectorTime /\ r \in active
      <4>1. \A q \in Resource : node[q][1] \in Nat
        BY Clocks
      <4>2. QED
        BY <2>1, <4>1 DEF MayServe, IsHead, active
    <3>3. CASE node[r] = model_vector.safe[r]
      <4>1. onHold' = onHold \cup {r} /\ UNCHANGED node
        BY <2>3, <3>3 DEF ConsumeNode
      <4>2. TrailerInv'
        BY <2>1, <2>3, <3>2, <3>3, <4>1 DEF SafetyInv, TrailerInv, TrailingTimeOrder, active,
           Adopting, modelVars
      <4>3. QED
        BY <2>1, <3>1, <4>2, HistoriesUntouched DEF SafetyInv
    <3>4. CASE node[r] # model_vector.safe[r]
      <4>1. PICK n \in hist[r] :
              /\ IsFirst(n, {m \in hist[r] : Before(node[r], m)})
              /\ node' = [node EXCEPT ![r] = n]
        BY <2>3, <3>4 DEF ConsumeNode
      <4>2. onHold' = onHold
        BY <2>3, <3>4 DEF ConsumeNode
      <4>3. /\ n \in Node /\ node[r] \in Node /\ model_vector.safe[r] \in Node
            /\ model_vector.safe[r] \in hist[r] /\ ~Before(model_vector.safe[r], node[r])
        BY TypedNodes DEF SafetyInv, VectorInv, OnHistory, TrailerInv
      <4>4. /\ Before(node[r], n)
            /\ \A m \in hist[r] : Before(node[r], m) => n = m \/ Before(n, m)
        BY <4>1 DEF IsFirst
      <4>5. node[r][1] <= n[1]
        BY <4>3, <4>4, NodeOrder
      <4>6. ~Before(model_vector.safe[r], n)
        BY <3>4, <4>3, <4>4, NodeOrder
      <4>7. /\ node'[r] = n /\ \A q \in Resource \ {r} : node'[q] = node[q]
        BY <4>1 DEF TypeOK, CheckTypeOK
      <4>8. r \notin onHold /\ onHold \subseteq Resource
        BY <3>2, TypedNodes DEF active
      <4>9. \A q \in Resource \ onHold : node'[q][1] >= node[r][1]
        <5>1. n[1] \in Nat /\ node[r][1] \in Nat
          BY <4>3, NodeParts
        <5>2. QED
          BY <3>2, <4>5, <4>7, <5>1 DEF active
      <4>10. TrailerInv'
        BY <2>1, <2>3, <3>2, <4>2, <4>6, <4>7, <4>8, <4>9
        DEF SafetyInv, TrailerInv, TrailingTimeOrder, active, Adopting, modelVars
      <4>11. QED
        BY <2>1, <3>1, <4>10, HistoriesUntouched DEF SafetyInv
    <3>5. QED
      BY <3>3, <3>4
  <2>4. QED
    BY <1>10, <2>2, <2>3 DEF ServeNode
<1>11. QED
  BY <1>2, <1>3, <1>4, <1>5, <1>6, <1>7, <1>8, <1>9, <1>10 DEF CheckNext

LEMMA SafetyInvariant == Spec => []SafetyInv
<1>1. ASSUME SafetyInv, UNCHANGED vars PROVE SafetyInv'
  BY <1>1 DEF SafetyInv, HistoryInv, VectorInv, TrailerInv, OnHistory, Covered, Follows,
     SavedVector, NoVector, TrailingTimeOrder, active, Adopting, vars, modelVars, sharedVars,
     iterVars, checkVars
<1>2. TypeOK /\ TypeOK' /\ TimeInv /\ SafetyInv /\ [Next]_vars => SafetyInv'
  BY <1>1, SafetyInvModelStep, SafetyInvCheckStep DEF Next, Terminated
<1>3. QED
  BY InitSafetyInv, TypeCorrect, TimeInvariant, <1>2, PTL DEF Spec

\* The "theorem" of trailing_miter::peek(), for every number of resources,
\* length of the model and length of the histories: a node that is served is
\* one the modeling thread has consumed, and is not later than its SafeTime.
THEOREM ServedNodesAreFinal == Spec => []ServedNodesAreSafe
<1>1. TypeOK /\ TimeInv /\ SafetyInv => ServedNodesAreSafe
  <2> SUFFICES ASSUME TypeOK, TimeInv, SafetyInv, cpc = "process"
               PROVE  /\ node[peeked] \in hist[peeked]
                      /\ ~Before(trigger[peeked], node[peeked])
                      /\ node[peeked][1] <= SafeTime["model"]
    BY DEF ServedNodesAreSafe
  <2>1. peeked \in Resource
    BY Clocks
  <2>2. node[peeked] \in hist[peeked] /\ ~Before(model_vector.safe[peeked], node[peeked])
    BY <2>1 DEF SafetyInv, TrailerInv
  <2>3. /\ ~Before(SafeVector.safe[peeked], model_vector.safe[peeked])
        /\ ~Before(trigger[peeked], SafeVector.safe[peeked])
    BY <2>1 DEF SafetyInv, VectorInv, Follows, SavedVector
  <2>4. ~Before(SafeVector.safe[peeked], node[peeked])
    BY <2>1, <2>2, <2>3, TypedNodes, NodeOrder
  <2>5. ~Before(trigger[peeked], node[peeked])
    BY <2>1, <2>3, <2>4, TypedNodes, NodeOrder
  <2>6. QED
    BY <2>2, <2>5 DEF TimeInv
<1>2. QED
  BY TypeCorrect, TimeInvariant, SafetyInvariant, <1>1, PTL

\* The assertions of next() and peek() on the_previous_node hold: the nodes
\* of all the histories are served in the order of time, although nodes are
\* inserted retroactively while trailers are on hold.
THEOREM ServedInOrder == Spec => []TrailingTimeOrder
<1>1. SafetyInv => TrailingTimeOrder
  BY DEF SafetyInv, TrailerInv
<1>2. QED
  BY SafetyInvariant, <1>1, PTL

\* A set of nodes that is not empty has a first one.
LEMMA FirstNode ==
  ASSUME NEW S \in SUBSET Node, S # {}
  PROVE  \E n \in S : IsFirst(n, S)
<1> DEFINE Least(T) == \E x \in T : \A y \in T : x <= y
<1>1. ASSUME NEW T \in SUBSET Nat, T # {} PROVE Least(T)
  <2>1. PICK x \in T : \A y \in T : ~(<<y, x>> \in OpToRel(<, Nat))
    BY <1>1, NatLessThanWellFounded, WFMin
  <2>2. \A y \in T : <<y, x>> \in OpToRel(<, Nat) <=> y < x
    BY DEF OpToRel
  <2>3. \A y \in T : x <= y
    <3> SUFFICES ASSUME NEW y \in T PROVE x <= y
      OBVIOUS
    <3>1. ~(y < x)
      BY <2>1, <2>2
    <3>2. x \in Nat /\ y \in Nat
      BY <1>1
    <3>3. QED
      BY <3>1, <3>2
  <2>4. QED
    BY <2>3
<1>2. \A m \in S : m[1] \in Nat /\ m[2] \in Nat
  BY NodeParts
<1>3. PICK a \in S : \A m \in S : a[1] <= m[1]
  <2> DEFINE T == {m[1] : m \in S}
  <2>1. T \in SUBSET Nat /\ T # {}
    BY <1>2
  <2>2. Least(T)
    BY <1>1, <2>1
  <2>3. QED
    BY <2>2
<1>4. PICK n \in S : n[1] = a[1] /\ \A m \in S : m[1] = a[1] => n[2] <= m[2]
  <2> DEFINE U == {m \in S : m[1] = a[1]}
             T == {m[2] : m \in U}
  <2>1. T \in SUBSET Nat /\ T # {}
    BY <1>2
  <2>2. Least(T)
    BY <1>1, <2>1
  <2>3. QED
    BY <2>2
<1>5. \A m \in S : ~Before(m, n)
  BY <1>2, <1>3, <1>4 DEF Before
<1>6. QED
  BY <1>5, NodeOrder DEF IsFirst

\* assert(new_trailing_event) in get_new_data cannot fail: the safe node of
\* the new vector is late enough to revive the trailer on, at the latest.
THEOREM TrailersCanBeRevived == Spec => []RevivalFindsNode
<1>1. TypeOK /\ SafetyInv => RevivalFindsNode
  <2> SUFFICES ASSUME TypeOK, SafetyInv, cpc = "revive", NEW r \in Lagging
               PROVE  \E n \in hist[r] : RevivalNode(r, n)
    BY DEF RevivalFindsNode
  <2> DEFINE S == {m \in hist[r] : Before(node[r], m) /\ m[1] >= lastVectorTime}
  <2>1. /\ r \in Resource /\ node[r] # model_vector.safe[r]
        /\ model_vector.safe[r] \in hist[r] /\ ~Before(model_vector.safe[r], node[r])
        /\ lastVectorTime <= model_vector.safe[r][1]
    BY TypedNodes DEF Lagging, SafetyInv, TrailerInv, VectorInv, OnHistory
  <2>2. Before(node[r], model_vector.safe[r])
    BY <2>1, TypedNodes, NodeOrder
  <2>3. model_vector.safe[r][1] \in Nat /\ lastVectorTime \in Nat
    BY <2>1, TypedNodes, NodeParts, StartIsATime
  <2>4. model_vector.safe[r] \in S
    BY <2>1, <2>2, <2>3
  <2>5. S \in SUBSET Node
    BY <2>1, TypedNodes
  <2>6. PICK n \in S : IsFirst(n, S)
    BY <2>4, <2>5, FirstNode
  <2>7. RevivalNode(r, n)
    BY <2>6 DEF RevivalNode
  <2>8. QED
    BY <2>7
<1>2. QED
  BY TypeCorrect, SafetyInvariant, <1>1, PTL

\* Only do_model changes a history.
LEMMA OnlyEventsChangeHistories ==
  ASSUME [Next]_vars
  PROVE  UNCHANGED hist \/ (DoModel /\ UNCHANGED <<SafeVector, model_vector>>)
<1>1. CASE ModelNext
  BY <1>1 DEF ModelNext, DoModel, SkipNode, SetNode, UseNode, HistoryUnchangedElsewhere,
     StoreFirstVector, FirstVectorCaptured, AdvanceTime, WakeAhead, OfferVector, RaiseFlag,
     NoMoreEvents, SkipFinishedThread, FeedFlag, FeedStore, DeclareDone, CheckThreadErrors,
     ModelingError, CatchDone, CatchErrors, DestroyAllThreads, sharedVars, iterVars
<1>2. CASE CheckNext
  BY <1>2 DEF CheckNext, ConstructIterator, RegisterResources, RegistrationError, Sample,
     TestFlag, AdoptVector, SetCaptured, ReviveTrailers, ServeNode, FinishIfMasterDone,
     BailOutOrWait, GatherNode, EvaluateConstraints, EvaluationError, FinishChecking, modelVars
<1>3. CASE Terminated \/ UNCHANGED vars
  BY <1>3 DEF Terminated, vars, modelVars
<1>4. QED
  BY <1>1, <1>2, <1>3 DEF Next

\* The comment on check_constraints: the modeling thread does not touch the
\* piece of a history before and including the safe node of a vector in use,
\* even when it inserts a node retroactively.
THEOREM SafePiecesAreClosed == Spec => SafePartIsFinal
<1>1. ASSUME TypeOK, SafetyInv, [Next]_vars,
             NEW r \in Resource, NEW n \in hist'[r] \ hist[r], TypeOK'
      PROVE  Before(SafeVector.safe[r], n) /\ Before(model_vector.safe[r], n)
  <2>1. DoModel
    BY <1>1, OnlyEventsChangeHistories
  <2>2. Before(trigger[r], n)
    BY <1>1, <2>1, HistoryGrows DEF SafetyInv
  <2>3. /\ ~Before(SafeVector.safe[r], model_vector.safe[r])
        /\ ~Before(trigger[r], SafeVector.safe[r])
    BY <1>1 DEF SafetyInv, VectorInv, Follows, SavedVector
  <2>4. n \in Node
    BY <1>1 DEF TypeOK, ModelTypeOK, Node
  <2>5. Before(SafeVector.safe[r], n)
    BY <1>1, <2>2, <2>3, <2>4, TypedNodes, NodeOrder
  <2>6. QED
    BY <1>1, <2>3, <2>4, <2>5, TypedNodes, NodeOrder
<1>2. TypeOK /\ TypeOK' /\ SafetyInv /\ [Next]_vars =>
        [\A r \in Resource : \A n \in hist'[r] \ hist[r] :
           Before(SafeVector.safe[r], n) /\ Before(model_vector.safe[r], n)]_vars
  BY <1>1
<1>3. QED
  BY TypeCorrect, SafetyInvariant, <1>2, PTL DEF Spec, SafePartIsFinal
-----------------------------------------------------------------------------
(* No change is left out of an evaluation                                  *)

\* The changes earlier than a vector's time are at or before its safe nodes;
\* those at that time too, once a safe node has gone that far.
Recorded(v) ==
  \A q \in Resource : \A t \in changed[q] :
    t < v.time \/ (t = v.time /\ \E r \in Resource : t <= v.safe[r][1]) =>
      \E n \in hist[q] : n[1] = t /\ ~Before(v.safe[q], n)

\* A safe node reaches the time of its vector when the modeling thread was
\* woken ahead of its queue: no event happens at that time any more.
Ahead(v) ==
  mpc \in Modeling /\ Start < v.time /\ (\E r \in Resource : v.time <= v.safe[r][1]) =>
    v.time < modelTime

\* Where the modeling thread is about to save a vector, or may be.
Saving == {"store", "offer", "feed", "feedStore"}

\* Every change has a node, and every vector in use records the changes it
\* should.
ChangeInv ==
  /\ \A q \in Resource :
       /\ Start \in changed[q] /\ <<Start, 1>> \in hist[q]
       /\ \A t \in changed[q] : \E n \in hist[q] : n[1] = t
  /\ Recorded(SafeVector) /\ Ahead(SafeVector)
  /\ Recorded(model_vector) /\ Ahead(model_vector)
  /\ cpc = "adopt" => Recorded(loaded) /\ Ahead(loaded)
  /\ mpc \in Saving => Recorded(SavedVector) /\ Ahead(SavedVector)

\* Modeling starts only when the constraint thread has the first vector.
StartInv ==
  /\ mpc \in {"store", "await"} => trigger = NoVector.safe
  /\ cpc = "await" =>
       mpc \in {"store", "await"} /\ ~captured /\ SafeVector.safe = NoVector.safe
  /\ cpc = "register" => model_vector.safe = NoVector.safe
  /\ cpc \in {"await", "register"} => curTime = Start
  /\ caller = "first" => node = NoVector.safe /\ onHold = {}

\* Every change up to the time of the last vector is behind a trailer on hold.
HeldBehind(q) ==
  \A t \in changed[q] :
    t < lastVectorTime \/ (t = lastVectorTime /\ \E r \in active : t <= node[r][1]) =>
      t <= node[q][1]

\* A resource changed at curTime is among the updated ones once its trailer
\* has stepped past curTime, is held there, or may be consumed there before
\* the node that peek() returned is.
Gathered(q) ==
  /\ q \in active /\ curTime < node[q][1] => q \in updated
  /\ q \in onHold /\ node[q][1] = curTime => q \in updated
  /\ caller = "next" /\ q \in active /\ node[q][1] = curTime /\ node[peeked][1] = curTime
       /\ q <= peeked => q \in updated

GatherInv ==
  /\ cpc = "process" => IsHead(peeked) /\ node[peeked][1] <= lastVectorTime
  /\ curTime <= lastVectorTime
  /\ \A q \in active : \A t \in changed[q] : ~(curTime < t /\ t < node[q][1])
  /\ \A q \in onHold : node[q][1] <= curTime /\ HeldBehind(q)
  /\ caller = "next" => peeked \in active /\ node[peeked][1] <= curTime
  /\ caller # "first" => \A q \in Resource : curTime \in changed[q] => Gathered(q)

EvalInv == ChangeInv /\ StartInv /\ GatherInv

LEMMA InitEvalInv == Init => EvalInv
<1> SUFFICES ASSUME Init PROVE EvalInv
  OBVIOUS
<1> DEFINE first == <<Start, 1>>
<1>1. /\ hist = [r \in Resource |-> {first}] /\ changed = [r \in Resource |-> {Start}]
      /\ trigger = [r \in Resource |-> first]
      /\ node = [r \in Resource |-> first]
      /\ SafeVector = NoVector /\ model_vector = NoVector
      /\ NoVector.safe = [r \in Resource |-> first] /\ NoVector.time = Start
      /\ SavedVector.safe = [r \in Resource |-> first] /\ SavedVector.time = Start
  BY DEF Init, NoVector, SavedVector, Thread
<1>2. first \in Node /\ first[1] = Start /\ Start \in Nat
  BY StartIsATime DEF Node
<1>3. ~Before(first, first)
  BY <1>2, NodeOrder
<1>4. /\ cpc = "await" /\ mpc = "store" /\ ~captured /\ onHold = {} /\ curTime = Start
      /\ caller = "first" /\ lastVectorTime = Start
  BY DEF Init
<1>5. \A q \in Resource : <<Start, 1>> \in hist[q] /\ changed[q] = {Start}
  BY <1>1
<1> HIDE DEF first
<1>6. ChangeInv
  BY <1>1, <1>2, <1>3, <1>4, <1>5 DEF ChangeInv, Recorded, Ahead
<1>7. StartInv
  BY <1>1, <1>4 DEF StartInv
<1>8. GatherInv
  BY <1>1, <1>2, <1>4, <1>5 DEF GatherInv, active
<1>9. QED
  BY <1>6, <1>7, <1>8 DEF EvalInv

LEMMA ClocksOfChecks ==
  ASSUME TypeOK
  PROVE  /\ curTime \in Nat /\ lastVectorTime \in Nat /\ prevTime \in Nat
         /\ SafeVector.time \in Nat /\ model_vector.time \in Nat /\ loaded.time \in Nat
         /\ SafeTime["model"] \in Nat /\ modelTime \in Nat /\ Start \in Nat
         /\ SavedVector.time = SafeTime["model"]
         /\ \A r \in Resource : /\ node[r][1] \in Nat /\ trigger[r][1] \in Nat
                                /\ SafeVector.safe[r][1] \in Nat
                                /\ model_vector.safe[r][1] \in Nat
                                /\ SavedVector.safe[r] = trigger[r]
                                /\ \A t \in changed[r] : t \in Nat
                                /\ \A n \in hist[r] : n[1] \in Nat
                                /\ r \in Nat
<1>1. \A r \in Resource : \A t \in changed[r] : t \in Nat
  BY StartIsATime DEF TypeOK, ModelTypeOK
<1>2. \A r \in Resource : r \in Nat
  BY ResourceAssumption
<1>3. curTime \in Nat
  BY Clocks
<1>4. /\ lastVectorTime \in Nat /\ prevTime \in Nat
      /\ SafeVector.time \in Nat /\ model_vector.time \in Nat /\ loaded.time \in Nat
      /\ SafeTime["model"] \in Nat /\ modelTime \in Nat /\ Start \in Nat
  BY TypedNodes, StartIsATime
<1>5. \A r \in Resource : /\ node[r][1] \in Nat /\ trigger[r][1] \in Nat
                          /\ SafeVector.safe[r][1] \in Nat
                          /\ model_vector.safe[r][1] \in Nat
                          /\ \A n \in hist[r] : n[1] \in Nat
  BY TypedNodes, NodeParts
<1>6. SavedVector.time = SafeTime["model"] /\ \A r \in Resource : SavedVector.safe[r] = trigger[r]
  BY DEF SavedVector
<1>7. QED
  BY <1>1, <1>2, <1>3, <1>4, <1>5, <1>6

LEMMA WithNode ==
  ASSUME NEW H, NEW t
  PROVE  H \subseteq With(H, t) /\ \E n \in With(H, t) : n[1] = t
<1> DEFINE x == <<t, Cardinality({n \in H : n[1] = t}) + 1>>
<1>1. With(H, t) = H \cup {x} /\ x[1] = t
  BY DEF With
<1> HIDE DEF x
<1>2. QED
  BY <1>1

\* A usage or a setting leaves a node at every time it changes.
LEMMA ChangesHaveNodes ==
  ASSUME TypeOK, HistoryInv, DoModel
  PROVE  \A r \in Resource :
           /\ changed[r] \subseteq changed'[r]
           /\ \A t \in changed'[r] \ changed[r] :
                t >= modelTime /\ \E n \in hist'[r] : n[1] = t
<1>1. PICK r \in Resource : SkipNode(r) \/ SetNode(r) \/ UseNode(r)
  BY DEF DoModel
<1>2. /\ hist[r] \in SUBSET (Time \X (Nat \ {0})) /\ IsFiniteSet(hist[r]) /\ Numbered(hist[r])
      /\ modelTime \in Time /\ modelTime \in Nat
      /\ hist \in [Resource -> SUBSET (Time \X (Nat \ {0}))]
      /\ changed \in [Resource -> SUBSET Time]
  BY Clocks DEF TypeOK, ModelTypeOK, HistoryInv
<1>3. CASE SkipNode(r)
  BY <1>3 DEF SkipNode
<1>4. CASE SetNode(r)
  <2>1. changed' = [changed EXCEPT ![r] = @ \cup {modelTime}]
    BY <1>4 DEF SetNode
  <2> DEFINE H == IF skipped[r] = None THEN hist[r] ELSE With(hist[r], skipped[r])
  <2>2. hist' = [hist EXCEPT ![r] = With(H, modelTime)]
    BY <1>4 DEF SetNode
  <2> HIDE DEF H
  <2>3. \E n \in With(H, modelTime) : n[1] = modelTime
    BY WithNode
  <2>4. hist'[r] = With(H, modelTime)
    BY <1>2, <2>2
  <2>5. QED
    BY <1>2, <2>1, <2>3, <2>4
<1>5. CASE UseNode(r)
  <2>1. PICK end \in modelTime..Horizon :
          /\ hist' = [hist EXCEPT ![r] = With(With(@, modelTime), end)]
          /\ changed' = [changed EXCEPT ![r] = @ \cup {modelTime, end}]
    BY <1>5 DEF UseNode
  <2> DEFINE H == With(hist[r], modelTime)
  <2>2. \E n \in H : n[1] = modelTime
    BY WithNode
  <2>3. hist' = [hist EXCEPT ![r] = With(H, end)]
    BY <2>1
  <2> HIDE DEF H
  <2>4. H \subseteq With(H, end) /\ \E n \in With(H, end) : n[1] = end
    BY WithNode
  <2>5. hist'[r] = With(H, end)
    BY <1>2, <2>3
  <2>6. end >= modelTime
    BY <1>2, BoundAssumption
  <2>7. QED
    BY <1>2, <2>1, <2>2, <2>4, <2>5, <2>6
<1>6. QED
  BY <1>1, <1>3, <1>4, <1>5

\* The modeling thread between two events: the trailers and what was gathered
\* stay as they are.
LEMMA GatheringUntouched ==
  ASSUME GatherInv, UNCHANGED <<changed, cpc, caller, iterVars, checkVars>>
  PROVE  GatherInv'
BY DEF GatherInv, HeldBehind, Gathered, active, IsHead, iterVars, checkVars

\* Moving the iterators and the clock disturbs no vector in use.
LEMMA IteratorsStep ==
  ASSUME TypeOK, TypeOK', EvalInv, mpc = "loop", mpc' \in {"loop", "offer", "feed"},
         modelTime <= modelTime', mpc' \in Saving => Recorded(SavedVector)' /\ Ahead(SavedVector)',
         UNCHANGED <<hist, changed, SafeVector, captured, cpc, caller, iterVars, checkVars>>
  PROVE  EvalInv'
<1>1. UNCHANGED <<loaded, model_vector, node, onHold, curTime>>
  BY DEF iterVars, checkVars
<1>2. \A v \in {SafeVector, loaded, model_vector} :
        /\ v.time \in Nat
        /\ \A r \in Resource : v.safe[r][1] \in Nat
  <2>1. \A r \in Resource : loaded.safe[r][1] \in Nat
    BY TypedNodes, NodeParts
  <2>2. QED
    BY <2>1, ClocksOfChecks
<1>3. modelTime \in Nat /\ modelTime' \in Nat
  BY StartIsATime DEF TypeOK, ModelTypeOK
<1>4. ASSUME NEW v \in {SafeVector, loaded, model_vector}, Recorded(v), Ahead(v)
      PROVE  /\ \A q \in Resource : \A t \in changed'[q] :
                  t < v.time \/ (t = v.time /\ \E r \in Resource : t <= v.safe[r][1]) =>
                    \E n \in hist'[q] : n[1] = t /\ ~Before(v.safe[q], n)
             /\ mpc' \in Modeling /\ Start < v.time /\ (\E r \in Resource : v.time <= v.safe[r][1]) =>
                  v.time < modelTime'
  <2>1. mpc \in Modeling
    BY DEF Modeling
  <2>2. QED
    BY <1>2, <1>3, <1>4, <2>1 DEF Recorded, Ahead
<1>5. ChangeInv'
  BY <1>1, <1>4 DEF EvalInv, ChangeInv, Recorded, Ahead
<1>6. StartInv'
  BY <1>1 DEF EvalInv, StartInv, NoVector
<1>7. QED
  BY <1>5, <1>6, GatheringUntouched DEF EvalInv

\* Saving a vector, or only raising flags.
LEMMA EvalSaveStep ==
  ASSUME TypeOK, EvalInv,
         SafeVector' = SafeVector \/ (SafeVector' = SavedVector /\ mpc \in Saving),
         mpc' \in Modeling => mpc \in Modeling, mpc' \in Saving => mpc \in Saving,
         mpc' \in {"store", "await"} => mpc \in {"store", "await"},
         cpc = "await" => mpc' \in {"store", "await"} /\ captured' = captured,
         UNCHANGED <<modelTime, hist, changed, trigger, SafeTime, cpc, caller, iterVars, checkVars>>
  PROVE  EvalInv'
<1>1. UNCHANGED <<loaded, model_vector, node, onHold, curTime>>
  BY DEF iterVars, checkVars
<1>2. SavedVector'.safe = SavedVector.safe /\ SavedVector'.time = SavedVector.time
      /\ SavedVector.safe = trigger
  BY DEF SavedVector
<1>3. ChangeInv'
  BY <1>1, <1>2 DEF EvalInv, ChangeInv, Recorded, Ahead
<1>4. StartInv'
  BY <1>1, <1>2 DEF EvalInv, StartInv, NoVector
<1>5. QED
  BY <1>3, <1>4, GatheringUntouched DEF EvalInv

\* An event changes resources at a time that no vector in use and no trailer
\* has left behind.
LEMMA EventStep ==
  ASSUME TypeOK, TypeOK', TimeInv, SafetyInv, EvalInv, DoModel
  PROVE  EvalInv'
<1>1. /\ mpc = "loop" /\ modelTime = SafeTime["model"]
      /\ UNCHANGED <<mpc, modelTime, trigger, saves, sharedVars, cpc, caller, iterVars, checkVars>>
  BY DEF DoModel, SkipNode, SetNode, UseNode, HistoryUnchangedElsewhere, AtCurrentEvent
<1>2. /\ UNCHANGED <<SafeVector, captured, SafeTime, loaded, model_vector, node, onHold, lastVectorTime>>
      /\ UNCHANGED <<curTime, peeked, updated>>
  BY <1>1 DEF sharedVars, iterVars, checkVars
<1>3. \A r \in Resource :
        /\ hist[r] \subseteq hist'[r]
        /\ changed[r] \subseteq changed'[r]
        /\ \A t \in changed'[r] \ changed[r] :
             t >= modelTime /\ t \in Nat /\ t # Start /\ \E n \in hist'[r] : n[1] = t
  <2>1. \A r \in Resource : \A t \in changed'[r] : t \in Nat
    BY StartIsATime DEF TypeOK, ModelTypeOK
  <2>2. \A r \in Resource : Start \in changed[r]
    BY DEF EvalInv, ChangeInv
  <2>3. QED
    BY <2>1, <2>2, HistoryGrows, ChangesHaveNodes DEF SafetyInv
<1>4. /\ SafeVector.time <= modelTime /\ model_vector.time <= modelTime
      /\ cpc = "adopt" => loaded.time <= modelTime
      /\ curTime <= lastVectorTime /\ lastVectorTime <= modelTime
      /\ lastVectorTime <= model_vector.time
  <2>1. /\ SafeVector.time <= modelTime /\ model_vector.time <= SafeVector.time
        /\ cpc = "adopt" => loaded.time <= SafeVector.time
        /\ lastVectorTime <= model_vector.time
    BY <1>1 DEF TimeInv, SafetyInv, VectorInv, Follows, TrailerInv
  <2>2. QED
    BY <2>1, ClocksOfChecks DEF EvalInv, GatherInv
<1>5. ASSUME NEW v \in Vector, v.time <= modelTime, Recorded(v), Ahead(v),
             NEW q \in Resource, NEW t \in changed'[q] \ changed[q]
      PROVE  ~(t < v.time) /\ ~(t = v.time /\ \E r \in Resource : t <= v.safe[r][1])
  <2>1. v.time \in Nat /\ Start <= v.time /\ modelTime \in Nat /\ Start \in Nat
    BY ClocksOfChecks, BoundAssumption, StartIsATime DEF Vector, Time
  <2>2. t >= modelTime /\ t \in Nat /\ t # Start
    BY <1>3
  <2>3. ~(t < v.time)
    BY <1>5, <2>1, <2>2
  <2>4. ASSUME t = v.time, NEW r \in Resource, t <= v.safe[r][1] PROVE FALSE
    <3>1. mpc \in Modeling /\ Start < v.time
      BY <1>1, <2>1, <2>2, <2>4 DEF Modeling
    <3>2. v.time < modelTime
      BY <1>5, <2>4, <3>1 DEF Ahead
    <3>3. QED
      BY <2>1, <2>2, <2>4, <3>2
  <2>5. QED
    BY <2>3, <2>4
<1>6. ASSUME NEW v \in Vector, v.time <= modelTime, Recorded(v), Ahead(v)
      PROVE  \A q \in Resource : \A t \in changed'[q] :
               t < v.time \/ (t = v.time /\ \E r \in Resource : t <= v.safe[r][1]) =>
                 \E n \in hist'[q] : n[1] = t /\ ~Before(v.safe[q], n)
  <2> SUFFICES ASSUME NEW q \in Resource, NEW t \in changed'[q],
                      t < v.time \/ (t = v.time /\ \E r \in Resource : t <= v.safe[r][1])
               PROVE  \E n \in hist'[q] : n[1] = t /\ ~Before(v.safe[q], n)
    OBVIOUS
  <2>1. t \in changed[q]
    BY <1>5, <1>6
  <2>2. QED
    BY <1>3, <1>6, <2>1 DEF Recorded
<1>7. ChangeInv'
  <2>1. \A q \in Resource :
          /\ Start \in changed'[q] /\ <<Start, 1>> \in hist'[q]
          /\ \A t \in changed'[q] : \E n \in hist'[q] : n[1] = t
    BY <1>3 DEF EvalInv, ChangeInv
  <2>2. Recorded(SafeVector)' /\ Recorded(model_vector)' /\ (cpc' = "adopt" => Recorded(loaded)')
    BY <1>1, <1>2, <1>4, <1>6, VectorTypes DEF EvalInv, ChangeInv, Recorded
  <2>3. Ahead(SafeVector)' /\ Ahead(model_vector)' /\ (cpc' = "adopt" => Ahead(loaded)')
    BY <1>1, <1>2 DEF EvalInv, ChangeInv, Ahead
  <2>4. mpc' \notin Saving
    BY <1>1 DEF Saving
  <2>5. QED
    BY <2>1, <2>2, <2>3, <2>4 DEF ChangeInv
<1>8. StartInv'
  BY <1>1, <1>2 DEF EvalInv, StartInv, NoVector
<1>9. ASSUME NEW q \in Resource, NEW t \in changed'[q] \ changed[q]
      PROVE  t >= node[q][1] /\ (t = lastVectorTime => \A r \in Resource : node[r][1] < t)
  <2>1. t >= modelTime /\ t \in Nat
    BY <1>3
  <2>2. ASSUME NEW r \in Resource PROVE node[r][1] <= model_vector.safe[r][1] /\ node[r][1] <= modelTime
    <3>1. /\ ~Before(model_vector.safe[r], node[r])
          /\ ~Before(SafeVector.safe[r], model_vector.safe[r])
          /\ ~Before(trigger[r], SafeVector.safe[r])
          /\ trigger[r][1] <= modelTime
      BY <1>1 DEF SafetyInv, HistoryInv, VectorInv, TrailerInv, Follows, SavedVector, Modeling
    <3>2. /\ node[r][1] <= model_vector.safe[r][1]
          /\ model_vector.safe[r][1] <= SafeVector.safe[r][1]
          /\ SafeVector.safe[r][1] <= trigger[r][1]
      BY <3>1, TypedNodes, NodeOrder
    <3>3. QED
      BY <3>1, <3>2, ClocksOfChecks
  <2>3. t >= node[q][1]
    BY <2>1, <2>2, ClocksOfChecks
  <2>4. ASSUME t = lastVectorTime, NEW r \in Resource, ~(node[r][1] < t) PROVE FALSE
    <3>1. t = model_vector.time
      BY <1>4, <2>1, <2>4, ClocksOfChecks
    <3>2. t <= model_vector.safe[r][1]
      BY <2>1, <2>2, <2>4, ClocksOfChecks
    <3>3. QED
      BY <1>4, <1>5, <3>1, <3>2, VectorTypes DEF EvalInv, ChangeInv
  <2>5. QED
    BY <2>3, <2>4
<1>10. GatherInv'
  <2>1. active' = active /\ (IsHead(peeked))' = IsHead(peeked)
    BY <1>2 DEF active, IsHead
  <2>2. ASSUME NEW q \in active, NEW t \in changed'[q] PROVE ~(curTime < t /\ t < node[q][1])
    <3>1. q \in Resource /\ node[q][1] \in Nat
      BY ClocksOfChecks DEF active
    <3>2. CASE t \in changed[q]
      BY <3>2 DEF EvalInv, GatherInv
    <3>3. CASE t \notin changed[q]
      BY <1>3, <1>9, <3>1, <3>3
    <3>4. QED
      BY <3>2, <3>3
  <2>3. ASSUME NEW q \in onHold, NEW t \in changed'[q],
               t < lastVectorTime \/ (t = lastVectorTime /\ \E r \in active : t <= node[r][1])
        PROVE  t <= node[q][1]
    <3>1. q \in Resource
      BY TypedNodes
    <3>2. CASE t \in changed[q]
      BY <2>3, <3>2 DEF EvalInv, GatherInv, HeldBehind
    <3>3. CASE t \notin changed[q]
      <4>1. t >= modelTime /\ t \in Nat
        BY <1>3, <3>1, <3>3
      <4>2. t = lastVectorTime
        BY <1>4, <2>3, <4>1, ClocksOfChecks
      <4>3. PICK r \in Resource : t <= node[r][1]
        BY <2>3, <4>1, <4>2, ClocksOfChecks DEF active
      <4>4. node[r][1] < t
        BY <1>9, <3>1, <3>3, <4>2
      <4>5. QED
        BY <4>1, <4>3, <4>4, ClocksOfChecks
    <3>4. QED
      BY <3>2, <3>3
  <2>4. ASSUME NEW q \in Resource, curTime \in changed'[q], caller # "first"
        PROVE  Gathered(q)
    <3>1. CASE curTime \in changed[q]
      BY <2>4, <3>1 DEF EvalInv, GatherInv
    <3>2. CASE curTime \notin changed[q]
      <4>1. curTime = lastVectorTime
        BY <1>3, <1>4, <2>4, <3>2, ClocksOfChecks
      <4>2. node[q][1] < curTime
        BY <1>9, <2>4, <3>2, <4>1
      <4>3. node[q][1] \in Nat /\ curTime \in Nat
        BY ClocksOfChecks
      <4>4. QED
        BY <4>2, <4>3 DEF Gathered
    <3>3. QED
      BY <3>1, <3>2
  <2>5. \A q \in onHold : HeldBehind(q)'
    BY <1>2, <2>1, <2>3 DEF HeldBehind
  <2>6. \A q \in Resource : Gathered(q)' = Gathered(q)
    BY <1>1, <1>2, <2>1 DEF Gathered
  <2>7. QED
    BY <1>1, <1>2, <2>1, <2>2, <2>4, <2>5, <2>6 DEF EvalInv, GatherInv
<1>11. QED
  BY <1>7, <1>8, <1>10 DEF EvalInv

\* The modeling thread changes resources, clocks and vectors.
LEMMA EvalInvModelStep ==
  ASSUME TypeOK, TypeOK', TimeInv, SafetyInv, EvalInv, ModelNext
  PROVE  EvalInv'
<1>1. CASE StoreFirstVector \/ FirstVectorCaptured \/ OfferVector \/ RaiseFlag
           \/ SkipFinishedThread \/ FeedFlag \/ FeedStore \/ DeclareDone \/ CheckThreadErrors
           \/ ModelingError \/ CatchDone \/ CatchErrors \/ DestroyAllThreads
  <2>1. /\ SafeVector' = SafeVector \/ (SafeVector' = SavedVector /\ mpc \in Saving)
        /\ UNCHANGED <<modelTime, hist, changed, trigger, SafeTime, cpc, caller, iterVars, checkVars>>
    BY <1>1 DEF StoreFirstVector, FirstVectorCaptured, OfferVector, RaiseFlag,
       SkipFinishedThread, FeedFlag, FeedStore, DeclareDone, CheckThreadErrors,
       ModelingError, CatchDone, CatchErrors, DestroyAllThreads, sharedVars, Saving
  <2>2. /\ mpc' \in Modeling => mpc \in Modeling
        /\ mpc' \in Saving => mpc \in Saving
        /\ mpc' \in {"store", "await"} => mpc \in {"store", "await"}
    BY <1>1 DEF StoreFirstVector, FirstVectorCaptured, OfferVector, RaiseFlag,
       SkipFinishedThread, FeedFlag, FeedStore, DeclareDone, CheckThreadErrors,
       ModelingError, CatchDone, CatchErrors, DestroyAllThreads, Modeling, Saving
  <2>3. cpc = "await" => mpc' \in {"store", "await"} /\ captured' = captured
    <3>1. cpc = "await" => mpc \in {"store", "await"} /\ ~captured
      BY DEF EvalInv, StartInv
    <3>2. QED
      BY <1>1, <3>1 DEF StoreFirstVector, FirstVectorCaptured, OfferVector, RaiseFlag,
         SkipFinishedThread, FeedFlag, FeedStore, DeclareDone, CheckThreadErrors,
         ModelingError, CatchDone, CatchErrors, DestroyAllThreads, AtCurrentEvent
  <2>4. QED
    BY <2>1, <2>2, <2>3, EvalSaveStep
<1>2. CASE DoModel
  BY <1>2, EventStep
<1>3. ASSUME NEW t \in Time, AdvanceTime(t) PROVE EvalInv'
  <2> DEFINE S == [r \in Resource |-> {n \in hist[r] : n[1] < t \/ ~Before(trigger[r], n)}]
  <2>1. /\ t \in Nat /\ t - 1 \in Nat /\ SafeTime["model"] <= t - 1 /\ modelTime <= t
        /\ SafeTime["model"] \in Nat /\ modelTime \in Nat
    BY <1>3, Clocks, StartIsATime DEF AdvanceTime, TimeInv
  <2>2. /\ trigger' \in TriggersAfter(S) /\ modelTime' = t /\ SafeTime'["model"] = t
        /\ UNCHANGED <<hist, changed, SafeVector, captured, cpc, caller, iterVars, checkVars>>
        /\ mpc = "loop" /\ mpc' \in {"loop", "offer"} /\ (t = modelTime => mpc' = "loop")
    BY <1>3 DEF AdvanceTime, CountAdvance, TypeOK, SharedTypeOK, Thread
  <2>3. \A r \in Resource : \A n \in hist[r] : n[1] \in Nat
    BY Clocks
  <2>4. \A r \in Resource :
          /\ S[r] \subseteq hist[r]
          /\ \A n \in hist[r] : n[1] <= t - 1 \/ ~Before(trigger[r], n) => n \in S[r]
    BY <2>1, <2>3
  <2>5. ASSUME NEW r \in Resource, NEW n \in S[r], modelTime # t PROVE n[1] < t
    <3>1. n \in hist[r] /\ (n[1] < t \/ ~Before(trigger[r], n))
      OBVIOUS
    <3>2. trigger[r] \in Node /\ n \in Node /\ n[1] \in Nat /\ trigger[r][1] \in Nat
      BY <2>3, <3>1, TypedNodes, NodeParts
    <3>3. trigger[r][1] <= modelTime
      BY <2>2 DEF SafetyInv, HistoryInv, Modeling
    <3>4. ~Before(trigger[r], n) => n[1] <= trigger[r][1]
      BY <3>2, NodeOrder
    <3>5. QED
      BY <2>1, <2>5, <3>1, <3>2, <3>3, <3>4
  <2> HIDE DEF S
  <2>6. \A r \in Resource :
          trigger'[r] \in S[r] /\ \A n \in hist[r] : Before(trigger'[r], n) => n[1] > t - 1
    BY <2>1, <2>2, <2>4, TriggersMove DEF SafetyInv
  <2>7. ASSUME mpc' \in Saving PROVE Recorded(SavedVector)' /\ Ahead(SavedVector)'
    <3>1. modelTime # t
      BY <2>2, <2>7 DEF Saving
    <3>2. \A r \in Resource : trigger'[r][1] < t /\ trigger'[r][1] \in Nat
      BY <2>3, <2>4, <2>5, <2>6, <3>1
    <3>3. \A q \in Resource : \A u \in changed[q] : u \in Nat /\ \E n \in hist[q] : n[1] = u
      BY ClocksOfChecks DEF EvalInv, ChangeInv
    <3>4. SavedVector'.time = t /\ \A r \in Resource : SavedVector'.safe[r] = trigger'[r]
      BY <2>2 DEF SavedVector
    <3>5. \A q \in Resource : \A u \in changed[q] : u < t =>
            \E n \in hist[q] : n[1] = u /\ ~Before(trigger'[q], n)
      BY <2>1, <2>6, <3>3
    <3>6. Recorded(SavedVector)'
      BY <2>1, <2>2, <3>2, <3>4, <3>5 DEF Recorded
    <3>7. Ahead(SavedVector)'
      BY <2>1, <2>2, <3>2, <3>4 DEF Ahead
    <3>8. QED
      BY <3>6, <3>7
  <2>8. QED
    BY <2>1, <2>2, <2>7, IteratorsStep
<1>4. ASSUME NEW r \in Resource, WakeAhead(r) PROVE EvalInv'
  <2>1. PICK n \in hist[r] :
          /\ n[1] > modelTime
          /\ trigger' \in TriggersAfter([q \in Resource |->
               {m \in hist[q] : \/ ~Before(trigger[q], m)
                                \/ m[1] < n[1]
                                \/ m[1] = n[1] /\ q < r
                                \/ q = r /\ ~Before(n, m)}])
          /\ modelTime' = n[1]
    BY <1>4 DEF WakeAhead
  <2> DEFINE S == [q \in Resource |->
               {m \in hist[q] : \/ ~Before(trigger[q], m)
                                \/ m[1] < n[1]
                                \/ m[1] = n[1] /\ q < r
                                \/ q = r /\ ~Before(n, m)}]
  <2>2. /\ modelTime \in Nat /\ n[1] \in Nat /\ SafeTime["model"] = modelTime
        /\ mpc = "loop" /\ mpc' \in {"loop", "offer"}
        /\ UNCHANGED <<SafeTime, hist, changed, SafeVector, captured, cpc, caller, iterVars, checkVars>>
    BY <1>4, Clocks DEF WakeAhead, CountAdvance, AtCurrentEvent, sharedVars
  <2>3. \A q \in Resource : \A m \in hist[q] : m[1] \in Nat
    BY Clocks
  <2>4. \A q \in Resource :
          /\ S[q] \subseteq hist[q]
          /\ \A m \in hist[q] : m[1] <= modelTime \/ ~Before(trigger[q], m) => m \in S[q]
    BY <2>1, <2>2, <2>3
  <2>5. trigger' \in TriggersAfter(S)
    BY <2>1
  <2> HIDE DEF S
  <2>6. \A q \in Resource : \A m \in hist[q] : Before(trigger'[q], m) => m[1] > modelTime
    BY <2>2, <2>4, <2>5, TriggersMove DEF SafetyInv
  <2>7. SavedVector'.time = modelTime /\ \A q \in Resource : SavedVector'.safe[q] = trigger'[q]
    BY <2>2 DEF SavedVector
  <2>8. \A q \in Resource : \A u \in changed[q] : u <= modelTime =>
          \E m \in hist[q] : m[1] = u /\ ~Before(trigger'[q], m)
    <3>1. \A q \in Resource : \A u \in changed[q] : u \in Nat /\ \E m \in hist[q] : m[1] = u
      BY ClocksOfChecks DEF EvalInv, ChangeInv
    <3>2. QED
      BY <2>2, <2>6, <3>1
  <2>9. Recorded(SavedVector)'
    <3>1. \A q \in Resource : \A u \in changed[q] : u \in Nat
      BY ClocksOfChecks
    <3>2. QED
      BY <2>2, <2>7, <2>8, <3>1 DEF Recorded
  <2>10. Ahead(SavedVector)'
    BY <2>1, <2>7 DEF Ahead
  <2>11. QED
    BY <2>1, <2>2, <2>9, <2>10, IteratorsStep
<1>5. CASE NoMoreEvents
  <2>1. /\ trigger' \in TriggersAfter(hist) /\ mpc = "loop" /\ mpc' = "feed"
        /\ UNCHANGED <<modelTime, hist, changed, SafeVector, captured, cpc, caller, iterVars, checkVars>>
    BY <1>5 DEF NoMoreEvents, AtCurrentEvent, sharedVars
  <2>2. modelTime \in Nat
    BY Clocks
  <2>3. \A q \in Resource : \A m \in hist[q] : ~Before(trigger'[q], m)
    <3> SUFFICES ASSUME NEW q \in Resource, NEW m \in hist[q] PROVE ~Before(trigger'[q], m)
      OBVIOUS
    <3>1. trigger'[q] \in hist[q] /\ (m = trigger'[q] \/ Before(m, trigger'[q]))
      BY <2>1 DEF TriggersAfter, IsLast
    <3>2. QED
      BY <3>1, TypedNodes, NodeOrder
  <2>4. \A q \in Resource : SavedVector'.safe[q] = trigger'[q]
    BY DEF SavedVector
  <2>5. \A q \in Resource : \A u \in changed[q] : \E m \in hist[q] : m[1] = u
    BY DEF EvalInv, ChangeInv
  <2>6. Recorded(SavedVector)'
    BY <2>1, <2>3, <2>4, <2>5 DEF Recorded
  <2>7. Ahead(SavedVector)'
    BY <2>1 DEF Ahead, Modeling
  <2>8. QED
    BY <2>1, <2>2, <2>6, <2>7, IteratorsStep
<1>6. QED
  BY <1>1, <1>2, <1>3, <1>4, <1>5 DEF ModelNext

\* What a vector records does not depend on the constraint thread.
LEMMA ChangesUntouched ==
  ASSUME EvalInv, UNCHANGED <<modelVars, SafeVector>>, SafeTime'["model"] = SafeTime["model"],
         model_vector' = model_vector \/ model_vector' = SafeVector
           \/ (cpc = "adopt" /\ model_vector' = loaded),
         cpc' = "adopt" => loaded' = SafeVector
  PROVE  ChangeInv'
<1>1. UNCHANGED <<mpc, modelTime, hist, changed, trigger, saves>>
  BY DEF modelVars
<1>2. SavedVector' = SavedVector
  BY <1>1 DEF SavedVector
<1>3. QED
  BY <1>1, <1>2 DEF EvalInv, ChangeInv, Recorded, Ahead

\* Trailers on hold on their safe nodes have every recorded change behind them.
LEMMA HeldOnSafeNode ==
  ASSUME TypeOK, ChangeInv, Recorded(model_vector), lastVectorTime = model_vector.time,
         NEW q \in Resource, node[q] = model_vector.safe[q],
         \A r \in active : ~Before(model_vector.safe[r], node[r])
  PROVE  HeldBehind(q)
<1> SUFFICES ASSUME NEW t \in changed[q],
                    t < lastVectorTime \/ (t = lastVectorTime /\ \E r \in active : t <= node[r][1])
             PROVE  t <= node[q][1]
  BY DEF HeldBehind
<1>1. t \in Nat
  BY ClocksOfChecks
<1>2. \A r \in active : r \in Resource /\ node[r][1] <= model_vector.safe[r][1]
  BY TypedNodes, NodeOrder DEF active
<1>3. t < model_vector.time \/ (t = model_vector.time /\ \E r \in Resource : t <= model_vector.safe[r][1])
  BY <1>1, <1>2, ClocksOfChecks
<1>4. PICK n \in hist[q] : n[1] = t /\ ~Before(model_vector.safe[q], n)
  BY <1>3 DEF Recorded
<1>5. n[1] <= model_vector.safe[q][1]
  BY <1>4, TypedNodes, NodeOrder
<1>6. QED
  BY <1>4, <1>5

\* The loop of check_constraints and the iterator under it: what is served,
\* consumed, held and revived stays consistent with what was gathered.
LEMMA EvalInvCheckStep ==
  ASSUME TypeOK, TypeOK', TimeInv, SafetyInv, SafetyInv', EvalInv, CheckNext
  PROVE  EvalInv'
<1>1. ASSUME UNCHANGED <<modelVars, SafeVector, node, onHold, lastVectorTime, curTime, updated>>,
             SafeTime'["model"] = SafeTime["model"],
             model_vector' = model_vector \/ (cpc = "adopt" /\ model_vector' = loaded),
             cpc' = "adopt" => loaded' = SafeVector,
             cpc' \notin {"await", "register", "process"},
             caller' = caller \/ (caller' = "peek" /\ caller # "first"),
             caller' = "next" => peeked' = peeked
      PROVE  EvalInv'
  <2>1. StartInv'
    BY <1>1 DEF EvalInv, StartInv, NoVector, modelVars
  <2>2. GatherInv'
    BY <1>1 DEF EvalInv, GatherInv, HeldBehind, Gathered, active, modelVars
  <2>3. QED
    BY <1>1, <2>1, <2>2, ChangesUntouched DEF EvalInv
<1>2. CASE Sample \/ TestFlag \/ AdoptVector \/ SetCaptured
  BY <1>1, <1>2 DEF Sample, TestFlag, AdoptVector, SetCaptured, sharedVars, iterVars, checkVars
<1>3. CASE RegistrationError \/ FinishChecking
  BY <1>1, <1>3 DEF RegistrationError, FinishChecking, iterVars, checkVars
<1>4. CASE FinishIfMasterDone \/ BailOutOrWait
  <2>1. CASE caller # "first" \/ UNCHANGED caller
    <3>1. caller' = caller \/ (caller' = "peek" /\ caller # "first")
      BY <1>4, <2>1 DEF FinishIfMasterDone, BailOutOrWait, ReturnNull
    <3>2. cpc' \in {"crashed", "finish", "sample", "checkErrors"}
      BY <1>4 DEF FinishIfMasterDone, BailOutOrWait, ReturnNull, TypeOK, CheckTypeOK
    <3>3. QED
      BY <1>1, <1>4, <3>1, <3>2 DEF FinishIfMasterDone, BailOutOrWait, iterVars, checkVars
  <2>2. CASE caller = "first" /\ caller' # caller
    <3>1. /\ UNCHANGED <<modelVars, SafeVector, SafeTime, model_vector, node, onHold, lastVectorTime, curTime>>
          /\ cpc' = "crashed" /\ caller' = "peek"
      BY <1>4, <2>2 DEF FinishIfMasterDone, BailOutOrWait, ReturnNull, iterVars, checkVars
    <3>2. \A q \in Resource : node[q][1] = Start /\ q \in active
      BY <2>2 DEF EvalInv, StartInv, NoVector, active
    <3>3. Start <= curTime
      BY BoundAssumption DEF TypeOK, CheckTypeOK, Time
    <3>4. onHold = {}
      BY <2>2 DEF EvalInv, StartInv
    <3>5. \A q \in Resource : ~(curTime < node[q][1])
      BY <3>2, <3>3, ClocksOfChecks
    <3>6. UNCHANGED <<hist, changed>>
      BY <3>1 DEF modelVars
    <3>7. \A q \in Resource : Gathered(q)'
      BY <3>1, <3>4, <3>5 DEF Gathered
    <3>8. GatherInv'
      BY <3>1, <3>4, <3>6, <3>7 DEF EvalInv, GatherInv, active
    <3>9. StartInv'
      BY <3>1 DEF EvalInv, StartInv, NoVector, modelVars
    <3>10. QED
      BY <3>1, <3>8, <3>9, ChangesUntouched DEF EvalInv
  <2>3. QED
    BY <2>1, <2>2
<1>5. CASE ConstructIterator \/ RegisterResources
  <2>1. caller = "first" /\ cpc \in {"await", "register"} /\ curTime = Start
    BY <1>5 DEF TimeInv, EvalInv, StartInv, ConstructIterator, RegisterResources
  <2>2. node = NoVector.safe /\ onHold = {}
    BY <2>1 DEF EvalInv, StartInv
  <2>3. /\ UNCHANGED <<modelVars, SafeVector, SafeTime, curTime>>
        /\ model_vector' = model_vector \/ model_vector' = SafeVector
        /\ cpc' \in {"register", "sample"} /\ caller' = "first"
        /\ lastVectorTime' = model_vector'.time
    BY <1>5, <2>1 DEF ConstructIterator, RegisterResources, sharedVars, checkVars, SafetyInv,
       TrailerInv, Adopting
  <2>4. node' = NoVector.safe /\ onHold' = {}
    BY <1>5, <2>2 DEF ConstructIterator, RegisterResources, EvalInv, StartInv
  <2>5. cpc' = "register" => model_vector'.safe = NoVector.safe
    BY <1>5 DEF ConstructIterator, RegisterResources, EvalInv, StartInv
  <2>6. UNCHANGED <<hist, changed, mpc, trigger>>
    BY <2>3 DEF modelVars
  <2>7. Start <= lastVectorTime'
    BY BoundAssumption DEF TypeOK, CheckTypeOK, Time
  <2>8. StartInv'
    BY <2>1, <2>3, <2>4, <2>5, <2>6 DEF EvalInv, StartInv, NoVector
  <2>9. \A q \in Resource : NoVector.safe[q][1] = Start
    BY DEF NoVector
  <2>10. \A q \in Resource : \A t \in changed[q] : ~(Start < t /\ t < Start)
    BY ClocksOfChecks
  <2>11. GatherInv'
    BY <2>1, <2>3, <2>4, <2>6, <2>7, <2>9, <2>10 DEF EvalInv, GatherInv, active
  <2>12. QED
    BY <2>3, <2>8, <2>11, ChangesUntouched DEF EvalInv
<1>6. CASE ReviveTrailers
  <2>1. PICK f \in [Resource -> UNION {hist[r] : r \in Resource}] :
          /\ \A r \in Lagging : RevivalNode(r, f[r])
          /\ \A r \in Resource \ Lagging : f[r] = node[r]
          /\ node' = f
    BY <1>6 DEF ReviveTrailers
  <2>2. /\ UNCHANGED <<modelVars, SafeVector, SafeTime, model_vector, caller, peeked, curTime, updated>>
        /\ onHold' = onHold \ Lagging /\ lastVectorTime' = model_vector.time
        /\ cpc = "revive" /\ cpc' = "serve"
    BY <1>6 DEF ReviveTrailers, checkVars
  <2>3. UNCHANGED <<hist, changed, mpc, trigger>>
    BY <2>2 DEF modelVars
  <2>4. ASSUME NEW q \in Lagging
        PROVE  /\ q \in onHold /\ q \in Resource
               /\ f[q] \in hist[q] /\ Before(node[q], f[q]) /\ lastVectorTime <= f[q][1]
               /\ f[q][1] \in Nat
               /\ \A m \in hist[q] : node[q][1] < m[1] /\ lastVectorTime <= m[1] => f[q][1] <= m[1]
    <3>1. q \in onHold /\ q \in Resource
      BY TypedNodes DEF Lagging
    <3>2. /\ f[q] \in hist[q] /\ Before(node[q], f[q]) /\ lastVectorTime <= f[q][1]
          /\ \A m \in hist[q] : Before(node[q], m) /\ m[1] >= lastVectorTime =>
               f[q] = m \/ Before(f[q], m)
      BY <2>1 DEF RevivalNode, IsFirst
    <3>3. f[q][1] \in Nat
      BY <3>1, <3>2, ClocksOfChecks
    <3>4. ASSUME NEW m \in hist[q], node[q][1] < m[1], lastVectorTime <= m[1] PROVE f[q][1] <= m[1]
      <4>1. Before(node[q], m) /\ m[1] >= lastVectorTime /\ m[1] \in Nat
        BY <3>1, <3>4, ClocksOfChecks DEF Before
      <4>2. f[q] = m \/ Before(f[q], m)
        BY <3>2, <4>1
      <4>3. QED
        BY <3>1, <3>2, <3>3, <4>1, <4>2, TypedNodes, NodeOrder
    <3>5. QED
      BY <3>1, <3>2, <3>3, <3>4
  <2>5. \A q \in onHold : node[q][1] <= curTime /\ HeldBehind(q) /\ q \in Resource
    BY TypedNodes DEF EvalInv, GatherInv
  <2>6. curTime <= lastVectorTime /\ lastVectorTime <= model_vector.time
    BY DEF EvalInv, GatherInv, SafetyInv, TrailerInv
  <2>7. \A q \in Resource : \A t \in changed[q] : t \in Nat /\ \E n \in hist[q] : n[1] = t
    BY ClocksOfChecks DEF EvalInv, ChangeInv
  <2>8. active \subseteq Resource /\ active' = active \cup Lagging
    BY <2>2, TypedNodes DEF active, Lagging
  <2>9. caller = "first" => Lagging = {}
    BY DEF EvalInv, StartInv, Lagging
  <2>10. StartInv'
    <3>1. caller = "first" => node' = NoVector.safe /\ onHold' = {}
      <4>1. ASSUME caller = "first" PROVE f = node
        <5>1. \A r \in Resource : f[r] = node[r]
          BY <2>1, <2>9, <4>1
        <5>2. node \in [Resource -> Node] /\ node' \in [Resource -> Node]
          BY DEF TypeOK, CheckTypeOK
        <5>3. QED
          BY <2>1, <5>1, <5>2
      <4>2. QED
        BY <2>1, <2>2, <4>1 DEF EvalInv, StartInv
    <3>2. QED
      BY <2>2, <2>3, <3>1 DEF EvalInv, StartInv, NoVector
  <2>11. \A q \in active' : \A t \in changed[q] : ~(curTime < t /\ t < f[q][1])
    <3> SUFFICES ASSUME NEW q \in active', NEW t \in changed[q], curTime < t, t < f[q][1]
                 PROVE  FALSE
      OBVIOUS
    <3>1. CASE q \in Lagging
      <4>1. PICK m \in hist[q] : m[1] = t
        BY <2>4, <2>7, <3>1
      <4>2. t \in Nat /\ node[q][1] \in Nat /\ node[q][1] <= curTime
        BY <2>4, <2>5, <2>7, <3>1, ClocksOfChecks
      <4>3. CASE t < lastVectorTime
        BY <2>4, <2>5, <3>1, <4>2, <4>3, ClocksOfChecks DEF HeldBehind
      <4>4. CASE ~(t < lastVectorTime)
        BY <2>4, <3>1, <4>1, <4>2, <4>4, ClocksOfChecks
      <4>5. QED
        BY <4>3, <4>4
    <3>2. CASE q \notin Lagging
      BY <2>1, <2>8, <3>2 DEF EvalInv, GatherInv
    <3>3. QED
      BY <3>1, <3>2
  <2>12. \A q \in onHold' : f[q][1] <= curTime /\ HeldBehind(q)'
    <3> SUFFICES ASSUME NEW q \in onHold' PROVE f[q][1] <= curTime /\ HeldBehind(q)'
      OBVIOUS
    <3>1. q \in onHold /\ q \notin Lagging /\ q \in Resource
      BY <2>2, <2>5
    <3>2. f[q] = node[q] /\ node[q] = model_vector.safe[q]
      BY <2>1, <3>1 DEF Lagging
    <3>3. HeldBehind(q)'
      <4> SUFFICES ASSUME NEW t \in changed[q],
                          t < model_vector.time \/ (t = model_vector.time /\ \E r \in active' : t <= f[r][1])
                   PROVE  t <= f[q][1]
        BY <2>1, <2>2, <2>3 DEF HeldBehind
      <4>1. \A r \in active' : r \in Resource /\ f[r][1] <= model_vector.safe[r][1] /\ f[r][1] \in Nat
        <5> SUFFICES ASSUME NEW r \in active'
                     PROVE r \in Resource /\ f[r][1] <= model_vector.safe[r][1] /\ f[r][1] \in Nat
          OBVIOUS
        <5>1. r \in Resource /\ f[r] \in hist[r] /\ ~Before(model_vector.safe[r], f[r])
          BY <2>1, <2>2, <2>3 DEF active, SafetyInv, TrailerInv
        <5>2. QED
          BY <5>1, TypedNodes, NodeOrder, NodeParts
      <4>2. t < model_vector.time
              \/ (t = model_vector.time /\ \E r \in Resource : t <= model_vector.safe[r][1])
        BY <2>7, <3>1, <4>1, ClocksOfChecks
      <4>3. PICK n \in hist[q] : n[1] = t /\ ~Before(model_vector.safe[q], n)
        BY <3>1, <4>2 DEF EvalInv, ChangeInv, Recorded
      <4>4. n[1] <= model_vector.safe[q][1]
        BY <3>1, <4>3, TypedNodes, NodeOrder
      <4>5. QED
        BY <3>2, <4>3, <4>4
    <3>4. QED
      BY <2>5, <3>1, <3>2, <3>3
  <2>13. ASSUME NEW q \in Resource, curTime \in changed[q], caller # "first" PROVE Gathered(q)'
    <3>1. curTime \in Nat /\ lastVectorTime \in Nat
      BY ClocksOfChecks
    <3>2. ASSUME caller = "next"
          PROVE  peeked \in active /\ f[peeked] = node[peeked] /\ node[peeked][1] <= curTime
                 /\ peeked \in Resource
      <4>1. peeked \in active /\ node[peeked][1] <= curTime
        BY <3>2 DEF EvalInv, GatherInv
      <4>2. peeked \notin Lagging
        BY <4>1 DEF active, Lagging
      <4>3. QED
        BY <2>1, <2>8, <4>1, <4>2
    <3>3. Gathered(q)
      BY <2>13 DEF EvalInv, GatherInv
    <3>4. CASE q \notin Lagging
      <4>1. f[q] = node[q] /\ (q \in active' <=> q \in active) /\ (q \in onHold' <=> q \in onHold)
        BY <2>1, <2>2, <2>8, <3>4
      <4>2. QED
        BY <2>1, <2>2, <3>2, <3>3, <4>1 DEF Gathered
    <3>5. CASE q \in Lagging
      <4>1. /\ q \in onHold /\ q \notin onHold' /\ node[q][1] \in Nat /\ node[q][1] <= curTime
            /\ HeldBehind(q)
        BY <2>2, <2>4, <2>5, <3>5, ClocksOfChecks
      <4>2. node[q][1] = curTime => q \in updated
        BY <3>3, <4>1 DEF Gathered
      <4>3. PICK m \in hist[q] : m[1] = curTime
        BY <2>7, <2>13
      <4>4. ASSUME curTime < lastVectorTime PROVE node[q][1] = curTime
        BY <2>13, <3>1, <4>1, <4>4 DEF HeldBehind
      <4>5. ASSUME curTime < f[q][1], curTime = lastVectorTime PROVE node[q][1] = curTime
        <5>1. CASE node[q][1] < curTime
          BY <2>4, <3>1, <3>5, <4>3, <4>5, <5>1
        <5>2. QED
          BY <3>1, <4>1, <5>1
      <4>6. ASSUME caller = "next", f[q][1] = curTime, f[peeked][1] = curTime
            PROVE  node[q][1] = curTime
        <5>1. lastVectorTime <= curTime
          BY <2>4, <3>5, <4>6
        <5>2. curTime = lastVectorTime
          BY <2>6, <3>1, <5>1
        <5>3. \E r \in active : curTime <= node[r][1]
          BY <3>1, <3>2, <4>6
        <5>4. curTime <= node[q][1]
          BY <2>13, <4>1, <5>2, <5>3 DEF HeldBehind
        <5>5. QED
          BY <3>1, <4>1, <5>4
      <4>7. curTime < lastVectorTime \/ curTime = lastVectorTime
        BY <2>6, <3>1
      <4>8. (q \in active /\ curTime < node[q][1] => q \in updated)'
        BY <2>1, <2>2, <4>2, <4>4, <4>5, <4>7
      <4>9. QED
        BY <2>1, <2>2, <4>1, <4>2, <4>6, <4>8 DEF Gathered
    <3>6. QED
      BY <3>4, <3>5
  <2>14. caller = "next" => peeked \in active' /\ f[peeked][1] <= curTime
    <3>1. ASSUME caller = "next" PROVE peeked \in active /\ node[peeked][1] <= curTime
      BY <3>1 DEF EvalInv, GatherInv
    <3>2. peeked \in active => peeked \notin Lagging
      BY DEF active, Lagging
    <3>3. QED
      BY <2>1, <2>8, <3>1, <3>2
  <2>15. curTime <= model_vector.time
    BY <2>6, ClocksOfChecks
  <2>16. GatherInv'
    BY <2>1, <2>2, <2>3, <2>11, <2>12, <2>13, <2>14, <2>15 DEF GatherInv
  <2>17. QED
    BY <2>2, <2>10, <2>16, ChangesUntouched DEF EvalInv
<1>7. ASSUME NEW r \in Resource, ServeNode(r) PROVE EvalInv'
  <2>1. /\ UNCHANGED <<modelVars, SafeVector, SafeTime, model_vector, lastVectorTime, updated>>
        /\ cpc = "serve" /\ cpc' \in {"sample", "process"} /\ IsHead(r)
        /\ node[r][1] <= lastVectorTime
    BY <1>7 DEF ServeNode, MayServe, sharedVars
  <2>2. UNCHANGED <<hist, changed, mpc, trigger>>
    BY <2>1 DEF modelVars
  <2>3. /\ r \in active /\ active \subseteq Resource
        /\ \A q \in active : node[r][1] <= node[q][1] /\ (node[q][1] = node[r][1] => r <= q)
    BY <2>1, ClocksOfChecks DEF IsHead, active
  <2>4. CASE caller = "first"
    <3>1. /\ curTime' = node[r][1] /\ cpc' = "sample" /\ caller' = "peek"
          /\ UNCHANGED <<node, onHold>>
      BY <1>7, <2>4 DEF ServeNode
    <3>2. \A q \in Resource : node[q][1] = Start
      BY <2>4 DEF EvalInv, StartInv, NoVector
    <3>3. onHold = {}
      BY <2>4 DEF EvalInv, StartInv
    <3>4. curTime' = Start
      BY <3>1, <3>2
    <3>5. \A q \in Resource : Gathered(q)'
      BY <3>1, <3>2, <3>3, <3>4, ClocksOfChecks DEF Gathered
    <3>6. \A q \in Resource : \A t \in changed[q] : ~(Start < t /\ t < Start)
      BY ClocksOfChecks
    <3>7. GatherInv'
      BY <2>1, <2>2, <3>1, <3>2, <3>3, <3>4, <3>5, <3>6 DEF GatherInv, active
    <3>8. StartInv'
      BY <2>1, <2>2, <3>1 DEF EvalInv, StartInv
    <3>9. QED
      BY <2>1, <3>1, <3>7, <3>8, ChangesUntouched DEF EvalInv
  <2>5. CASE caller = "peek"
    <3>1. /\ peeked' = r /\ cpc' = "process"
          /\ UNCHANGED <<node, onHold, curTime, caller>>
      BY <1>7, <2>5 DEF ServeNode
    <3>2. GatherInv'
      BY <2>1, <2>2, <2>5, <3>1 DEF EvalInv, GatherInv, HeldBehind, Gathered, active, IsHead
    <3>3. StartInv'
      BY <2>1, <2>2, <2>5, <3>1 DEF EvalInv, StartInv
    <3>4. QED
      BY <2>1, <3>1, <3>2, <3>3, ChangesUntouched DEF EvalInv
  <2>6. CASE caller = "next"
    <3>1. /\ ConsumeNode(r) /\ cpc' = "sample" /\ caller' = "peek"
          /\ UNCHANGED <<peeked, curTime>>
      BY <1>7, <2>6 DEF ServeNode
    <3>2. /\ peeked \in active /\ node[peeked][1] <= curTime
      BY <2>6 DEF EvalInv, GatherInv
    <3>3. curTime \in Nat /\ \A q \in Resource : node[q][1] \in Nat
      BY ClocksOfChecks
    <3>4. node[r][1] <= curTime /\ (node[r][1] = curTime => node[peeked][1] = curTime /\ r <= peeked)
      BY <2>3, <3>2, <3>3
    <3>5. curTime \in changed[r] /\ node[r][1] = curTime => r \in updated
      BY <2>3, <2>6, <3>4 DEF EvalInv, GatherInv, Gathered
    <3>6. \A q \in Resource : \A t \in changed[q] : t \in Nat /\ \E n \in hist[q] : n[1] = t
      BY ClocksOfChecks DEF EvalInv, ChangeInv
    <3>7. StartInv'
      BY <2>1, <2>2, <2>6, <3>1 DEF EvalInv, StartInv
    <3>8. \A q \in onHold' : HeldBehind(q)'
      <4>1. lastVectorTime = model_vector.time
        BY <2>1 DEF SafetyInv, TrailerInv, Adopting
      <4>2. \A q \in onHold' : node'[q] = model_vector.safe[q] /\ q \in Resource
        BY <2>1 DEF SafetyInv, TrailerInv, Adopting, TypeOK, CheckTypeOK
      <4>3. \A q \in active' : ~Before(model_vector.safe[q], node'[q])
        BY <2>1 DEF SafetyInv, TrailerInv, active
      <4>4. ASSUME NEW q \in onHold', NEW t \in changed[q],
                   t < lastVectorTime \/ (t = lastVectorTime /\ \E u \in active' : t <= node'[u][1])
            PROVE  t <= node'[q][1]
        <5>1. \A u \in active' : u \in Resource /\ node'[u][1] <= model_vector.safe[u][1]
                                 /\ node'[u][1] \in Nat
          <6>1. \A u \in active' : u \in Resource /\ node'[u] \in Node
            BY DEF active, TypeOK, CheckTypeOK
          <6>2. QED
            BY <4>3, <6>1, TypedNodes, NodeOrder, NodeParts
        <5>2. t < model_vector.time
                \/ (t = model_vector.time /\ \E u \in Resource : t <= model_vector.safe[u][1])
          BY <3>6, <4>1, <4>2, <4>4, <5>1, ClocksOfChecks
        <5>3. PICK n \in hist[q] : n[1] = t /\ ~Before(model_vector.safe[q], n)
          BY <4>2, <5>2 DEF EvalInv, ChangeInv, Recorded
        <5>4. n[1] <= model_vector.safe[q][1]
          BY <4>2, <5>3, TypedNodes, NodeOrder
        <5>5. QED
          BY <4>2, <5>3, <5>4
      <4>5. QED
        BY <2>1, <2>2, <4>4 DEF HeldBehind
    <3>9. CASE node[r] = model_vector.safe[r]
      <4>1. onHold' = onHold \cup {r} /\ UNCHANGED node /\ active' \subseteq active
        BY <3>1, <3>9 DEF ConsumeNode, active
      <4>2. \A q \in Resource : curTime \in changed[q] => Gathered(q)'
        <5>1. \A q \in Resource : curTime \in changed[q] => Gathered(q)
          BY <2>6 DEF EvalInv, GatherInv
        <5>2. QED
          BY <2>1, <3>1, <3>5, <4>1, <5>1 DEF Gathered
      <4>3. GatherInv'
        BY <2>1, <2>2, <3>1, <3>4, <3>8, <4>1, <4>2 DEF EvalInv, GatherInv
      <4>4. QED
        BY <2>1, <3>1, <3>7, <4>3, ChangesUntouched DEF EvalInv
    <3>10. CASE node[r] # model_vector.safe[r]
      <4>1. PICK n \in hist[r] :
              /\ IsFirst(n, {m \in hist[r] : Before(node[r], m)})
              /\ node' = [node EXCEPT ![r] = n]
        BY <3>1, <3>10 DEF ConsumeNode
      <4>2. onHold' = onHold /\ active' = active
        BY <3>1, <3>10 DEF ConsumeNode, active
      <4>3. /\ node'[r] = n /\ \A q \in Resource \ {r} : node'[q] = node[q]
            /\ n[1] \in Nat
        BY <4>1, ClocksOfChecks DEF TypeOK, CheckTypeOK
      <4>4. \A t \in changed[r] : node[r][1] < t => n[1] <= t
        <5> SUFFICES ASSUME NEW t \in changed[r], node[r][1] < t PROVE n[1] <= t
          OBVIOUS
        <5>1. PICK m \in hist[r] : m[1] = t
          BY <3>6
        <5>2. Before(node[r], m)
          BY <5>1 DEF Before
        <5>3. n = m \/ Before(n, m)
          BY <4>1, <5>2 DEF IsFirst
        <5>4. QED
          BY <5>1, <5>3, TypedNodes, NodeOrder
      <4>5. \A q \in active' : \A t \in changed[q] : ~(curTime < t /\ t < node'[q][1])
        <5> SUFFICES ASSUME NEW q \in active', NEW t \in changed[q], curTime < t, t < node'[q][1]
                     PROVE  FALSE
          OBVIOUS
        <5>1. CASE q = r
          BY <3>3, <3>4, <3>6, <4>3, <4>4, <5>1
        <5>2. CASE q # r
          BY <2>3, <4>2, <4>3, <5>2 DEF EvalInv, GatherInv
        <5>3. QED
          BY <5>1, <5>2
      <4>6. \A q \in Resource : curTime \in changed[q] => Gathered(q)'
        <5> SUFFICES ASSUME NEW q \in Resource, curTime \in changed[q] PROVE Gathered(q)'
          OBVIOUS
        <5>1. Gathered(q)
          BY <2>6 DEF EvalInv, GatherInv
        <5>2. CASE q # r
          BY <2>1, <3>1, <4>2, <4>3, <5>1, <5>2 DEF Gathered
        <5>3. CASE q = r
          <6>1. r \notin onHold
            BY <2>3 DEF active
          <6>2. ASSUME curTime < n[1] PROVE r \in updated
            BY <3>3, <3>4, <3>5, <4>3, <4>4, <5>3, <6>2
          <6>3. QED
            BY <2>1, <3>1, <4>2, <4>3, <5>3, <6>1, <6>2 DEF Gathered
        <5>4. QED
          BY <5>2, <5>3
      <4>7. \A q \in onHold : node'[q][1] <= curTime
        BY <2>3, <4>3, TypedNodes DEF active, EvalInv, GatherInv
      <4>8. GatherInv'
        BY <2>1, <2>2, <3>1, <3>8, <4>2, <4>5, <4>6, <4>7 DEF EvalInv, GatherInv
      <4>9. QED
        BY <2>1, <3>1, <3>7, <4>8, ChangesUntouched DEF EvalInv
    <3>11. QED
      BY <3>9, <3>10
  <2>7. QED
    BY <2>4, <2>5, <2>6 DEF TypeOK, CheckTypeOK
<1>8. CASE GatherNode \/ EvaluateConstraints
  <2>1. /\ UNCHANGED <<modelVars, SafeVector, model_vector, node, onHold, lastVectorTime, peeked>>
        /\ cpc = "process" /\ cpc' = "sample" /\ caller' = "next"
    BY <1>8 DEF GatherNode, EvaluateConstraints, sharedVars, iterVars
  <2>2. SafeTime'["model"] = SafeTime["model"]
    BY <1>8 DEF GatherNode, EvaluateConstraints, sharedVars, TypeOK, SharedTypeOK, Thread
  <2>3. UNCHANGED <<hist, changed, mpc, trigger>>
    BY <2>1 DEF modelVars
  <2>4. /\ peeked \in active /\ active \subseteq Resource
        /\ \A q \in active : /\ node[peeked][1] <= node[q][1]
                             /\ node[q][1] = node[peeked][1] /\ q <= peeked => q = peeked
        /\ node[peeked][1] <= lastVectorTime
    <3>1. IsHead(peeked) /\ node[peeked][1] <= lastVectorTime
      BY <2>1 DEF EvalInv, GatherInv
    <3>2. QED
      BY <3>1, ClocksOfChecks DEF IsHead, active
  <2>5. caller = "peek"
    BY <2>1 DEF TimeInv
  <2>6. StartInv'
    BY <2>1, <2>3 DEF EvalInv, StartInv, NoVector
  <2>7. \A q \in Resource : node[q][1] \in Nat /\ \A t \in changed[q] : t \in Nat
    BY ClocksOfChecks
  <2>8. CASE GatherNode
    <3>1. /\ node[peeked][1] <= curTime /\ UNCHANGED curTime
          /\ updated \subseteq updated'
          /\ node[peeked][1] = curTime => peeked \in updated'
      BY <2>8 DEF GatherNode
    <3>2. \A q \in Resource : curTime \in changed[q] => Gathered(q)'
      <4>1. \A q \in Resource : curTime \in changed[q] => Gathered(q)
        BY <2>5 DEF EvalInv, GatherInv
      <4>2. QED
        BY <2>1, <2>4, <3>1, <4>1 DEF Gathered, active
    <3>3. GatherInv'
      BY <2>1, <2>3, <2>4, <3>1, <3>2 DEF EvalInv, GatherInv, HeldBehind, active
    <3>4. QED
      BY <2>1, <2>2, <2>6, <3>3, ChangesUntouched DEF EvalInv
  <2>9. CASE EvaluateConstraints
    <3>1. /\ curTime < node[peeked][1] /\ curTime' = node[peeked][1] /\ updated' = {peeked}
          /\ curTime \in Nat /\ node[peeked][1] \in Nat
      BY <2>9, Clocks DEF EvaluateConstraints
    <3>2. \A q \in active : \A t \in changed[q] : ~(curTime < t /\ t < node[q][1])
      BY DEF EvalInv, GatherInv
    <3>3. \A q \in onHold : q \in Resource /\ node[q][1] <= curTime
      BY TypedNodes DEF EvalInv, GatherInv
    <3>4. \A q \in active : \A t \in changed[q] : ~(curTime' < t /\ t < node[q][1])
      BY <2>4, <2>7, <3>1, <3>2
    <3>5. \A q \in onHold : node[q][1] < curTime'
      BY <2>7, <3>1, <3>3
    <3>6. \A q \in Resource : curTime' \in changed[q] => Gathered(q)'
      <4> SUFFICES ASSUME NEW q \in Resource, curTime' \in changed[q] PROVE Gathered(q)'
        OBVIOUS
      <4>1. q \in active => ~(curTime' < node[q][1])
        BY <3>1, <3>2
      <4>2. q \in onHold => node[q][1] # curTime'
        BY <2>7, <3>1, <3>5
      <4>3. q \in active /\ node[q][1] = curTime' /\ q <= peeked => q = peeked
        BY <2>4, <3>1
      <4>4. QED
        BY <2>1, <3>1, <4>1, <4>2, <4>3 DEF Gathered, active
    <3>7. \A q \in onHold : node[q][1] <= curTime'
      BY <2>7, <3>1, <3>3, <3>5
    <3>8. GatherInv'
      BY <2>1, <2>3, <2>4, <3>1, <3>4, <3>6, <3>7 DEF EvalInv, GatherInv, HeldBehind, active
    <3>9. QED
      BY <2>1, <2>2, <2>6, <3>8, ChangesUntouched DEF EvalInv
  <2>10. QED
    BY <1>8, <2>8, <2>9
<1>9. CASE EvaluationError
  <2>1. SafeTime'["model"] = SafeTime["model"]
    BY <1>9 DEF EvaluationError, TypeOK, SharedTypeOK, Thread
  <2>2. QED
    BY <1>1, <1>9, <2>1 DEF EvaluationError, iterVars, checkVars
<1>10. QED
  BY <1>2, <1>3, <1>4, <1>5, <1>6, <1>7, <1>8, <1>9 DEF CheckNext

LEMMA EvalInvariant == Spec => []EvalInv
<1>1. ASSUME EvalInv, UNCHANGED vars PROVE EvalInv'
  <2>1. UNCHANGED <<modelVars, SafeVector, SafeTime, loaded, model_vector, cpc, captured, changed>>
        /\ UNCHANGED <<cpc, caller, iterVars, checkVars>>
    BY <1>1 DEF vars, modelVars, sharedVars, iterVars
  <2>2. ChangeInv'
    BY <1>1, <2>1 DEF EvalInv, ChangeInv, Recorded, Ahead, SavedVector, modelVars
  <2>3. StartInv'
    BY <1>1, <2>1 DEF EvalInv, StartInv, NoVector, modelVars, iterVars, checkVars
  <2>4. QED
    BY <1>1, <2>1, <2>2, <2>3, GatheringUntouched DEF EvalInv
<1>2. TypeOK /\ TypeOK' /\ TimeInv /\ SafetyInv /\ SafetyInv' /\ EvalInv /\ [Next]_vars => EvalInv'
  BY <1>1, EvalInvModelStep, EvalInvCheckStep DEF Next, Terminated
<1>3. QED
  BY InitEvalInv, TypeCorrect, TimeInvariant, SafetyInvariant, <1>2, PTL DEF Spec

\* When check_constraints evaluates constraints at a time, every resource
\* used or set at that time has been gathered, however the histories grow,
\* trailers are held and revived, and next() and peek() interleave with the
\* modeling thread.
THEOREM EveryChangeIsEvaluated == Spec => []EvaluationIsComplete
<1>1. TypeOK /\ TimeInv /\ EvalInv => EvaluationIsComplete
  <2> SUFFICES ASSUME TypeOK, TimeInv, EvalInv, cpc = "process", node[peeked][1] > curTime,
                      NEW q \in Resource, curTime \in changed[q]
               PROVE  q \in updated
    BY DEF EvaluationIsComplete
  <2>1. IsHead(peeked) /\ node[peeked][1] <= lastVectorTime
    BY DEF EvalInv, GatherInv
  <2>2. /\ curTime \in Nat /\ lastVectorTime \in Nat /\ peeked \in Resource
        /\ \A r \in Resource : node[r][1] \in Nat
    BY Clocks, ClocksOfChecks
  <2>3. Gathered(q)
    <3>1. caller # "first"
      BY DEF TimeInv
    <3>2. QED
      BY <3>1 DEF EvalInv, GatherInv
  <2>4. CASE q \in active
    BY <2>1, <2>2, <2>3, <2>4 DEF IsHead, Gathered
  <2>5. CASE q \notin active
    <3>1. q \in onHold /\ node[q][1] <= curTime /\ HeldBehind(q)
      BY <2>5 DEF active, EvalInv, GatherInv
    <3>2. curTime <= node[q][1]
      BY <2>1, <2>2, <3>1 DEF HeldBehind
    <3>3. QED
      BY <2>2, <2>3, <3>1, <3>2 DEF Gathered
  <2>6. QED
    BY <2>4, <2>5
<1>2. QED
  BY TypeCorrect, TimeInvariant, EvalInvariant, <1>1, PTL
=============================================================================
