-------------------------- MODULE TolPipeline_proofs --------------------------
(***************************************************************************)
(* Theorems about TolPipeline, for every set of resources, values and      *)
(* tolerances, every batch size and every number of events.                *)
(***************************************************************************)
EXTENDS TolPipeline, Selections_proofs, FiniteSetTheorems, WellFoundedInduction, TLAPS

\* A slot is NULL or points to one vector.
IsSlot(slot) == slot = Null \/ \E v : slot = <<v>>

\* The receiver of a vector is through with it when it empties the slot, and
\* once it has been told to stop, or is about to be, the slot is empty for good.
OwnerInv ==
  /\ IsSlot(records_to_filter) /\ IsSlot(data_for_xml_filtering)
  /\ VectorsHaveOneOwner
  /\ no_more_work => ppc \in {"join", "done"}
  /\ ppc \in {"join", "done"} => records_to_filter = Null
  /\ fpc \in {"stopXml", "joinXml"} => no_more_work
  /\ fpc = "exited" => no_more_work
  /\ no_more_xml_work => fpc \in {"joinXml", "exited"} /\ data_for_xml_filtering = Null

LEMMA InitOwner == Init => OwnerInv
  BY DEF Init, OwnerInv, IsSlot, VectorsHaveOneOwner

\* The producer fills a slot only when it is empty, that is, when the filter
\* holds no vector.
LEMMA ProducerOwner == OwnerInv /\ ProducerNext => OwnerInv'
<1> SUFFICES ASSUME OwnerInv, ProducerNext
             PROVE  OwnerInv'
  OBVIOUS
<1> USE DEF OwnerInv, VectorsHaveOneOwner, IsSlot, filterVars, xmlVars, slotVars, xmlSlotVars
<1>1. CASE ProcessEvent
  BY <1>1 DEF ProcessEvent
<1>2. ASSUME NEW v, records_to_filter = Null, records_to_filter' = <<v>>, ppc' \notin {"join", "done"},
             ppc \notin {"join", "done"},
             UNCHANGED <<no_more_work, filterVars, xmlVars, xmlSlotVars>>
      PROVE  OwnerInv'
  <2>1. fpc \notin {"publish", "offer", "flush", "release"}
    BY <1>2 DEF Null
  <2> QED
    BY <1>2, <2>1
<1>3. CASE HandOver
  BY <1>2, <1>3 DEF HandOver, HandsOver
<1>4. CASE StopIterating
  BY <1>4 DEF StopIterating
<1>5. CASE HandOverLast
  <2>1. CASE publish_vec = <<>>
    BY <1>5, <2>1 DEF HandOverLast
  <2>2. CASE publish_vec # <<>>
    BY <1>2, <1>5, <2>2 DEF HandOverLast, HandsOver
  <2> QED
    BY <2>1, <2>2
<1>6. CASE StopFilter
  BY <1>6 DEF StopFilter
<1>7. CASE JoinFilter
  BY <1>7 DEF JoinFilter
<1> QED
  BY <1>1, <1>3, <1>4, <1>5, <1>6, <1>7 DEF ProducerNext

\* The filter works on the vector in its slot, and fills the slot of the XML
\* writer only when that one is empty.
LEMMA FilterOwner == OwnerInv /\ FilterNext => OwnerInv'
<1> SUFFICES ASSUME OwnerInv, FilterNext
             PROVE  OwnerInv'
  OBVIOUS
<1> USE DEF OwnerInv, VectorsHaveOneOwner, IsSlot, producerVars, xmlVars, slotVars, xmlSlotVars
<1>1. CASE LoadVector
  <2>1. CASE records_to_filter = Null
    BY <1>1, <2>1 DEF LoadVector
  <2>2. CASE records_to_filter # Null
    <3>1. PICK v : records_to_filter = <<v>>
      BY <2>2
    <3>2. vec' = v /\ fpc' = "publish" /\ UNCHANGED <<xmlvec, tol, producerVars, xmlVars, slotVars, xmlSlotVars>>
      BY <1>1, <2>2, <3>1 DEF LoadVector
    <3> QED
      BY <1>1, <2>2, <3>1, <3>2
  <2> QED
    BY <2>1, <2>2
<1>2. CASE TestNoMoreWork
  BY <1>2 DEF TestNoMoreWork
<1>3. CASE PublishVector
  BY <1>3 DEF PublishVector
<1>4. CASE OfferXml
  <2>1. xpc \notin {"write", "release"}
    BY <1>4 DEF OfferXml, Null
  <2> QED
    BY <1>4, <2>1 DEF OfferXml
<1>5. CASE Flush
  BY <1>5 DEF Flush
<1>6. CASE ReleaseVector
  BY <1>6 DEF ReleaseVector
<1>7. CASE StopXml
  BY <1>7 DEF StopXml
<1>8. CASE JoinXml
  BY <1>8 DEF JoinXml
<1> QED
  BY <1>1, <1>2, <1>3, <1>4, <1>5, <1>6, <1>7, <1>8 DEF FilterNext

LEMMA XmlOwner == OwnerInv /\ XmlNext => OwnerInv'
<1> SUFFICES ASSUME OwnerInv, XmlNext
             PROVE  OwnerInv'
  OBVIOUS
<1> USE DEF OwnerInv, VectorsHaveOneOwner, IsSlot, producerVars, filterVars, slotVars, xmlSlotVars
<1>1. CASE LoadXml
  <2>1. CASE data_for_xml_filtering = Null
    BY <1>1, <2>1 DEF LoadXml
  <2>2. CASE data_for_xml_filtering # Null
    <3>1. PICK v : data_for_xml_filtering = <<v>>
      BY <2>2
    <3>2. xvec' = v /\ xpc' = "write" /\ UNCHANGED <<xml, producerVars, filterVars, slotVars, xmlSlotVars>>
      BY <1>1, <2>2, <3>1 DEF LoadXml
    <3> QED
      BY <1>1, <2>2, <3>1, <3>2
  <2> QED
    BY <2>1, <2>2
<1>2. CASE TestNoMoreXmlWork
  BY <1>2 DEF TestNoMoreXmlWork
<1>3. CASE WriteXml
  BY <1>3 DEF WriteXml
<1>4. CASE ReleaseXml
  BY <1>4 DEF ReleaseXml
<1> QED
  BY <1>1, <1>2, <1>3, <1>4 DEF XmlNext

LEMMA NextOwner == OwnerInv /\ [Next]_vars => OwnerInv'
<1>1. OwnerInv /\ UNCHANGED vars => OwnerInv'
  BY DEF vars, OwnerInv, VectorsHaveOneOwner, IsSlot, producerVars, filterVars, xmlVars, slotVars, xmlSlotVars
<1> QED
  BY <1>1, ProducerOwner, FilterOwner, XmlOwner DEF Next, Terminated

\* As long as a thread uses a vector, its slot leads to it: the NULL it stores
\* in the end cannot make a newer vector disappear.
THEOREM OneOwner == Spec => []VectorsHaveOneOwner
<1>1. OwnerInv => VectorsHaveOneOwner
  BY DEF OwnerInv
<1> QED
  BY <1>1, InitOwner, NextOwner, PTL DEF Spec

\* When the filter is told that there is no more work, or the XML writer, there
\* is none: no vector can be left in a slot that nobody will look at again.
THEOREM NothingIsLeftBehind ==
  Spec => [](/\ no_more_work => records_to_filter = Null
             /\ no_more_xml_work => data_for_xml_filtering = Null)
<1>1. OwnerInv => /\ no_more_work => records_to_filter = Null
                  /\ no_more_xml_work => data_for_xml_filtering = Null
  BY DEF OwnerInv
<1> QED
  BY <1>1, InitOwner, NextOwner, PTL DEF Spec

-----------------------------------------------------------------------------
(* What is in the files                                                    *)

Block == {Written(v) : v \in Seq(Record)}

\* The blocks of a file are what is written of the first vectors handed over.
IsPrefix(file) == \A n \in 1..Len(file) : file[n] = Written(given[n])

\* The vector in the filter's slot is the last one handed over.
FilterFlow ==
  /\ fpc \in {"offer", "flush", "release"} => xmlvec = Written(vec)
  /\ records_to_filter = Null => Len(tol) = Len(given)
  /\ records_to_filter # Null =>
       /\ Len(given) > 0 /\ records_to_filter = <<given[Len(given)]>>
       /\ Len(tol) = IF fpc = "release" THEN Len(given) ELSE Len(given) - 1

\* Blocks given to the XML writer: those in the TOL, and one before it is flushed.
Offered == IF fpc = "flush" THEN Len(tol) + 1 ELSE Len(tol)

XmlFlow ==
  /\ ~Dual => xpc = "exited" /\ xml = <<>> /\ data_for_xml_filtering = Null
               /\ fpc \notin {"offer", "stopXml", "joinXml"}
  /\ Dual /\ data_for_xml_filtering = Null => Len(xml) = Offered
  /\ Dual /\ data_for_xml_filtering # Null =>
       /\ Offered > 0 /\ data_for_xml_filtering = <<Written(given[Offered])>>
       /\ Len(xml) = IF xpc = "release" THEN Offered ELSE Offered - 1

\* The order in which the threads end.
EndFlow ==
  /\ ppc = "done" => fpc = "exited"
  /\ Dual /\ fpc \in {"joinXml", "exited"} => no_more_xml_work
  /\ ppc \in {"stop", "join", "done"} => publish_vec = <<>>

FlowInv ==
  /\ publish_vec \in Seq(Record) /\ given \in Seq(Seq(Record))
  /\ tol \in Seq(Block) /\ xml \in Seq(Block)
  /\ IsPrefix(tol) /\ IsPrefix(xml)
  /\ FilterFlow /\ XmlFlow /\ EndFlow

LEMMA InitFlow == Init => FlowInv
  BY DEF Init, FlowInv, IsPrefix, FilterFlow, XmlFlow, EndFlow, Offered

LEMMA FlowTypes ==
  ASSUME OwnerInv, FlowInv
  PROVE  /\ Len(given) \in Nat /\ Len(tol) \in Nat /\ Len(xml) \in Nat
         /\ Len(tol) <= Len(given)
         /\ Offered \in 0..Len(given) /\ Len(xml) <= Offered
         /\ DOMAIN given = 1..Len(given)
<1>1. Len(given) \in Nat /\ Len(tol) \in Nat /\ Len(xml) \in Nat /\ DOMAIN given = 1..Len(given)
  BY DEF FlowInv
<1>2. Len(tol) <= Len(given)
  <2>1. CASE records_to_filter = Null
    BY <1>1, <2>1 DEF FlowInv, FilterFlow
  <2>2. CASE records_to_filter # Null
    <3>1. Len(tol) = IF fpc = "release" THEN Len(given) ELSE Len(given) - 1
      BY <2>2 DEF FlowInv, FilterFlow
    <3>2. CASE fpc = "release"
      BY <1>1, <3>1, <3>2
    <3>3. CASE fpc # "release"
      BY <1>1, <3>1, <3>3
    <3> QED
      BY <3>2, <3>3
  <2> QED
    BY <2>1, <2>2
<1>3. Offered \in 0..Len(given)
  <2>1. CASE fpc = "flush"
    <3>1. records_to_filter # Null
      BY <2>1 DEF OwnerInv, VectorsHaveOneOwner, Null
    <3> QED
      BY <1>1, <2>1, <3>1 DEF FlowInv, FilterFlow, Offered
  <2>2. CASE fpc # "flush"
    BY <1>1, <1>2, <2>2 DEF Offered
  <2> QED
    BY <2>1, <2>2
<1>4. Len(xml) <= Offered
  BY <1>1, <1>3 DEF FlowInv, XmlFlow
<1> QED
  BY <1>1, <1>2, <1>3, <1>4

\* A vector more leaves the files prefixes of what is handed over.
LEMMA HandOverFlow ==
  ASSUME OwnerInv, FlowInv, records_to_filter = Null, HandsOver(publish_vec), publish_vec' = <<>>,
         ppc' # "done", UNCHANGED <<no_more_work, filterVars, xmlVars, xmlSlotVars>>
  PROVE  FlowInv'
<1>1. /\ Len(given) \in Nat /\ Len(tol) \in Nat /\ Len(xml) \in Nat /\ Len(tol) = Len(given)
      /\ Offered \in 0..Len(given) /\ Len(xml) <= Len(given)
  BY FlowTypes DEF FlowInv, FilterFlow
<1>2. /\ given' \in Seq(Seq(Record)) /\ Len(given') = Len(given) + 1
      /\ given'[Len(given) + 1] = publish_vec
      /\ \A n \in 1..Len(given) : given'[n] = given[n]
  BY DEF FlowInv, HandsOver
<1>3. fpc \notin {"publish", "offer", "flush", "release"}
  BY DEF OwnerInv, VectorsHaveOneOwner, Null
<1>4. IsPrefix(tol)' /\ IsPrefix(xml)'
  BY <1>1, <1>2 DEF FlowInv, IsPrefix, filterVars, xmlVars
<1>5. FilterFlow'
  BY <1>1, <1>2, <1>3 DEF FlowInv, FilterFlow, HandsOver, Null, filterVars
<1>6. Offered' = Offered
  BY DEF Offered, filterVars
<1>7. XmlFlow'
  BY <1>1, <1>2, <1>6 DEF FlowInv, XmlFlow, xmlVars, filterVars, xmlSlotVars
<1>8. EndFlow'
  BY DEF FlowInv, EndFlow, filterVars, xmlSlotVars
<1>9. publish_vec' \in Seq(Record) /\ tol' \in Seq(Block) /\ xml' \in Seq(Block)
  BY DEF FlowInv, filterVars, xmlVars
<1> QED
  BY <1>2, <1>4, <1>5, <1>7, <1>8, <1>9 DEF FlowInv

LEMMA ProducerFlow ==
  ASSUME OwnerInv, FlowInv, ProducerNext
  PROVE  FlowInv'
<1> USE DEF FlowInv, IsPrefix, FilterFlow, XmlFlow, EndFlow, Offered,
            filterVars, xmlVars, slotVars, xmlSlotVars
<1>1. CASE ProcessEvent
  <2>0. \A rec \in Record : Append(publish_vec, rec) \in Seq(Record)
    <3> HIDE DEF IsPrefix, FilterFlow, XmlFlow, EndFlow, Offered
    <3> QED
      OBVIOUS
  <2>1. publish_vec' \in Seq(Record) /\ UNCHANGED <<ppc, given, filterVars, xmlVars, slotVars, xmlSlotVars>>
    BY <1>1, <2>0 DEF ProcessEvent
  <2>2. ppc \notin {"stop", "join", "done"}
    BY <1>1 DEF ProcessEvent
  <2> QED
    BY <2>1, <2>2
<1>2. CASE HandOver
  BY <1>2, HandOverFlow DEF HandOver
<1>3. CASE StopIterating
  BY <1>3 DEF StopIterating
<1>4. CASE HandOverLast
  <2>1. CASE publish_vec = <<>>
    BY <1>4, <2>1 DEF HandOverLast
  <2>2. CASE publish_vec # <<>>
    BY <1>4, <2>2, HandOverFlow DEF HandOverLast
  <2> QED
    BY <2>1, <2>2
<1>5. CASE StopFilter
  BY <1>5 DEF StopFilter
<1>6. CASE JoinFilter
  BY <1>6 DEF JoinFilter
<1> QED
  BY <1>1, <1>2, <1>3, <1>4, <1>5, <1>6 DEF ProducerNext

LEMMA FilterStepFlow ==
  ASSUME OwnerInv, FlowInv, FilterNext
  PROVE  FlowInv'
<1>t. /\ Len(given) \in Nat /\ Len(tol) \in Nat /\ Len(xml) \in Nat
      /\ Len(tol) <= Len(given) /\ Offered \in 0..Len(given) /\ Len(xml) <= Offered
      /\ DOMAIN given = 1..Len(given)
  BY FlowTypes
<1>o. fpc \in {"publish", "offer", "flush", "release"} =>
        records_to_filter # Null /\ vec = given[Len(given)] /\ Len(given) \in DOMAIN given
  <2> SUFFICES ASSUME fpc \in {"publish", "offer", "flush", "release"}
               PROVE  records_to_filter # Null /\ vec = given[Len(given)] /\ Len(given) \in DOMAIN given
    OBVIOUS
  <2>1. records_to_filter = <<vec>> /\ records_to_filter # Null
    BY DEF OwnerInv, VectorsHaveOneOwner, Null
  <2>2. records_to_filter = <<given[Len(given)]>> /\ Len(given) > 0
    BY <2>1 DEF FlowInv, FilterFlow
  <2> QED
    BY <1>t, <2>1, <2>2
<1>1. CASE LoadVector
  BY <1>1 DEF LoadVector, FlowInv, IsPrefix, FilterFlow, XmlFlow, EndFlow, Offered,
              producerVars, xmlVars, slotVars, xmlSlotVars
<1>2. CASE TestNoMoreWork
  BY <1>2 DEF TestNoMoreWork, FlowInv, IsPrefix, FilterFlow, XmlFlow, EndFlow, Offered, OwnerInv,
              producerVars, xmlVars, slotVars, xmlSlotVars
<1>3. CASE PublishVector
  BY <1>3 DEF PublishVector, FlowInv, IsPrefix, FilterFlow, XmlFlow, EndFlow, Offered,
              producerVars, xmlVars, slotVars, xmlSlotVars
<1>4. CASE OfferXml
  <2>1. Offered = Len(tol) /\ Offered' = Len(tol) + 1 /\ Len(tol) = Len(given) - 1 /\ Dual
    BY <1>4, <1>o DEF OfferXml, Offered, FlowInv, FilterFlow, XmlFlow
  <2>a. Offered' = Len(given) /\ Offered' > 0
    BY <1>t, <1>o, <1>4, <2>1 DEF OfferXml
  <2>b. xmlvec = Written(given[Len(given)])
    BY <1>4, <1>o DEF OfferXml, FlowInv, FilterFlow
  <2>2. xmlvec = Written(given[Offered'])
    BY <2>a, <2>b
  <2>3. data_for_xml_filtering' = <<Written(given[Offered'])>> /\ data_for_xml_filtering' # Null
    BY <1>4, <2>2 DEF OfferXml, Null
  <2>4. Len(xml) = Offered' - 1 /\ xpc # "release"
    BY <1>4, <1>t, <2>1 DEF OfferXml, FlowInv, XmlFlow, OwnerInv, VectorsHaveOneOwner, Null
  <2>c. UNCHANGED <<given, xml, xpc>>
    BY <1>4 DEF OfferXml, producerVars, xmlVars
  <2>5. XmlFlow'
    <3> HIDE DEF Offered
    <3> QED
      BY <2>1, <2>a, <2>3, <2>4, <2>c DEF XmlFlow
  <2>6. FilterFlow' /\ EndFlow' /\ IsPrefix(tol)' /\ IsPrefix(xml)'
    BY <1>4 DEF OfferXml, FlowInv, IsPrefix, FilterFlow, EndFlow, producerVars, xmlVars, slotVars
  <2> QED
    BY <1>4, <2>5, <2>6 DEF OfferXml, FlowInv, producerVars, xmlVars
<1>5. CASE Flush
  <2>1. xmlvec = Written(given[Len(given)]) /\ Len(tol) = Len(given) - 1 /\ records_to_filter # Null
    BY <1>5, <1>o DEF Flush, FlowInv, FilterFlow
  <2>2. xmlvec \in Block
    BY <1>t, <1>o, <1>5, <2>1 DEF Flush, FlowInv, Block
  <2>3. /\ tol' \in Seq(Block) /\ Len(tol') = Len(tol) + 1 /\ tol'[Len(tol) + 1] = xmlvec
        /\ \A n \in 1..Len(tol) : tol'[n] = tol[n]
    BY <1>5, <1>t, <2>2 DEF Flush, FlowInv
  <2>4. Offered' = Offered
    BY <1>5, <2>3 DEF Flush, Offered
  <2>a. given' = given /\ records_to_filter' = records_to_filter /\ fpc' = "release"
        /\ vec' = vec /\ xmlvec' = xmlvec /\ fpc = "flush"
    BY <1>5 DEF Flush, producerVars, slotVars
  <2>b. Len(tol) + 1 = Len(given) /\ Len(tol') = Len(given)
    BY <1>t, <2>1, <2>3
  <2>5. IsPrefix(tol)'
    <3> SUFFICES ASSUME NEW n \in 1..Len(tol')
                 PROVE  tol'[n] = Written(given[n])
      BY <2>a DEF IsPrefix
    <3>1. CASE n = Len(tol) + 1
      BY <3>1, <2>1, <2>3, <2>b
    <3>2. CASE n \in 1..Len(tol)
      BY <3>2, <2>3 DEF FlowInv, IsPrefix
    <3> QED
      BY <1>t, <2>3, <3>1, <3>2
  <2>6. FilterFlow'
    <3>1. xmlvec = Written(vec) /\ Len(given) > 0 /\ records_to_filter = <<given[Len(given)]>>
      BY <2>1, <2>a DEF FlowInv, FilterFlow
    <3> QED
      BY <3>1, <2>1, <2>a, <2>b DEF FilterFlow
  <2>7. XmlFlow'
    BY <1>5, <2>4 DEF Flush, FlowInv, XmlFlow, producerVars, xmlVars, xmlSlotVars
  <2>8. EndFlow' /\ IsPrefix(xml)'
    BY <1>5 DEF Flush, FlowInv, EndFlow, IsPrefix, producerVars, xmlVars, xmlSlotVars
  <2> QED
    BY <1>5, <2>3, <2>5, <2>6, <2>7, <2>8 DEF Flush, FlowInv, producerVars, xmlVars
<1>6. CASE ReleaseVector
  <2>1. Offered' = Offered
    BY <1>6 DEF ReleaseVector, Offered
  <2>2. Len(tol) = Len(given)
    BY <1>6, <1>o DEF ReleaseVector, FlowInv, FilterFlow
  <2> QED
    BY <1>6, <2>1, <2>2 DEF ReleaseVector, FlowInv, IsPrefix, FilterFlow, XmlFlow, EndFlow,
                            producerVars, xmlVars, xmlSlotVars
<1>7. CASE StopXml
  BY <1>7 DEF StopXml, FlowInv, IsPrefix, FilterFlow, XmlFlow, EndFlow, Offered,
              producerVars, xmlVars, slotVars
<1>8. CASE JoinXml
  BY <1>8 DEF JoinXml, FlowInv, IsPrefix, FilterFlow, XmlFlow, EndFlow, Offered,
              producerVars, xmlVars, slotVars, xmlSlotVars
<1> QED
  BY <1>1, <1>2, <1>3, <1>4, <1>5, <1>6, <1>7, <1>8 DEF FilterNext

LEMMA XmlStepFlow ==
  ASSUME OwnerInv, FlowInv, XmlNext
  PROVE  FlowInv'
<1>t. /\ Len(given) \in Nat /\ Len(tol) \in Nat /\ Len(xml) \in Nat
      /\ Offered \in 0..Len(given) /\ DOMAIN given = 1..Len(given)
  BY FlowTypes
<1>1. CASE LoadXml
  BY <1>1 DEF LoadXml, FlowInv, IsPrefix, FilterFlow, XmlFlow, EndFlow, Offered,
              producerVars, filterVars, slotVars, xmlSlotVars
<1>2. CASE TestNoMoreXmlWork
  BY <1>2 DEF TestNoMoreXmlWork, FlowInv, IsPrefix, FilterFlow, XmlFlow, EndFlow, Offered, OwnerInv,
              producerVars, filterVars, slotVars, xmlSlotVars
<1>3. CASE WriteXml
  <2>a. xpc = "write" /\ Dual
    BY <1>3 DEF WriteXml, FlowInv, XmlFlow
  <2>b. data_for_xml_filtering = <<xvec>>
    BY <2>a DEF OwnerInv, VectorsHaveOneOwner
  <2>1. Dual /\ data_for_xml_filtering = <<xvec>> /\ data_for_xml_filtering # Null
    BY <2>a, <2>b DEF Null
  <2>2. xvec = Written(given[Offered]) /\ Offered > 0 /\ Len(xml) = Offered - 1
    BY <1>3, <2>1 DEF WriteXml, FlowInv, XmlFlow
  <2>3. xvec \in Block
    BY <1>t, <2>2 DEF FlowInv, Block
  <2>4. /\ xml' \in Seq(Block) /\ Len(xml') = Len(xml) + 1 /\ xml'[Len(xml) + 1] = xvec
        /\ \A n \in 1..Len(xml) : xml'[n] = xml[n]
    BY <1>3, <1>t, <2>3 DEF WriteXml, FlowInv
  <2>5. Offered' = Offered
    BY <1>3 DEF WriteXml, Offered, filterVars
  <2>6. IsPrefix(xml)'
    BY <1>3, <1>t, <2>2, <2>4 DEF WriteXml, FlowInv, IsPrefix, producerVars
  <2>7. XmlFlow'
    BY <1>3, <1>t, <2>1, <2>2, <2>4, <2>5 DEF WriteXml, FlowInv, XmlFlow, producerVars, filterVars, xmlSlotVars
  <2>8. FilterFlow' /\ EndFlow' /\ IsPrefix(tol)'
    BY <1>3 DEF WriteXml, FlowInv, FilterFlow, EndFlow, IsPrefix, producerVars, filterVars, slotVars, xmlSlotVars
  <2> QED
    BY <1>3, <2>4, <2>6, <2>7, <2>8 DEF WriteXml, FlowInv, producerVars, filterVars
<1>4. CASE ReleaseXml
  <2>1. data_for_xml_filtering # Null
    BY <1>4 DEF ReleaseXml, OwnerInv, VectorsHaveOneOwner, Null
  <2>2. Offered' = Offered /\ (Dual => Len(xml) = Offered) /\ Dual
    BY <1>4, <2>1 DEF ReleaseXml, FlowInv, XmlFlow, Offered, filterVars
  <2> QED
    BY <1>4, <2>2 DEF ReleaseXml, FlowInv, IsPrefix, FilterFlow, XmlFlow, EndFlow,
                      producerVars, filterVars, slotVars
<1> QED
  BY <1>1, <1>2, <1>3, <1>4 DEF XmlNext

LEMMA NextFlow == OwnerInv /\ FlowInv /\ [Next]_vars => FlowInv'
<1>1. FlowInv /\ UNCHANGED vars => FlowInv'
  BY DEF vars, FlowInv, IsPrefix, FilterFlow, XmlFlow, EndFlow, Offered,
         producerVars, filterVars, xmlVars, slotVars, xmlSlotVars
<1> QED
  BY <1>1, ProducerFlow, FilterStepFlow, XmlStepFlow DEF Next, Terminated

\* Every record handed over has its block.
FilesAreComplete ==
  ppc = "done" =>
    /\ publish_vec = <<>>
    /\ Len(tol) = Len(given) /\ \A n \in 1..Len(given) : tol[n] = Written(given[n])
    /\ Dual => xml = tol

LEMMA FlowIsComplete == OwnerInv /\ FlowInv => FilesAreComplete
<1> SUFFICES ASSUME OwnerInv, FlowInv, ppc = "done"
             PROVE  /\ publish_vec = <<>>
                    /\ Len(tol) = Len(given) /\ \A n \in 1..Len(given) : tol[n] = Written(given[n])
                    /\ Dual => xml = tol
  BY DEF FilesAreComplete
<1>1. publish_vec = <<>> /\ fpc = "exited" /\ records_to_filter = Null
  BY DEF OwnerInv, FlowInv, EndFlow
<1>2. Len(tol) = Len(given) /\ Offered = Len(tol)
  BY <1>1 DEF FlowInv, FilterFlow, Offered
<1>3. \A n \in 1..Len(given) : tol[n] = Written(given[n])
  BY <1>2 DEF FlowInv, IsPrefix
<1>4. ASSUME Dual
      PROVE  xml = tol
  <2>1. Len(xml) = Len(tol)
    BY <1>1, <1>2, <1>4 DEF OwnerInv, FlowInv, XmlFlow, EndFlow
  <2>2. \A n \in 1..Len(tol) : xml[n] = tol[n]
    BY <2>1 DEF FlowInv, IsPrefix
  <2> QED
    BY <2>1, <2>2 DEF FlowInv
<1> QED
  BY <1>1, <1>2, <1>3, <1>4

\* When the output ends, nothing is waiting to be handed over, every vector
\* has its block in the TOL, in order, and the XMLTOL has the same blocks.
THEOREM CompleteFiles == Spec => []FilesAreComplete
<1>1. Init => OwnerInv /\ FlowInv
  BY InitOwner, InitFlow
<1>2. OwnerInv /\ FlowInv /\ [Next]_vars => (OwnerInv /\ FlowInv)'
  BY NextOwner, NextFlow
<1>3. OwnerInv /\ FlowInv => FilesAreComplete
  BY FlowIsComplete
<1> QED
  BY <1>1, <1>2, <1>3, PTL DEF Spec

-----------------------------------------------------------------------------
(* What is left out can be read back                                       *)

LEMMA RecordTypes ==
  ASSUME NEW rec \in Record
  PROVE  rec.at \in Nat /\ rec.at <= MaxEvents /\ rec.val \in Int /\ rec.res \in Resource \cup {Other}
<1>1. AnyValue \in Int
  BY TolAssumption DEF AnyValue
<1>2. CASE rec \in [at : 1..MaxEvents, res : Resource, val : Value]
  <2>1. rec.at \in 1..MaxEvents /\ rec.res \in Resource /\ rec.val \in Value
    BY <1>2
  <2>2. MaxEvents \in Nat /\ Value \subseteq Int
    BY TolAssumption
  <2>3. rec.val \in Int
    BY <2>1, <2>2
  <2>4. rec.at \in Nat /\ rec.at <= MaxEvents
    BY <2>1, <2>2
  <2> QED
    BY <2>1, <2>3, <2>4
<1>3. CASE rec \in [at : 1..MaxEvents, res : {Other}, val : {AnyValue}]
  BY <1>1, <1>3, TolAssumption
<1> QED
  BY <1>2, <1>3 DEF Record

\* Whether a record is kept depends on the flags of those before it only.
LEMMA KeptLocally ==
  ASSUME NEW v, NEW i, NEW f, NEW g, \A j \in Earlier(v, i) : f[j] = g[j]
  PROVE  IsKept(v, i, f) = IsKept(v, i, g)
<1>1. {j \in Earlier(v, i) : f[j] /\ \A k \in Earlier(v, i) : k > j => ~f[k]}
      = {j \in Earlier(v, i) : g[j] /\ \A k \in Earlier(v, i) : k > j => ~g[k]}
  OBVIOUS
<1>2. KeptAsChanged(v, i, f) = KeptAsChanged(v, i, g)
  BY <1>1 DEF KeptAsChanged
<1> QED
  BY <1>2 DEF IsKept

\* The recursion that defines the flags of a vector is well-founded.
LEMMA FlagsExist ==
  ASSUME NEW v, NEW n \in Nat
  PROVE  \E f : f = [i \in 1..n |-> IsKept(v, i, f)]
<1> DEFINE Fits(m, f) == f = [i \in 1..m |-> IsKept(v, i, f)]
           Bad == {m \in Nat : \A f : ~Fits(m, f)}
<1>1. ASSUME NEW m \in Nat, m > 0, NEW f, Fits(m - 1, f)
      PROVE  \E g : Fits(m, g)
  <2> DEFINE g == [i \in 1..m |-> IF i < m THEN f[i] ELSE IsKept(v, m, f)]
  <2>1. \A i \in 1..m : \A j \in Earlier(v, i) : f[j] = g[j]
    BY DEF Earlier
  <2>2. \A i \in 1..m : IsKept(v, i, f) = IsKept(v, i, g)
    <3> HIDE DEF g
    <3> QED
      BY <2>1, KeptLocally
  <2>3. \A i \in 1..m : g[i] = IsKept(v, i, f)
    <3> TAKE i \in 1..m
    <3>1. CASE i < m
      <4>1. f[i] = IsKept(v, i, f)
        BY <1>1, <3>1
      <4> QED
        BY <3>1, <4>1
    <3>2. CASE i = m
      BY <3>2
    <3> QED
      BY <3>1, <3>2
  <2>4. \A i \in 1..m : g[i] = IsKept(v, i, g)
    <3> HIDE DEF g
    <3> QED
      BY <2>2, <2>3
  <2>5. Fits(m, g)
    <3>1. g = [i \in 1..m |-> g[i]]
      OBVIOUS
    <3> HIDE DEF g
    <3> QED
      BY <2>4, <3>1
  <2> QED
    BY <2>5
<1>2. Fits(0, [i \in 1..0 |-> TRUE])
  OBVIOUS
<1>3. Bad = {}
  <2> SUFFICES ASSUME Bad # {}
               PROVE  FALSE
    OBVIOUS
  <2>1. Bad \subseteq Nat
    OBVIOUS
  <2>2. PICK m \in Bad : \A k \in Bad : m <= k
    <3> HIDE DEF Bad
    <3> QED
      BY <2>1, FirstOf
  <2>3. m # 0
    BY <1>2
  <2>4. m \in Nat /\ m > 0 /\ m - 1 \in Nat /\ m - 1 \notin Bad
    BY <2>2, <2>3
  <2>5. PICK f : Fits(m - 1, f)
    BY <2>4
  <2>6. \E g : Fits(m, g)
    <3> HIDE DEF Fits
    <3> QED
      BY <1>1, <2>4, <2>5
  <2> QED
    BY <2>6
<1> QED
  BY <1>3

LEMMA FlagsOf ==
  ASSUME NEW v, Len(v) \in Nat
  PROVE  KeptFlags(v) = [i \in 1..Len(v) |-> IsKept(v, i, KeptFlags(v))]
<1> DEFINE Fits(f) == f = [i \in 1..Len(v) |-> IsKept(v, i, f)]
<1>1. \E f : Fits(f)
  BY FlagsExist
<1>2. KeptFlags(v) = CHOOSE f : Fits(f)
  BY DEF KeptFlags
<1>3. Fits(CHOOSE f : Fits(f))
  <2> HIDE DEF Fits
  <2> QED
    BY <1>1
<1> QED
  BY <1>2, <1>3

\* A record is kept for one of these reasons, and left out for one of those.
LEMMA KeptWhen ==
  ASSUME NEW v \in Seq(Record), NEW i \in 1..Len(v)
  PROVE  i \in Kept(v) <=> IsKept(v, i, KeptFlags(v))
BY FlagsOf DEF Kept
-----------------------------------------------------------------------------
(* Values of a resource that is not interpolated                           *)

LEMMA VectorTypes ==
  ASSUME NEW v \in Seq(Record)
  PROVE  /\ Len(v) \in Nat /\ DOMAIN v = 1..Len(v)
         /\ \A i \in 1..Len(v) :
              /\ v[i] \in Record /\ v[i].at \in Nat /\ v[i].at <= MaxEvents /\ v[i].val \in Int
              /\ v[i].res \in Resource \cup {Other}
              /\ Earlier(v, i) \subseteq 1..(i - 1) /\ Later(v, i) \subseteq (i + 1)..Len(v)
<1>1. Len(v) \in Nat /\ DOMAIN v = 1..Len(v) /\ \A i \in 1..Len(v) : v[i] \in Record
  OBVIOUS
<1> QED
  BY <1>1, RecordTypes DEF Earlier, Later

\* The positions of the resource of i that are kept, up to i.
KeptUpTo(v, i) == {j \in Kept(v) : v[j].res = v[i].res /\ j <= i}
KeptFrom(v, i) == {j \in Kept(v) : v[j].res = v[i].res /\ j >= i}

LEMMA KeptAsStep ==
  ASSUME NEW v \in Seq(Record), NEW i \in 1..Len(v),
         v[i].res \in Resource \ Interpolated
  PROVE  \E p \in KeptUpTo(v, i) :
           /\ \A j \in KeptUpTo(v, i) : j <= p
           /\ p = i \/ IsEqual(v[i].res, v[p].val, v[i].val)
<1> DEFINE flags == KeptFlags(v)
           r == v[i].res
<1>1. Kept(v) \subseteq 1..Len(v) /\ Len(v) \in Nat
  BY VectorTypes DEF Kept
<1>2. CASE i \in Kept(v)
  BY <1>1, <1>2 DEF KeptUpTo
<1>3. CASE i \notin Kept(v)
  <2>1. ~IsKept(v, i, flags)
    BY <1>3, KeptWhen
  <2>2. r # Other /\ r \notin Interpolated
    BY TolAssumption
  <2>3. ~KeptAsChanged(v, i, flags)
    <3> HIDE DEF flags
    <3> QED
      BY <2>1, <2>2 DEF IsKept
  <2>4. PICK p \in Earlier(v, i) : /\ flags[p] /\ \A k \in Earlier(v, i) : k > p => ~flags[k]
                                  /\ IsEqual(r, v[p].val, v[i].val)
    <3> HIDE DEF flags
    <3> QED
      BY <2>3 DEF KeptAsChanged
  <2>5. p \in KeptUpTo(v, i)
    BY <1>1, <2>4 DEF KeptUpTo, Kept, Earlier
  <2>6. ASSUME NEW j \in KeptUpTo(v, i)
        PROVE  j <= p
    <3>1. j \in 1..Len(v) /\ flags[j] /\ v[j].res = r /\ j <= i /\ j # i
      BY <1>1, <1>3, <2>6 DEF KeptUpTo, Kept
    <3>2. j \in Earlier(v, i)
      BY <1>1, <3>1 DEF Earlier
    <3> QED
      BY <2>4, <3>1, <3>2 DEF Earlier
  <2> QED
    BY <2>4, <2>5, <2>6
<1> QED
  BY <1>2, <1>3

-----------------------------------------------------------------------------
(* Values of an interpolated resource                                      *)

LEMMA PreviousOf ==
  ASSUME NEW v \in Seq(Record), NEW i \in 1..Len(v), NEW j \in Earlier(v, i)
  PROVE  \E k \in 1..Len(v) : IsPrevious(v, k, i) /\ j <= k
<1>1. Len(v) \in Nat /\ Earlier(v, i) \subseteq 1..Len(v)
  BY VectorTypes
<1>2. PICK k \in Earlier(v, i) : \A m \in Earlier(v, i) : m <= k
  BY <1>1, LastOf
<1> QED
  BY <1>1, <1>2 DEF IsPrevious

LEMMA RepeatsPrevious ==
  ASSUME NEW v \in Seq(Record), NEW i \in 1..Len(v), NEW k \in 1..Len(v),
         Repeats(v, i), IsPrevious(v, k, i)
  PROVE  v[k].res = v[i].res /\ IsEqual(v[i].res, v[k].val, v[i].val)
<1>1. PICK j \in Earlier(v, i) : IsPrevious(v, j, i) /\ IsEqual(v[i].res, v[j].val, v[i].val)
  BY DEF Repeats
<1>2. Earlier(v, i) \subseteq 1..(i - 1)
  BY VectorTypes
<1>3. j = k
  BY <1>1, <1>2 DEF IsPrevious
<1> QED
  BY <1>1, <1>3 DEF Earlier

LEMMA KeptAsLine ==
  ASSUME NEW v \in Seq(Record), NEW i \in 1..Len(v),
         v[i].res \in Interpolated, Delta[v[i].res] = 0
  PROVE  \E p \in KeptUpTo(v, i), q \in KeptFrom(v, i) :
           /\ \A j \in KeptUpTo(v, i) : j <= p
           /\ \A j \in KeptFrom(v, i) : q <= j
           /\ (p = i /\ q = i) \/ (v[p].val = v[i].val /\ v[q].val = v[i].val)
<1> DEFINE r == v[i].res
           n == Len(v)
           Same == {k \in 1..n : v[k].res = r}
<1>1. /\ n \in Nat /\ Kept(v) \subseteq 1..n
      /\ \A k \in 1..n : /\ v[k].val \in Int
                         /\ Earlier(v, k) \subseteq 1..(k - 1) /\ Later(v, k) \subseteq (k + 1)..n
  BY VectorTypes DEF Kept
<1>2. \A k \in Same : k \in Kept(v) <=> KeptOnLine(v, k)
  <2> TAKE k \in Same
  <2>1. v[k].res \in Interpolated /\ v[k].res # Other
    BY TolAssumption
  <2> QED
    BY <2>1, KeptWhen DEF IsKept
<1>3. \A k, m \in Same : Repeats(v, m) /\ IsPrevious(v, k, m) => v[k].val = v[m].val
  <2> SUFFICES ASSUME NEW k \in Same, NEW m \in Same, Repeats(v, m), IsPrevious(v, k, m)
               PROVE  v[k].val = v[m].val
    OBVIOUS
  <2>1. IsEqual(r, v[k].val, v[m].val)
    BY RepeatsPrevious
  <2>2. v[k].val - v[m].val <= 0 /\ v[m].val - v[k].val <= 0
    BY <2>1 DEF IsEqual
  <2> QED
    BY <1>1, <2>2
<1>4. PICK p \in KeptUpTo(v, i) : \A j \in KeptUpTo(v, i) : j <= p
  <2>1. PICK m \in Same : \A k \in Same : m <= k
    <3>1. Same \subseteq Nat /\ Same # {}
      OBVIOUS
    <3> QED
      BY <3>1, FirstOf
  <2>2. Earlier(v, m) = {}
    BY <1>1, <2>1 DEF Earlier
  <2>3. m \in Kept(v)
    BY <1>2, <2>1, <2>2 DEF KeptOnLine, Repeats, IsPrevious
  <2>4. m \in KeptUpTo(v, i)
    BY <2>1, <2>3 DEF KeptUpTo
  <2>5. KeptUpTo(v, i) \subseteq 1..n
    BY <1>1 DEF KeptUpTo
  <2> QED
    BY <1>1, <2>4, <2>5, LastOf
<1>5. PICK q \in KeptFrom(v, i) : \A j \in KeptFrom(v, i) : q <= j
  <2>1. PICK m \in Same : \A k \in Same : k <= m
    <3>1. Same \subseteq 1..n /\ Same # {}
      OBVIOUS
    <3> HIDE DEF Same
    <3> QED
      BY <1>1, <3>1, LastOf
  <2>2. Later(v, m) = {}
    BY <1>1, <2>1 DEF Later
  <2>3. m \in Kept(v)
    BY <1>2, <2>1, <2>2 DEF KeptOnLine
  <2>4. m \in KeptFrom(v, i)
    BY <2>1, <2>3 DEF KeptFrom
  <2>5. KeptFrom(v, i) \subseteq Nat
    BY <1>1 DEF KeptFrom
  <2> QED
    BY <2>4, <2>5, FirstOf
<1>6. p \in Same /\ q \in Same /\ p <= i /\ i <= q
  BY <1>1, <1>4, <1>5 DEF KeptUpTo, KeptFrom
<1>7. v[p].val = v[i].val
  <2> DEFINE Off == {k \in (p + 1)..i : k \in Same /\ v[k].val # v[p].val}
  <2>1. Off = {}
    <3> SUFFICES ASSUME Off # {}
                 PROVE  FALSE
      OBVIOUS
    <3>1. PICK k \in Off : \A m \in Off : k <= m
      <4>1. Off \subseteq Nat
        BY <1>6
      <4> HIDE DEF Off
      <4> QED
        BY <4>1, FirstOf
    <3>2. k \in Same /\ p < k /\ k <= i /\ v[k].val # v[p].val
      BY <1>6, <3>1
    <3>3. k \notin Kept(v)
      BY <1>4, <1>6, <3>2 DEF KeptUpTo
    <3>4. Repeats(v, k)
      BY <1>2, <3>2, <3>3 DEF KeptOnLine
    <3>5. p \in Earlier(v, k)
      BY <1>6, <3>2 DEF Earlier
    <3>6. PICK j \in 1..n : IsPrevious(v, j, k) /\ p <= j
      BY <3>2, <3>5, PreviousOf
    <3>7. j \in Same /\ j < k
      BY <1>1, <3>2, <3>6 DEF IsPrevious, Earlier
    <3>8. v[j].val = v[k].val
      BY <1>3, <3>2, <3>4, <3>6, <3>7
    <3>9. j \notin Off
      BY <1>6, <3>1, <3>2, <3>7
    <3> QED
      BY <1>6, <3>2, <3>6, <3>7, <3>8, <3>9
  <2>2. p = i \/ i \in (p + 1)..i
    BY <1>6
  <2>3. i \in Same
    OBVIOUS
  <2> QED
    BY <2>1, <2>2, <2>3
<1>8. ASSUME i \notin Kept(v)
      PROVE  v[q].val = v[i].val
  <2> DEFINE Off == {k \in (i + 1)..q : k \in Same /\ v[k].val # v[i].val}
  <2>1. Off = {}
    <3> SUFFICES ASSUME Off # {}
                 PROVE  FALSE
      OBVIOUS
    <3>1. PICK k \in Off : \A m \in Off : k <= m
      <4>1. Off \subseteq Nat
        BY <1>6
      <4> HIDE DEF Off
      <4> QED
        BY <4>1, FirstOf
    <3>2. k \in Same /\ i < k /\ k <= q /\ v[k].val # v[i].val
      BY <1>6, <3>1
    <3>3. i \in Earlier(v, k)
      BY <3>2 DEF Earlier
    <3>4. PICK j \in 1..n : IsPrevious(v, j, k) /\ i <= j
      BY <3>2, <3>3, PreviousOf
    <3>5. j \in Same /\ j < k
      BY <1>1, <3>2, <3>4 DEF IsPrevious, Earlier
    <3>6. j \notin Kept(v)
      BY <1>5, <1>6, <1>8, <3>2, <3>4, <3>5 DEF KeptFrom
    <3>7. ~Reenabled(v, j)
      BY <1>2, <3>5, <3>6 DEF KeptOnLine
    <3>8. k \in Later(v, j)
      BY <1>1, <3>2, <3>5 DEF Later
    <3>9. Repeats(v, k)
      BY <3>4, <3>7, <3>8 DEF Reenabled
    <3>10. v[j].val = v[k].val
      BY <1>3, <3>2, <3>4, <3>5, <3>9
    <3>11. j \notin Off
      BY <3>1, <3>2, <3>5
    <3> QED
      BY <1>6, <3>2, <3>4, <3>5, <3>10, <3>11
  <2>2. q = i \/ q \in (i + 1)..q
    BY <1>6
  <2> QED
    BY <1>6, <2>1, <2>2
<1>9. CASE i \in Kept(v)
  <2>1. i \in KeptUpTo(v, i) /\ i \in KeptFrom(v, i)
    BY <1>9 DEF KeptUpTo, KeptFrom
  <2>2. p = i /\ q = i
    BY <1>4, <1>5, <1>6, <2>1
  <2> QED
    BY <1>4, <1>5, <2>2
<1>10. CASE i \notin Kept(v)
  BY <1>4, <1>5, <1>7, <1>8, <1>10
<1> QED
  BY <1>9, <1>10

-----------------------------------------------------------------------------
(* The records that are selected, in their order                           *)

Ascending(v) == \A i, j \in 1..Len(v) : i < j => v[i].at < v[j].at

LEMMA WrittenInOrder ==
  ASSUME NEW v \in Seq(Record), Ascending(v)
  PROVE  /\ Written(v) \in Seq(Record)
         /\ \A k \in DOMAIN Written(v) : \E i \in Kept(v) : Written(v)[k] = v[i]
         /\ L!InOrder(Written(v))
         /\ L!ListedIn(Written(v), v) = Kept(v)
<1> DEFINE S == Kept(v)
           rank(i) == Cardinality(UpTo(S, i))
<1>1. /\ Len(v) \in Nat /\ S \subseteq 1..Len(v) /\ DOMAIN v = 1..Len(v)
      /\ \A i \in 1..Len(v) : v[i] \in Record /\ v[i].at \in Nat
  BY VectorTypes DEF Kept
<1>2. /\ Cardinality(S) \in Nat
      /\ \A i \in S : rank(i) \in 1..Cardinality(S)
      /\ \A i, j \in S : i < j => rank(i) < rank(j)
  BY <1>1, Ranks
<1>3. /\ \A k \in 1..Cardinality(S) : \E i \in S : rank(i) = k /\ Written(v)[k] = v[i]
      /\ \A i \in S : Written(v)[rank(i)] = v[i]
      /\ DOMAIN Written(v) = 1..Cardinality(S)
  BY <1>1, Selected DEF Written
<1> HIDE DEF rank, S
<1>4. Written(v) \in Seq(Record)
  <2>1. \A k \in 1..Cardinality(S) : Written(v)[k] \in Record
    BY <1>1, <1>3
  <2>2. Written(v) = [k \in 1..Cardinality(S) |-> Written(v)[k]]
    <3>1. Written(v) = [k \in DOMAIN Written(v) |-> Written(v)[k]]
      BY DEF Written, Selection
    <3> QED
      BY <1>3, <3>1
  <2> QED
    BY <1>2, <2>1, <2>2
<1>5. L!InOrder(Written(v))
  <2> SUFFICES ASSUME NEW k \in 1..Cardinality(S), NEW m \in 1..Cardinality(S), k < m
               PROVE  Written(v)[k].at < Written(v)[m].at
    BY <1>3 DEF L!InOrder, L!Positions
  <2>1. PICK i \in S : rank(i) = k /\ Written(v)[k] = v[i]
    BY <1>3
  <2>2. PICK j \in S : rank(j) = m /\ Written(v)[m] = v[j]
    BY <1>3
  <2>3. i \in Nat /\ j \in Nat /\ ~(j < i) /\ i # j
    BY <1>1, <1>2, <2>1, <2>2
  <2>4. i < j
    BY <2>3
  <2> QED
    BY <1>1, <2>1, <2>2, <2>4 DEF Ascending
<1>6. L!ListedIn(Written(v), v) = S
  <2>1. ASSUME NEW i \in S
        PROVE  i \in L!ListedIn(Written(v), v)
    BY <1>1, <1>2, <1>3 DEF L!ListedIn, L!Positions
  <2>2. ASSUME NEW i \in L!ListedIn(Written(v), v)
        PROVE  i \in S
    <3>1. i \in 1..Len(v)
      BY <1>1 DEF L!ListedIn, L!Positions
    <3>2. PICK k \in 1..Cardinality(S) : Written(v)[k] = v[i]
      BY <1>3 DEF L!ListedIn, L!Positions
    <3>3. PICK j \in S : v[j] = v[i]
      BY <1>3, <3>2
    <3>4. v[i].at = v[j].at /\ j \in 1..Len(v) /\ v[i].at \in Nat
      BY <1>1, <3>1, <3>3
    <3>5. ~(i < j) /\ ~(j < i)
      BY <3>1, <3>4 DEF Ascending
    <3>6. i = j
      BY <1>1, <3>1, <3>4, <3>5
    <3> QED
      BY <3>6
  <2> QED
    BY <2>1, <2>2
<1> QED
  BY <1>3, <1>4, <1>5, <1>6 DEF S

LEMMA DistributeTwice ==
  ASSUME NEW a \in Int, NEW x \in Int, NEW y \in Int, NEW z \in Int
  PROVE  a * (z - y) + a * (y - x) - a * (z - x) = 0
OBVIOUS

\* What is written of a vector represents it.
LEMMA WrittenRepresents ==
  ASSUME NEW v \in Seq(Record), Ascending(v), \A r \in Interpolated : Delta[r] = 0
  PROVE  L!Represents(Written(v), v)
<1> DEFINE S == Kept(v)
<1>1. /\ \A k \in DOMAIN Written(v) : \E i \in S : Written(v)[k] = v[i]
      /\ L!InOrder(Written(v))
      /\ L!ListedIn(Written(v), v) = S
  BY WrittenInOrder
<1>2. /\ Len(v) \in Nat /\ S \subseteq 1..Len(v) /\ DOMAIN v = 1..Len(v)
      /\ \A i \in 1..Len(v) : /\ v[i].at \in Nat /\ v[i].val \in Int
                              /\ v[i].res \in Resource \cup {Other}
  BY VectorTypes DEF Kept
<1>3. \A r \in Resource : Delta[r] \in Nat
  BY TolAssumption
<1>4. \A i, p \in 1..Len(v) :
        p \in KeptUpTo(v, i) /\ (\A j \in KeptUpTo(v, i) : j <= p) => L!NearestBefore(p, S, v, i)
  BY <1>2 DEF L!NearestBefore, L!SameResource, L!Positions, KeptUpTo
<1>5. \A i, q \in 1..Len(v) :
        q \in KeptFrom(v, i) /\ (\A j \in KeptFrom(v, i) : q <= j) => L!NearestAfter(q, S, v, i)
  BY <1>2 DEF L!NearestAfter, L!SameResource, L!Positions, KeptFrom
<1>6. ASSUME NEW i \in 1..Len(v)
      PROVE  L!ReadBack(S, v, i)
  <2>1. CASE v[i].res \in Interpolated
    <3>1. v[i].res \in Resource /\ Delta[v[i].res] = 0
      BY <2>1, TolAssumption
    <3>2. PICK p \in KeptUpTo(v, i), q \in KeptFrom(v, i) :
           /\ \A j \in KeptUpTo(v, i) : j <= p
           /\ \A j \in KeptFrom(v, i) : q <= j
           /\ (p = i /\ q = i) \/ (v[p].val = v[i].val /\ v[q].val = v[i].val)
      BY <2>1, <3>1, KeptAsLine
    <3>3. p \in S /\ q \in S /\ v[p].val = v[i].val /\ v[q].val = v[i].val
      BY <3>2 DEF KeptUpTo, KeptFrom
    <3>4. L!NearestBefore(p, S, v, i) /\ L!NearestAfter(q, S, v, i)
      BY <1>2, <1>4, <1>5, <3>2, <3>3
    <3> DEFINE a == v[i].val
               x == v[p].at
               y == v[i].at
               z == v[q].at
    <3>5. a \in Int /\ x \in Int /\ y \in Int /\ z \in Int
      BY <1>2, <3>3
    <3>6. a * (z - y) + a * (y - x) - a * (z - x) = 0
      <4> HIDE DEF a, x, y, z
      <4> QED
        BY <3>5, DistributeTwice
    <3>7. v[p].val * (z - y) + v[q].val * (y - x) - a * (z - x) = 0
      BY <3>3, <3>6
    <3>8. Delta[v[i].res] * (z - x) = 0
      BY <3>1, <3>5
    <3>9. L!OnLine(p, q, v, i)
      BY <3>7, <3>8 DEF L!OnLine, L!Abs
    <3>10. L!ReadBackLine(S, v, i)
      BY <3>3, <3>4, <3>9 DEF L!ReadBackLine
    <3> QED
      BY <2>1, <3>1, <3>10 DEF L!ReadBack
  <2>2. CASE v[i].res \in Resource \ Interpolated
    <3>1. PICK p \in KeptUpTo(v, i) :
           /\ \A j \in KeptUpTo(v, i) : j <= p
           /\ p = i \/ IsEqual(v[i].res, v[p].val, v[i].val)
      BY <2>2, KeptAsStep
    <3>2. p \in S /\ p \in 1..Len(v) /\ L!NearestBefore(p, S, v, i)
      BY <1>2, <1>4, <3>1 DEF KeptUpTo
    <3>3. L!Abs(v[p].val - v[i].val) <= Delta[v[i].res]
      <4>1. v[p].val \in Int /\ v[i].val \in Int /\ Delta[v[i].res] \in Nat
        BY <1>2, <1>3, <2>2, <3>2
      <4>2. CASE p = i
        BY <4>1, <4>2 DEF L!Abs
      <4>3. CASE IsEqual(v[i].res, v[p].val, v[i].val)
        BY <4>1, <4>3 DEF L!Abs, IsEqual
      <4> QED
        BY <3>1, <4>2, <4>3
    <3> QED
      BY <2>2, <3>2, <3>3 DEF L!ReadBack, L!ReadBackStep
  <2>3. CASE v[i].res = Other
    <3>1. v[i].res \notin Resource
      BY <2>3, TolAssumption
    <3>2. i \in S
      BY <2>3, TolAssumption, KeptWhen DEF IsKept
    <3> QED
      BY <3>1, <3>2, TolAssumption DEF L!ReadBack
  <2> QED
    BY <1>2, <2>1, <2>2, <2>3
<1> QED
  BY <1>1, <1>2, <1>6 DEF L!Represents, L!Positions

-----------------------------------------------------------------------------
(* The pipeline implements Listing                                         *)

\* Each event publishes at most one record, at a time of its own.
OrderInv ==
  /\ events \in Nat
  /\ Ascending(publish_vec) /\ \A n \in 1..Len(publish_vec) : publish_vec[n].at <= events
  /\ \A n \in 1..Len(given) : Ascending(given[n])

LEMMA AppendFacts ==
  ASSUME NEW S, NEW s \in Seq(S), NEW x \in S
  PROVE  /\ Append(s, x) \in Seq(S) /\ Len(Append(s, x)) = Len(s) + 1 /\ Len(s) \in Nat
         /\ Append(s, x)[Len(s) + 1] = x
         /\ \A n \in 1..Len(s) : Append(s, x)[n] = s[n]
         /\ SubSeq(Append(s, x), 1, Len(s)) = s
OBVIOUS

LEMMA NextOrder == FlowInv /\ OrderInv /\ [Next]_vars => OrderInv'
<1> SUFFICES ASSUME FlowInv, OrderInv, [Next]_vars
             PROVE  OrderInv'
  OBVIOUS
<1>1. CASE UNCHANGED <<events, publish_vec, given>>
  BY <1>1 DEF OrderInv, Ascending
<1>2. CASE ProcessEvent
  <2>1. events' = events + 1 /\ given' = given
    BY <1>2 DEF ProcessEvent
  <2>2. CASE UNCHANGED publish_vec
    <3>1. \A n \in 1..Len(publish_vec) : publish_vec[n].at \in Nat
      BY RecordTypes DEF FlowInv
    <3>2. \A n \in 1..Len(publish_vec) : publish_vec[n].at <= events'
      BY <2>1, <3>1 DEF OrderInv
    <3> QED
      BY <2>1, <2>2, <3>2 DEF OrderInv, Ascending
  <2>3. ASSUME NEW rec \in Record, rec.at = events', publish_vec' = Append(publish_vec, rec)
        PROVE  OrderInv'
    <3>1. publish_vec \in Seq(Record) /\ \A n \in 1..Len(publish_vec) : publish_vec[n].at \in Nat
      BY RecordTypes DEF FlowInv
    <3>2. /\ Len(publish_vec') = Len(publish_vec) + 1 /\ Len(publish_vec) \in Nat
          /\ publish_vec'[Len(publish_vec) + 1] = rec
          /\ \A n \in 1..Len(publish_vec) : publish_vec'[n] = publish_vec[n]
      BY <2>3, <3>1, AppendFacts
    <3>3. \A n \in 1..Len(publish_vec') : publish_vec'[n].at <= events'
      BY <2>1, <2>3, <3>1, <3>2 DEF OrderInv
    <3>4. Ascending(publish_vec')
      <4> SUFFICES ASSUME NEW i \in 1..Len(publish_vec'), NEW j \in 1..Len(publish_vec'), i < j
                   PROVE  publish_vec'[i].at < publish_vec'[j].at
        BY DEF Ascending
      <4>1. i \in 1..Len(publish_vec)
        BY <3>2
      <4>2. CASE j = Len(publish_vec) + 1
        BY <2>1, <2>3, <3>1, <3>2, <4>1, <4>2 DEF OrderInv
      <4>3. CASE j \in 1..Len(publish_vec)
        BY <3>2, <4>1, <4>3 DEF OrderInv, Ascending
      <4> QED
        BY <3>2, <4>2, <4>3
    <3> QED
      BY <2>1, <3>3, <3>4 DEF OrderInv, Ascending
  <2> QED
    BY <1>2, <2>2, <2>3 DEF ProcessEvent
<1>3. ASSUME HandsOver(publish_vec), publish_vec' = <<>>, UNCHANGED events
      PROVE  OrderInv'
  <2>1. /\ Len(given') = Len(given) + 1 /\ Len(given) \in Nat
        /\ given'[Len(given) + 1] = publish_vec
        /\ \A n \in 1..Len(given) : given'[n] = given[n]
    BY <1>3, AppendFacts DEF HandsOver, FlowInv
  <2>2. \A n \in 1..Len(given') : Ascending(given'[n])
    BY <2>1 DEF OrderInv
  <2>3. Ascending(publish_vec') /\ Len(publish_vec') = 0
    BY <1>3 DEF Ascending
  <2> QED
    BY <1>3, <2>2, <2>3 DEF OrderInv, Ascending
<1>4. CASE HandOver
  BY <1>3, <1>4 DEF HandOver
<1>5. CASE HandOverLast
  BY <1>1, <1>3, <1>5 DEF HandOverLast
<1>6. CASE StopIterating \/ StopFilter \/ JoinFilter \/ FilterNext \/ XmlNext \/ UNCHANGED vars
  <2>1. UNCHANGED <<events, publish_vec, given>>
    BY <1>6 DEF StopIterating, StopFilter, JoinFilter, FilterNext, LoadVector, TestNoMoreWork,
         PublishVector, OfferXml, Flush, ReleaseVector, StopXml, JoinXml,
         XmlNext, LoadXml, TestNoMoreXmlWork, WriteXml, ReleaseXml, vars, producerVars
  <2> QED
    BY <1>1, <2>1
<1> QED
  BY <1>2, <1>4, <1>5, <1>6 DEF Next, ProducerNext, Terminated

\* The block that a step adds to a file is the next one, the same as in the
\* other file, and from it the vector can be read back.
LEMMA NextBlockWritten ==
  ASSUME \A r \in Interpolated : Delta[r] = 0,
         FlowInv, OrderInv, NEW file \in Seq(Block), NEW file1, NEW other, NEW x \in Block,
         file1 = Append(file, x), Len(file) < Len(given), x = Written(given[Len(file) + 1]),
         IsPrefix(other)
  PROVE  L!NextBlock(file, file1, other)
<1> DEFINE n == Len(file) + 1
<1>1. n \in 1..Len(given) /\ Len(given) \in Nat /\ given[n] \in Seq(Record)
  BY DEF FlowInv
<1>2. Len(file1) = n /\ SubSeq(file1, 1, Len(file)) = file /\ file1[n] = x
  BY AppendFacts
<1>3. L!Represents(file1[n], given[n])
  BY <1>1, <1>2, WrittenRepresents DEF OrderInv
<1>4. n <= Len(other) => file1[n] = other[n]
  BY <1>1, <1>2 DEF IsPrefix
<1> QED
  BY <1>1, <1>2, <1>3, <1>4 DEF L!NextBlock

LEMMA StepLists ==
  ASSUME \A r \in Interpolated : Delta[r] = 0,
         OwnerInv, FlowInv, OrderInv, [Next]_vars
  PROVE  [L!ListNext]_(L!listVars)
<1> USE DEF L!listVars
<1>t. /\ Len(given) \in Nat /\ Len(tol) \in Nat /\ Len(xml) \in Nat
      /\ Len(tol) <= Len(given) /\ Offered \in 0..Len(given) /\ Len(xml) <= Offered
      /\ DOMAIN given = 1..Len(given)
  BY FlowTypes
<1>1. CASE ProcessEvent
  <2>1. ppc # "done" /\ ppc' = ppc /\ UNCHANGED <<given, tol, xml>>
    BY <1>1 DEF ProcessEvent, filterVars, xmlVars
  <2>2. CASE UNCHANGED publish_vec
    BY <2>1, <2>2
  <2>3. ASSUME NEW rec \in Record, publish_vec' = Append(publish_vec, rec)
        PROVE  L!Publish
    <3>1. Len(publish_vec') = Len(publish_vec) + 1 /\ SubSeq(publish_vec', 1, Len(publish_vec)) = publish_vec
      BY <2>3, AppendFacts DEF FlowInv
    <3> QED
      BY <2>1, <3>1 DEF L!Publish
  <2> QED
    BY <1>1, <2>2, <2>3 DEF ProcessEvent, L!ListNext
<1>2. CASE HandOver
  BY <1>2 DEF HandOver, HandsOver, L!ListNext, L!HandOver, filterVars, xmlVars
<1>3. CASE StopIterating
  BY <1>3 DEF StopIterating, filterVars, xmlVars
<1>4. CASE HandOverLast
  BY <1>4 DEF HandOverLast, HandsOver, L!ListNext, L!HandOver, filterVars, xmlVars
<1>5. CASE StopFilter
  BY <1>5 DEF StopFilter, filterVars, xmlVars
<1>6. CASE JoinFilter
  <2>1. /\ ppc = "join" /\ fpc = "exited" /\ ppc' = "done" /\ records_to_filter = Null
        /\ UNCHANGED <<publish_vec, given, tol, xml>>
    BY <1>6 DEF JoinFilter, filterVars, xmlVars, OwnerInv
  <2>2. publish_vec = <<>> /\ Len(tol) = Len(given)
    BY <2>1 DEF FlowInv, EndFlow, FilterFlow
  <2>3. Dual => Len(xml) = Len(given)
    BY <2>1, <2>2 DEF FlowInv, EndFlow, XmlFlow, OwnerInv, Offered
  <2>4. L!Finish
    BY <2>1, <2>2, <2>3 DEF L!Finish
  <2> QED
    BY <2>4 DEF L!ListNext
<1>7. CASE Flush
  <2>1. fpc = "flush" /\ tol' = Append(tol, xmlvec) /\ UNCHANGED <<publish_vec, given, xml, ppc>>
    BY <1>7 DEF Flush, producerVars, xmlVars
  <2>2. ppc # "done"
    BY <2>1 DEF FlowInv, EndFlow
  <2>3. records_to_filter = <<vec>> /\ records_to_filter # Null
    BY <2>1 DEF OwnerInv, VectorsHaveOneOwner, Null
  <2>4. Len(given) > 0 /\ vec = given[Len(given)] /\ xmlvec = Written(vec) /\ Len(tol) = Len(given) - 1
    BY <2>1, <2>3 DEF FlowInv, FilterFlow
  <2>5. vec \in Seq(Record)
    BY <1>t, <2>4 DEF FlowInv
  <2>6. L!NextBlock(tol, tol', xml)
    <3>1. xmlvec \in Block
      BY <2>4, <2>5 DEF Block
    <3>2. Len(tol) < Len(given) /\ xmlvec = Written(given[Len(tol) + 1])
      BY <1>t, <2>4
    <3> QED
      BY <2>1, <3>1, <3>2, NextBlockWritten DEF FlowInv
  <2> QED
    BY <2>1, <2>2, <2>6 DEF L!ListNext, L!ListTol
<1>8. CASE WriteXml
  <2>1. xpc = "write" /\ xml' = Append(xml, xvec) /\ UNCHANGED <<publish_vec, given, tol, ppc>>
    BY <1>8 DEF WriteXml, producerVars, filterVars
  <2>2. data_for_xml_filtering = <<xvec>> /\ data_for_xml_filtering # Null
    BY <2>1 DEF OwnerInv, VectorsHaveOneOwner, Null
  <2>3. Dual
    BY <2>2 DEF FlowInv, XmlFlow
  <2>4. ppc # "done"
    BY <2>2, <2>3 DEF FlowInv, EndFlow, OwnerInv
  <2>5. Offered > 0 /\ xvec = Written(given[Offered]) /\ Len(xml) = Offered - 1
    BY <2>1, <2>2, <2>3 DEF FlowInv, XmlFlow
  <2>6. given[Offered] \in Seq(Record)
    BY <1>t, <2>5 DEF FlowInv
  <2>7. L!NextBlock(xml, xml', tol)
    <3>1. xvec \in Block
      BY <2>5, <2>6 DEF Block
    <3>2. Len(xml) < Len(given) /\ xvec = Written(given[Len(xml) + 1])
      BY <1>t, <2>5
    <3> QED
      BY <2>1, <3>1, <3>2, NextBlockWritten DEF FlowInv
  <2> QED
    BY <2>1, <2>3, <2>4, <2>7 DEF L!ListNext, L!ListXml
<1>9. CASE LoadVector \/ TestNoMoreWork \/ PublishVector \/ OfferXml \/ ReleaseVector \/ StopXml \/ JoinXml
  BY <1>9 DEF LoadVector, TestNoMoreWork, PublishVector, OfferXml, ReleaseVector, StopXml, JoinXml,
              producerVars, xmlVars
<1>10. CASE LoadXml \/ TestNoMoreXmlWork \/ ReleaseXml
  BY <1>10 DEF LoadXml, TestNoMoreXmlWork, ReleaseXml, producerVars, filterVars
<1>11. CASE UNCHANGED vars
  BY <1>11 DEF vars, producerVars, filterVars, xmlVars
<1> QED
  BY <1>1, <1>2, <1>3, <1>4, <1>5, <1>6, <1>7, <1>8, <1>9, <1>10, <1>11
     DEF Next, ProducerNext, FilterNext, XmlNext, Terminated

\* The pipeline implements Listing: no batch is lost, repeated or overtaken,
\* both files list the same, and what filter_records leaves out can be read
\* back.  Interpolated values are compared exactly here: with a tolerance a
\* slow change may be left out altogether (HistoryReproduced).
THEOREM PipelineImplementsListing ==
  ASSUME \A r \in Interpolated : Delta[r] = 0
  PROVE  Spec => ListsEverything
<1>1. Init => OwnerInv /\ FlowInv /\ OrderInv
  <2>1. Init => OrderInv
    BY DEF Init, OrderInv, Ascending
  <2> QED
    BY <2>1, InitOwner, InitFlow
<1>2. OwnerInv /\ FlowInv /\ OrderInv /\ [Next]_vars => (OwnerInv /\ FlowInv /\ OrderInv)'
  BY NextOwner, NextFlow, NextOrder
<1>3. Init => L!ListInit
  BY DEF Init, L!ListInit
<1>4. OwnerInv /\ FlowInv /\ OrderInv /\ [Next]_vars => [L!ListNext]_(L!listVars)
  BY StepLists
<1> QED
  BY <1>1, <1>2, <1>3, <1>4, PTL DEF Spec, ListsEverything, L!ListSpec
=============================================================================
