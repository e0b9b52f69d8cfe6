----------------------------- MODULE TolPipeline -----------------------------
(***************************************************************************)
(* The pipeline that writes a TOL and an XMLTOL after modeling: the thread *)
(* that iterates over activities, violations and resource values           *)
(* (iterateOverTOLevents), the thread that filters out repeated resource   *)
(* values (filter_records) and the thread that writes the XMLTOL           *)
(* (filter_xml_records).  Each pair shares one atomic pointer to a vector, *)
(* which the receiver sets back to NULL when it is through with the vector,*)
(* and a flag that says that no more vectors will come.  Every wait is a   *)
(* loop that sleeps and looks again.                                       *)
(*                                                                         *)
(* A NULL pointer is <<>>, a pointer to a vector is <<vector>>.  A record  *)
(* is the time at which it was published, a resource and its value, or a   *)
(* record of another kind.  Left out: how the records are found in time    *)
(* order, the time bounds, the report of initial values before the threads *)
(* start and of last values after they are joined.                         *)
(***************************************************************************)
EXTENDS Integers, Sequences, FiniteSets, Selections

CONSTANTS
  Resource,
  Interpolated,   \* those with has_interpolation
  NoFiltering,    \* those with has_nofiltering
  Other,          \* stands for activities and violations
  Value,
  Delta,          \* Delta[r]: half of min_abs_delta, what is_equal_to tolerates
  Dual,           \* dual_flag: both files are written
  BatchSize,      \* 50000 in the code
  MaxEvents       \* bound: events the iteration meets

ASSUME TolAssumption ==
  /\ Interpolated \subseteq Resource /\ NoFiltering \subseteq Resource
  /\ Other \notin Resource
  /\ Value \subseteq Int /\ Value # {}
  /\ Delta \in [Resource -> Nat]
  /\ Dual \in BOOLEAN
  /\ BatchSize \in Nat /\ MaxEvents \in Nat

VARIABLES
  ppc,                      \* where iterateOverTOLevents stands
  events,                   \* events processed so far
  publish_vec, record_count,
  given,                    \* vectors handed over (history variable)
  records_to_filter, no_more_work,
  fpc, vec, xmlvec,         \* filter_records
  data_for_xml_filtering, no_more_xml_work,
  xpc, xvec,                \* filter_xml_records
  tol, xml                  \* the blocks written to the two files

producerVars == <<ppc, events, publish_vec, record_count, given>>
filterVars == <<fpc, vec, xmlvec, tol>>
xmlVars == <<xpc, xvec, xml>>
slotVars == <<records_to_filter, no_more_work>>
xmlSlotVars == <<data_for_xml_filtering, no_more_xml_work>>
vars == <<producerVars, filterVars, xmlVars, slotVars, xmlSlotVars>>

Null == <<>>

AnyValue == CHOOSE v \in Value : TRUE

Record ==
  [at : 1..MaxEvents, res : Resource, val : Value]
  \cup [at : 1..MaxEvents, res : {Other}, val : {AnyValue}]

-----------------------------------------------------------------------------
(* Which records of a vector are written                                   *)

\* is_equal_to, with the tolerance of the resource.
IsEqual(r, u, v) == u - v <= Delta[r] /\ v - u <= Delta[r]

Earlier(v, i) == {j \in 1..(i - 1) : v[j].res = v[i].res}
Later(v, i) == {j \in (i + 1)..Len(v) : v[j].res = v[i].res}

IsPrevious(v, j, i) == j \in Earlier(v, i) /\ \A k \in Earlier(v, i) : k <= j

\* The value at i repeats the one before it.
Repeats(v, i) ==
  \E j \in Earlier(v, i) : IsPrevious(v, j, i) /\ IsEqual(v[i].res, v[j].val, v[i].val)

\* The value after i differs from it: "reenable last disabled index".
Reenabled(v, i) ==
  \E j \in Later(v, i) : IsPrevious(v, i, j) /\ ~Repeats(v, j)

\* Fault: a repeated value is never enabled again.
KeptIfNotRepeated(v, i) == v[i].res \in NoFiltering \/ ~Repeats(v, i)

\* Interpolated resources keep the values at both ends of a run of equal ones,
\* and the last one in the vector.
KeptOnLine(v, i) ==
  \/ v[i].res \in NoFiltering
  \/ ~Repeats(v, i)
  \/ Reenabled(v, i)
  \/ Later(v, i) = {}

\* Other resources keep a value that differs from the last one kept; nothing
\* is remembered from one vector to the next (selected is reset).
KeptAsChanged(v, i, kept) ==
  LET last == {j \in Earlier(v, i) : kept[j] /\ \A k \in Earlier(v, i) : k > j => ~kept[k]}
  IN  \A j \in last : ~IsEqual(v[i].res, v[j].val, v[i].val)

IsKept(v, i, kept) ==
  CASE v[i].res = Other -> TRUE
    [] v[i].res \in Interpolated -> KeptOnLine(v, i)
    [] OTHER -> KeptAsChanged(v, i, kept)

KeptFlags(v) == LET kept[i \in 1..Len(v)] == IsKept(v, i, kept) IN kept

Kept(v) == LET kept == KeptFlags(v) IN {i \in 1..Len(v) : kept[i]}

Written(v) == Selection(v, Kept(v))
-----------------------------------------------------------------------------
Init ==
  /\ ppc = "iterate" /\ events = 0 /\ publish_vec = <<>> /\ record_count = 0 /\ given = <<>>
  /\ records_to_filter = Null /\ no_more_work = FALSE
  /\ fpc = "load" /\ vec = <<>> /\ xmlvec = <<>> /\ tol = <<>>
  /\ data_for_xml_filtering = Null /\ no_more_xml_work = FALSE
  /\ xpc = (IF Dual THEN "load" ELSE "exited") /\ xvec = <<>> /\ xml = <<>>

-----------------------------------------------------------------------------
(* iterateOverTOLevents                                                    *)

\* An event publishes a record, or none: a resource value is published when
\* time advances past it, and counted when it is met.
ProcessEvent ==
  /\ ppc = "iterate"
  /\ events < MaxEvents
  /\ record_count <= BatchSize
  /\ events' = events + 1
  /\ record_count' = record_count + 1
  /\ \/ UNCHANGED publish_vec
     \/ \E rec \in Record : rec.at = events' /\ publish_vec' = Append(publish_vec, rec)
  /\ UNCHANGED <<ppc, given, filterVars, xmlVars, slotVars, xmlSlotVars>>

HandsOver(v) == records_to_filter' = <<v>> /\ given' = Append(given, v)

\* Another event is there and the vector is full: wait until the filter is
\* done with its current data.
HandOver ==
  /\ ppc = "iterate"
  /\ events < MaxEvents
  /\ record_count > BatchSize
  /\ records_to_filter = Null
  /\ HandsOver(publish_vec)
  /\ publish_vec' = <<>> /\ record_count' = 0
  /\ UNCHANGED <<ppc, events, no_more_work, filterVars, xmlVars, xmlSlotVars>>

\* No event is left, or none before the end time.
StopIterating ==
  /\ ppc = "iterate"
  /\ ppc' = "last"
  /\ UNCHANGED <<events, publish_vec, record_count, given, filterVars, xmlVars, slotVars, xmlSlotVars>>

\* Fault: the last vector is stored without waiting for the filter.
HandOverLastAtOnce ==
  /\ ppc = "last"
  /\ IF publish_vec = <<>>
       THEN UNCHANGED <<records_to_filter, given, publish_vec>>
       ELSE HandsOver(publish_vec) /\ publish_vec' = <<>>
  /\ ppc' = "stop"
  /\ UNCHANGED <<events, record_count, no_more_work, filterVars, xmlVars, xmlSlotVars>>

\* Wait for the filter; the last vector is handed over unless it is empty ...
HandOverLast ==
  /\ ppc = "last"
  /\ records_to_filter = Null
  /\ IF publish_vec = <<>>
       THEN UNCHANGED <<records_to_filter, given, publish_vec>>
       ELSE HandsOver(publish_vec) /\ publish_vec' = <<>>
  /\ ppc' = "stop"
  /\ UNCHANGED <<events, record_count, no_more_work, filterVars, xmlVars, xmlSlotVars>>

\* ... and when the filter is done with it, too, it may stop ...
StopFilter ==
  /\ ppc = "stop"
  /\ records_to_filter = Null
  /\ no_more_work' = TRUE
  /\ ppc' = "join"
  /\ UNCHANGED <<events, publish_vec, record_count, given, records_to_filter, filterVars,
                 xmlVars, xmlSlotVars>>

\* ... and is joined.
JoinFilter ==
  /\ ppc = "join"
  /\ fpc = "exited"
  /\ ppc' = "done"
  /\ UNCHANGED <<events, publish_vec, record_count, given, filterVars, xmlVars, slotVars, xmlSlotVars>>

ProducerNext ==
  ProcessEvent \/ HandOver \/ StopIterating \/ HandOverLast \/ StopFilter \/ JoinFilter
-----------------------------------------------------------------------------
(* filter_records                                                          *)

LoadVector ==
  /\ fpc = "load"
  /\ IF records_to_filter = Null
       THEN fpc' = "test" /\ UNCHANGED vec
       ELSE fpc' = "publish" /\ vec' = records_to_filter[1]
  /\ UNCHANGED <<xmlvec, tol, producerVars, xmlVars, slotVars, xmlSlotVars>>

TestNoMoreWork ==
  /\ fpc = "test"
  /\ fpc' = IF ~no_more_work THEN "load" ELSE IF Dual THEN "stopXml" ELSE "exited"
  /\ UNCHANGED <<vec, xmlvec, tol, producerVars, xmlVars, slotVars, xmlSlotVars>>

\* Identify repeated values, then write the others to the stream.
PublishVector ==
  /\ fpc = "publish"
  /\ xmlvec' = Written(vec)
  /\ fpc' = IF Dual THEN "offer" ELSE "flush"
  /\ UNCHANGED <<vec, tol, producerVars, xmlVars, slotVars, xmlSlotVars>>

\* Wait for the XML writer to finish its work, then give it the new vector.
OfferXml ==
  /\ fpc = "offer"
  /\ data_for_xml_filtering = Null
  /\ data_for_xml_filtering' = <<xmlvec>>
  /\ fpc' = "flush"
  /\ UNCHANGED <<vec, xmlvec, tol, producerVars, xmlVars, slotVars, no_more_xml_work>>

\* write_everything_you_got_up_to_this_point
Flush ==
  /\ fpc = "flush"
  /\ tol' = Append(tol, xmlvec)
  /\ fpc' = "release"
  /\ UNCHANGED <<vec, xmlvec, producerVars, xmlVars, slotVars, xmlSlotVars>>

ReleaseVector ==
  /\ fpc = "release"
  /\ records_to_filter' = Null
  /\ vec' = <<>> /\ xmlvec' = <<>>
  /\ fpc' = "load"
  /\ UNCHANGED <<tol, producerVars, xmlVars, no_more_work, xmlSlotVars>>

\* Fault: the XML writer is not told to stop.
StopXmlSilently ==
  /\ fpc = "stopXml"
  /\ data_for_xml_filtering = Null
  /\ fpc' = "joinXml"
  /\ UNCHANGED <<vec, xmlvec, tol, producerVars, xmlVars, slotVars, xmlSlotVars>>

\* Wait until the XML writer has nothing left, tell it to stop ...
StopXml ==
  /\ fpc = "stopXml"
  /\ data_for_xml_filtering = Null
  /\ no_more_xml_work' = TRUE
  /\ fpc' = "joinXml"
  /\ UNCHANGED <<vec, xmlvec, tol, producerVars, xmlVars, slotVars, data_for_xml_filtering>>

\* ... and join it.
JoinXml ==
  /\ fpc = "joinXml"
  /\ xpc = "exited"
  /\ fpc' = "exited"
  /\ UNCHANGED <<vec, xmlvec, tol, producerVars, xmlVars, slotVars, xmlSlotVars>>

FilterNext ==
  LoadVector \/ TestNoMoreWork \/ PublishVector \/ OfferXml \/ Flush \/ ReleaseVector
  \/ StopXml \/ JoinXml
-----------------------------------------------------------------------------
(* filter_xml_records                                                      *)

LoadXml ==
  /\ xpc = "load"
  /\ IF data_for_xml_filtering = Null
       THEN xpc' = "test" /\ UNCHANGED xvec
       ELSE xpc' = "write" /\ xvec' = data_for_xml_filtering[1]
  /\ UNCHANGED <<xml, producerVars, filterVars, slotVars, xmlSlotVars>>

TestNoMoreXmlWork ==
  /\ xpc = "test"
  /\ xpc' = IF no_more_xml_work THEN "exited" ELSE "load"
  /\ UNCHANGED <<xvec, xml, producerVars, filterVars, slotVars, xmlSlotVars>>

WriteXml ==
  /\ xpc = "write"
  /\ xml' = Append(xml, xvec)
  /\ xpc' = "release"
  /\ UNCHANGED <<xvec, producerVars, filterVars, slotVars, xmlSlotVars>>

ReleaseXml ==
  /\ xpc = "release"
  /\ data_for_xml_filtering' = Null
  /\ xvec' = <<>>
  /\ xpc' = "load"
  /\ UNCHANGED <<xml, producerVars, filterVars, slotVars, no_more_xml_work>>

XmlNext == LoadXml \/ TestNoMoreXmlWork \/ WriteXml \/ ReleaseXml
-----------------------------------------------------------------------------
\* writeTOL goes on after the iteration.
Terminated == ppc = "done" /\ UNCHANGED vars

Next == ProducerNext \/ FilterNext \/ XmlNext \/ Terminated

Spec == Init /\ [][Next]_vars

\* Preemptive OS threads that sleep and look again while they wait; the
\* iteration over finite lists of events ends.
FairSpec == Spec /\ WF_vars(ProducerNext) /\ WF_vars(FilterNext) /\ WF_vars(XmlNext)

-----------------------------------------------------------------------------
(* Correctness                                                             *)

\* The type of every variable; a vector is offered before it grows by more
\* than one record beyond BatchSize.
TypeOK ==
  /\ ppc \in {"iterate", "last", "stop", "join", "done"}
  /\ events \in 0..MaxEvents
  /\ publish_vec \in Seq(Record)
  /\ record_count \in 0..(BatchSize + 1)
  /\ given \in Seq(Seq(Record))
  /\ records_to_filter \in {Null} \cup {<<v>> : v \in {given[n] : n \in DOMAIN given}}
  /\ no_more_work \in BOOLEAN
  /\ fpc \in {"load", "test", "publish", "offer", "flush", "release", "stopXml", "joinXml", "exited"}
  /\ vec \in Seq(Record) /\ xmlvec \in Seq(Record) /\ tol \in Seq(Seq(Record))
  /\ data_for_xml_filtering = Null \/ data_for_xml_filtering[1] \in Seq(Record)
  /\ no_more_xml_work \in BOOLEAN
  /\ xpc \in {"load", "test", "write", "release", "exited"}
  /\ xvec \in Seq(Record) /\ xml \in Seq(Seq(Record))

\* "The filtering thread will delete publish_vec when done": as long as a
\* thread uses a vector, the pointer it shares still leads to it, so that the
\* NULL it stores in the end cannot make a newer vector disappear.
VectorsHaveOneOwner ==
  /\ fpc \in {"publish", "offer", "flush", "release"} => records_to_filter = <<vec>>
  /\ xpc \in {"write", "release"} => data_for_xml_filtering = <<xvec>>

L == INSTANCE Listing WITH held <- publish_vec, over <- (ppc = "done")

\* The pipeline implements Listing: no batch is lost, repeated or overtaken,
\* both files list the same, and what is filtered out can be read back.
ListsEverything == L!ListSpec

\* The output ends: every wait of the three threads is answered.
OutputEnds == <>(ppc = "done")
=============================================================================
