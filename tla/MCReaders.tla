------------------------------ MODULE MCReaders ------------------------------
(***************************************************************************)
(* The two programs that read what the modeler has written: tolcomp, with  *)
(* small pairs of files (TolCompare), and the XMLTOL reader of APGen       *)
(* (XmlReader).  They share nothing; a behaviour is one of either.         *)
(***************************************************************************)
EXTENDS TolCompare

CONSTANTS MaxRecords, MaxReads

VARIABLES
  program,  \* "tolcomp" or "apgen"
  pcM, pcB, parserJob, recordJob, reachedTheEnd, errorFound, reads, status, handed, built

Xml == INSTANCE XmlReader
xmlVars == << pcM, pcB, parserJob, recordJob, reachedTheEnd, errorFound, reads, status, handed,
              built >>
allVars == << program, vars, xmlVars >>

V(t, r, v) == [time |-> t, kind |-> "value", res |-> r, val |-> v]
Other(t, k) == [time |-> t, kind |-> k, res |-> 1, val |-> "a"]
Compare(file0, file1, what) ==
  [files |-> [k \in Files |-> IF k = 0 THEN file0 ELSE file1], scope |-> what]
Header == << V(1, 1, "a"), V(1, 2, "a") >>

MCCommands == {
  \* two resources that differ, one of them at a time that only one file has
  Compare(Header \o << V(2, 1, "b"), V(3, 1, "a") >>,
          << V(1, 1, "a"), V(1, 2, "b"), V(3, 1, "b") >>, "all"),
  \* a vector whose time is later than the last node of a history
  Compare(Header \o << Other(2, "activity"), V(3, 1, "b") >>,
          << V(1, 1, "a"), V(1, 2, "b"), V(3, 1, "a") >>, "all"),
  \* an error late in a file, and histories of different length
  Compare(Header \o << V(2, 1, "b"), V(3, 1, "a"), Other(3, "garbled") >>,
          << V(1, 1, "a"), V(2, 2, "b") >>, "all"),
  \* a failed extraction
  Compare(<< Other(1, "undefined") >> \o Header, Header, "all"),
  \* a file that is not there
  Compare(<< >>, Header, "all"),
  \* files that cannot be compared, one with more batches to come
  Compare(Header \o << V(2, 1, "a"), V(2, 1, "b"), V(3, 1, "a"), V(3, 1, "b") >>,
          << V(2, 1, "a"), V(3, 2, "b") >>, "all"),
  \* a time limit
  Compare(<< V(1, 1, "a"), V(2, 2, "a"), V(2, 1, "b") >>, << V(1, 1, "a") >>, "time") }

MCInit ==
  /\ Init /\ Xml!Init
  /\ program \in {"tolcomp", "apgen"}
  /\ program = "apgen" => content[0] = << >>

MCNext ==
  \/ program = "tolcomp" /\ Next /\ UNCHANGED << program, xmlVars >>
  \/ program = "apgen" /\ Xml!Next /\ UNCHANGED << program, vars >>

\* The threads of the program that runs are scheduled.
Run(name, action) == program = name /\ action
MCFairness ==
  /\ \A k \in Files : /\ WF_vars(Run("tolcomp", ~Abort /\ Parser(k)))
                      /\ WF_vars(Run("tolcomp", ~Abort /\ Extractor(k)))
  /\ WF_vars(Run("tolcomp", ~Abort /\ Comparator))
  /\ WF_vars(Run("tolcomp", ~Abort /\ TimeUp))
  /\ WF_xmlVars(Run("apgen", Xml!Main))
  /\ WF_xmlVars(Run("apgen", Xml!Builder))

MCSpec == MCInit /\ [][MCNext]_allVars /\ MCFairness

\* The comment of xml_reader::parse: the two threads of the reader take turns.
XmlOneAtATime == Xml!OneAtATime
\* The reader hands every record over once, and tells good reads from bad ones.
XmlImplementsRecordReader == Xml!ImplementsRecordReader
\* A read that has begun ends, whichever thread fails.
XmlReadEnds == Xml!ReadEnds

\* The threads of tolcomp end: TolCompare's property, when tolcomp runs.
TolThreadsEnd == program = "tolcomp" => AllThreadsEnd
=============================================================================
