----------------------------- MODULE XmlReader ------------------------------
(***************************************************************************)
(* The XMLTOL reader of APGen.  The main thread runs the XML parser; at    *)
(* the end of each record it hands over to a thread that builds the plan,  *)
(* and waits until that thread asks for the next record (iterate).  The    *)
(* two take turns by means of two mutexes and two condition variables,     *)
(* which are signalled and waited for without a predicate: parserJob is    *)
(* the mutex parserDoingItsJob, recordJob is builderProcessingRecord.      *)
(* Wakeups that nobody caused, which POSIX allows, are not modelled.       *)
(***************************************************************************)
EXTENDS Naturals, Sequences

CONSTANTS
  MaxRecords,  \* bound on the records of a file
  MaxReads     \* bound on the files read

VARIABLES
  pcM,         \* where the main thread stands
  pcB,         \* where the plan building thread stands
  parserJob,   \* the thread that holds the mutex, or "nobody"
  recordJob,
  reachedTheEnd,
  errorFound,
  reads,       \* files read so far
  status,      \* how the last read ended, "reading" during a read
  handed,      \* records handed over to the builder
  built        \* records built

vars == << pcM, pcB, parserJob, recordJob, reachedTheEnd, errorFound, reads, status, handed, built >>

Init ==
  /\ pcM = "idle" /\ pcB = "none"
  /\ parserJob = "nobody" /\ recordJob = "nobody"
  /\ reachedTheEnd = FALSE /\ errorFound = FALSE
  /\ reads = 0 /\ status = "none" /\ handed = 0 /\ built = << >>

\* pthread_cond_signal: lost if the other thread is not waiting.
Woken(pc) == IF pc = "asleep" THEN "woken" ELSE pc

-----------------------------------------------------------------------------
(* Main thread: xml_reader::parse *)

StartRead ==
  /\ pcM = "idle" /\ reads < MaxReads
  /\ pcM' = "lockParser"
  /\ reads' = reads + 1
  /\ UNCHANGED << pcB, parserJob, recordJob, reachedTheEnd, errorFound, status, handed, built >>

LockParser ==
  /\ pcM = "lockParser" /\ parserJob = "nobody"
  /\ parserJob' = "main"
  /\ pcM' = "lockRecord"
  /\ UNCHANGED << pcB, recordJob, reachedTheEnd, errorFound, reads, status, handed, built >>

\* The thread is created, and a new SAX parser, which it will wait for.
SpawnBuilder ==
  /\ pcM = "lockRecord" /\ recordJob = "nobody"
  /\ recordJob' = "main"
  /\ pcM' = "release" /\ pcB' = "start"
  /\ reachedTheEnd' = FALSE /\ errorFound' = FALSE
  /\ status' = "reading" /\ handed' = 0 /\ built' = << >>
  /\ UNCHANGED << parserJob, reads >>

\* main_process_waits_for_thread_to_iterate, once the signal is out: one mutex
\* is unlocked, the other is released by waiting for builderWantsToIterate.
Release ==
  /\ pcM = "release"
  /\ recordJob' = "nobody"
  /\ pcM' = "wait"
  /\ UNCHANGED << pcB, parserJob, reachedTheEnd, errorFound, reads, status, handed, built >>

WaitForBuilder ==
  /\ pcM = "wait"
  /\ parserJob' = "nobody"
  /\ pcM' = "asleep"
  /\ UNCHANGED << pcB, recordJob, reachedTheEnd, errorFound, reads, status, handed, built >>

WakeMain ==
  /\ pcM = "woken" /\ parserJob = "nobody"
  /\ parserJob' = "main"
  /\ pcM' = "relock"
  /\ UNCHANGED << pcB, recordJob, reachedTheEnd, errorFound, reads, status, handed, built >>

\* Fault: the builder's mutex is not taken back.
ResumeWithoutLock ==
  /\ pcM = "relock"
  /\ pcM' = IF reachedTheEnd THEN "finish" ELSE "parsing"
  /\ UNCHANGED << pcB, parserJob, recordJob, reachedTheEnd, errorFound, reads, status, handed, built >>

Resume ==
  /\ pcM = "relock" /\ recordJob = "nobody"
  /\ recordJob' = "main"
  /\ pcM' = IF reachedTheEnd THEN "finish" ELSE "parsing"
  /\ UNCHANGED << pcB, parserJob, reachedTheEnd, errorFound, reads, status, handed, built >>

\* at_end_of_tol_record, unless the builder has failed in the meantime.
EndOfRecord ==
  /\ pcM = "parsing" /\ ~errorFound /\ handed < MaxRecords
  /\ handed' = handed + 1
  /\ pcB' = Woken(pcB)
  /\ pcM' = "release"
  /\ UNCHANGED << parserJob, recordJob, reachedTheEnd, errorFound, reads, status, built >>

\* The record after the builder's failure is the occasion for an exception; and
\* text that is not XML, or not a TOL, is at any time.
ParserError ==
  /\ pcM = "parsing"
  /\ errorFound' = TRUE
  /\ pcM' = "finish"
  /\ UNCHANGED << pcB, parserJob, recordJob, reachedTheEnd, reads, status, handed, built >>

\* Fault: the builder is not told that there are no more records.
EndOfDocumentUnsignalled ==
  /\ pcM = "parsing"
  /\ reachedTheEnd' = TRUE
  /\ pcM' = IF errorFound THEN "finish" ELSE "release"
  /\ UNCHANGED << pcB, parserJob, recordJob, errorFound, reads, status, handed, built >>

\* on_end_document
EndOfDocument ==
  /\ pcM = "parsing"
  /\ reachedTheEnd' = TRUE
  /\ pcB' = Woken(pcB)
  /\ pcM' = IF errorFound THEN "finish" ELSE "release"
  /\ UNCHANGED << parserJob, recordJob, errorFound, reads, status, handed, built >>

\* Fault: the errors of the builder are not looked at.
FinishReadBlindly ==
  /\ pcM = "finish"
  /\ pcM' = "idle"
  /\ status' = IF errorFound /\ ~reachedTheEnd THEN "bad" ELSE "good"
  /\ parserJob' = "nobody" /\ recordJob' = "nobody"
  /\ UNCHANGED << pcB, reachedTheEnd, errorFound, reads, handed, built >>

\* The end of parse: an exception leaves both mutexes locked.
FinishRead ==
  /\ pcM = "finish"
  /\ pcM' = "idle"
  /\ IF errorFound
     THEN status' = "bad" /\ UNCHANGED << parserJob, recordJob >>
     ELSE status' = "good" /\ parserJob' = "nobody" /\ recordJob' = "nobody"
  /\ UNCHANGED << pcB, reachedTheEnd, errorFound, reads, handed, built >>

Main == \/ StartRead \/ LockParser \/ SpawnBuilder \/ Release \/ WaitForBuilder \/ WakeMain
        \/ Resume \/ EndOfRecord \/ ParserError \/ EndOfDocument \/ FinishRead

-----------------------------------------------------------------------------
(* Plan building thread: plan_builder and xml_reader::iterate *)

LockRecord ==
  /\ pcB \in {"start", "woken"} /\ recordJob = "nobody"
  /\ recordJob' = "builder"
  /\ pcB' = IF pcB = "start" THEN "lockFirst" ELSE "lock"
  /\ UNCHANGED << pcM, parserJob, reachedTheEnd, errorFound, reads, status, handed, built >>

\* iterate returns: there is a record to build, or there is none left.
LockBuilderParser ==
  /\ pcB \in {"lockFirst", "lock"} /\ parserJob = "nobody"
  /\ parserJob' = "builder"
  /\ pcB' = IF pcB = "lockFirst" THEN "ready" ELSE IF reachedTheEnd THEN "closing" ELSE "build"
  /\ UNCHANGED << pcM, recordJob, reachedTheEnd, errorFound, reads, status, handed, built >>

Build ==
  /\ pcB = "build"
  /\ built' = Append(built, handed)
  /\ pcB' = "ready"
  /\ UNCHANGED << pcM, parserJob, recordJob, reachedTheEnd, errorFound, reads, status, handed >>

\* The next call of iterate: the main thread is told to go on, then waited for.
Iterate ==
  /\ pcB = "ready"
  /\ pcM' = Woken(pcM)
  /\ parserJob' = "nobody"
  /\ pcB' = "wait"
  /\ UNCHANGED << recordJob, reachedTheEnd, errorFound, reads, status, handed, built >>

WaitForParser ==
  /\ pcB = "wait"
  /\ recordJob' = "nobody"
  /\ pcB' = "asleep"
  /\ UNCHANGED << pcM, parserJob, reachedTheEnd, errorFound, reads, status, handed, built >>

\* An eval_error out of parse_act_plan, before or in a record or after the last.
BuilderError ==
  /\ pcB \in {"ready", "build", "closing"}
  /\ errorFound' = TRUE
  /\ pcB' = "leave"
  /\ UNCHANGED << pcM, parserJob, recordJob, reachedTheEnd, reads, status, handed, built >>

BuilderDone ==
  /\ pcB = "closing"
  /\ pcB' = "leave"
  /\ UNCHANGED << pcM, parserJob, recordJob, reachedTheEnd, errorFound, reads, status, handed, built >>

\* The last signal: both mutexes are unlocked and the thread ends.
Leave ==
  /\ pcB = "leave"
  /\ pcM' = Woken(pcM)
  /\ parserJob' = "nobody" /\ recordJob' = "nobody"
  /\ pcB' = "end"
  /\ UNCHANGED << reachedTheEnd, errorFound, reads, status, handed, built >>

Builder == \/ LockRecord \/ LockBuilderParser \/ Build \/ Iterate \/ WaitForParser
           \/ BuilderError \/ BuilderDone \/ Leave

-----------------------------------------------------------------------------

\* No more files to read; a read after a failed one, which waits for a mutex that
\* its own thread holds; or threads that wait for each other's signal.
AtRest ==
  /\ \/ pcM = "idle" /\ reads = MaxReads /\ pcB \in {"none", "end", "asleep"}
     \/ pcM = "lockParser" /\ parserJob = "main"
     \/ pcM = "asleep" /\ pcB \in {"end", "asleep"}
  /\ UNCHANGED vars

Next == Main \/ Builder \/ AtRest

\* Each of the threads is scheduled as long as it can run.
Spec == Init /\ [][Next]_vars /\ WF_vars(Main) /\ WF_vars(Builder)

-----------------------------------------------------------------------------
(* Properties *)

\* Types of the state of the two threads.
TypeOK ==
  /\ pcM \in {"idle", "lockParser", "lockRecord", "release", "wait", "asleep", "woken", "relock",
              "parsing", "finish"}
  /\ pcB \in {"none", "start", "lockFirst", "ready", "wait", "asleep", "woken", "lock", "build",
              "closing", "leave", "end"}
  /\ parserJob \in {"nobody", "main", "builder"} /\ recordJob \in {"nobody", "main", "builder"}
  /\ reachedTheEnd \in BOOLEAN /\ errorFound \in BOOLEAN
  /\ reads \in Nat /\ handed \in Nat /\ built \in Seq(Nat)
  /\ status \in {"none", "reading", "good", "bad"}

\* "Parsing is done by two parallel threads which are synchronized so that only
\* one is active at any time": while the parser works on a record the builder
\* is at rest, so that neither sees the data of the other half done.
OneAtATime ==
  pcM \in {"parsing", "finish"} => pcB \in {"asleep", "end"}

\* Every record is handed over once and built before the next one is parsed, and
\* a read is good only if all records were built and neither thread failed.
Abstract == INSTANCE RecordReader WITH parsed <- handed, failed <- errorFound
ImplementsRecordReader == Abstract!Spec

\* A read that has obtained its two mutexes ends: neither thread waits for a
\* signal that has been given before it waited, or for a mutex of the other.
ReadEnds == pcM = "release" ~> pcM = "idle"
=============================================================================
