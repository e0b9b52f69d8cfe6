-------------------------- MODULE XmlReader_proofs --------------------------
(***************************************************************************)
(* Proofs about XmlReader: the two threads of the XMLTOL reader take turns *)
(* and hand every record over once, for files of any length and any number *)
(* of reads.  The invariant says which of the two threads holds which      *)
(* mutex at each place, which pairs of places go together, and what that   *)
(* means for the records.  The reader is the instance Xml of MCReaders,    *)
(* where it stands next to tolcomp: the theorems are proved of the reader  *)
(* by itself and carry over to the two programs.                           *)
(***************************************************************************)
EXTENDS MCReaders, TLAPS

\* The main thread is in the middle of a read.
InRead == {"release", "wait", "asleep", "woken", "relock", "parsing", "finish"}

\* Which thread holds which mutex; a failed read leaves both with the main thread.
Locks ==
  /\ pcM \in {"lockRecord", "release", "wait", "relock", "parsing", "finish"} => parserJob = "main"
  /\ pcM \in {"release", "parsing", "finish"} => recordJob = "main"
  /\ pcB \in {"ready", "build", "closing", "leave"} => parserJob = "builder"
  /\ pcB \in {"lockFirst", "lock", "ready", "build", "closing", "leave", "wait"}
       => recordJob = "builder"
  /\ pcB = "asleep" /\ pcM \in {"idle", "lockParser"} => parserJob = "main"

\* Where the main thread may be when the builder is at a given place.
Turns ==
  /\ pcB = "none" => pcM \in {"idle", "lockParser", "lockRecord"}
  /\ pcB \in {"start", "lockFirst", "woken", "lock"} => pcM \in {"release", "wait", "asleep"}
  /\ pcB \in {"ready", "build", "closing", "leave"} => pcM = "asleep"
  /\ pcB = "wait" => pcM \in {"woken", "relock"}
  /\ pcB = "asleep" => pcM \in {"woken", "relock", "parsing", "finish", "idle", "lockParser"}
  /\ pcB = "end" => pcM \notin {"release", "wait", "asleep"}
  /\ pcM = "finish" => errorFound \/ pcB = "end"

\* The flags of a read: who may have set them.
Flags ==
  pcM \in InRead =>
    /\ errorFound => pcB \in {"leave", "end"} \/ pcM = "finish"
    /\ reachedTheEnd => \/ pcB \in {"woken", "lock", "closing", "leave", "end"}
                        \/ pcM = "finish"
    /\ pcB \in {"leave", "end"} => errorFound \/ reachedTheEnd
    /\ pcB \in {"closing"} => reachedTheEnd
    /\ pcB = "end" /\ pcM = "parsing" => errorFound

\* A record has been handed over and not yet been built.
Pending == pcB = "build" \/ (pcB \in {"woken", "lock"} /\ ~reachedTheEnd)

Records ==
  /\ status = "reading" <=> pcM \in InRead
  /\ pcM \in InRead /\ ~errorFound =>
       handed = IF Pending THEN Len(built) + 1 ELSE Len(built)

IInv == Xml!TypeOK /\ Locks /\ Turns /\ Flags /\ Records

-----------------------------------------------------------------------------
(* The invariant *)

\* Nothing has been built.
LEMMA EmptyPlan == << >> \in Seq(Nat) /\ Len(<< >>) = 0
OBVIOUS

LEMMA InitIInv == Xml!Init => IInv
<1> SUFFICES ASSUME Xml!Init PROVE IInv
  OBVIOUS
<1>1. Xml!TypeOK
  BY EmptyPlan DEF Xml!Init, Xml!TypeOK
<1>2. Locks /\ Turns
  BY DEF Xml!Init, Locks, Turns
<1>3. Flags /\ Records
  BY DEF Xml!Init, Flags, Records, InRead
<1> QED
  BY <1>1, <1>2, <1>3 DEF IInv

\* Types: the records that are built are numbers.
LEMMA NextTypeOK == Xml!TypeOK /\ [Xml!Next]_(Xml!vars) => Xml!TypeOK'
<1> SUFFICES ASSUME Xml!TypeOK, [Xml!Next]_(Xml!vars) PROVE Xml!TypeOK'
  OBVIOUS
<1> USE DEF Xml!TypeOK
<1>1. CASE Xml!StartRead
  BY <1>1 DEF Xml!StartRead
<1>2. CASE Xml!LockParser
  BY <1>2 DEF Xml!LockParser
<1>3. CASE Xml!SpawnBuilder
  BY <1>3, EmptyPlan DEF Xml!SpawnBuilder
<1>4. CASE Xml!Release
  BY <1>4 DEF Xml!Release
<1>5. CASE Xml!WaitForBuilder
  BY <1>5 DEF Xml!WaitForBuilder
<1>6. CASE Xml!WakeMain
  BY <1>6 DEF Xml!WakeMain
<1>7. CASE Xml!Resume
  BY <1>7 DEF Xml!Resume
<1>8. CASE Xml!EndOfRecord
  BY <1>8 DEF Xml!EndOfRecord, Xml!Woken
<1>9. CASE Xml!ParserError
  BY <1>9 DEF Xml!ParserError
<1>10. CASE Xml!EndOfDocument
  BY <1>10 DEF Xml!EndOfDocument, Xml!Woken
<1>11. CASE Xml!FinishRead
  BY <1>11 DEF Xml!FinishRead
<1>12. CASE Xml!LockRecord
  BY <1>12 DEF Xml!LockRecord
<1>13. CASE Xml!LockBuilderParser
  BY <1>13 DEF Xml!LockBuilderParser
<1>14. CASE Xml!Build
  BY <1>14 DEF Xml!Build
<1>15. CASE Xml!Iterate
  BY <1>15 DEF Xml!Iterate, Xml!Woken
<1>16. CASE Xml!WaitForParser
  BY <1>16 DEF Xml!WaitForParser
<1>17. CASE Xml!BuilderError
  BY <1>17 DEF Xml!BuilderError
<1>18. CASE Xml!BuilderDone
  BY <1>18 DEF Xml!BuilderDone
<1>19. CASE Xml!Leave
  BY <1>19 DEF Xml!Leave, Xml!Woken
<1>20. CASE UNCHANGED Xml!vars
  BY <1>20 DEF Xml!vars
<1> QED
  BY <1>1, <1>2, <1>3, <1>4, <1>5, <1>6, <1>7, <1>8, <1>9, <1>10, <1>11, <1>12, <1>13, <1>14,
     <1>15, <1>16, <1>17, <1>18, <1>19, <1>20 DEF Xml!Next, Xml!Main, Xml!Builder, Xml!AtRest

\* Each mutex is held where the code relies on it.
LEMMA NextLocks == IInv /\ [Xml!Next]_(Xml!vars) => Locks'
<1> SUFFICES ASSUME IInv, [Xml!Next]_(Xml!vars) PROVE Locks'
  OBVIOUS
<1> USE DEF IInv, Xml!TypeOK, Locks, Turns
<1>1. CASE Xml!StartRead
  BY <1>1 DEF Xml!StartRead
<1>2. CASE Xml!LockParser
  BY <1>2 DEF Xml!LockParser
<1>3. CASE Xml!SpawnBuilder
  BY <1>3, EmptyPlan DEF Xml!SpawnBuilder
<1>4. CASE Xml!Release
  BY <1>4 DEF Xml!Release
<1>5. CASE Xml!WaitForBuilder
  BY <1>5 DEF Xml!WaitForBuilder
<1>6. CASE Xml!WakeMain
  BY <1>6 DEF Xml!WakeMain
<1>7. CASE Xml!Resume
  BY <1>7 DEF Xml!Resume
<1>8. CASE Xml!EndOfRecord
  BY <1>8 DEF Xml!EndOfRecord, Xml!Woken
<1>9. CASE Xml!ParserError
  BY <1>9 DEF Xml!ParserError
<1>10. CASE Xml!EndOfDocument
  BY <1>10 DEF Xml!EndOfDocument, Xml!Woken
<1>11. CASE Xml!FinishRead
  BY <1>11 DEF Xml!FinishRead
<1>12. CASE Xml!LockRecord
  BY <1>12 DEF Xml!LockRecord
<1>13. CASE Xml!LockBuilderParser
  BY <1>13 DEF Xml!LockBuilderParser
<1>14. CASE Xml!Build
  BY <1>14 DEF Xml!Build
<1>15. CASE Xml!Iterate
  BY <1>15 DEF Xml!Iterate, Xml!Woken
<1>16. CASE Xml!WaitForParser
  BY <1>16 DEF Xml!WaitForParser
<1>17. CASE Xml!BuilderError
  BY <1>17 DEF Xml!BuilderError
<1>18. CASE Xml!BuilderDone
  BY <1>18 DEF Xml!BuilderDone
<1>19. CASE Xml!Leave
  BY <1>19 DEF Xml!Leave, Xml!Woken
<1>20. CASE UNCHANGED Xml!vars
  BY <1>20 DEF Xml!vars
<1> QED
  BY <1>1, <1>2, <1>3, <1>4, <1>5, <1>6, <1>7, <1>8, <1>9, <1>10, <1>11, <1>12, <1>13, <1>14,
     <1>15, <1>16, <1>17, <1>18, <1>19, <1>20 DEF Xml!Next, Xml!Main, Xml!Builder, Xml!AtRest

\* A thread that is told to go on is the only one that goes on.
LEMMA NextTurns == IInv /\ [Xml!Next]_(Xml!vars) => Turns'
<1> SUFFICES ASSUME IInv, [Xml!Next]_(Xml!vars) PROVE Turns'
  OBVIOUS
<1> USE DEF IInv, Xml!TypeOK, Locks, Turns, Flags, InRead
<1>1. CASE Xml!StartRead
  BY <1>1 DEF Xml!StartRead
<1>2. CASE Xml!LockParser
  BY <1>2 DEF Xml!LockParser
<1>3. CASE Xml!SpawnBuilder
  BY <1>3, EmptyPlan DEF Xml!SpawnBuilder
<1>4. CASE Xml!Release
  BY <1>4 DEF Xml!Release
<1>5. CASE Xml!WaitForBuilder
  BY <1>5 DEF Xml!WaitForBuilder
<1>6. CASE Xml!WakeMain
  BY <1>6 DEF Xml!WakeMain
<1>7. CASE Xml!Resume
  BY <1>7 DEF Xml!Resume
<1>8. CASE Xml!EndOfRecord
  BY <1>8 DEF Xml!EndOfRecord, Xml!Woken
<1>9. CASE Xml!ParserError
  BY <1>9 DEF Xml!ParserError
<1>10. CASE Xml!EndOfDocument
  BY <1>10 DEF Xml!EndOfDocument, Xml!Woken
<1>11. CASE Xml!FinishRead
  BY <1>11 DEF Xml!FinishRead
<1>12. CASE Xml!LockRecord
  BY <1>12 DEF Xml!LockRecord
<1>13. CASE Xml!LockBuilderParser
  BY <1>13 DEF Xml!LockBuilderParser
<1>14. CASE Xml!Build
  BY <1>14 DEF Xml!Build
<1>15. CASE Xml!Iterate
  BY <1>15 DEF Xml!Iterate, Xml!Woken
<1>16. CASE Xml!WaitForParser
  BY <1>16 DEF Xml!WaitForParser
<1>17. CASE Xml!BuilderError
  BY <1>17 DEF Xml!BuilderError
<1>18. CASE Xml!BuilderDone
  BY <1>18 DEF Xml!BuilderDone
<1>19. CASE Xml!Leave
  BY <1>19 DEF Xml!Leave, Xml!Woken
<1>20. CASE UNCHANGED Xml!vars
  BY <1>20 DEF Xml!vars
<1> QED
  BY <1>1, <1>2, <1>3, <1>4, <1>5, <1>6, <1>7, <1>8, <1>9, <1>10, <1>11, <1>12, <1>13, <1>14,
     <1>15, <1>16, <1>17, <1>18, <1>19, <1>20 DEF Xml!Next, Xml!Main, Xml!Builder, Xml!AtRest

\* A flag that is set during a read is noticed.
LEMMA NextFlags == IInv /\ [Xml!Next]_(Xml!vars) => Flags'
<1> SUFFICES ASSUME IInv, [Xml!Next]_(Xml!vars) PROVE Flags'
  OBVIOUS
<1> USE DEF IInv, Xml!TypeOK, Locks, Turns, Flags, InRead
<1>1. CASE Xml!StartRead
  BY <1>1 DEF Xml!StartRead
<1>2. CASE Xml!LockParser
  BY <1>2 DEF Xml!LockParser
<1>3. CASE Xml!SpawnBuilder
  BY <1>3, EmptyPlan DEF Xml!SpawnBuilder
<1>4. CASE Xml!Release
  BY <1>4 DEF Xml!Release
<1>5. CASE Xml!WaitForBuilder
  BY <1>5 DEF Xml!WaitForBuilder
<1>6. CASE Xml!WakeMain
  BY <1>6 DEF Xml!WakeMain
<1>7. CASE Xml!Resume
  BY <1>7 DEF Xml!Resume
<1>8. CASE Xml!EndOfRecord
  BY <1>8 DEF Xml!EndOfRecord, Xml!Woken
<1>9. CASE Xml!ParserError
  BY <1>9 DEF Xml!ParserError
<1>10. CASE Xml!EndOfDocument
  BY <1>10 DEF Xml!EndOfDocument, Xml!Woken
<1>11. CASE Xml!FinishRead
  BY <1>11 DEF Xml!FinishRead
<1>12. CASE Xml!LockRecord
  BY <1>12 DEF Xml!LockRecord
<1>13. CASE Xml!LockBuilderParser
  BY <1>13 DEF Xml!LockBuilderParser
<1>14. CASE Xml!Build
  BY <1>14 DEF Xml!Build
<1>15. CASE Xml!Iterate
  BY <1>15 DEF Xml!Iterate, Xml!Woken
<1>16. CASE Xml!WaitForParser
  BY <1>16 DEF Xml!WaitForParser
<1>17. CASE Xml!BuilderError
  BY <1>17 DEF Xml!BuilderError
<1>18. CASE Xml!BuilderDone
  BY <1>18 DEF Xml!BuilderDone
<1>19. CASE Xml!Leave
  BY <1>19 DEF Xml!Leave, Xml!Woken
<1>20. CASE UNCHANGED Xml!vars
  BY <1>20 DEF Xml!vars
<1> QED
  BY <1>1, <1>2, <1>3, <1>4, <1>5, <1>6, <1>7, <1>8, <1>9, <1>10, <1>11, <1>12, <1>13, <1>14,
     <1>15, <1>16, <1>17, <1>18, <1>19, <1>20 DEF Xml!Next, Xml!Main, Xml!Builder, Xml!AtRest

\* A record is built before the next one is handed over.
LEMMA NextRecords == IInv /\ [Xml!Next]_(Xml!vars) => Records'
<1> SUFFICES ASSUME IInv, [Xml!Next]_(Xml!vars) PROVE Records'
  OBVIOUS
<1> USE DEF IInv, Xml!TypeOK, Locks, Turns, Flags, Records, InRead, Pending
<1>1. CASE Xml!StartRead
  BY <1>1 DEF Xml!StartRead
<1>2. CASE Xml!LockParser
  BY <1>2 DEF Xml!LockParser
<1>3. CASE Xml!SpawnBuilder
  BY <1>3, EmptyPlan DEF Xml!SpawnBuilder
<1>4. CASE Xml!Release
  BY <1>4 DEF Xml!Release
<1>5. CASE Xml!WaitForBuilder
  BY <1>5 DEF Xml!WaitForBuilder
<1>6. CASE Xml!WakeMain
  BY <1>6 DEF Xml!WakeMain
<1>7. CASE Xml!Resume
  BY <1>7 DEF Xml!Resume
<1>8. CASE Xml!EndOfRecord
  BY <1>8 DEF Xml!EndOfRecord, Xml!Woken
<1>9. CASE Xml!ParserError
  BY <1>9 DEF Xml!ParserError
<1>10. CASE Xml!EndOfDocument
  BY <1>10 DEF Xml!EndOfDocument, Xml!Woken
<1>11. CASE Xml!FinishRead
  BY <1>11 DEF Xml!FinishRead
<1>12. CASE Xml!LockRecord
  BY <1>12 DEF Xml!LockRecord
<1>13. CASE Xml!LockBuilderParser
  BY <1>13 DEF Xml!LockBuilderParser
<1>14. CASE Xml!Build
  BY <1>14 DEF Xml!Build
<1>15. CASE Xml!Iterate
  BY <1>15 DEF Xml!Iterate, Xml!Woken
<1>16. CASE Xml!WaitForParser
  BY <1>16 DEF Xml!WaitForParser
<1>17. CASE Xml!BuilderError
  BY <1>17 DEF Xml!BuilderError
<1>18. CASE Xml!BuilderDone
  BY <1>18 DEF Xml!BuilderDone
<1>19. CASE Xml!Leave
  BY <1>19 DEF Xml!Leave, Xml!Woken
<1>20. CASE UNCHANGED Xml!vars
  BY <1>20 DEF Xml!vars
<1> QED
  BY <1>1, <1>2, <1>3, <1>4, <1>5, <1>6, <1>7, <1>8, <1>9, <1>10, <1>11, <1>12, <1>13, <1>14,
     <1>15, <1>16, <1>17, <1>18, <1>19, <1>20 DEF Xml!Next, Xml!Main, Xml!Builder, Xml!AtRest

LEMMA NextIInv == IInv /\ [Xml!Next]_(Xml!vars) => IInv'
BY NextTypeOK, NextLocks, NextTurns, NextFlags, NextRecords DEF IInv

\* The types of the two threads' state are right, for any number of records.
THEOREM TypesAreRight == Xml!Spec => []Xml!TypeOK
BY InitIInv, NextIInv, PTL DEF Xml!Spec, IInv

\* The two threads of the reader take turns: while the main thread parses, the
\* builder is at rest.
THEOREM ThreadsTakeTurns == Xml!Spec => []Xml!OneAtATime
<1>1. IInv => Xml!OneAtATime
  BY DEF IInv, Xml!TypeOK, Turns, Xml!OneAtATime
<1> QED
  BY <1>1, InitIInv, NextIInv, PTL DEF Xml!Spec

-----------------------------------------------------------------------------
(* XmlReader implements RecordReader *)

LEMMA InitMapsToInit == Xml!Init => Xml!Abstract!Init
BY DEF Xml!Init, Xml!Abstract!Init

\* Every step of the two threads is a step of the abstract reader, or none.
LEMMA NextMapsToNext ==
  IInv /\ [Xml!Next]_(Xml!vars) => [Xml!Abstract!Next]_(Xml!Abstract!readerVars)
<1> SUFFICES ASSUME IInv, [Xml!Next]_(Xml!vars)
             PROVE  Xml!Abstract!Next \/ UNCHANGED Xml!Abstract!readerVars
  OBVIOUS
<1> USE DEF IInv, Records, InRead, Xml!Abstract!readerVars
<1>1. CASE Xml!SpawnBuilder
  BY <1>1 DEF Xml!SpawnBuilder, Xml!Abstract!Next, Xml!Abstract!Start
<1>2. CASE Xml!EndOfRecord
  BY <1>2 DEF Xml!EndOfRecord, Pending, Turns, Xml!TypeOK, Xml!Abstract!Next, Xml!Abstract!Parse
<1>3. CASE Xml!Build
  BY <1>3 DEF Xml!Build, Pending, Turns, Flags, Xml!TypeOK, Xml!Abstract!Next, Xml!Abstract!TakeOver
<1>4. CASE Xml!ParserError \/ Xml!BuilderError
  BY <1>4 DEF Xml!ParserError, Xml!BuilderError, Turns, Xml!Abstract!Next, Xml!Abstract!Fail
<1>5. CASE Xml!FinishRead
  BY <1>5 DEF Xml!FinishRead, Pending, Turns, Xml!TypeOK, Xml!Abstract!Next, Xml!Abstract!End
<1>6. CASE \/ Xml!StartRead \/ Xml!LockParser \/ Xml!Release \/ Xml!WaitForBuilder \/ Xml!WakeMain
           \/ Xml!Resume \/ Xml!EndOfDocument
  BY <1>6 DEF Xml!StartRead, Xml!LockParser, Xml!Release, Xml!WaitForBuilder, Xml!WakeMain,
         Xml!Resume, Xml!EndOfDocument
<1>7. CASE \/ Xml!LockRecord \/ Xml!LockBuilderParser \/ Xml!Iterate \/ Xml!WaitForParser
           \/ Xml!BuilderDone \/ Xml!Leave
  BY <1>7 DEF Xml!LockRecord, Xml!LockBuilderParser, Xml!Iterate, Xml!WaitForParser,
         Xml!BuilderDone, Xml!Leave
<1>8. CASE UNCHANGED Xml!vars
  BY <1>8 DEF Xml!vars
<1> QED
  BY <1>1, <1>2, <1>3, <1>4, <1>5, <1>6, <1>7, <1>8 DEF Xml!Next, Xml!Main, Xml!Builder, Xml!AtRest

\* Every record is handed over once and built before the next one is parsed, and
\* a read is good only if neither thread failed and every record was built.
THEOREM ReaderImplementsRecordReader == Xml!Spec => Xml!ImplementsRecordReader
BY InitMapsToInit, NextMapsToNext, InitIInv, NextIInv, PTL
   DEF Xml!Spec, Xml!ImplementsRecordReader, Xml!Abstract!Spec
-----------------------------------------------------------------------------
(* The reader next to tolcomp: no step of tolcomp is one of the reader's *)

LEMMA ReaderStep == [MCNext]_allVars => [Xml!Next]_(Xml!vars)
<1> SUFFICES ASSUME [MCNext]_allVars PROVE Xml!Next \/ UNCHANGED Xml!vars
  OBVIOUS
<1> QED
  BY DEF MCNext, allVars, xmlVars, Xml!vars

LEMMA ReaderBehaviour == MCSpec => Xml!Init /\ [][Xml!Next]_(Xml!vars)
<1>1. MCInit => Xml!Init
  BY DEF MCInit
<1> QED
  BY <1>1, ReaderStep, PTL DEF MCSpec

\* The two threads of the XMLTOL reader take turns, whichever program runs.
THEOREM XmlThreadsTakeTurns == MCSpec => []XmlOneAtATime
<1>1. IInv => XmlOneAtATime
  BY DEF IInv, Xml!TypeOK, Turns, XmlOneAtATime, Xml!OneAtATime
<1> QED
  BY <1>1, InitIInv, NextIInv, ReaderBehaviour, PTL

\* The XMLTOL reader hands every record over once and built before the next one,
\* and tells good reads from bad ones.
THEOREM XmlReaderImplementsRecordReader == MCSpec => XmlImplementsRecordReader
BY InitMapsToInit, NextMapsToNext, InitIInv, NextIInv, ReaderBehaviour, PTL
   DEF XmlImplementsRecordReader, Xml!ImplementsRecordReader, Xml!Abstract!Spec
=============================================================================
