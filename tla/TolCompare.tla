----------------------------- MODULE TolCompare -----------------------------
(***************************************************************************)
(* tolcomp: the program that compares two time-ordered listings (TOLs).    *)
(* For each file a parsing thread turns text into a list of records and an *)
(* extraction thread, which trails it, turns records into histories of     *)
(* resource values.  One comparator thread trails both extraction threads  *)
(* and lists the times at which the two files disagree; a timer may cut    *)
(* the parsing short.  The threads share nothing but atomics: two pointers *)
(* into the list of records, a slot for a "safe vector" of history nodes,  *)
(* and flags.  A record's text is abstracted to its time, its kind, and    *)
(* the resource and the value it carries.                                  *)
(***************************************************************************)
EXTENDS Naturals, Sequences, FiniteSets, Selections

CONSTANTS
  Commands,   \* the pairs of files the program may be given, and the scope:
              \* "all" of the files, or as much as a "time" limit allows
  Values,     \* values of resources
  NRes,       \* number of resources, numbered in alphabetic order
  BatchSize   \* records per batch; 1000 in the code

Files == {0, 1}
Resources == 1 .. NRes

\* "undefined": a record of a resource that no metadata record has defined;
\* "garbled": text that is no record.
Kinds == {"value", "activity", "undefined", "garbled"}
Record == [time : Nat \ {0}, kind : Kinds, res : Resources, val : Values]

ASSUME BatchAssumption == BatchSize \in Nat /\ BatchSize > 1
ASSUME ResAssumption == NRes \in Nat \ {0}
\* A file without records stands for one that cannot be opened.
ASSUME CommandAssumption ==
  Commands \subseteq [files : [Files -> Seq(Record)], scope : {"all", "time"}]

NoVector == [time |-> 0, last |-> << >>]

VARIABLES
  content,    \* the two files
  scope,      \* the scope of the command
  errors,     \* errors_found
  complaints, \* the threads that have written to their threadErrors
  pcT         \* timer: "off", "set", "half" or "end"
VARIABLES     \* of the parsing threads
  pcP,        \* where the thread stands
  read,       \* records parsed so far
  listed,     \* records in theRecords; the others are still in "expressions"
  freed,      \* nodes of theRecords deleted so far, from the front
  last,       \* LastParsedRecord, 0 for NULL
  first,      \* FirstRecordToProcess, 0 for NULL
  parsed,     \* file_parsing_complete
  terminate   \* terminate_parsing
VARIABLES     \* of the extraction threads
  pcX,
  end,        \* last_parsed_record, its copy of last
  stamp,      \* time_stamp, the time of the record processed last
  processed,  \* the records processed, in order: they make up the histories
  slot,       \* safe_vector
  extracted   \* file_extraction_complete
VARIABLES     \* of the comparator
  pcC,
  seen,       \* last_safe_vector
  closing,    \* break_from_outer_loop
  fresh,      \* first_time_through
  complete,   \* processing_has_completed
  scan,       \* the resource whose histories are being compared
  cursor,     \* current_data_vector, as indices into the histories
  diffs       \* Results->diffs: the <<resource, time>> with a difference

comVars == << content, scope >>
parVars == << pcP, read, listed, freed, parsed >>
extVars == << pcX, end, stamp, processed >>
cmpVars == << pcC, seen, closing, fresh, complete, scan, cursor, diffs >>
sharedVars == << errors, complaints, last, first, terminate, slot, extracted, pcT >>
vars == << comVars, parVars, extVars, cmpVars, sharedVars >>

-----------------------------------------------------------------------------
(* Histories *)

\* The history of resource r: the records of file k that set it, in order.
Matches(k, r, i) == content[k][i].kind = "value" /\ content[k][i].res = r
HistoryIn(s, k, r) == Selection(s, {n \in DOMAIN s : Matches(k, r, s[n])})
History(k, r) == HistoryIn(processed[k], k, r)

\* first_time_tag: the lexer stores the time of the first record of the file.
FirstTime(k) == IF content[k] = << >> THEN 0 ELSE content[k][1].time

\* create_safe_vector: the last node of every history.
SafeVector(k) == [time |-> stamp[k], last |-> [r \in Resources |-> Len(History(k, r))]]

Abort == pcC \in {"aborted", "crashed"}

-----------------------------------------------------------------------------
(* The parsing thread of file k: tol::parse and the actions of its grammar *)

Goto(pc, k, label) == pc' = [pc EXCEPT ![k] = label]

\* The file cannot be opened: the parsing is marked complete at once, ...
CannotOpen(k) ==
  /\ pcP[k] = "open" /\ content[k] = << >>
  /\ Goto(pcP, k, "missing")
  /\ parsed' = [parsed EXCEPT ![k] = TRUE]
  /\ UNCHANGED << comVars, read, listed, freed, extVars, cmpVars, sharedVars >>

\* ... and the error is reported after that.
ReportMissing(k) ==
  /\ pcP[k] = "missing"
  /\ Goto(pcP, k, "end")
  /\ complaints' = complaints \cup {<< "parse", k >>}
  /\ errors' = TRUE
  /\ UNCHANGED << comVars, read, listed, freed, parsed, extVars, cmpVars, last, first,
                  terminate, slot, extracted, pcT >>

\* transfer_records_so_far: all the records parsed so far, n of them, move to
\* the list; the first time, the extraction thread is told where the list starts.
Transfer(k, n) ==
  /\ listed' = [listed EXCEPT ![k] = n]
  /\ first' = [first EXCEPT ![k] = IF last[k] = 0 THEN 1 ELSE first[k]]
  /\ last' = [last EXCEPT ![k] = n]

\* Size of "expressions" once record n is in it, and the size that makes a batch.
\* The very first record of the file is not in it: the call for the second one
\* puts it in the list, and takes it for one of the batch in that call only.
Buffered(k, n) == n - (IF listed[k] = 0 THEN 1 ELSE listed[k])
Limit(n) == IF n = 2 THEN BatchSize - 1 ELSE BatchSize

Reading(k) == pcP[k] \in {"open", "reading"} /\ content[k] # << >>

\* At the start of every record but the first the scanner looks at the flags.
ToldToStop(k) == read[k] > 0 /\ (terminate[k] \/ errors)

AtEnd(k) == read[k] = Len(content[k]) \/ ToldToStop(k)

\* One more record is parsed (addExp), and transferred if the batch is full.  A
\* first node that is in the list before LastParsedRecord is set is not counted
\* in listed: no other thread can reach it.
ParseRecord(k) ==
  LET n == read[k] + 1 IN
  /\ Reading(k) /\ ~AtEnd(k)
  /\ content[k][n].kind # "garbled"
  /\ read' = [read EXCEPT ![k] = n]
  /\ IF n > 1 /\ Buffered(k, n) % Limit(n) = 0
     THEN Goto(pcP, k, "free") /\ Transfer(k, n)
     ELSE Goto(pcP, k, "reading") /\ UNCHANGED << listed, first, last >>
  /\ UNCHANGED << comVars, freed, parsed, extVars, cmpVars, errors, complaints, terminate,
                  slot, extracted, pcT >>

\* yyerror: the parser gives up; what it has not transferred is lost.
SyntaxError(k) ==
  /\ Reading(k) /\ ~AtEnd(k)
  /\ content[k][read[k] + 1].kind = "garbled"
  /\ Goto(pcP, k, "close")
  /\ errors' = TRUE
  /\ complaints' = complaints \cup {<< "parse", k >>}
  /\ UNCHANGED << comVars, read, listed, freed, parsed, extVars, cmpVars, last, first,
                  terminate, slot, extracted, pcT >>

\* The end of the file, or TOK_TERMINATE: what is left is transferred.
TransferLast(k) ==
  /\ Reading(k) /\ AtEnd(k)
  /\ Goto(pcP, k, "freeLast")
  /\ Transfer(k, read[k])
  /\ UNCHANGED << comVars, read, freed, parsed, extVars, cmpVars, errors, complaints,
                  terminate, slot, extracted, pcT >>

\* Fault: the node the extraction thread will start from is deleted as well.
FreeOneMore(k) ==
  /\ pcP[k] \in {"free", "freeLast"}
  /\ freed' = [freed EXCEPT ![k] = first[k]]
  /\ IF pcP[k] = "free"
     THEN Goto(pcP, k, "reading") /\ UNCHANGED parsed
     ELSE Goto(pcP, k, "wait") /\ parsed' = [parsed EXCEPT ![k] = TRUE]
  /\ UNCHANGED << comVars, read, listed, extVars, cmpVars, sharedVars >>

\* Nodes before the one the extraction thread will start from are deleted; after
\* the last transfer, the parsing is complete.
Free(k) ==
  /\ pcP[k] \in {"free", "freeLast"}
  /\ freed' = [freed EXCEPT ![k] = first[k] - 1]
  /\ IF pcP[k] = "free"
     THEN Goto(pcP, k, "reading") /\ UNCHANGED parsed
     ELSE Goto(pcP, k, "wait") /\ parsed' = [parsed EXCEPT ![k] = TRUE]
  /\ UNCHANGED << comVars, read, listed, extVars, cmpVars, sharedVars >>

\* After a syntax error, too.
Close(k) ==
  /\ pcP[k] = "close"
  /\ Goto(pcP, k, "wait")
  /\ parsed' = [parsed EXCEPT ![k] = TRUE]
  /\ UNCHANGED << comVars, read, listed, freed, extVars, cmpVars, sharedVars >>

\* Once the extraction is said to be complete, the list is cleared.
Clear(k) ==
  /\ pcP[k] = "wait"
  /\ extracted[k]
  /\ Goto(pcP, k, "end")
  /\ freed' = [freed EXCEPT ![k] = listed[k]]
  /\ UNCHANGED << comVars, read, listed, parsed, extVars, cmpVars, sharedVars >>

Parser(k) == \/ CannotOpen(k) \/ ReportMissing(k) \/ ParseRecord(k) \/ SyntaxError(k)
             \/ TransferLast(k) \/ Free(k) \/ Close(k) \/ Clear(k)

-----------------------------------------------------------------------------
(* The extraction thread of file k: tol::process *)

\* What an extraction step leaves alone, slot and flags apart.
ExtFrame == UNCHANGED << comVars, parVars, cmpVars, last, terminate, pcT >>

SetExtracted(k) == extracted' = [extracted EXCEPT ![k] = TRUE]

\* The bounds of the records that may be read: first and end.
LoadBounds(k) == end' = [end EXCEPT ![k] = last[k]]

\* Waiting for the first batch: LastParsedRecord is set, ...
SeeBatch(k) ==
  /\ pcX[k] = "await" /\ last[k] # 0
  /\ Goto(pcX, k, "batch") /\ LoadBounds(k)
  /\ ExtFrame
  /\ UNCHANGED << stamp, processed, errors, complaints, first, slot, extracted >>

\* ... or it was NULL and the parsing is complete since, with errors or without.
SeeParsed(k) ==
  /\ pcX[k] = "await" /\ parsed[k]
  /\ IF errors
     THEN Goto(pcX, k, "end") /\ SetExtracted(k) /\ UNCHANGED end
     ELSE Goto(pcX, k, "batch") /\ LoadBounds(k) /\ UNCHANGED extracted
  /\ ExtFrame
  /\ UNCHANGED << stamp, processed, errors, complaints, first, slot >>

\* process_a_tol_record for the records i to j: their values are appended to the
\* histories, until one is of a resource that is not defined.  Nobody looks at
\* a history before the next safe vector is out, so that this is one step.
Undefined(k, i, j) == {n \in i .. j : content[k][n].kind = "undefined"}
ProcessRecords(k, i, j) ==
  LET n == IF Undefined(k, i, j) = {} THEN j + 1
           ELSE CHOOSE n \in Undefined(k, i, j) : \A m \in Undefined(k, i, j) : n <= m
      ended == IF n <= j THEN n ELSE j
  IN  /\ processed' = [processed EXCEPT ![k] = @ \o [m \in 1 .. n - i |-> i + m - 1]]
      /\ stamp' = [stamp EXCEPT ![k] = IF i <= j THEN content[k][ended].time ELSE @]

\* The records before the last one of the batch: the last one is left for the
\* next batch.  The parsing thread may delete them then.  Once the time is up
\* the extraction is said to be complete, but goes on all the same.
ProcessBatch(k) ==
  /\ pcX[k] = "batch"
  /\ Undefined(k, first[k], end[k] - 1) = {}
  /\ ProcessRecords(k, first[k], end[k] - 1)
  /\ first' = [first EXCEPT ![k] = end[k]]
  /\ IF stamp'[k] > FirstTime(k) /\ terminate[k]
     THEN SetExtracted(k)
     ELSE UNCHANGED extracted
  /\ Goto(pcX, k, "vector")
  /\ ExtFrame
  /\ UNCHANGED << end, errors, complaints, slot >>

\* Fault: the last record is taken for the end of the list.
ProcessRestShort(k) ==
  /\ pcX[k] = "tail"
  /\ Undefined(k, first[k], end[k] - 1) = {}
  /\ ProcessRecords(k, first[k], end[k] - 1)
  /\ Goto(pcX, k, "lastVector")
  /\ ExtFrame
  /\ UNCHANGED << end, errors, complaints, first, slot, extracted >>

\* The last few records, the last one included.
ProcessRest(k) ==
  /\ pcX[k] = "tail"
  /\ Undefined(k, first[k], end[k]) = {}
  /\ ProcessRecords(k, first[k], end[k])
  /\ Goto(pcX, k, "lastVector")
  /\ ExtFrame
  /\ UNCHANGED << end, errors, complaints, first, slot, extracted >>

\* The records the thread is going to read next.
ToRead(k) == IF pcX[k] = "batch" THEN first[k] .. end[k] - 1
             ELSE IF pcX[k] = "tail" THEN first[k] .. end[k] ELSE {}

\* An exception: the extraction is said to be complete ...
Throw(k) ==
  LET upto == IF pcX[k] = "batch" THEN end[k] - 1 ELSE end[k] IN
  /\ pcX[k] \in {"batch", "tail"}
  /\ Undefined(k, first[k], upto) # {}
  /\ ProcessRecords(k, first[k], upto)
  /\ Goto(pcX, k, "report")
  /\ SetExtracted(k)
  /\ ExtFrame
  /\ UNCHANGED << end, errors, complaints, first, slot >>

\* ... before the error is.
ReportThrow(k) ==
  /\ pcX[k] = "report"
  /\ Goto(pcX, k, "end")
  /\ errors' = TRUE
  /\ complaints' = complaints \cup {<< "process", k >>}
  /\ ExtFrame
  /\ UNCHANGED << end, stamp, processed, first, slot, extracted >>

\* A record to be read has been deleted: what is read is what was there (as in
\* the actions above) or the program crashes, with all its threads.
ReadDeleted(k) ==
  /\ \E i \in ToRead(k) : i <= freed[k]
  /\ pcC' = "crashed"
  /\ UNCHANGED << comVars, parVars, extVars, sharedVars, seen, closing, fresh, complete, scan,
                  cursor, diffs >>

\* create_and_store_safe_vector: the comparator has read the previous vector, ...
StoreVector(k) ==
  /\ pcX[k] \in {"vector", "lastVector"}
  /\ slot[k] = NoVector
  /\ slot' = [slot EXCEPT ![k] = SafeVector(k)]
  /\ Goto(pcX, k, IF pcX[k] = "vector" THEN "poll" ELSE "finish")
  /\ ExtFrame
  /\ UNCHANGED << end, stamp, processed, errors, complaints, first, extracted >>

\* ... or it has not, and the flags are looked at before the slot is again.
FindSlotFull(k) ==
  /\ pcX[k] \in {"vector", "lastVector"}
  /\ slot[k] # NoVector
  /\ Goto(pcX, k, IF pcX[k] = "vector" THEN "full" ELSE "lastFull")
  /\ ExtFrame
  /\ UNCHANGED << end, stamp, processed, errors, complaints, first, slot, extracted >>

\* Fault: the wait for the slot takes no notice of errors.
RetrySlotDeaf(k) ==
  /\ pcX[k] \in {"full", "lastFull"}
  /\ Goto(pcX, k, IF terminate[k]
                  THEN IF pcX[k] = "full" THEN "poll" ELSE "finish"
                  ELSE IF pcX[k] = "full" THEN "vector" ELSE "lastVector")
  /\ ExtFrame
  /\ UNCHANGED << end, stamp, processed, errors, complaints, first, slot, extracted >>

RetrySlot(k) ==
  /\ pcX[k] \in {"full", "lastFull"}
  /\ Goto(pcX, k, IF terminate[k] \/ errors
                  THEN IF pcX[k] = "full" THEN "poll" ELSE "finish"
                  ELSE IF pcX[k] = "full" THEN "vector" ELSE "lastVector")
  /\ ExtFrame
  /\ UNCHANGED << end, stamp, processed, errors, complaints, first, slot, extracted >>

\* Waiting for the next batch.
Poll(k) ==
  /\ pcX[k] = "poll"
  /\ IF last[k] # end[k]
     THEN Goto(pcX, k, "batch") /\ LoadBounds(k)
     ELSE Goto(pcX, k, "pollFlags") /\ UNCHANGED end
  /\ ExtFrame
  /\ UNCHANGED << stamp, processed, errors, complaints, first, slot, extracted >>

\* No more batches, the last few records remain: or there was an error.
PollFlags(k) ==
  /\ pcX[k] = "pollFlags"
  /\ IF errors
     THEN Goto(pcX, k, "end") /\ SetExtracted(k) /\ UNCHANGED end
     ELSE IF parsed[k]
     THEN /\ Goto(pcX, k, IF first[k] = 0 THEN "lastVector" ELSE "tail")
          /\ LoadBounds(k) /\ UNCHANGED extracted
     ELSE Goto(pcX, k, "poll") /\ UNCHANGED << end, extracted >>
  /\ ExtFrame
  /\ UNCHANGED << stamp, processed, errors, complaints, first, slot >>

Finish(k) ==
  /\ pcX[k] = "finish"
  /\ Goto(pcX, k, "end")
  /\ SetExtracted(k)
  /\ ExtFrame
  /\ UNCHANGED << end, stamp, processed, errors, complaints, first, slot >>

Extractor(k) ==
  \/ SeeBatch(k) \/ SeeParsed(k) \/ ProcessBatch(k) \/ ProcessRest(k) \/ Throw(k)
  \/ ReportThrow(k) \/ ReadDeleted(k) \/ StoreVector(k) \/ FindSlotFull(k)
  \/ RetrySlot(k) \/ Poll(k) \/ PollFlags(k) \/ Finish(k)

-----------------------------------------------------------------------------
(* The comparator thread: tol::compare with two files *)

CmpFrame == UNCHANGED << comVars, parVars, extVars, last, first, terminate, extracted, pcT >>

AllExtracted == \A k \in Files : extracted[k]

\* What the comparator has seen once it has looked at the slots: the vector in a
\* slot, if there is one, replaces the one seen before, and the slot is emptied.
\* A look at the flags and the looks at the two slots after it are one step: what
\* an extraction thread does between them is as good as done after them.
LatestSeen == [k \in Files |-> IF slot[k] # NoVector THEN slot[k] ELSE seen[k]]

\* Both files have gone beyond their initial records.
InitialRecordsRead ==
  \A k \in Files : LatestSeen[k] # NoVector /\ LatestSeen[k].time > FirstTime(k)

\* There is something to compare; closing is set before the slots are read.
Ready == InitialRecordsRead \/ closing'

TakeVectors ==
  /\ pcC = "poll"
  /\ closing' = (closing \/ AllExtracted)
  /\ seen' = LatestSeen
  /\ slot' = [k \in Files |-> NoVector]
  /\ pcC' = IF Ready THEN "decide" ELSE "poll"
  /\ CmpFrame
  /\ UNCHANGED << fresh, complete, scan, cursor, diffs, errors, complaints >>

\* The assertion: once the extraction is complete, or there is something to
\* compare, both files have delivered a vector, unless there was an error.
AssertionFails == ~errors /\ \E k \in Files : seen[k] = NoVector

GiveUp ==
  /\ pcC = "decide"
  /\ errors \/ AssertionFails
  /\ pcC' = IF errors THEN "end" ELSE "aborted"
  /\ CmpFrame
  /\ UNCHANGED << seen, closing, fresh, complete, scan, cursor, diffs, errors, complaints, slot >>

\* The earliest node of such a history is a NULL pointer.
EmptyHistory == \E k \in Files, r \in Resources : History(k, r) = << >>

\* The first time, compare_initial_states: the first nodes of the histories are
\* read, and files that do not start at the same time (or, not modelled, do not
\* have the same resources) are not compared any further.
CompareInitialStates ==
  /\ pcC = "decide" /\ fresh
  /\ ~errors /\ ~AssertionFails
  /\ fresh' = FALSE
  /\ IF FirstTime(0) # FirstTime(1)
     THEN /\ pcC' = "end" /\ errors' = TRUE
          /\ complaints' = complaints \cup {<< "compare", 0 >>}
          /\ UNCHANGED cursor
     ELSE /\ pcC' = IF EmptyHistory THEN "crashed" ELSE "start"
          /\ cursor' = [r \in Resources |-> [k \in Files |-> 1]]
          /\ UNCHANGED << errors, complaints >>
  /\ CmpFrame
  /\ UNCHANGED << seen, closing, complete, scan, diffs, slot >>

GoOn ==
  /\ pcC = "decide" /\ ~fresh
  /\ ~errors /\ ~AssertionFails
  /\ pcC' = "start"
  /\ CmpFrame
  /\ UNCHANGED << seen, closing, fresh, complete, scan, cursor, diffs, errors, complaints, slot >>

SafeTime == IF seen[0].time > seen[1].time THEN seen[1].time ELSE seen[0].time

\* The current nodes of resource r, e1 and e2 in the code.
RecordAt(k, r, i) == content[k][History(k, r)[i]]
Tag(k, r) == RecordAt(k, r, cursor[r][k]).time
HasNext(k, r) == cursor[r][k] < Len(History(k, r))

\* The assertions of compare_histories, for each resource: a safe node exists, and
\* what is left to compare does not begin later.
AssumptionsHold ==
  \A k \in Files, r \in Resources :
    LET safe == seen[k].last[r] IN safe > 0 /\ Tag(k, r) <= RecordAt(k, r, safe).time

\* compare_histories begins: it looks at the flags again, on its own account.  The
\* assertions are made when a resource's turn comes; nothing they depend on
\* changes before that.
StartHistories ==
  /\ pcC = "start"
  /\ pcC' = IF AssumptionsHold THEN "scan" ELSE "aborted"
  /\ complete' = AllExtracted
  /\ scan' = 1
  /\ CmpFrame
  /\ UNCHANGED << seen, closing, fresh, cursor, diffs, errors, complaints, slot >>

\* Fault: the value of the other file is that of its current node.
ValueOfCurrentNode(k, r) == RecordAt(k, r, cursor[r][k]).val

\* The files that have a record at the earlier of the two tags ...
Consumed(r) == {k \in Files : \A j \in Files : Tag(k, r) <= Tag(j, r)}
\* ... and the value each file has then: the other file's is its previous one.
ValueNow(k, r) == RecordAt(k, r, IF k \in Consumed(r) THEN cursor[r][k]
                                                      ELSE cursor[r][k] - 1).val
TagNow(r) == LET k == CHOOSE k \in Consumed(r) : TRUE IN Tag(k, r)

\* Fault: only the time says where the settled part of a history ends.
UnsettledByTime(r) == ~complete /\ \E k \in Files : Tag(k, r) >= SafeTime

\* The rest of the histories is not known to be settled yet.
Unsettled(r) ==
  ~complete /\ \E k \in Files : \/ cursor[r][k] = seen[k].last[r]
                                \/ Tag(k, r) >= SafeTime

NextResource ==
  /\ scan' = IF scan = NRes THEN 1 ELSE scan + 1
  /\ pcC' = IF scan < NRes THEN "scan" ELSE IF closing THEN "end" ELSE "poll"

StopScan ==
  /\ pcC = "scan" /\ Unsettled(scan)
  /\ NextResource
  /\ CmpFrame
  /\ UNCHANGED << seen, closing, fresh, complete, cursor, diffs, errors, complaints, slot >>

\* One pass through the loop: a difference is noted, the nodes that were
\* compared are left behind if they have a successor.  The loop ends when both
\* files are at their end together; if only one has reached the end while the
\* other's last record is at another time, the pass is repeated for ever.
ComparePair ==
  LET moving == {k \in Consumed(scan) : HasNext(k, scan)} IN
  /\ pcC = "scan" /\ ~Unsettled(scan)
  /\ diffs' = IF ValueNow(0, scan) # ValueNow(1, scan)
              THEN diffs \cup {<< scan, TagNow(scan) >>} ELSE diffs
  /\ cursor' = [cursor EXCEPT ![scan] =
                  [k \in Files |-> IF k \in moving THEN @[k] + 1 ELSE @[k]]]
  /\ IF moving = {} /\ Consumed(scan) = Files
     THEN NextResource
     ELSE UNCHANGED << scan, pcC >>
  /\ CmpFrame
  /\ UNCHANGED << seen, closing, fresh, complete, errors, complaints, slot >>

Comparator == \/ TakeVectors \/ GiveUp \/ CompareInitialStates \/ GoOn
              \/ StartHistories \/ StopScan \/ ComparePair

-----------------------------------------------------------------------------
(* The timer thread, tol::interrupt: the time is up for one file, then the other *)

TimeUp ==
  /\ pcT \in {"set", "half"}
  /\ pcT' = IF pcT = "set" THEN "half" ELSE "end"
  /\ terminate' = [terminate EXCEPT ![IF pcT = "set" THEN 0 ELSE 1] = TRUE]
  /\ UNCHANGED << comVars, parVars, extVars, cmpVars, errors, complaints, last, first,
                  slot, extracted >>

-----------------------------------------------------------------------------
(* tol_reader::interpreter resets the atomics and launches the threads *)

Init ==
  /\ \E c \in Commands : content = c.files /\ scope = c.scope
  /\ errors = FALSE /\ complaints = {}
  /\ pcT = IF scope = "time" THEN "set" ELSE "off"
  /\ pcP = [k \in Files |-> "open"]
  /\ read = [k \in Files |-> 0]
  /\ listed = [k \in Files |-> 0]
  /\ freed = [k \in Files |-> 0]
  /\ last = [k \in Files |-> 0]
  /\ first = [k \in Files |-> 0]
  /\ parsed = [k \in Files |-> FALSE]
  /\ terminate = [k \in Files |-> FALSE]
  /\ pcX = [k \in Files |-> "await"]
  /\ end = [k \in Files |-> 0]
  /\ stamp = [k \in Files |-> 0]
  /\ processed = [k \in Files |-> << >>]
  /\ slot = [k \in Files |-> NoVector]
  /\ extracted = [k \in Files |-> FALSE]
  /\ pcC = "poll"
  /\ seen = [k \in Files |-> NoVector]
  /\ closing = FALSE /\ fresh = TRUE /\ complete = FALSE
  /\ scan = 1
  /\ cursor = [r \in Resources |-> [k \in Files |-> 0]]
  /\ diffs = {}

\* The interpreter joins the threads: nothing is left to do when all have ended.
Ended == /\ \A k \in Files : pcP[k] = "end" /\ pcX[k] = "end"
         /\ pcC = "end"
         /\ pcT \in {"off", "end"}
Terminated == (Ended \/ Abort) /\ UNCHANGED vars

\* A failed assertion ends the program.
Next == \/ ~Abort /\ \/ \E k \in Files : Parser(k) \/ Extractor(k)
                     \/ Comparator
                     \/ TimeUp
        \/ Terminated

\* Each thread is scheduled as long as it can run; the waits are sleeps.
Fairness == /\ \A k \in Files : WF_vars(~Abort /\ Parser(k)) /\ WF_vars(~Abort /\ Extractor(k))
            /\ WF_vars(~Abort /\ Comparator)
            /\ WF_vars(~Abort /\ TimeUp)

Spec == Init /\ [][Next]_vars /\ Fairness

-----------------------------------------------------------------------------
(* What the comparison of the two files has to find *)

AllRecords(k) == [i \in 1 .. Len(content[k]) |-> i]
FileHistory(k, r) == HistoryIn(AllRecords(k), k, r)

\* The value of resource r in file k at time t: that of its last record so far.
ValueAt(k, r, t) ==
  LET upto == {i \in 1 .. Len(content[k]) : Matches(k, r, i) /\ content[k][i].time <= t}
  IN  content[k][CHOOSE i \in upto : \A j \in upto : j <= i].val
Tags(r) == UNION {{content[k][i].time : i \in {j \in 1 .. Len(content[k]) : Matches(k, r, j)}} :
                  k \in Files}
Differences(r) == {t \in Tags(r) : ValueAt(0, r, t) # ValueAt(1, r, t)}

LastTag(k, r) == LET h == FileHistory(k, r) IN content[k][h[Len(h)]].time

\* The histories of every resource end at the same time in both files.
Aligned == \A r \in Resources : LastTag(0, r) = LastTag(1, r)

HasKind(kind) == \E k \in Files : \E i \in 1 .. Len(content[k]) : content[k][i].kind = kind
Missing == \E k \in Files : content[k] = << >>

\* The files are such as the modeler writes them for resources that are not
\* interpolated: in the order of time, with a value of every resource at the
\* beginning, and at most one at a time.
Orderly ==
  \A k \in Files :
    /\ \A i, j \in 1 .. Len(content[k]) : i < j =>
         /\ content[k][i].time <= content[k][j].time
         /\ \A r \in Resources : Matches(k, r, i) /\ Matches(k, r, j) =>
              content[k][i].time # content[k][j].time
    /\ \A r \in Resources : \E i \in 1 .. Len(content[k]) :
         Matches(k, r, i) /\ content[k][i].time = FirstTime(k)

\* No failure, and nothing that cuts the comparison short.
Sound == scope = "all" /\ ~Missing /\ ~HasKind("undefined") /\ ~HasKind("garbled")
         /\ FirstTime(0) = FirstTime(1)

-----------------------------------------------------------------------------
(* Properties *)

ParserStates == {"open", "missing", "reading", "free", "freeLast", "close", "wait", "end"}
ExtractorStates == {"await", "batch", "vector", "full", "poll", "pollFlags", "tail",
                    "lastVector", "lastFull", "finish", "report", "end"}
ComparatorStates == {"poll", "decide", "start", "scan", "end", "aborted", "crashed"}
Vector == [time : Nat, last : [Resources -> Nat]]

\* Types of the state shared by the threads and of their own.
TypeOK ==
  /\ [files |-> content, scope |-> scope] \in Commands
  /\ errors \in BOOLEAN
  /\ complaints \subseteq {"parse", "process", "compare"} \X Files
  /\ pcT \in {"off", "set", "half", "end"}
  /\ pcP \in [Files -> ParserStates]
  /\ pcX \in [Files -> ExtractorStates]
  /\ pcC \in ComparatorStates
  /\ {read, listed, freed, last, first, end, stamp} \subseteq [Files -> Nat]
  /\ {parsed, terminate, extracted} \subseteq [Files -> BOOLEAN]
  /\ processed \in [Files -> Seq(Nat)]
  /\ \A k \in Files : slot[k] \in Vector \cup {NoVector} /\ seen[k] \in Vector \cup {NoVector}
  /\ closing \in BOOLEAN /\ fresh \in BOOLEAN /\ complete \in BOOLEAN
  /\ scan \in Resources
  /\ cursor \in [Resources -> [Files -> Nat]]
  /\ diffs \subseteq Resources \X Nat

\* Every record of a file is processed once and in the order of the file, however
\* the batches fall (the last record of a batch opens the next one, and the last
\* few records are processed apart); without errors none is left out.
EveryRecordOnce ==
  \A k \in Files :
    /\ processed[k] = [i \in 1 .. Len(processed[k]) |-> i]
    /\ pcX[k] = "finish" /\ scope = "all" => \/ errors
                                             \/ Len(processed[k]) = Len(content[k])

\* The parsing thread never deletes a record that the extraction thread is going
\* to read ("Any records prior to that are safe for us to delete"); this is so
\* unless a time limit is set.
AccessesLive ==
  scope = "all" =>
    \A k \in Files :
      /\ \A i \in ToRead(k) : freed[k] < i /\ i <= listed[k]
      /\ pcX[k] \notin {"finish", "report", "end"} /\ first[k] # 0 => freed[k] < first[k]

\* The comparator reads what is settled: nodes up to the safe ones while a file
\* is being extracted, and to the end of a history only when it will not grow.
ReadsSettledData ==
  pcC = "scan" =>
    IF complete
    THEN scope = "all" => \A k \in Files : pcX[k] \in {"report", "end"}
    ELSE \A k \in Files, r \in Resources : cursor[r][k] <= seen[k].last[r]

\* What the comparator has found in such files is right: at every time that both
\* histories of a resource have been compared up to, and in the end at every time, a
\* difference is listed if and only if the values of the resource differ.
DifferencesAreRight ==
  Sound /\ Orderly =>
    /\ ~fresh => \A r \in Resources : \A t \in Tags(r) :
         (\A k \in Files : t < Tag(k, r)) => (<< r, t >> \in diffs <=> t \in Differences(r))
    /\ pcC = "end" => diffs = UNION {{<< r, t >> : t \in Differences(r)} : r \in Resources}

\* Files that are sound and whose histories end together; or one is missing, or
\* starts at another time.
Comparable == ~HasKind("undefined") /\ ~HasKind("garbled") /\ (Sound => Aligned)

\* The parsing and extraction threads end whatever the files are, as do all
\* threads, so that the interpreter's joins return, if the files can be compared:
\* threads that wait for each other (for a batch, for the slot, for the
\* extraction) are released by the error flag.  The comparator may fail to end
\* if histories do not end at the same time, which is also how it sees a file
\* whose parsing stops at an error.
AllThreadsEnd ==
  scope = "all" =>
    <>(IF Comparable THEN Ended
       ELSE Abort \/ \A k \in Files : pcP[k] = "end" /\ pcX[k] = "end")
=============================================================================
