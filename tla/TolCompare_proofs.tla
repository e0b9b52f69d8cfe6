------------------------- MODULE TolCompare_proofs --------------------------
(***************************************************************************)
(* Proofs about TolCompare, for files of any length, any number of         *)
(* resources and batches of any size.                                      *)
(*                                                                         *)
(*  - IInv: the extraction thread processes every record once and in       *)
(*    order, and the parsing thread never deletes a record that is still   *)
(*    to be read.  The invariant relates what a pair of threads share:     *)
(*    where the list begins and ends, how much of it has been deleted, and *)
(*    how much has been processed.                                         *)
(*  - SettleInv: the comparator reads only what will not change.  The      *)
(*    histories are selections from the records processed, so that they    *)
(*    grow at their ends, and a safe vector once delivered stays true.     *)
(*  - SoundInv: what the comparator lists is right.  It is never more than *)
(*    one time behind in one history while it is ahead in the other, so    *)
(*    that the two values it compares are those the resource has at that   *)
(*    time, and everything before its place has been decided.              *)
(***************************************************************************)
EXTENDS TolCompare, Selections_proofs, Integers, TLAPS

-----------------------------------------------------------------------------
(* Records processed in order *)

InOrder(s) == s = [i \in 1 .. Len(s) |-> i]

\* The numbers from i on, put after the numbers up to i - 1.
LEMMA Extend ==
  ASSUME NEW p \in Nat, NEW q \in Nat, NEW i \in Nat, q = 0 \/ i = p + 1
  PROVE  [x \in 1 .. p |-> x] \o [m \in 1 .. q |-> i + m - 1] = [x \in 1 .. p + q |-> x]
OBVIOUS

LEMMA OrderedLength ==
  ASSUME NEW p \in Nat
  PROVE  /\ [x \in 1 .. p |-> x] \in Seq(Nat)
         /\ Len([x \in 1 .. p |-> x]) = p
         /\ InOrder([x \in 1 .. p |-> x])
BY DEF InOrder

-----------------------------------------------------------------------------
(* The invariant *)

TypeInv ==
  /\ content \in [Files -> Seq(Record)]
  /\ scope \in {"all", "time"}
  /\ errors \in BOOLEAN
  /\ pcP \in [Files -> ParserStates]
  /\ pcX \in [Files -> ExtractorStates]
  /\ read \in [Files -> Nat] /\ listed \in [Files -> Nat] /\ freed \in [Files -> Int]
  /\ last \in [Files -> Nat] /\ first \in [Files -> Nat] /\ end \in [Files -> Nat]
  /\ parsed \in [Files -> BOOLEAN] /\ extracted \in [Files -> BOOLEAN]
  /\ terminate \in [Files -> BOOLEAN]
  /\ processed \in [Files -> Seq(Nat)]

\* Without a time limit nobody tells the parsing threads to stop.
TimeInv ==
  scope = "all" => pcT \notin {"set", "half"} /\ \A k \in Files : ~terminate[k]

\* What the parsing thread has put in the list, and what it has deleted.
ParseInv(k) ==
  /\ listed[k] = last[k] /\ last[k] <= read[k] /\ read[k] <= Len(content[k])
  /\ first[k] <= last[k] /\ (first[k] = 0 <=> last[k] = 0)
  /\ pcP[k] \in {"free", "freeLast"} => last[k] # 0
  /\ parsed[k] <=> pcP[k] \in {"missing", "wait", "end"}
  /\ pcP[k] = "close" => errors
  /\ pcP[k] \in {"freeLast", "missing", "wait", "end"} /\ scope = "all"
       => errors \/ last[k] = Len(content[k])
  /\ IF first[k] = 0 THEN freed[k] = 0
     ELSE freed[k] < first[k] \/ (pcP[k] = "end" /\ extracted[k])

Done(k) == Len(processed[k])

\* What the extraction thread has processed.
ExtractInv(k) ==
  /\ InOrder(processed[k])
  /\ scope = "all" /\ extracted[k] => pcX[k] \in {"report", "end"}
  /\ pcX[k] \in {"await", "batch", "vector", "full", "poll", "pollFlags", "tail"}
       => Done(k) = IF first[k] = 0 THEN 0 ELSE first[k] - 1
  /\ pcX[k] = "batch" => first[k] <= end[k] /\ end[k] <= last[k]
  /\ pcX[k] \in {"batch", "vector", "full", "poll", "pollFlags"} /\ last[k] = 0 => parsed[k]
  /\ pcX[k] \in {"tail", "lastVector", "lastFull", "finish"} => parsed[k] /\ end[k] = last[k]
  /\ pcX[k] = "tail" => first[k] # 0
  /\ pcX[k] \in {"lastVector", "lastFull", "finish"} => Done(k) = end[k]

FileInv(k) == ParseInv(k) /\ ExtractInv(k)
IInv == TypeInv /\ TimeInv /\ \A k \in Files : FileInv(k)

\* Nothing that the invariant says of file k has changed.
Same(k) ==
  /\ content'[k] = content[k] /\ scope' = scope
  /\ errors => errors'
  /\ pcP'[k] = pcP[k] /\ pcX'[k] = pcX[k]
  /\ read'[k] = read[k] /\ listed'[k] = listed[k] /\ freed'[k] = freed[k]
  /\ last'[k] = last[k] /\ first'[k] = first[k] /\ end'[k] = end[k]
  /\ parsed'[k] = parsed[k] /\ extracted'[k] = extracted[k] /\ processed'[k] = processed[k]

LEMMA SameKeeps == ASSUME NEW k \in Files, FileInv(k), Same(k) PROVE FileInv(k)'
<1>1. ParseInv(k)'
  BY DEF FileInv, ParseInv, Same
<1>2. ExtractInv(k)'
  BY DEF FileInv, ExtractInv, Done, Same
<1> QED
  BY <1>1, <1>2 DEF FileInv

LEMMA InitIInv == Init => IInv
<1> SUFFICES ASSUME Init PROVE IInv
  OBVIOUS
<1> << >> \in Seq(Nat) /\ Len(<< >>) = 0 /\ InOrder(<< >>)
  BY DEF InOrder
<1>1. content \in [Files -> Seq(Record)] /\ scope \in {"all", "time"}
  BY CommandAssumption DEF Init
<1>2. TypeInv
  <2>1. pcP \in [Files -> ParserStates] /\ pcX \in [Files -> ExtractorStates]
    BY DEF Init, ParserStates, ExtractorStates
  <2>2. /\ read \in [Files -> Nat] /\ listed \in [Files -> Nat] /\ freed \in [Files -> Int]
        /\ last \in [Files -> Nat] /\ first \in [Files -> Nat] /\ end \in [Files -> Nat]
    BY DEF Init
  <2>3. /\ errors \in BOOLEAN /\ terminate \in [Files -> BOOLEAN]
        /\ parsed \in [Files -> BOOLEAN] /\ extracted \in [Files -> BOOLEAN]
    BY DEF Init
  <2>4. processed \in [Files -> Seq(Nat)]
    BY DEF Init
  <2> QED
    BY <1>1, <2>1, <2>2, <2>3, <2>4 DEF TypeInv
<1>3. TimeInv
  BY DEF Init, TimeInv
<1>4. ASSUME NEW k \in Files PROVE FileInv(k)
  <2>1. Len(content[k]) \in Nat
    BY <1>1
  <2>2. ParseInv(k)
    BY <2>1 DEF Init, ParseInv
  <2>3. ExtractInv(k)
    BY DEF Init, ExtractInv, Done
  <2> QED
    BY <2>2, <2>3 DEF FileInv
<1> QED
  BY <1>2, <1>3, <1>4 DEF IInv

-----------------------------------------------------------------------------
(* The parsing thread keeps the invariant *)

\* Records up to n are in the list of file k now.
Transferred(k, n) ==
  /\ listed'[k] = n /\ last'[k] = n
  /\ first'[k] = IF last[k] = 0 THEN 1 ELSE first[k]

SameList(k) == listed'[k] = listed[k] /\ last'[k] = last[k] /\ first'[k] = first[k]

ListTypes == listed \in [Files -> Nat] /\ first \in [Files -> Nat] /\ last \in [Files -> Nat]

\* What a transfer changes.
LEMMA TransferEffect ==
  ASSUME TypeInv, NEW k \in Files, NEW n \in Nat, Transfer(k, n)
  PROVE  /\ ListTypes' /\ Transferred(k, n)
         /\ \A j \in Files : j # k => SameList(j)
BY DEF Transfer, TypeInv, Transferred, SameList, ListTypes

\* What parsing one more record changes.
LEMMA OneMoreRecord ==
  ASSUME TypeInv, NEW k \in Files, ParseRecord(k)
  PROVE  /\ Reading(k) /\ ~AtEnd(k) /\ read[k] + 1 \in Nat
         /\ read' \in [Files -> Nat] /\ read'[k] = read[k] + 1
         /\ pcP' \in [Files -> ParserStates]
         /\ \/ pcP'[k] = "free" /\ Transferred(k, read[k] + 1)
            \/ pcP'[k] = "reading" /\ SameList(k)
         /\ ListTypes'
         /\ UNCHANGED << content, scope, freed, parsed, pcX, end, processed, errors, terminate,
                         extracted >>
         /\ \A j \in Files : j # k => pcP'[j] = pcP[j] /\ read'[j] = read[j] /\ SameList(j)
<1>1. read[k] + 1 \in Nat
  BY DEF TypeInv
<1>2. read' = [read EXCEPT ![k] = read[k] + 1]
  BY DEF ParseRecord
<1>3. UNCHANGED << content, scope, freed, parsed, pcX, end, processed, errors, terminate, extracted >>
  BY DEF ParseRecord, comVars, extVars
<1>4. \/ Goto(pcP, k, "free") /\ Transfer(k, read[k] + 1)
      \/ Goto(pcP, k, "reading") /\ UNCHANGED << listed, first, last >>
  BY DEF ParseRecord
<1>5. /\ pcP' \in [Files -> ParserStates]
      /\ pcP'[k] = IF Goto(pcP, k, "free") THEN "free" ELSE "reading"
      /\ \A j \in Files : j # k => pcP'[j] = pcP[j]
  BY <1>4 DEF Goto, TypeInv, ParserStates
<1>6. \/ pcP'[k] = "free" /\ Transfer(k, read[k] + 1)
      \/ pcP'[k] = "reading" /\ UNCHANGED << listed, first, last >>
  BY <1>4 DEF Goto, TypeInv
<1>7. read' \in [Files -> Nat] /\ read'[k] = read[k] + 1 /\ \A j \in Files : j # k => read'[j] = read[j]
  BY <1>1, <1>2 DEF TypeInv
<1>8. Reading(k) /\ ~AtEnd(k)
  BY DEF ParseRecord
<1>9. /\ ListTypes'
      /\ \/ pcP'[k] = "free" /\ Transferred(k, read[k] + 1)
         \/ pcP'[k] = "reading" /\ SameList(k)
      /\ \A j \in Files : j # k => SameList(j)
  <2>1. CASE pcP'[k] = "free" /\ Transfer(k, read[k] + 1)
    BY <1>1, <2>1, TransferEffect
  <2>2. CASE pcP'[k] = "reading" /\ UNCHANGED << listed, first, last >>
    BY <2>2 DEF ListTypes, SameList, TypeInv
  <2> QED
    BY <1>6, <2>1, <2>2
<1> QED
  BY <1>1, <1>3, <1>5, <1>7, <1>8, <1>9

\* What the last transfer changes.
LEMMA LastRecords ==
  ASSUME TypeInv, NEW k \in Files, TransferLast(k)
  PROVE  /\ Reading(k) /\ AtEnd(k) /\ Transferred(k, read[k]) /\ ListTypes'
         /\ pcP' \in [Files -> ParserStates] /\ pcP'[k] = "freeLast"
         /\ UNCHANGED << content, scope, read, freed, parsed, pcX, end, processed, errors,
                         terminate, extracted >>
         /\ \A j \in Files : j # k => pcP'[j] = pcP[j] /\ SameList(j)
<1>1. /\ Reading(k) /\ AtEnd(k) /\ Transfer(k, read[k]) /\ read[k] \in Nat
      /\ pcP' \in [Files -> ParserStates] /\ pcP'[k] = "freeLast"
      /\ UNCHANGED << content, scope, read, freed, parsed, pcX, end, processed, errors,
                      terminate, extracted >>
      /\ \A j \in Files : j # k => pcP'[j] = pcP[j]
  BY DEF TransferLast, TypeInv, comVars, extVars, Goto, ParserStates
<1> QED
  BY <1>1, TransferEffect

\* What a deletion changes.
LEMMA FreeEffect ==
  ASSUME TypeInv, NEW k \in Files, Free(k)
  PROVE  /\ pcP[k] \in {"free", "freeLast"}
         /\ freed' \in [Files -> Int] /\ freed'[k] = first[k] - 1
         /\ pcP' \in [Files -> ParserStates] /\ parsed' \in [Files -> BOOLEAN]
         /\ IF pcP[k] = "free"
            THEN pcP'[k] = "reading" /\ (parsed'[k] <=> parsed[k])
            ELSE pcP'[k] = "wait" /\ parsed'[k]
         /\ UNCHANGED << content, scope, read, listed, pcX, end, processed, errors, last, first,
                         terminate, extracted >>
         /\ \A j \in Files : j # k =>
              freed'[j] = freed[j] /\ pcP'[j] = pcP[j] /\ (parsed'[j] <=> parsed[j])
<1>1. freed' = [freed EXCEPT ![k] = first[k] - 1] /\ first[k] - 1 \in Int
  BY DEF Free, TypeInv
<1>2. UNCHANGED << content, scope, read, listed, pcX, end, processed, errors, last, first,
                   terminate, extracted >>
  BY DEF Free, comVars, extVars, sharedVars
<1>3. /\ pcP[k] \in {"free", "freeLast"}
      /\ IF pcP[k] = "free"
         THEN pcP' = [pcP EXCEPT ![k] = "reading"] /\ parsed' = parsed
         ELSE pcP' = [pcP EXCEPT ![k] = "wait"] /\ parsed' = [parsed EXCEPT ![k] = TRUE]
  BY DEF Free, Goto
<1> QED
  BY <1>1, <1>2, <1>3 DEF TypeInv, ParserStates

LEMMA ParserTypes == ASSUME TypeInv, NEW k \in Files, Parser(k) PROVE TypeInv'
<1> USE DEF TypeInv, ParserStates, comVars, extVars, cmpVars, sharedVars, parVars, Goto
<1>1. CASE CannotOpen(k)
  BY <1>1 DEF CannotOpen
<1>2. CASE ReportMissing(k)
  BY <1>2 DEF ReportMissing
<1>3. CASE ParseRecord(k)
  BY <1>3, OneMoreRecord DEF SameList, ListTypes
<1>4. CASE SyntaxError(k)
  BY <1>4 DEF SyntaxError, Reading, AtEnd, ToldToStop
<1>5. CASE TransferLast(k)
  BY <1>5, LastRecords DEF SameList, ListTypes
<1>6. CASE Free(k)
  BY <1>6, FreeEffect
<1>7. CASE Close(k)
  BY <1>7 DEF Close
<1>8. CASE Clear(k)
  BY <1>8 DEF Clear
<1> QED
  BY <1>1, <1>2, <1>3, <1>4, <1>5, <1>6, <1>7, <1>8 DEF Parser

LEMMA FreeOthers ==
  ASSUME TypeInv, NEW k \in Files, Free(k), NEW j \in Files, j # k
  PROVE  Same(j)
<1>1. parsed[j] \in BOOLEAN /\ parsed'[j] \in BOOLEAN
  BY FreeEffect DEF TypeInv
<1>2. parsed'[j] = parsed[j]
  BY <1>1, FreeEffect
<1> QED
  BY <1>2, FreeEffect DEF Same

\* The thread of one file does not touch what belongs to the other.
LEMMA ParserOthers ==
  ASSUME TypeInv, NEW k \in Files, Parser(k), NEW j \in Files, j # k
  PROVE  Same(j)
<1> USE DEF TypeInv, Same, comVars, extVars, cmpVars, sharedVars, parVars, Goto
<1>1. CASE CannotOpen(k)
  BY <1>1 DEF CannotOpen
<1>2. CASE ReportMissing(k)
  BY <1>2 DEF ReportMissing
<1>3. CASE ParseRecord(k)
  BY <1>3, OneMoreRecord DEF SameList, ListTypes
<1>4. CASE SyntaxError(k)
  BY <1>4 DEF SyntaxError, Reading, AtEnd, ToldToStop
<1>5. CASE TransferLast(k)
  BY <1>5, LastRecords DEF SameList, ListTypes
<1>6. CASE Free(k)
  BY <1>6, FreeOthers
<1>7. CASE Close(k)
  BY <1>7 DEF Close
<1>8. CASE Clear(k)
  BY <1>8 DEF Clear
<1> QED
  BY <1>1, <1>2, <1>3, <1>4, <1>5, <1>6, <1>7, <1>8 DEF Parser

\* Types of what the invariant says of file k.
LEMMA AtFile ==
  ASSUME TypeInv, NEW k \in Files
  PROVE  /\ Len(content[k]) \in Nat
         /\ read[k] \in Nat /\ listed[k] \in Nat /\ freed[k] \in Int
         /\ last[k] \in Nat /\ first[k] \in Nat /\ end[k] \in Nat
         /\ parsed[k] \in BOOLEAN /\ extracted[k] \in BOOLEAN /\ errors \in BOOLEAN
BY DEF TypeInv

LEMMA ParserParseInv ==
  ASSUME TypeInv, TimeInv, NEW k \in Files, FileInv(k), Parser(k)
  PROVE  ParseInv(k)'
<1> USE DEF FileInv, ParseInv, comVars, extVars, cmpVars, sharedVars, parVars, Goto
<1>1. CASE CannotOpen(k)
  BY <1>1 DEF TypeInv, CannotOpen
<1>2. CASE ReportMissing(k)
  BY <1>2 DEF TypeInv, ReportMissing
<1>3. CASE ParseRecord(k)
  <2> HIDE DEF comVars, extVars, cmpVars, sharedVars, parVars, Goto
  <2>1. /\ Len(content[k]) \in Nat /\ read[k] \in Nat /\ freed[k] \in Int
        /\ last[k] \in Nat /\ first[k] \in Nat
    BY AtFile
  <2>2. /\ pcP[k] \in {"open", "reading"} /\ read[k] # Len(content[k])
        /\ read'[k] = read[k] + 1
        /\ UNCHANGED << content, scope, freed, parsed, pcX, end, processed, errors, extracted >>
    BY <1>3, OneMoreRecord DEF Reading, AtEnd
  <2>3. CASE pcP'[k] = "free" /\ Transferred(k, read[k] + 1)
    BY <2>1, <2>2, <2>3 DEF Transferred
  <2>4. CASE pcP'[k] = "reading" /\ SameList(k)
    BY <2>1, <2>2, <2>4 DEF SameList
  <2> QED
    BY <1>3, <2>3, <2>4, OneMoreRecord
<1>4. CASE SyntaxError(k)
  BY <1>4 DEF TypeInv, SyntaxError, Reading, AtEnd, ToldToStop
<1>5. CASE TransferLast(k)
  BY <1>5, AtFile, LastRecords DEF TimeInv, Reading, AtEnd, ToldToStop, Transferred
<1>6. CASE Free(k)
  BY <1>6, AtFile, FreeEffect
<1>7. CASE Close(k)
  BY <1>7 DEF TypeInv, Close
<1>8. CASE Clear(k)
  BY <1>8 DEF TypeInv, Clear
<1> QED
  BY <1>1, <1>2, <1>3, <1>4, <1>5, <1>6, <1>7, <1>8 DEF Parser

LEMMA ParserExtractInv ==
  ASSUME TypeInv, NEW k \in Files, FileInv(k), Parser(k)
  PROVE  ExtractInv(k)'
<1> USE DEF FileInv, ParseInv, ExtractInv, Done, comVars, extVars, cmpVars, sharedVars, parVars, Goto
<1>1. CASE CannotOpen(k)
  BY <1>1 DEF TypeInv, CannotOpen
<1>2. CASE ReportMissing(k)
  BY <1>2 DEF TypeInv, ReportMissing
<1>3. CASE ParseRecord(k)
  <2> HIDE DEF comVars, extVars, cmpVars, sharedVars, parVars, Goto
  <2>1. /\ Len(content[k]) \in Nat /\ read[k] \in Nat /\ freed[k] \in Int
        /\ last[k] \in Nat /\ first[k] \in Nat /\ end[k] \in Nat
    BY AtFile
  <2>2. /\ pcP[k] \in {"open", "reading"} /\ read[k] # Len(content[k])
        /\ read'[k] = read[k] + 1
        /\ UNCHANGED << content, scope, freed, parsed, pcX, end, processed, errors, extracted >>
    BY <1>3, OneMoreRecord DEF Reading, AtEnd
  <2>3. CASE pcP'[k] = "free" /\ Transferred(k, read[k] + 1)
    <3>1. /\ last'[k] = read[k] + 1 /\ first'[k] = IF last[k] = 0 THEN 1 ELSE first[k]
          /\ last[k] <= read[k] /\ (first[k] = 0 <=> last[k] = 0)
          /\ ~parsed[k] /\ pcX'[k] = pcX[k] /\ end'[k] = end[k] /\ scope' = scope
          /\ extracted'[k] = extracted[k] /\ parsed'[k] = parsed[k] /\ processed'[k] = processed[k]
      BY <2>2, <2>3 DEF Transferred
    <3>2. /\ Done(k)' = Done(k) /\ InOrder(processed'[k])
          /\ ExtractInv(k)
      BY <2>1, <3>1
    <3> HIDE DEF ParseInv, FileInv, Done, InOrder
    <3> QED
      BY <2>1, <3>1, <3>2
  <2>4. CASE pcP'[k] = "reading" /\ SameList(k)
    BY <2>1, <2>2, <2>4 DEF SameList
  <2> QED
    BY <1>3, <2>3, <2>4, OneMoreRecord
<1>4. CASE SyntaxError(k)
  BY <1>4 DEF TypeInv, SyntaxError, Reading, AtEnd, ToldToStop
<1>5. CASE TransferLast(k)
  BY <1>5, AtFile, LastRecords DEF Reading, AtEnd, ToldToStop, Transferred
<1>6. CASE Free(k)
  BY <1>6, AtFile, FreeEffect
<1>7. CASE Close(k)
  BY <1>7 DEF TypeInv, Close
<1>8. CASE Clear(k)
  BY <1>8 DEF TypeInv, Clear
<1> QED
  BY <1>1, <1>2, <1>3, <1>4, <1>5, <1>6, <1>7, <1>8 DEF Parser

-----------------------------------------------------------------------------
(* The extraction thread keeps the invariant *)

\* Records i to j are processed, after those before i; all of them, unless one is
\* of a resource that is not defined.
LEMMA RecordsProcessed ==
  ASSUME TypeInv, NEW k \in Files, NEW i \in Nat, NEW j \in Int, i <= j + 1,
         InOrder(processed[k]), ProcessRecords(k, i, j),
         i = Done(k) + 1 \/ (i = 0 /\ j = -1)
  PROVE  /\ processed' \in [Files -> Seq(Nat)]
         /\ InOrder(processed'[k])
         /\ \A h \in Files : h # k => processed'[h] = processed[h]
         /\ Done(k) <= Len(processed'[k])
         /\ Undefined(k, i, j) = {} => Len(processed'[k]) = Done(k) + (j + 1 - i)
<1> DEFINE U == Undefined(k, i, j)
           n == IF U = {} THEN j + 1
                ELSE CHOOSE m \in U : \A l \in U : m <= l
<1>1. n \in Int /\ i <= n /\ (U = {} => n = j + 1)
  <2>1. CASE U = {}
    BY <2>1
  <2>2. CASE U # {}
    <3>1. U \subseteq i .. j /\ U \subseteq Nat
      BY DEF Undefined
    <3>2. \E m \in U : \A l \in U : m <= l
      BY <2>2, <3>1, FirstOf
    <3>3. n \in U
      BY <2>2, <3>2
    <3> QED
      BY <2>2, <3>1, <3>3
  <2> QED
    BY <2>1, <2>2
<1> DEFINE p == Done(k)
           q == n - i
<1>2. p \in Nat /\ q \in Nat
  BY <1>1 DEF TypeInv, Done
<1>3. q = 0 \/ i = p + 1
  <2>1. CASE i = 0 /\ j = -1
    BY <1>1, <2>1 DEF Undefined
  <2> QED
    BY <2>1
<1>4. processed' = [processed EXCEPT ![k] = @ \o [m \in 1 .. q |-> i + m - 1]]
  BY DEF ProcessRecords
<1>5. processed'[k] = [x \in 1 .. p + q |-> x]
  <2>1. processed'[k] = processed[k] \o [m \in 1 .. q |-> i + m - 1]
    BY <1>4 DEF TypeInv
  <2>2. processed[k] = [x \in 1 .. p |-> x]
    BY DEF InOrder, Done
  <2>3. [x \in 1 .. p |-> x] \o [m \in 1 .. q |-> i + m - 1] = [x \in 1 .. p + q |-> x]
    <3> HIDE DEF n, p, q
    <3> QED
      BY <1>2, <1>3, Extend
  <2> HIDE DEF n, p, q
  <2> QED
    BY <2>1, <2>2, <2>3
<1>6. p + q \in Nat
  BY <1>2
<1>7. processed'[k] \in Seq(Nat) /\ Len(processed'[k]) = p + q /\ InOrder(processed'[k])
  <2> HIDE DEF n, p, q
  <2> QED
    BY <1>5, <1>6, OrderedLength
<1>8. processed' \in [Files -> Seq(Nat)] /\ \A h \in Files : h # k => processed'[h] = processed[h]
  <2> HIDE DEF n, p, q
  <2> QED
    BY <1>4, <1>7 DEF TypeInv
<1>9. U = {} => p + q = Done(k) + (j + 1 - i)
  BY <1>1
<1>10. Done(k) <= p + q
  BY <1>2
<1> QED
  BY <1>7, <1>8, <1>9, <1>10

\* The records of a batch, or the last few, are those that come next.
LEMMA BatchProcessed ==
  ASSUME TypeInv, NEW k \in Files, FileInv(k), ProcessBatch(k)
  PROVE  /\ processed' \in [Files -> Seq(Nat)] /\ InOrder(processed'[k])
         /\ \A h \in Files : h # k => processed'[h] = processed[h]
         /\ Len(processed'[k]) = IF end[k] = 0 THEN 0 ELSE end[k] - 1
<1>1. /\ first[k] \in Nat /\ end[k] \in Nat /\ end[k] - 1 \in Int
      /\ first[k] <= end[k] - 1 + 1
      /\ Done(k) = IF first[k] = 0 THEN 0 ELSE first[k] - 1
      /\ first[k] = 0 => end[k] = 0
  BY AtFile DEF FileInv, ParseInv, ExtractInv, ProcessBatch
<1>2. first[k] = Done(k) + 1 \/ (first[k] = 0 /\ end[k] - 1 = -1)
  BY <1>1
<1>3. ProcessRecords(k, first[k], end[k] - 1) /\ Undefined(k, first[k], end[k] - 1) = {}
  BY DEF ProcessBatch
<1>4. InOrder(processed[k])
  BY DEF FileInv, ExtractInv
<1> DEFINE upto == end[k] - 1
<1>5. /\ processed' \in [Files -> Seq(Nat)] /\ InOrder(processed'[k])
      /\ \A h \in Files : h # k => processed'[h] = processed[h]
      /\ Len(processed'[k]) = Done(k) + (upto + 1 - first[k])
  <2> HIDE DEF upto
  <2> QED
    BY <1>1, <1>2, <1>3, <1>4, RecordsProcessed DEF upto
<1>6. Done(k) + (upto + 1 - first[k]) = IF end[k] = 0 THEN 0 ELSE end[k] - 1
  BY <1>1
<1> QED
  BY <1>5, <1>6

LEMMA RestProcessed ==
  ASSUME TypeInv, NEW k \in Files, FileInv(k), ProcessRest(k)
  PROVE  /\ processed' \in [Files -> Seq(Nat)] /\ InOrder(processed'[k])
         /\ \A h \in Files : h # k => processed'[h] = processed[h]
         /\ Len(processed'[k]) = end[k]
<1>1. /\ first[k] \in Nat /\ end[k] \in Int
      /\ first[k] <= end[k] + 1
      /\ first[k] = Done(k) + 1
  BY AtFile DEF FileInv, ParseInv, ExtractInv, ProcessRest
<1>2. ProcessRecords(k, first[k], end[k]) /\ Undefined(k, first[k], end[k]) = {}
  BY DEF ProcessRest
<1>3. InOrder(processed[k])
  BY DEF FileInv, ExtractInv
<1>4. Done(k) \in Nat
  BY DEF Done, TypeInv
<1>5. Len(processed'[k]) = Done(k) + (end[k] + 1 - first[k])
  BY <1>1, <1>2, <1>3, RecordsProcessed
<1>6. Len(processed'[k]) = end[k]
  BY <1>1, <1>4, <1>5
<1> QED
  BY <1>1, <1>2, <1>3, <1>6, RecordsProcessed

\* Up to the record that cannot be processed, in order, too.
LEMMA SomeProcessed ==
  ASSUME TypeInv, NEW k \in Files, FileInv(k), Throw(k)
  PROVE  /\ processed' \in [Files -> Seq(Nat)] /\ InOrder(processed'[k])
         /\ Done(k) <= Len(processed'[k])
         /\ \A h \in Files : h # k => processed'[h] = processed[h]
<1> DEFINE upto == IF pcX[k] = "batch" THEN end[k] - 1 ELSE end[k]
<1>1. /\ first[k] \in Nat /\ upto \in Int /\ first[k] <= upto + 1
      /\ first[k] = Done(k) + 1 \/ (first[k] = 0 /\ upto = -1)
  BY AtFile DEF FileInv, ParseInv, ExtractInv, Throw
<1>2. ProcessRecords(k, first[k], upto) /\ InOrder(processed[k])
  BY DEF FileInv, ExtractInv, Throw
<1> HIDE DEF upto
<1> QED
  BY <1>1, <1>2, RecordsProcessed

\* What a look at the flags of the parsing thread changes.
LEMMA PollFlagsEffect ==
  ASSUME TypeInv, NEW k \in Files, PollFlags(k)
  PROVE  /\ pcX' \in [Files -> ExtractorStates] /\ end' \in [Files -> Nat]
         /\ extracted' \in [Files -> BOOLEAN]
         /\ UNCHANGED << comVars, parVars, processed, errors, first >>
<1>1. last[k] \in Nat
  BY DEF TypeInv
<1>2. pcX' \in [Files -> ExtractorStates]
  <2>1. \E next \in ExtractorStates : pcX' = [pcX EXCEPT ![k] = next]
    BY DEF PollFlags, Goto, ExtractorStates
  <2>2. pcX \in [Files -> ExtractorStates]
    BY DEF TypeInv
  <2> QED
    BY <2>1, <2>2
<1>3. end' \in [Files -> Nat]
  BY <1>1 DEF TypeInv, PollFlags, LoadBounds
<1>4. extracted' \in [Files -> BOOLEAN]
  BY DEF TypeInv, PollFlags, SetExtracted
<1>5. UNCHANGED << comVars, parVars, processed, errors, first >>
  BY DEF PollFlags, ExtFrame
<1> QED
  BY <1>2, <1>3, <1>4, <1>5

LEMMA ExtractorTypes ==
  ASSUME TypeInv, NEW k \in Files, FileInv(k), Extractor(k)
  PROVE  TypeInv'
<1> USE DEF TypeInv, ExtractorStates, ExtFrame, comVars, parVars, cmpVars, Goto
<1>1. CASE SeeBatch(k)
  BY <1>1 DEF SeeBatch, LoadBounds
<1>2. CASE SeeParsed(k)
  BY <1>2 DEF SeeParsed, LoadBounds, SetExtracted
<1>3. CASE ProcessBatch(k)
  BY <1>3, BatchProcessed DEF ProcessBatch, SetExtracted
<1>4. CASE ProcessRest(k)
  BY <1>4, RestProcessed DEF ProcessRest
<1>5. CASE Throw(k)
  BY <1>5, SomeProcessed DEF Throw, SetExtracted
<1>6. CASE ReportThrow(k)
  BY <1>6 DEF ReportThrow
<1>7. CASE ReadDeleted(k)
  BY <1>7 DEF ReadDeleted, extVars, sharedVars
<1>8. CASE StoreVector(k)
  BY <1>8 DEF StoreVector
<1>9. CASE FindSlotFull(k)
  BY <1>9 DEF FindSlotFull
<1>10. CASE RetrySlot(k)
  BY <1>10 DEF RetrySlot
<1>11. CASE Poll(k)
  <2>1. \E next \in ExtractorStates : pcX' = [pcX EXCEPT ![k] = next]
    BY <1>11 DEF Poll
  <2>2. end' \in [Files -> Nat]
    <3>1. \E n \in Nat : end' = [end EXCEPT ![k] = n]
      BY <1>11 DEF Poll, LoadBounds
    <3>2. end \in [Files -> Nat]
      OBVIOUS
    <3> HIDE DEF TypeInv
    <3> QED
      BY <3>1, <3>2
  <2>3. UNCHANGED << comVars, parVars, last, terminate, processed, errors, first, extracted >>
    BY <1>11 DEF Poll
  <2> HIDE DEF ExtractorStates
  <2> QED
    BY <2>1, <2>2, <2>3
<1>12. CASE PollFlags(k)
  <2> HIDE DEF ExtractorStates, ExtFrame, Goto
  <2> QED
    BY <1>12, PollFlagsEffect DEF PollFlags, ExtFrame
<1>13. CASE Finish(k)
  BY <1>13 DEF Finish, SetExtracted
<1> QED
  BY <1>1, <1>2, <1>3, <1>4, <1>5, <1>6, <1>7, <1>8, <1>9, <1>10, <1>11, <1>12, <1>13 DEF Extractor

\* The thread of one file does not touch what belongs to the other.
LEMMA ExtractorOthers ==
  ASSUME TypeInv, NEW k \in Files, FileInv(k), Extractor(k), NEW j \in Files, j # k
  PROVE  Same(j)
<1> USE DEF TypeInv, Same, ExtFrame, comVars, parVars, cmpVars, Goto
<1>1. CASE SeeBatch(k)
  BY <1>1 DEF SeeBatch, LoadBounds
<1>2. CASE SeeParsed(k)
  BY <1>2 DEF SeeParsed, LoadBounds, SetExtracted
<1>3. CASE ProcessBatch(k)
  BY <1>3, BatchProcessed DEF ProcessBatch, SetExtracted
<1>4. CASE ProcessRest(k)
  BY <1>4, RestProcessed DEF ProcessRest
<1>5. CASE Throw(k)
  BY <1>5, SomeProcessed DEF Throw, SetExtracted
<1>6. CASE ReportThrow(k)
  BY <1>6 DEF ReportThrow
<1>7. CASE ReadDeleted(k)
  BY <1>7 DEF ReadDeleted, extVars, sharedVars
<1>8. CASE StoreVector(k)
  BY <1>8 DEF StoreVector
<1>9. CASE FindSlotFull(k)
  BY <1>9 DEF FindSlotFull
<1>10. CASE RetrySlot(k)
  BY <1>10 DEF RetrySlot
<1>11. CASE Poll(k)
  BY <1>11 DEF Poll, LoadBounds
<1>12. CASE PollFlags(k)
  BY <1>12 DEF PollFlags, LoadBounds, SetExtracted
<1>13. CASE Finish(k)
  BY <1>13 DEF Finish, SetExtracted
<1> QED
  BY <1>1, <1>2, <1>3, <1>4, <1>5, <1>6, <1>7, <1>8, <1>9, <1>10, <1>11, <1>12, <1>13 DEF Extractor

LEMMA ExtractorParseInv ==
  ASSUME TypeInv, NEW k \in Files, FileInv(k), Extractor(k)
  PROVE  ParseInv(k)'
<1> USE DEF TypeInv, FileInv, ParseInv, ExtractInv, ExtFrame, comVars, parVars, cmpVars, Goto
<1>1. CASE SeeBatch(k)
  BY <1>1, AtFile DEF SeeBatch, LoadBounds
<1>2. CASE SeeParsed(k)
  BY <1>2, AtFile DEF SeeParsed, LoadBounds, SetExtracted
<1>3. CASE ProcessBatch(k)
  <2>1. /\ first'[k] = end[k] /\ first[k] <= end[k] /\ end[k] <= last[k]
        /\ extracted[k] => extracted'[k]
    BY <1>3 DEF ProcessBatch, SetExtracted
  <2>2. UNCHANGED << content, scope, pcP, read, listed, freed, parsed, last, errors >>
    BY <1>3 DEF ProcessBatch
  <2> QED
    BY <2>1, <2>2, AtFile
<1>4. CASE ProcessRest(k)
  BY <1>4, RestProcessed, AtFile DEF ProcessRest
<1>5. CASE Throw(k)
  BY <1>5, SomeProcessed, AtFile DEF Throw, SetExtracted
<1>6. CASE ReportThrow(k)
  BY <1>6, AtFile DEF ReportThrow
<1>7. CASE ReadDeleted(k)
  BY <1>7, AtFile DEF ReadDeleted, extVars, sharedVars
<1>8. CASE StoreVector(k)
  BY <1>8, AtFile DEF StoreVector
<1>9. CASE FindSlotFull(k)
  BY <1>9, AtFile DEF FindSlotFull
<1>10. CASE RetrySlot(k)
  BY <1>10, AtFile DEF RetrySlot
<1>11. CASE Poll(k)
  BY <1>11, AtFile DEF Poll, LoadBounds
<1>12. CASE PollFlags(k)
  BY <1>12, AtFile DEF PollFlags, LoadBounds, SetExtracted
<1>13. CASE Finish(k)
  BY <1>13, AtFile DEF Finish, SetExtracted
<1> QED
  BY <1>1, <1>2, <1>3, <1>4, <1>5, <1>6, <1>7, <1>8, <1>9, <1>10, <1>11, <1>12, <1>13 DEF Extractor

LEMMA ExtractorExtractInv ==
  ASSUME TypeInv, TimeInv, NEW k \in Files, FileInv(k), Extractor(k)
  PROVE  ExtractInv(k)'
<1> USE DEF TypeInv, TimeInv, FileInv, ParseInv, ExtractInv, Done, ExtFrame, comVars, parVars, cmpVars, Goto
<1>1. CASE SeeBatch(k)
  BY <1>1, AtFile DEF SeeBatch, LoadBounds
<1>2. CASE SeeParsed(k)
  BY <1>2, AtFile DEF SeeParsed, LoadBounds, SetExtracted
<1>3. CASE ProcessBatch(k)
  BY <1>3, BatchProcessed, AtFile DEF ProcessBatch, SetExtracted
<1>4. CASE ProcessRest(k)
  BY <1>4, RestProcessed, AtFile DEF ProcessRest
<1>5. CASE Throw(k)
  BY <1>5, SomeProcessed, AtFile DEF Throw, SetExtracted
<1>6. CASE ReportThrow(k)
  BY <1>6, AtFile DEF ReportThrow
<1>7. CASE ReadDeleted(k)
  BY <1>7, AtFile DEF ReadDeleted, extVars, sharedVars
<1>8. CASE StoreVector(k)
  BY <1>8, AtFile DEF StoreVector
<1>9. CASE FindSlotFull(k)
  BY <1>9, AtFile DEF FindSlotFull
<1>10. CASE RetrySlot(k)
  BY <1>10, AtFile DEF RetrySlot
<1>11. CASE Poll(k)
  BY <1>11, AtFile DEF Poll, LoadBounds
<1>12. CASE PollFlags(k)
  <2>1. /\ pcX'[k] = IF errors THEN "end"
                      ELSE IF parsed[k] THEN IF first[k] = 0 THEN "lastVector" ELSE "tail"
                      ELSE "poll"
        /\ end'[k] = IF ~errors /\ parsed[k] THEN last[k] ELSE end[k]
        /\ extracted'[k] = IF errors THEN TRUE ELSE extracted[k]
        /\ scope' = scope /\ parsed'[k] = parsed[k] /\ processed'[k] = processed[k]
        /\ first'[k] = first[k] /\ last'[k] = last[k]
    BY <1>12 DEF PollFlags, LoadBounds, SetExtracted
  <2>2. /\ Len(processed[k]) \in Nat /\ first[k] \in Nat /\ last[k] \in Nat /\ pcX[k] = "pollFlags"
    BY <1>12, AtFile DEF PollFlags
  <2> HIDE DEF TypeInv, ExtFrame, comVars, parVars, cmpVars, Goto
  <2> QED
    BY <2>1, <2>2
<1>13. CASE Finish(k)
  BY <1>13, AtFile DEF Finish, SetExtracted
<1> QED
  BY <1>1, <1>2, <1>3, <1>4, <1>5, <1>6, <1>7, <1>8, <1>9, <1>10, <1>11, <1>12, <1>13 DEF Extractor

-----------------------------------------------------------------------------
(* The other threads, and the theorems *)

\* The comparator and the timer leave alone what the invariant is about; a read of
\* deleted memory ends the program.
LEMMA OthersStep ==
  ASSUME TypeInv, Comparator \/ TimeUp
  PROVE  TypeInv' /\ \A k \in Files : Same(k)
<1> USE DEF CmpFrame, comVars, parVars, extVars
<1>1. CASE TimeUp
  BY <1>1 DEF TimeUp, TypeInv, Same, Files
<1>2. CASE TakeVectors
  BY <1>2 DEF TakeVectors, TypeInv, Same
<1>3. CASE GiveUp
  BY <1>3 DEF GiveUp, TypeInv, Same
<1>4. CASE CompareInitialStates
  BY <1>4 DEF CompareInitialStates, TypeInv, Same
<1>5. CASE GoOn
  BY <1>5 DEF GoOn, TypeInv, Same
<1>6. CASE StartHistories
  BY <1>6 DEF StartHistories, TypeInv, Same
<1>7. CASE StopScan
  BY <1>7 DEF StopScan, TypeInv, Same
<1>8. CASE ComparePair
  BY <1>8 DEF ComparePair, TypeInv, Same
<1> QED
  BY <1>1, <1>2, <1>3, <1>4, <1>5, <1>6, <1>7, <1>8 DEF Comparator

\* The flags that tell a thread to stop are set by the timer only.
LEMMA NextTimeInv == TimeInv /\ [Next]_vars => TimeInv'
<1> SUFFICES ASSUME TimeInv, [Next]_vars PROVE TimeInv'
  OBVIOUS
<1>1. ASSUME NEW k \in Files, Parser(k) PROVE UNCHANGED << scope, pcT, terminate >>
  BY <1>1 DEF Parser, CannotOpen, ReportMissing, ParseRecord, SyntaxError, TransferLast, Free,
              Close, Clear, comVars, sharedVars
<1>2. ASSUME NEW k \in Files, Extractor(k) PROVE UNCHANGED << scope, pcT, terminate >>
  BY <1>2 DEF Extractor, SeeBatch, SeeParsed, ProcessBatch, ProcessRest, Throw, ReportThrow,
              ReadDeleted, StoreVector, FindSlotFull, RetrySlot, Poll, PollFlags, Finish,
              ExtFrame, comVars, sharedVars
<1>3. ASSUME Comparator PROVE UNCHANGED << scope, pcT, terminate >>
  BY <1>3 DEF Comparator, TakeVectors, GiveUp, CompareInitialStates, GoOn, StartHistories,
              StopScan, ComparePair, CmpFrame, comVars
<1>4. CASE UNCHANGED << scope, pcT, terminate >>
  BY <1>4 DEF TimeInv
<1>5. CASE TimeUp
  BY <1>5 DEF TimeUp, TimeInv, comVars
<1>6. CASE UNCHANGED vars
  BY <1>6 DEF TimeInv, vars, comVars, sharedVars
<1> QED
  BY <1>1, <1>2, <1>3, <1>4, <1>5, <1>6 DEF Next, Terminated

LEMMA NextIInv == IInv /\ [Next]_vars => IInv'
<1> SUFFICES ASSUME IInv, [Next]_vars PROVE TypeInv' /\ \A k \in Files : FileInv(k)'
  BY NextTimeInv DEF IInv
<1> USE DEF IInv
<1>1. ASSUME NEW k \in Files, Parser(k) PROVE TypeInv' /\ \A j \in Files : FileInv(j)'
  <2>1. FileInv(k)'
    BY <1>1, ParserParseInv, ParserExtractInv DEF FileInv
  <2>2. ASSUME NEW j \in Files, j # k PROVE FileInv(j)'
    BY <1>1, <2>2, ParserOthers, SameKeeps
  <2> QED
    BY <1>1, <2>1, <2>2, ParserTypes
<1>2. ASSUME NEW k \in Files, Extractor(k) PROVE TypeInv' /\ \A j \in Files : FileInv(j)'
  <2>1. FileInv(k)'
    BY <1>2, ExtractorParseInv, ExtractorExtractInv DEF FileInv
  <2>2. ASSUME NEW j \in Files, j # k PROVE FileInv(j)'
    BY <1>2, <2>2, ExtractorOthers, SameKeeps
  <2> QED
    BY <1>2, <2>1, <2>2, ExtractorTypes
<1>3. CASE Comparator \/ TimeUp
  BY <1>3, OthersStep, SameKeeps
<1>4. CASE UNCHANGED vars
  <2>1. TypeInv' /\ \A k \in Files : Same(k)
    BY <1>4 DEF vars, comVars, parVars, extVars, sharedVars, TypeInv, Same
  <2> QED
    BY <2>1, SameKeeps
<1> QED
  BY <1>1, <1>2, <1>3, <1>4 DEF Next, Terminated

\* The extraction thread processes the records of its file in order, each of them
\* once, and without an error or a time limit all of them.
THEOREM RecordsAreProcessedOnce == Spec => []EveryRecordOnce
<1>1. ASSUME IInv, NEW k \in Files
      PROVE  /\ processed[k] = [i \in 1 .. Len(processed[k]) |-> i]
             /\ pcX[k] = "finish" /\ scope = "all" => errors \/ Len(processed[k]) = Len(content[k])
  BY <1>1 DEF IInv, FileInv, ParseInv, ExtractInv, InOrder, Done
<1>2. IInv => EveryRecordOnce
  BY <1>1 DEF EveryRecordOnce
<1> QED
  BY <1>2, InitIInv, NextIInv, PTL DEF Spec

\* The parsing thread deletes no record that the extraction thread is going to
\* read, however the batches of the one and the steps of the other fall.
THEOREM NoRecordIsReadAfterDeletion == Spec => []AccessesLive
<1>1. ASSUME IInv, scope = "all", NEW k \in Files
      PROVE  /\ \A i \in ToRead(k) : freed[k] < i /\ i <= listed[k]
             /\ pcX[k] \notin {"finish", "report", "end"} /\ first[k] # 0 => freed[k] < first[k]
  <2> USE <1>1, AtFile DEF IInv, FileInv, ParseInv, ExtractInv
  <2>1. first[k] # 0 /\ pcX[k] \notin {"report", "end"} => freed[k] < first[k]
    OBVIOUS
  <2>2. CASE pcX[k] = "batch"
    BY <2>1, <2>2 DEF ToRead
  <2>3. CASE pcX[k] = "tail"
    BY <2>1, <2>3 DEF ToRead
  <2>4. CASE pcX[k] \notin {"batch", "tail"}
    BY <2>1, <2>4 DEF ToRead
  <2> QED
    BY <2>2, <2>3, <2>4
<1>2. IInv => AccessesLive
  BY <1>1 DEF AccessesLive
<1> QED
  BY <1>2, InitIInv, NextIInv, PTL DEF Spec

-----------------------------------------------------------------------------
(* Histories *)

\* The records that set resource r among the first p of file k, and the history
\* they make up.
Matching(k, r, p) == {i \in 1 .. p : Matches(k, r, i)}
Nodes(k, r, p) == Selection([i \in 1 .. p |-> i], Matching(k, r, p))

\* A history lists the records that set the resource in their order.
LEMMA NodesFacts ==
  ASSUME NEW k, NEW r, NEW p \in Nat
  PROVE  /\ Len(Nodes(k, r, p)) \in Nat
         /\ Len(Nodes(k, r, p)) = Cardinality(Matching(k, r, p))
         /\ \A n \in 1 .. Len(Nodes(k, r, p)) : Nodes(k, r, p)[n] \in Matching(k, r, p)
         /\ \A m, n \in 1 .. Len(Nodes(k, r, p)) :
              m < n => Nodes(k, r, p)[m] < Nodes(k, r, p)[n]
         /\ \A i \in Matching(k, r, p) :
              \E n \in 1 .. Len(Nodes(k, r, p)) : Nodes(k, r, p)[n] = i
<1> DEFINE S == Matching(k, r, p)
           v == [i \in 1 .. p |-> i]
           s == Selection(v, S)
           c == Cardinality(S)
<1>1. S \subseteq 1 .. p
  BY DEF Matching
<1>2. /\ c \in Nat
      /\ \A i \in S : Cardinality(UpTo(S, i)) \in 1 .. c
  BY <1>1, Ranks
<1>3. /\ \A n \in 1 .. c : \E i \in S : Cardinality(UpTo(S, i)) = n /\ s[n] = v[i]
      /\ \A i \in S : s[Cardinality(UpTo(S, i))] = v[i]
      /\ DOMAIN s = 1 .. c
  <2> HIDE DEF S, v
  <2> QED
    BY <1>1, Selected
<1>4. \A i \in S : v[i] = i
  BY <1>1
<1>5. \A m, n \in 1 .. c : m < n => s[m] < s[n]
  <2>1. KeepsOrder(v, S)
    <3> HIDE DEF S, v
    <3> QED
      BY <1>1, SelectedOrder
  <2> HIDE DEF S, v
  <2> QED
    BY <1>4, <2>1 DEF KeepsOrder
<1> HIDE DEF S, v
<1>6. \A n \in 1 .. c : s[n] \in S
  BY <1>3, <1>4
<1>7. Len(s) = c
  <2>1. s \in [1 .. c -> Nat]
    <3>1. s = [n \in 1 .. c |-> s[n]]
      BY DEF Selection
    <3> HIDE DEF s
    <3> QED
      BY <1>1, <1>6, <3>1
  <2> HIDE DEF s, c
  <2> QED
    BY <1>2, <2>1
<1>8. \A i \in S : \E n \in 1 .. c : s[n] = i
  BY <1>2, <1>3, <1>4
<1>9. s = Nodes(k, r, p)
  BY DEF Nodes, S, v
<1> HIDE DEF s, c
<1> QED
  BY <1>2, <1>5, <1>6, <1>7, <1>8, <1>9 DEF S, c

\* A history grows at its end.
LEMMA NodesGrow ==
  ASSUME NEW k, NEW r, NEW p \in Nat, NEW q \in Nat, p <= q
  PROVE  /\ Len(Nodes(k, r, p)) <= Len(Nodes(k, r, q))
         /\ \A n \in 1 .. Len(Nodes(k, r, p)) : Nodes(k, r, p)[n] = Nodes(k, r, q)[n]
<1> DEFINE S == Matching(k, r, p)
           T == Matching(k, r, q)
           v == [i \in 1 .. p |-> i]
           w == [i \in 1 .. q |-> i]
<1>1. T \subseteq 1 .. q /\ S \subseteq T
  BY DEF Matching
<1>2. \A i \in S : UpTo(S, i) = UpTo(T, i)
  BY DEF Matching, UpTo
<1>3. \A i \in S : v[i] = w[i] /\ UpTo(S, i) = UpTo(T, i)
  BY <1>2 DEF Matching
<1>4. BeginsLike(v, S, w, T)
  <2> HIDE DEF S, T, v, w
  <2> QED
    BY <1>1, <1>3, SelectedPrefix
<1>5. Len(Nodes(k, r, p)) = Cardinality(S) /\ Len(Nodes(k, r, q)) = Cardinality(T)
  BY NodesFacts
<1> QED
  BY <1>4, <1>5 DEF Nodes, BeginsLike

\* The histories of the model are these.
LEMMA HistoryOf ==
  ASSUME NEW p \in Nat, NEW k, NEW r
  PROVE  HistoryIn([i \in 1 .. p |-> i], k, r) = Nodes(k, r, p)
<1> DEFINE s == [i \in 1 .. p |-> i]
<1>1. {n \in DOMAIN s : Matches(k, r, s[n])} = Matching(k, r, p)
  BY DEF Matching
<1> QED
  BY <1>1 DEF HistoryIn, Nodes

LEMMA HistoryIsNodes ==
  ASSUME TypeInv, NEW k \in Files, InOrder(processed[k])
  PROVE  Done(k) \in Nat /\ \A r \in Resources : History(k, r) = Nodes(k, r, Done(k))
<1>1. Done(k) \in Nat /\ processed[k] = [i \in 1 .. Done(k) |-> i]
  BY DEF TypeInv, Done, InOrder
<1>2. ASSUME NEW r \in Resources PROVE History(k, r) = Nodes(k, r, Done(k))
  <2>1. HistoryIn([i \in 1 .. Done(k) |-> i], k, r) = Nodes(k, r, Done(k))
    BY <1>1, HistoryOf
  <2> QED
    BY <1>1, <2>1 DEF History
<1> QED
  BY <1>1, <1>2

LEMMA FileHistoryIsNodes ==
  ASSUME TypeInv, NEW k \in Files
  PROVE  /\ Len(content[k]) \in Nat
         /\ \A r \in Resources : FileHistory(k, r) = Nodes(k, r, Len(content[k]))
<1>1. Len(content[k]) \in Nat
  BY DEF TypeInv
<1> QED
  BY <1>1, HistoryOf DEF FileHistory, AllRecords

\* A step that processes more records leaves the beginning of the histories.
HistoriesGrow(k) ==
  \A r \in Resources :
    /\ Len(History(k, r)) \in Nat /\ Len(History(k, r))' \in Nat
    /\ Len(History(k, r)) <= Len(History(k, r))'
    /\ \A n \in 1 .. Len(History(k, r)) : History(k, r)[n] = (History(k, r)')[n]

LEMMA MoreIsProcessed ==
  ASSUME TypeInv, TypeInv', NEW k \in Files, InOrder(processed[k]), InOrder(processed'[k]),
         content' = content, Len(processed[k]) <= Len(processed'[k])
  PROVE  HistoriesGrow(k)
<1> DEFINE p == Len(processed[k])
           q == Len(processed'[k])
<1>1. p \in Nat /\ q \in Nat /\ p <= q
  BY DEF TypeInv
<1>2. processed[k] = [i \in 1 .. p |-> i] /\ processed'[k] = [i \in 1 .. q |-> i]
  BY DEF InOrder
<1> SUFFICES ASSUME NEW r \in Resources
             PROVE  /\ Len(History(k, r)) \in Nat /\ Len(History(k, r))' \in Nat
                    /\ Len(History(k, r)) <= Len(History(k, r))'
                    /\ \A n \in 1 .. Len(History(k, r)) :
                         History(k, r)[n] = (History(k, r)')[n]
  BY DEF HistoriesGrow
<1>3. History(k, r) = Nodes(k, r, p)
  <2> HIDE DEF p, q
  <2> QED
    BY <1>1, <1>2, HistoryOf DEF History
<1>4. History(k, r)' = Nodes(k, r, q)
  <2>1. History(k, r)' = HistoryIn(processed'[k], k, r)
    BY DEF History, HistoryIn, Matches
  <2> HIDE DEF p, q
  <2> QED
    BY <1>1, <1>2, <2>1, HistoryOf
<1>5. Len(Nodes(k, r, p)) \in Nat /\ Len(Nodes(k, r, q)) \in Nat
  <2> HIDE DEF p, q
  <2> QED
    BY <1>1, NodesFacts
<1>6. /\ Len(Nodes(k, r, p)) <= Len(Nodes(k, r, q))
      /\ \A n \in 1 .. Len(Nodes(k, r, p)) : Nodes(k, r, p)[n] = Nodes(k, r, q)[n]
  <2> HIDE DEF p, q
  <2> QED
    BY <1>1, NodesGrow
<1> HIDE DEF p, q
<1> QED
  BY <1>3, <1>4, <1>5, <1>6

-----------------------------------------------------------------------------
(* The comparator reads what is settled *)

\* A vector of safe nodes points into the histories.
PointsInto(v, k) ==
  v # NoVector => /\ v.last \in [Resources -> Nat]
                  /\ \A r \in Resources : v.last[r] <= Len(History(k, r))

\* The vector in the slot is later than the one the comparator has seen.
VectorsInv(k) ==
  /\ PointsInto(slot[k], k) /\ PointsInto(seen[k], k)
  /\ slot[k] # NoVector /\ seen[k] # NoVector =>
       \A r \in Resources : seen[k].last[r] <= slot[k].last[r]

CursorTypes == DOMAIN slot = Files /\ cursor \in [Resources -> [Files -> Nat]] /\ scan \in Resources

\* While a file is being extracted, the comparator's place in a history, the first
\* node apart, is not beyond the safe one.
SettleInv ==
  /\ CursorTypes
  /\ \A k \in Files : VectorsInv(k)
  /\ complete => AllExtracted
  /\ pcC \in {"start", "scan"} => ~fresh
  /\ ~fresh => \A k \in Files : seen[k] # NoVector
  /\ ~complete => \A k \in Files, r \in Resources :
       cursor[r][k] <= 1 \/ (seen[k] # NoVector /\ cursor[r][k] <= seen[k].last[r])
  /\ pcC = "scan" => \A k \in Files, r \in Resources : seen[k].last[r] > 0

\* A step of a thread other than the comparator: more may be extracted, and the
\* result put in the slot.
OtherStep ==
  /\ content' = content
  /\ \A k \in Files : /\ Len(processed[k]) <= Len(processed'[k])
                      /\ extracted[k] => extracted'[k]
                      /\ \/ slot'[k] = slot[k]
                         \/ slot'[k] = SafeVector(k) /\ processed'[k] = processed[k]
  /\ DOMAIN slot' = DOMAIN slot
  /\ UNCHANGED << seen, closing, fresh, complete, scan, cursor, diffs >>
  /\ pcC' \in {pcC, "crashed"}

LEMMA InitSettleInv == Init => SettleInv
<1> SUFFICES ASSUME Init PROVE SettleInv
  OBVIOUS
<1>1. CursorTypes
  BY ResAssumption DEF Init, CursorTypes, Resources
<1>2. \A k \in Files : VectorsInv(k)
  BY DEF Init, VectorsInv, PointsInto
<1> QED
  BY <1>1, <1>2 DEF Init, SettleInv

LEMMA VectorsOther ==
  ASSUME IInv, IInv', OtherStep, NEW k \in Files, VectorsInv(k)
  PROVE  VectorsInv(k)'
<1>1. HistoriesGrow(k)
  BY MoreIsProcessed DEF OtherStep, IInv, FileInv, ExtractInv
<1>2. ASSUME NEW v, PointsInto(v, k) PROVE PointsInto(v, k)'
  BY <1>1, <1>2 DEF PointsInto, HistoriesGrow
<1>3. seen'[k] = seen[k]
  BY DEF OtherStep
<1>4. PointsInto(seen[k], k)'
  BY <1>2, <1>3 DEF VectorsInv, PointsInto
<1>5. CASE slot'[k] = slot[k]
  BY <1>2, <1>3, <1>4, <1>5 DEF VectorsInv, PointsInto
<1>6. CASE slot'[k] = SafeVector(k) /\ processed'[k] = processed[k]
  <2>1. \A r \in Resources : Len(History(k, r))' = Len(History(k, r)) /\ Len(History(k, r)) \in Nat
    BY <1>1, <1>6 DEF HistoriesGrow, History, HistoryIn, Matches, OtherStep
  <2>2. /\ slot'[k].last \in [Resources -> Nat]
        /\ \A r \in Resources : slot'[k].last[r] = Len(History(k, r))'
    BY <1>6, <2>1 DEF SafeVector
  <2> QED
    BY <1>3, <1>4, <2>1, <2>2 DEF VectorsInv, PointsInto
<1> QED
  BY <1>5, <1>6 DEF OtherStep

LEMMA OtherSettles ==
  ASSUME IInv, IInv', OtherStep, SettleInv
  PROVE  SettleInv'
<1>1. \A k \in Files : VectorsInv(k)'
  BY VectorsOther DEF SettleInv
<1>2. CursorTypes'
  BY DEF SettleInv, CursorTypes, OtherStep
<1>3. AllExtracted => AllExtracted'
  BY DEF AllExtracted, OtherStep
<1> QED
  BY <1>1, <1>2, <1>3 DEF SettleInv, OtherStep

\* The steps of the parsing and extraction threads and of the timer are such steps.
LEMMA ParserIsOther == ASSUME IInv, NEW k \in Files, Parser(k) PROVE OtherStep
<1>1. UNCHANGED << content, extVars, cmpVars, slot, extracted >>
  BY DEF Parser, CannotOpen, ReportMissing, ParseRecord, SyntaxError, TransferLast, Free,
         Close, Clear, comVars, sharedVars
<1>2. \A j \in Files : Len(processed[j]) \in Nat
  BY DEF IInv, TypeInv
<1> QED
  BY <1>1, <1>2 DEF OtherStep, extVars, cmpVars

\* What an extraction step does to the histories, the slot and the flag.
LEMMA ExtractorIsOther == ASSUME IInv, NEW k \in Files, Extractor(k), DOMAIN slot = Files PROVE OtherStep
<1> USE DEF IInv
<1>1. \A j \in Files : Len(processed[j]) \in Nat
  BY DEF TypeInv
<1>2. content' = content
  BY DEF Extractor, SeeBatch, SeeParsed, ProcessBatch, ProcessRest, Throw, ReportThrow,
         ReadDeleted, StoreVector, FindSlotFull, RetrySlot, Poll, PollFlags, Finish, ExtFrame,
         comVars
<1>3. /\ UNCHANGED << seen, closing, fresh, complete, scan, cursor, diffs >>
      /\ pcC' \in {pcC, "crashed"}
  BY DEF Extractor, SeeBatch, SeeParsed, ProcessBatch, ProcessRest, Throw, ReportThrow,
         ReadDeleted, StoreVector, FindSlotFull, RetrySlot, Poll, PollFlags, Finish, ExtFrame,
         cmpVars
<1>4. \A j \in Files : extracted[j] => extracted'[j]
  BY DEF Extractor, SeeBatch, SeeParsed, ProcessBatch, ProcessRest, Throw, ReportThrow,
         ReadDeleted, StoreVector, FindSlotFull, RetrySlot, Poll, PollFlags, Finish, SetExtracted,
         TypeInv, sharedVars
<1>5. CASE ProcessBatch(k) \/ ProcessRest(k) \/ Throw(k)
  <2>1. slot' = slot
    BY <1>5 DEF ProcessBatch, ProcessRest, Throw
  <2>2. Len(processed[k]) <= Len(processed'[k])
    <3>1. CASE ProcessBatch(k)
      <4>1. Len(processed'[k]) = IF end[k] = 0 THEN 0 ELSE end[k] - 1
        BY <3>1, BatchProcessed
      <4>2. /\ Len(processed[k]) = IF first[k] = 0 THEN 0 ELSE first[k] - 1
            /\ first[k] <= end[k]
            /\ first[k] = 0 => end[k] = 0
        BY <3>1, AtFile DEF FileInv, ParseInv, ExtractInv, ProcessBatch, Done
      <4> QED
        BY <4>1, <4>2, AtFile
    <3>2. CASE ProcessRest(k)
      <4>1. Len(processed'[k]) = end[k]
        BY <3>2, RestProcessed
      <4>2. Len(processed[k]) = first[k] - 1 /\ first[k] <= end[k]
        BY <3>2, AtFile DEF FileInv, ParseInv, ExtractInv, ProcessRest, Done
      <4> QED
        BY <4>1, <4>2, AtFile
    <3>3. CASE Throw(k)
      BY <3>3, SomeProcessed DEF Done
    <3> QED
      BY <1>5, <3>1, <3>2, <3>3
  <2>3. \A h \in Files : h # k => processed'[h] = processed[h]
    BY <1>5, BatchProcessed, RestProcessed, SomeProcessed
  <2> QED
    BY <1>1, <1>2, <1>3, <1>4, <2>1, <2>2, <2>3 DEF OtherStep
<1>6. CASE StoreVector(k)
  <2>1. slot' = [slot EXCEPT ![k] = SafeVector(k)] /\ processed' = processed
    BY <1>6 DEF StoreVector
  <2> QED
    BY <1>1, <1>2, <1>3, <1>4, <2>1 DEF OtherStep
<1>7. CASE ~(ProcessBatch(k) \/ ProcessRest(k) \/ Throw(k) \/ StoreVector(k))
  <2>1. UNCHANGED << slot, processed >>
    BY <1>7 DEF Extractor, SeeBatch, SeeParsed, ReportThrow, ReadDeleted, FindSlotFull, RetrySlot,
                Poll, PollFlags, Finish, sharedVars, extVars
  <2> QED
    BY <1>1, <1>2, <1>3, <1>4, <2>1 DEF OtherStep
<1> QED
  BY <1>5, <1>6, <1>7

LEMMA RestIsOther == ASSUME IInv, TimeUp \/ UNCHANGED vars PROVE OtherStep
<1>1. \A j \in Files : Len(processed[j]) \in Nat
  BY DEF IInv, TypeInv
<1>2. UNCHANGED << content, extVars, cmpVars, slot, extracted >>
  BY DEF TimeUp, vars, comVars, sharedVars
<1> QED
  BY <1>1, <1>2 DEF OtherStep, extVars, cmpVars

\* What a step of the comparator leaves alone.
LEMMA ComparatorFrame ==
  ASSUME Comparator
  PROVE  /\ UNCHANGED << content, scope, processed, stamp, extracted >>
         /\ (AllExtracted' <=> AllExtracted)
         /\ \A k \in Files, r \in Resources : History(k, r)' = History(k, r)
<1>1. UNCHANGED << content, scope, processed, stamp, extracted >>
  BY DEF Comparator, TakeVectors, GiveUp, CompareInitialStates, GoOn, StartHistories,
         StopScan, ComparePair, CmpFrame, comVars, extVars
<1> QED
  BY <1>1 DEF AllExtracted, History, HistoryIn, Matches

LEMMA SameVectors ==
  ASSUME Comparator, NEW k \in Files, VectorsInv(k), slot'[k] = slot[k], seen'[k] = seen[k]
  PROVE  VectorsInv(k)'
BY ComparatorFrame DEF VectorsInv, PointsInto

LEMMA TakeSettles == ASSUME SettleInv, TakeVectors PROVE SettleInv'
<1>1. \A k \in Files : slot'[k] = NoVector /\ seen'[k] = LatestSeen[k]
  BY DEF TakeVectors
<1>2. \A k \in Files : LatestSeen[k] = IF slot[k] # NoVector THEN slot[k] ELSE seen[k]
  BY DEF LatestSeen
<1>3. Comparator
  BY DEF Comparator
<1>4. \A k \in Files : VectorsInv(k)'
  BY <1>1, <1>2, <1>3, ComparatorFrame DEF SettleInv, VectorsInv, PointsInto
<1>5. /\ UNCHANGED << fresh, complete, scan, cursor >> /\ pcC' \in {"decide", "poll"}
      /\ DOMAIN slot' = Files
  BY DEF TakeVectors
<1>6. CursorTypes'
  BY <1>5 DEF SettleInv, CursorTypes
<1>7. ~fresh => \A k \in Files : seen'[k] # NoVector
  BY <1>1, <1>2 DEF SettleInv
<1>8. ASSUME ~complete, NEW k \in Files, NEW r \in Resources
      PROVE  cursor[r][k] <= 1 \/ (seen'[k] # NoVector /\ cursor[r][k] <= seen'[k].last[r])
  <2>1. CASE cursor[r][k] <= 1
    BY <2>1
  <2>2. CASE seen[k] # NoVector /\ cursor[r][k] <= seen[k].last[r]
    <3>1. cursor[r][k] \in Nat /\ seen[k].last \in [Resources -> Nat]
      BY <2>2 DEF SettleInv, CursorTypes, VectorsInv, PointsInto
    <3>2. CASE slot[k] # NoVector
      BY <1>1, <1>2, <2>2, <3>1, <3>2 DEF SettleInv, VectorsInv, PointsInto
    <3>3. CASE slot[k] = NoVector
      BY <1>1, <1>2, <2>2, <3>3
    <3> QED
      BY <3>2, <3>3
  <2> QED
    BY <1>8, <2>1, <2>2 DEF SettleInv
<1>9. complete => AllExtracted'
  BY <1>3, ComparatorFrame DEF SettleInv
<1> QED
  BY <1>4, <1>5, <1>6, <1>7, <1>8, <1>9 DEF SettleInv

\* Before the first comparison the places are at the first nodes.
LEMMA InitialStatesSettle == ASSUME SettleInv, CompareInitialStates PROVE SettleInv'
<1>1. Comparator
  BY DEF Comparator
<1>2. UNCHANGED << seen, complete, scan, slot >> /\ \A k \in Files : seen[k] # NoVector
  BY DEF CompareInitialStates, AssertionFails
<1>3. /\ cursor' \in [Resources -> [Files -> Nat]] /\ pcC' # "scan" /\ ~fresh'
      /\ cursor' = cursor \/ \A r \in Resources, k \in Files : cursor'[r][k] = 1
  BY DEF CompareInitialStates, SettleInv, CursorTypes
<1>4. \A k \in Files : VectorsInv(k)'
  BY <1>1, <1>2, SameVectors DEF SettleInv
<1>5. complete => AllExtracted'
  BY <1>1, ComparatorFrame DEF SettleInv
<1>6. CursorTypes'
  BY <1>2, <1>3 DEF SettleInv, CursorTypes
<1>7. ~complete => \A k \in Files, r \in Resources :
        cursor'[r][k] <= 1 \/ (seen[k] # NoVector /\ cursor'[r][k] <= seen[k].last[r])
  BY <1>3 DEF SettleInv
<1> QED
  BY <1>2, <1>3, <1>4, <1>5, <1>6, <1>7 DEF SettleInv

\* The place in a history goes on one node at a time, and stops at the safe one.
LEMMA PairSettles == ASSUME SettleInv, ComparePair PROVE SettleInv'
<1>1. Comparator
  BY DEF Comparator
<1>2. /\ UNCHANGED << seen, complete, fresh, slot >> /\ pcC = "scan" /\ ~Unsettled(scan)
      /\ pcC' \in {"scan", "end", "poll"} /\ scan \in Resources
  BY DEF ComparePair, NextResource, SettleInv, CursorTypes
<1>3. \A k \in Files : VectorsInv(k)'
  BY <1>1, <1>2, SameVectors DEF SettleInv
<1>4. complete => AllExtracted'
  BY <1>1, ComparatorFrame DEF SettleInv
<1>5. scan' \in Resources
  BY <1>2, ResAssumption DEF ComparePair, NextResource, Resources
<1>6. \A k \in Files : cursor[scan][k] \in Nat
  BY <1>2 DEF SettleInv, CursorTypes
<1>7. /\ cursor' \in [Resources -> [Files -> Nat]]
      /\ \A r \in Resources, k \in Files :
           cursor'[r][k] = cursor[r][k] \/ (r = scan /\ cursor'[r][k] = cursor[r][k] + 1)
  BY <1>2, <1>6 DEF ComparePair, SettleInv, CursorTypes
<1>8. ASSUME ~complete, NEW k \in Files, NEW r \in Resources
      PROVE  cursor'[r][k] <= 1 \/ (seen[k] # NoVector /\ cursor'[r][k] <= seen[k].last[r])
  <2>1. seen[k] # NoVector /\ seen[k].last[r] \in Nat /\ seen[k].last[r] > 0
    BY <1>2 DEF SettleInv, VectorsInv, PointsInto
  <2>2. cursor[r][k] \in Nat /\ cursor[r][k] <= seen[k].last[r]
    BY <1>8, <2>1 DEF SettleInv, CursorTypes
  <2>3. r = scan => cursor[r][k] # seen[k].last[r]
    BY <1>2, <1>8 DEF Unsettled
  <2>4. cursor'[r][k] = cursor[r][k] \/ (r = scan /\ cursor'[r][k] = cursor[r][k] + 1)
    BY <1>7
  <2>5. cursor'[r][k] <= seen[k].last[r]
    BY <2>1, <2>2, <2>3, <2>4
  <2> QED
    BY <2>1, <2>5
<1> QED
  BY <1>2, <1>3, <1>4, <1>5, <1>7, <1>8 DEF SettleInv, CursorTypes

LEMMA ComparatorSettles == ASSUME SettleInv, Comparator PROVE SettleInv'
<1>1. CASE TakeVectors
  BY <1>1, TakeSettles
<1>2. CASE CompareInitialStates
  BY <1>2, InitialStatesSettle
<1>3. CASE ComparePair
  BY <1>3, PairSettles
<1>4. CASE GiveUp \/ GoOn \/ StartHistories \/ StopScan
  <2>1. UNCHANGED << seen, slot, fresh, cursor >>
    BY <1>4 DEF GiveUp, GoOn, StartHistories, StopScan
  <2>2. \A k \in Files : VectorsInv(k)'
    BY <2>1, SameVectors DEF SettleInv
  <2>3. CASE GiveUp \/ GoOn
    <3>1. /\ UNCHANGED << complete, scan >> /\ pcC' \in {"end", "aborted", "start"}
          /\ pcC' = "start" => ~fresh
      BY <2>3 DEF GiveUp, GoOn
    <3>2. complete => AllExtracted'
      BY ComparatorFrame DEF SettleInv
    <3>3. CursorTypes'
      BY <2>1, <3>1 DEF SettleInv, CursorTypes
    <3>4. pcC' # "scan" /\ (pcC' = "start" => ~fresh')
      BY <2>1, <3>1
    <3> QED
      BY <2>1, <2>2, <3>1, <3>2, <3>3, <3>4 DEF SettleInv
  <2>4. CASE StartHistories
    <3>1. /\ complete' = AllExtracted /\ scan' = 1 /\ pcC' \in {"scan", "aborted"} /\ ~fresh
          /\ pcC' = "scan" => \A k \in Files, r \in Resources : seen[k].last[r] > 0
      BY <2>4 DEF StartHistories, AssumptionsHold, SettleInv
    <3>2. 1 \in Resources
      BY ResAssumption DEF Resources
    <3>3. AllExtracted' <=> AllExtracted
      BY ComparatorFrame
    <3>4. ~complete' => ~complete
      BY <3>1 DEF SettleInv
    <3> QED
      BY <2>1, <2>2, <3>1, <3>2, <3>3, <3>4 DEF SettleInv, CursorTypes
  <2>5. CASE StopScan
    <3>1. UNCHANGED complete /\ pcC = "scan" /\ scan' \in Resources /\ pcC' \in {"scan", "end", "poll"}
      BY <2>5, ResAssumption DEF StopScan, NextResource, SettleInv, CursorTypes, Resources
    <3> QED
      BY <2>1, <2>2, <3>1, ComparatorFrame DEF SettleInv, CursorTypes
  <2> QED
    BY <1>4, <2>3, <2>4, <2>5
<1> QED
  BY <1>1, <1>2, <1>3, <1>4 DEF Comparator

LEMMA NextSettles == IInv /\ SettleInv /\ [Next]_vars => SettleInv'
<1> SUFFICES ASSUME IInv, SettleInv, [Next]_vars PROVE SettleInv'
  OBVIOUS
<1>1. IInv'
  BY NextIInv
<1>2. CASE Comparator
  BY <1>2, ComparatorSettles
<1>3. ASSUME NEW k \in Files, Parser(k) PROVE SettleInv'
  BY <1>1, <1>3, ParserIsOther, OtherSettles
<1>4. ASSUME NEW k \in Files, Extractor(k) PROVE SettleInv'
  <2>1. DOMAIN slot = Files
    BY DEF SettleInv, CursorTypes
  <2> QED
    BY <1>1, <1>4, <2>1, ExtractorIsOther, OtherSettles
<1>5. CASE TimeUp \/ UNCHANGED vars
  BY <1>1, <1>5, RestIsOther, OtherSettles
<1> QED
  BY <1>2, <1>3, <1>4, <1>5 DEF Next, Terminated

\* While a file is being extracted, the comparator does not go beyond the node that
\* the extraction thread has said is safe, and it goes to the end of a history only
\* once nothing will be added to it.
THEOREM OnlySettledDataIsRead == Spec => []ReadsSettledData
<1>1. ASSUME IInv, SettleInv PROVE ReadsSettledData
  <2>1. ASSUME pcC = "scan", complete, scope = "all", NEW k \in Files
        PROVE  pcX[k] \in {"report", "end"}
    BY <1>1, <2>1 DEF IInv, FileInv, ExtractInv, SettleInv, AllExtracted
  <2>2. ASSUME pcC = "scan", ~complete, NEW k \in Files, NEW r \in Resources
        PROVE  cursor[r][k] <= seen[k].last[r]
    <3>1. seen[k] # NoVector /\ seen[k].last[r] \in Nat /\ seen[k].last[r] > 0
      BY <1>1, <2>2 DEF SettleInv, VectorsInv, PointsInto
    <3>2. cursor[r][k] \in Nat
      BY <1>1 DEF SettleInv, CursorTypes
    <3> QED
      BY <1>1, <2>2, <3>1, <3>2 DEF SettleInv
  <2> QED
    BY <2>1, <2>2 DEF ReadsSettledData
<1> QED
  BY <1>1, InitIInv, NextIInv, InitSettleInv, NextSettles, PTL DEF Spec

-----------------------------------------------------------------------------
(* The values of a resource in an orderly file *)

\* Number, times and values of the records that set resource r in file k.
Size(k, r) == Len(FileHistory(k, r))
Time(k, r, n) == content[k][FileHistory(k, r)[n]].time
Val(k, r, n) == content[k][FileHistory(k, r)[n]].val

\* The history of the whole file.
LEMMA WholeHistory ==
  ASSUME TypeInv, NEW k \in Files, NEW r \in Resources
  PROVE  /\ Len(content[k]) \in Nat /\ Size(k, r) \in Nat
         /\ \A n \in 1 .. Size(k, r) : /\ FileHistory(k, r)[n] \in 1 .. Len(content[k])
                                       /\ Matches(k, r, FileHistory(k, r)[n])
         /\ \A m, n \in 1 .. Size(k, r) : m < n => FileHistory(k, r)[m] < FileHistory(k, r)[n]
         /\ \A i \in 1 .. Len(content[k]) : Matches(k, r, i) =>
              \E n \in 1 .. Size(k, r) : FileHistory(k, r)[n] = i
<1> DEFINE p == Len(content[k])
<1>1. p \in Nat /\ FileHistory(k, r) = Nodes(k, r, p)
  BY FileHistoryIsNodes
<1>2. /\ Len(Nodes(k, r, p)) \in Nat
      /\ \A n \in 1 .. Len(Nodes(k, r, p)) : Nodes(k, r, p)[n] \in Matching(k, r, p)
      /\ \A m, n \in 1 .. Len(Nodes(k, r, p)) : m < n => Nodes(k, r, p)[m] < Nodes(k, r, p)[n]
      /\ \A i \in Matching(k, r, p) :
           \E n \in 1 .. Len(Nodes(k, r, p)) : Nodes(k, r, p)[n] = i
  <2> HIDE DEF p
  <2> QED
    BY <1>1, NodesFacts
<1>3. \A i : i \in Matching(k, r, p) <=> i \in 1 .. p /\ Matches(k, r, i)
  BY DEF Matching
<1> HIDE DEF p
<1> QED
  BY <1>1, <1>2, <1>3 DEF Size, p

\* Its times ascend from the time of the first record of the file.
LEMMA TimesAscend ==
  ASSUME TypeInv, Orderly, NEW k \in Files, NEW r \in Resources
  PROVE  /\ Size(k, r) \in Nat /\ Size(k, r) >= 1
         /\ \A n \in 1 .. Size(k, r) : Time(k, r, n) \in Nat
         /\ \A m, n \in 1 .. Size(k, r) : m < n => Time(k, r, m) < Time(k, r, n)
         /\ Time(k, r, 1) = FirstTime(k)
<1> DEFINE h == FileHistory(k, r)
<1>1. /\ Len(content[k]) \in Nat /\ Size(k, r) \in Nat
      /\ \A n \in 1 .. Size(k, r) : h[n] \in 1 .. Len(content[k]) /\ Matches(k, r, h[n])
      /\ \A m, n \in 1 .. Size(k, r) : m < n => h[m] < h[n]
      /\ \A i \in 1 .. Len(content[k]) : Matches(k, r, i) => \E n \in 1 .. Size(k, r) : h[n] = i
  BY WholeHistory
<1>2. /\ \A i, j \in 1 .. Len(content[k]) : i < j =>
           /\ content[k][i].time <= content[k][j].time
           /\ Matches(k, r, i) /\ Matches(k, r, j) => content[k][i].time # content[k][j].time
      /\ \E i \in 1 .. Len(content[k]) : Matches(k, r, i) /\ content[k][i].time = FirstTime(k)
  BY DEF Orderly
<1>3. \A i \in 1 .. Len(content[k]) : content[k][i].time \in Nat
  <2>1. content[k] \in Seq(Record)
    BY DEF TypeInv
  <2>2. \A i \in 1 .. Len(content[k]) : content[k][i] \in Record
    BY <2>1
  <2> QED
    BY <2>2 DEF Record
<1> HIDE DEF h
<1>4. \A n \in 1 .. Size(k, r) : Time(k, r, n) = content[k][h[n]].time
  BY DEF Time, h
<1>5. \A n \in 1 .. Size(k, r) : Time(k, r, n) \in Nat
  BY <1>1, <1>3, <1>4
<1>6. ASSUME NEW m \in 1 .. Size(k, r), NEW n \in 1 .. Size(k, r), m < n
      PROVE  Time(k, r, m) < Time(k, r, n)
  <2>1. /\ h[m] \in 1 .. Len(content[k]) /\ h[n] \in 1 .. Len(content[k]) /\ h[m] < h[n]
        /\ Matches(k, r, h[m]) /\ Matches(k, r, h[n])
    BY <1>1, <1>6
  <2>2. Time(k, r, m) <= Time(k, r, n) /\ Time(k, r, m) # Time(k, r, n)
    BY <1>2, <1>4, <2>1
  <2> QED
    BY <1>5, <2>2
<1>7. PICK i \in 1 .. Len(content[k]) : Matches(k, r, i) /\ content[k][i].time = FirstTime(k)
  BY <1>2
<1>8. PICK n \in 1 .. Size(k, r) : h[n] = i
  BY <1>1, <1>7
<1>9. Size(k, r) >= 1 /\ 1 \in 1 .. Size(k, r) /\ Time(k, r, n) = FirstTime(k)
  BY <1>1, <1>4, <1>7, <1>8
<1>10. FirstTime(k) <= Time(k, r, 1)
  <2>1. FirstTime(k) = content[k][1].time /\ 1 \in 1 .. Len(content[k])
    <3>1. content[k] # << >>
      BY <1>7
    <3> QED
      BY <1>7, <3>1 DEF FirstTime
  <2>2. h[1] \in 1 .. Len(content[k]) /\ Time(k, r, 1) = content[k][h[1]].time
    BY <1>1, <1>4, <1>9
  <2>3. CASE h[1] = 1
    BY <1>3, <2>1, <2>2, <2>3
  <2>4. CASE 1 < h[1]
    BY <1>2, <2>1, <2>2, <2>4
  <2> QED
    BY <1>1, <2>2, <2>3, <2>4
<1>11. Time(k, r, 1) = FirstTime(k)
  <2>1. n = 1 \/ Time(k, r, 1) < Time(k, r, n)
    BY <1>6, <1>9
  <2>2. Time(k, r, 1) \in Nat /\ Time(k, r, n) \in Nat
    BY <1>5, <1>9
  <2> QED
    BY <1>9, <1>10, <2>1, <2>2
<1> QED
  BY <1>1, <1>5, <1>6, <1>9, <1>11

\* The value at a time is that of the record before the first later one.
LEMMA ValueIs ==
  ASSUME TypeInv, Orderly, NEW k \in Files, NEW r \in Resources, NEW n \in 1 .. Size(k, r),
         NEW t \in Nat, Time(k, r, n) <= t, n = Size(k, r) \/ t < Time(k, r, n + 1)
  PROVE  ValueAt(k, r, t) = Val(k, r, n)
<1> DEFINE h == FileHistory(k, r)
           upto == {i \in 1 .. Len(content[k]) : Matches(k, r, i) /\ content[k][i].time <= t}
<1>1. /\ Len(content[k]) \in Nat /\ Size(k, r) \in Nat
      /\ \A m \in 1 .. Size(k, r) : h[m] \in 1 .. Len(content[k]) /\ Matches(k, r, h[m])
      /\ \A l, m \in 1 .. Size(k, r) : l < m => h[l] < h[m]
      /\ \A i \in 1 .. Len(content[k]) : Matches(k, r, i) => \E m \in 1 .. Size(k, r) : h[m] = i
  BY WholeHistory
<1>2. /\ \A m \in 1 .. Size(k, r) : Time(k, r, m) \in Nat
      /\ \A l, m \in 1 .. Size(k, r) : l < m => Time(k, r, l) < Time(k, r, m)
  BY TimesAscend
<1> HIDE DEF h
<1>3. \A m \in 1 .. Size(k, r) : Time(k, r, m) = content[k][h[m]].time
  BY DEF Time, h
<1>4. h[n] \in upto
  BY <1>1, <1>3
<1>5. ASSUME NEW i \in upto PROVE i <= h[n]
  <2>1. PICK m \in 1 .. Size(k, r) : h[m] = i
    BY <1>1
  <2>2. Time(k, r, m) <= t
    BY <1>3, <2>1
  <2>3. ~(n < m)
    <3>1. SUFFICES ASSUME n < m PROVE FALSE
      OBVIOUS
    <3>2. n + 1 \in 1 .. Size(k, r) /\ t < Time(k, r, n + 1)
      BY <1>1, <3>1
    <3>3. m = n + 1 \/ Time(k, r, n + 1) < Time(k, r, m)
      BY <1>2, <3>1, <3>2
    <3> QED
      BY <1>2, <2>2, <3>2, <3>3
  <2>4. m = n \/ h[m] < h[n]
    BY <1>1, <2>3
  <2> QED
    BY <1>1, <2>1, <2>4
<1>6. (CHOOSE i \in upto : \A j \in upto : j <= i) = h[n]
  <2>1. \A i \in upto : i \in Nat
    BY <1>1
  <2>2. \A i \in upto : (\A j \in upto : j <= i) => i = h[n]
    BY <1>4, <1>5, <2>1
  <2> HIDE DEF upto
  <2> QED
    BY <1>4, <1>5, <2>2
<1> QED
  BY <1>6 DEF ValueAt, Val, h

\* The times at which a resource is set.
LEMMA TagsAre ==
  ASSUME TypeInv, NEW r \in Resources, NEW t
  PROVE  t \in Tags(r) <=> \E k \in Files : \E n \in 1 .. Size(k, r) : Time(k, r, n) = t
<1>1. t \in Tags(r) <=>
        \E k \in Files : \E i \in 1 .. Len(content[k]) : Matches(k, r, i) /\ content[k][i].time = t
  BY DEF Tags
<1>2. ASSUME NEW k \in Files
      PROVE  (\E i \in 1 .. Len(content[k]) : Matches(k, r, i) /\ content[k][i].time = t)
             <=> \E n \in 1 .. Size(k, r) : Time(k, r, n) = t
  BY WholeHistory DEF Time
<1> QED
  BY <1>1, <1>2

\* What has been extracted is the beginning of the history of the file.
LEMMA HistoryInFile ==
  ASSUME TypeInv, NEW k \in Files, InOrder(processed[k]), Done(k) <= Len(content[k]),
         NEW r \in Resources
  PROVE  /\ Len(History(k, r)) \in Nat /\ Size(k, r) \in Nat
         /\ Len(History(k, r)) <= Size(k, r)
         /\ Done(k) = Len(content[k]) => Len(History(k, r)) = Size(k, r)
         /\ \A n \in 1 .. Len(History(k, r)) : /\ RecordAt(k, r, n).time = Time(k, r, n)
                                               /\ RecordAt(k, r, n).val = Val(k, r, n)
<1> DEFINE p == Done(k)
           q == Len(content[k])
<1>1. /\ p \in Nat /\ q \in Nat /\ p <= q
      /\ History(k, r) = Nodes(k, r, p) /\ FileHistory(k, r) = Nodes(k, r, q)
  BY HistoryIsNodes, FileHistoryIsNodes
<1> HIDE DEF p, q
<1>2. Len(Nodes(k, r, p)) \in Nat /\ Len(Nodes(k, r, q)) \in Nat
  BY <1>1, NodesFacts
<1>3. /\ Len(Nodes(k, r, p)) <= Len(Nodes(k, r, q))
      /\ \A n \in 1 .. Len(Nodes(k, r, p)) : Nodes(k, r, p)[n] = Nodes(k, r, q)[n]
  BY <1>1, NodesGrow
<1> QED
  BY <1>1, <1>2, <1>3 DEF Size, RecordAt, Time, Val, p, q

\* Once the initial records are behind, or the whole file is, every resource has a
\* node.
LEMMA HistoryBegun ==
  ASSUME TypeInv, Orderly, NEW k \in Files, InOrder(processed[k]), Done(k) \in Nat,
         \/ Done(k) = Len(content[k])
         \/ Done(k) # 0 /\ content[k][Done(k)].time > FirstTime(k),
         NEW r \in Resources
  PROVE  Len(History(k, r)) \in Nat /\ Len(History(k, r)) > 0
<1> DEFINE p == Done(k)
<1>1. p \in Nat /\ History(k, r) = Nodes(k, r, p) /\ Len(content[k]) \in Nat
  BY HistoryIsNodes, FileHistoryIsNodes
<1>2. PICK i \in 1 .. Len(content[k]) : Matches(k, r, i) /\ content[k][i].time = FirstTime(k)
  BY DEF Orderly
<1>3. \A j \in 1 .. Len(content[k]) : content[k][j].time \in Nat
  <2>1. content[k] \in Seq(Record)
    BY DEF TypeInv
  <2>2. \A j \in 1 .. Len(content[k]) : content[k][j] \in Record
    BY <2>1
  <2> QED
    BY <2>2 DEF Record
<1>4. i <= p
  <2>1. CASE p = Len(content[k])
    BY <1>1, <2>1
  <2>2. CASE p # 0 /\ content[k][p].time > FirstTime(k)
    <3>1. SUFFICES ASSUME p < i PROVE FALSE
      BY <1>1
    <3>2. p \in 1 .. Len(content[k])
      BY <1>1, <2>2, <3>1
    <3>3. content[k][p].time <= content[k][i].time
      BY <3>1, <3>2 DEF Orderly
    <3> QED
      BY <1>2, <1>3, <2>2, <3>2, <3>3
  <2> QED
    BY <2>1, <2>2
<1>5. i \in Matching(k, r, p)
  BY <1>1, <1>2, <1>4 DEF Matching
<1> HIDE DEF p
<1>6. /\ Len(Nodes(k, r, p)) \in Nat
      /\ \A x \in Matching(k, r, p) : \E n \in 1 .. Len(Nodes(k, r, p)) : Nodes(k, r, p)[n] = x
  BY <1>1, NodesFacts
<1> QED
  BY <1>1, <1>5, <1>6

\* The time stamp after records i to j have been processed.
LEMMA StampAfter ==
  ASSUME NEW k \in Files, NEW i \in Nat, NEW j \in Int, DOMAIN stamp = Files,
         Undefined(k, i, j) = {}, ProcessRecords(k, i, j)
  PROVE  /\ DOMAIN stamp' = Files
         /\ stamp'[k] = IF i <= j THEN content[k][j].time ELSE stamp[k]
         /\ \A h \in Files : h # k => stamp'[h] = stamp[h]
BY DEF ProcessRecords

-----------------------------------------------------------------------------
(* The comparison of sound files *)

Good == Sound /\ Orderly

\* The difference at time t, if there is one, has been listed.
Decided(r, t) == t \in Differences(r) => << r, t >> \in diffs

\* Where the comparator stands in the histories of resource r: in what has been
\* extracted, at most one time behind; what lies before has been decided.
InHistory(r) == \A k \in Files : cursor[r][k] \in 1 .. Len(History(k, r))
OneTimeBehind(r) ==
  \A k, j \in Files : cursor[r][k] > 1 =>
    Time(k, r, cursor[r][k] - 1) <= Time(j, r, cursor[r][j])
DecidedBefore(r) ==
  \A t \in Tags(r) : (\A k \in Files : t < Time(k, r, cursor[r][k])) => Decided(r, t)
PlaceInv(r) == InHistory(r) /\ OneTimeBehind(r) /\ DecidedBefore(r)

\* The histories of resource r have been compared to their ends.
Compared(r) ==
  /\ \A k \in Files : cursor[r][k] = Size(k, r)
  /\ Time(0, r, Size(0, r)) = Time(1, r, Size(1, r))
  /\ Decided(r, Time(0, r, Size(0, r)))

\* A vector that is later than the first records has a node of every resource.
Begun(v, k) ==
  v.time > FirstTime(k) => v # NoVector /\ \A r \in Resources : v.last[r] > 0

\* The threads of sound files do not fail.
ThreadInv(k) ==
  /\ pcP[k] \notin {"missing", "close"} /\ pcX[k] # "report"
  /\ Done(k) <= Len(content[k])
  /\ stamp[k] = IF Done(k) = 0 THEN 0 ELSE content[k][Done(k)].time
  /\ extracted[k] => Done(k) = Len(content[k])
  /\ Begun(slot[k], k) /\ Begun(seen[k], k)

CompareInv ==
  /\ closing => AllExtracted
  /\ pcC = "decide" /\ fresh => closing \/ \A k \in Files : seen[k].time > FirstTime(k)
  /\ pcC = "scan" /\ closing => complete
  /\ ~fresh => \A r \in Resources : PlaceInv(r)
  /\ pcC = "scan" /\ complete => \A r \in Resources : r < scan => Compared(r)
  /\ pcC = "end" => ~fresh /\ \A r \in Resources : Compared(r)
  /\ \A d \in diffs : \E r \in Resources : \E t \in Differences(r) : d = << r, t >>

SoundInv == Good => ~errors /\ DOMAIN stamp = Files /\ (\A k \in Files : ThreadInv(k)) /\ CompareInv

\* The current nodes of a resource in terms of the files.
LEMMA CurrentNodes ==
  ASSUME IInv, Orderly, NEW r \in Resources, InHistory(r), \A k \in Files : Done(k) <= Len(content[k]),
         NEW k \in Files
  PROVE  /\ cursor[r][k] \in 1 .. Size(k, r) /\ cursor[r][k] \in Nat
         /\ Len(History(k, r)) \in Nat /\ Size(k, r) \in Nat
         /\ Len(History(k, r)) <= Size(k, r)
         /\ Done(k) = Len(content[k]) => Len(History(k, r)) = Size(k, r)
         /\ Tag(k, r) = Time(k, r, cursor[r][k]) /\ Tag(k, r) \in Nat
         /\ \A n \in 1 .. Len(History(k, r)) : RecordAt(k, r, n).val = Val(k, r, n)
<1>1. /\ Len(History(k, r)) \in Nat /\ Size(k, r) \in Nat
      /\ Len(History(k, r)) <= Size(k, r)
      /\ Done(k) = Len(content[k]) => Len(History(k, r)) = Size(k, r)
      /\ \A n \in 1 .. Len(History(k, r)) : /\ RecordAt(k, r, n).time = Time(k, r, n)
                                            /\ RecordAt(k, r, n).val = Val(k, r, n)
  BY HistoryInFile DEF IInv, FileInv, ExtractInv
<1>2. cursor[r][k] \in 1 .. Len(History(k, r))
  BY DEF InHistory
<1>3. \A n \in 1 .. Size(k, r) : Time(k, r, n) \in Nat
  BY TimesAscend DEF IInv
<1> QED
  BY <1>1, <1>2, <1>3 DEF Tag

\* The time that is compared is the earlier of the two.
LEMMA EarlierTag ==
  ASSUME NEW r, \A k \in Files : Tag(k, r) \in Nat
  PROVE  /\ \E k \in Files : k \in Consumed(r)
         /\ \A k \in Files : k \in Consumed(r) <=> Tag(k, r) = TagNow(r)
         /\ \A k \in Files : TagNow(r) <= Tag(k, r)
         /\ TagNow(r) \in Nat
<1>1. \E k \in Files : k \in Consumed(r)
  <2>1. Tag(0, r) \in Nat /\ Tag(1, r) \in Nat
    BY DEF Files
  <2>2. CASE Tag(0, r) <= Tag(1, r)
    BY <2>1, <2>2 DEF Consumed, Files
  <2>3. CASE Tag(1, r) <= Tag(0, r)
    BY <2>1, <2>3 DEF Consumed, Files
  <2> QED
    BY <2>1, <2>2, <2>3
<1>2. PICK k \in Consumed(r) : TagNow(r) = Tag(k, r)
  BY <1>1 DEF TagNow
<1>3. \A j \in Files : j \in Consumed(r) <=> \A i \in Files : Tag(j, r) <= Tag(i, r)
  BY DEF Consumed
<1>4. k \in Files
  BY DEF Consumed
<1>5. \A j \in Files : Tag(k, r) <= Tag(j, r)
  BY <1>2, <1>3, <1>4
<1>6. \A j \in Files : j \in Consumed(r) <=> Tag(j, r) = Tag(k, r)
  BY <1>3, <1>4, <1>5
<1> QED
  BY <1>1, <1>2, <1>4, <1>5, <1>6

\* The two values that are compared are those the resource has at that time.
LEMMA ValuesCompared ==
  ASSUME IInv, Good, NEW r \in Resources, PlaceInv(r), \A k \in Files : Done(k) <= Len(content[k]),
         NEW k \in Files
  PROVE  ValueNow(k, r) = ValueAt(k, r, TagNow(r))
<1> DEFINE c == cursor[r][k]
           m == TagNow(r)
<1>1. \A j \in Files :
        /\ cursor[r][j] \in 1 .. Size(j, r) /\ cursor[r][j] \in Nat
        /\ Len(History(j, r)) \in Nat /\ Size(j, r) \in Nat
        /\ cursor[r][j] <= Len(History(j, r))
        /\ Tag(j, r) = Time(j, r, cursor[r][j]) /\ Tag(j, r) \in Nat
        /\ \A n \in 1 .. Len(History(j, r)) : RecordAt(j, r, n).val = Val(j, r, n)
  BY CurrentNodes DEF Good, PlaceInv, InHistory
<1>2. /\ \E j \in Files : j \in Consumed(r)
      /\ \A j \in Files : j \in Consumed(r) <=> Tag(j, r) = m
      /\ \A j \in Files : m <= Tag(j, r)
      /\ m \in Nat
  BY <1>1, EarlierTag
<1>3. TypeInv /\ Orderly
  BY DEF IInv, Good
<1>4. /\ \A n \in 1 .. Size(k, r) : Time(k, r, n) \in Nat
      /\ \A l, n \in 1 .. Size(k, r) : l < n => Time(k, r, l) < Time(k, r, n)
  BY <1>3, TimesAscend
<1> HIDE DEF m
<1>5. CASE k \in Consumed(r)
  <2>1. ValueNow(k, r) = Val(k, r, c)
    BY <1>1, <1>5 DEF ValueNow
  <2>2. Time(k, r, c) = m /\ c \in 1 .. Size(k, r)
    BY <1>1, <1>2, <1>5
  <2>3. c = Size(k, r) \/ m < Time(k, r, c + 1)
    BY <1>1, <1>4, <2>2
  <2>4. Time(k, r, c) <= m
    BY <1>2, <2>2
  <2>5. ValueAt(k, r, m) = Val(k, r, c)
    <3> HIDE DEF c
    <3> QED
      BY <1>2, <1>3, <2>2, <2>3, <2>4, ValueIs
  <2> QED
    BY <2>1, <2>5 DEF m
<1>6. CASE k \notin Consumed(r)
  <2>1. PICK j \in Files : j \in Consumed(r)
    BY <1>2
  <2>2. Tag(j, r) = m /\ m < Tag(k, r)
    BY <1>1, <1>2, <1>6, <2>1
  <2>3. c # 1
    <3>1. SUFFICES ASSUME c = 1 PROVE FALSE
      OBVIOUS
    <3>2. Time(k, r, 1) = FirstTime(k) /\ Time(j, r, 1) = FirstTime(j)
      BY <1>3, TimesAscend
    <3>3. FirstTime(k) = FirstTime(j)
      BY DEF Good, Sound, Files
    <3>4. /\ \A n \in 1 .. Size(j, r) : Time(j, r, n) \in Nat
          /\ \A l, n \in 1 .. Size(j, r) : l < n => Time(j, r, l) < Time(j, r, n)
      BY <1>3, TimesAscend
    <3>5. Time(j, r, 1) <= Time(j, r, cursor[r][j])
      BY <1>1, <3>4
    <3> QED
      BY <1>1, <1>2, <2>2, <3>1, <3>2, <3>3, <3>5
  <2>4. c - 1 \in 1 .. Size(k, r) /\ c > 1 /\ c - 1 + 1 = c /\ c - 1 \in 1 .. Len(History(k, r))
    BY <1>1, <2>3
  <2>5. Time(k, r, c - 1) <= m
    BY <1>1, <2>2, <2>4 DEF PlaceInv, OneTimeBehind
  <2>6. m < Time(k, r, c - 1 + 1)
    BY <1>1, <2>2, <2>4
  <2>7. ValueAt(k, r, m) = Val(k, r, c - 1)
    <3> HIDE DEF c
    <3> DEFINE n == c - 1
    <3>1. n \in 1 .. Size(k, r) /\ Time(k, r, n) <= m /\ m < Time(k, r, n + 1)
      BY <2>4, <2>5, <2>6
    <3> HIDE DEF n
    <3>2. ValueAt(k, r, m) = Val(k, r, n)
      BY <1>2, <1>3, <3>1, ValueIs
    <3> QED
      BY <3>2 DEF n
  <2>8. ValueNow(k, r) = Val(k, r, c - 1)
    BY <1>1, <1>6, <2>4 DEF ValueNow
  <2> QED
    BY <2>7, <2>8 DEF m
<1> QED
  BY <1>5, <1>6

\* The premises of a comparison of two nodes, with what they say of both files.
LEMMA PairFacts ==
  ASSUME IInv, Good, NEW r \in Resources, PlaceInv(r), \A k \in Files : Done(k) <= Len(content[k])
  PROVE  /\ \A k \in Files :
              /\ cursor[r][k] \in 1 .. Size(k, r) /\ cursor[r][k] \in Nat
              /\ Size(k, r) \in Nat /\ Len(History(k, r)) \in Nat
              /\ Len(History(k, r)) <= Size(k, r) /\ cursor[r][k] <= Len(History(k, r))
              /\ Done(k) = Len(content[k]) => Len(History(k, r)) = Size(k, r)
              /\ Tag(k, r) = Time(k, r, cursor[r][k]) /\ Tag(k, r) \in Nat
              /\ \A n \in 1 .. Size(k, r) : Time(k, r, n) \in Nat
              /\ \A m, n \in 1 .. Size(k, r) : m < n => Time(k, r, m) < Time(k, r, n)
         /\ \E k \in Files : k \in Consumed(r)
         /\ \A k \in Files : k \in Consumed(r) <=> Tag(k, r) = TagNow(r)
         /\ \A k \in Files : TagNow(r) <= Tag(k, r)
         /\ TagNow(r) \in Nat /\ TagNow(r) \in Tags(r)
<1>1. Orderly /\ TypeInv
  BY DEF Good, IInv
<1>2. \A k \in Files :
        /\ cursor[r][k] \in 1 .. Size(k, r) /\ cursor[r][k] \in Nat
        /\ Size(k, r) \in Nat /\ Len(History(k, r)) \in Nat
        /\ Len(History(k, r)) <= Size(k, r) /\ cursor[r][k] <= Len(History(k, r))
        /\ Done(k) = Len(content[k]) => Len(History(k, r)) = Size(k, r)
        /\ Tag(k, r) = Time(k, r, cursor[r][k]) /\ Tag(k, r) \in Nat
  BY <1>1, CurrentNodes DEF PlaceInv, InHistory
<1>3. \A k \in Files :
        /\ \A n \in 1 .. Size(k, r) : Time(k, r, n) \in Nat
        /\ \A m, n \in 1 .. Size(k, r) : m < n => Time(k, r, m) < Time(k, r, n)
  BY <1>1, TimesAscend
<1>4. /\ \E k \in Files : k \in Consumed(r)
      /\ \A k \in Files : k \in Consumed(r) <=> Tag(k, r) = TagNow(r)
      /\ \A k \in Files : TagNow(r) <= Tag(k, r)
      /\ TagNow(r) \in Nat
  BY <1>2, EarlierTag
<1>5. TagNow(r) \in Tags(r)
  <2>1. PICK k \in Files : Tag(k, r) = TagNow(r)
    BY <1>4
  <2>2. \E n \in 1 .. Size(k, r) : Time(k, r, n) = TagNow(r)
    BY <1>2, <2>1
  <2> QED
    BY <1>1, <2>2, TagsAre
<1> QED
  BY <1>2, <1>3, <1>4, <1>5

\* The times and values of the files do not change.
LEMMA SameFiles ==
  ASSUME content' = content
  PROVE  /\ \A k, r : Size(k, r)' = Size(k, r)
         /\ \A k, r, n : Time(k, r, n)' = Time(k, r, n)
         /\ \A r : Tags(r)' = Tags(r) /\ Differences(r)' = Differences(r)
BY DEF Size, Time, FileHistory, HistoryIn, AllRecords, Matches, Tags, Differences, ValueAt

\* A comparison of two nodes lists the time if and only if the values differ.
LEMMA PairDecides ==
  ASSUME IInv, Good, ComparePair, scan \in Resources, PlaceInv(scan),
         \A k \in Files : Done(k) <= Len(content[k])
  PROVE  /\ << scan, TagNow(scan) >> \in diffs' <=>
              << scan, TagNow(scan) >> \in diffs \/ TagNow(scan) \in Differences(scan)
         /\ diffs \subseteq diffs'
         /\ \A d \in diffs' : d \in diffs \/ d = << scan, TagNow(scan) >>
         /\ TagNow(scan) \in Tags(scan)
<1> DEFINE m == TagNow(scan)
<1>1. m \in Tags(scan)
  BY PairFacts
<1>2. 0 \in Files /\ 1 \in Files
  BY DEF Files
<1>3. ValueNow(0, scan) = ValueAt(0, scan, m) /\ ValueNow(1, scan) = ValueAt(1, scan, m)
  BY <1>2, ValuesCompared
<1>4. diffs' = IF ValueNow(0, scan) # ValueNow(1, scan) THEN diffs \cup {<< scan, m >>} ELSE diffs
  BY DEF ComparePair
<1>5. m \in Differences(scan) <=> ValueAt(0, scan, m) # ValueAt(1, scan, m)
  BY <1>1 DEF Differences
<1> HIDE DEF m
<1>6. << scan, m >> \in diffs' <=> << scan, m >> \in diffs \/ m \in Differences(scan)
  BY <1>3, <1>4, <1>5
<1> QED
  BY <1>1, <1>4, <1>6 DEF m

\* The comparator stays at most one time behind, and decides what it leaves.
LEMMA PairPlace ==
  ASSUME IInv, SettleInv, Good, ComparePair, scan \in Resources, PlaceInv(scan),
         \A k \in Files : Done(k) <= Len(content[k])
  PROVE
         /\ \A k \in Files : cursor'[scan][k] \in 1 .. Len(History(k, scan))
         /\ \A k, j \in Files : cursor'[scan][k] > 1 =>
              Time(k, scan, cursor'[scan][k] - 1) <= Time(j, scan, cursor'[scan][j])
         /\ \A t \in Tags(scan) : (\A k \in Files : t < Time(k, scan, cursor'[scan][k])) =>
              t = TagNow(scan) \/ (\A k \in Files : t < Time(k, scan, cursor[scan][k]))
<1> DEFINE c(k) == cursor[scan][k]
           d(k) == cursor'[scan][k]
           m == TagNow(scan)
           moved(k) == k \in Consumed(scan) /\ HasNext(k, scan)
<1>1. /\ \A k \in Files :
           /\ c(k) \in 1 .. Size(k, scan) /\ c(k) \in Nat
           /\ Size(k, scan) \in Nat /\ Len(History(k, scan)) \in Nat
           /\ Len(History(k, scan)) <= Size(k, scan) /\ c(k) <= Len(History(k, scan))
           /\ Tag(k, scan) = Time(k, scan, c(k)) /\ Tag(k, scan) \in Nat
           /\ \A n \in 1 .. Size(k, scan) : Time(k, scan, n) \in Nat
           /\ \A l, n \in 1 .. Size(k, scan) : l < n => Time(k, scan, l) < Time(k, scan, n)
      /\ \E k \in Files : k \in Consumed(scan)
      /\ \A k \in Files : k \in Consumed(scan) <=> Tag(k, scan) = m
      /\ \A k \in Files : m <= Tag(k, scan)
      /\ m \in Nat
  BY PairFacts
<1>2. \A k \in Files : d(k) = IF moved(k) THEN c(k) + 1 ELSE c(k)
  BY DEF ComparePair, SettleInv, CursorTypes
<1>3. \A k \in Files : moved(k) => c(k) < Len(History(k, scan)) /\ Time(k, scan, c(k)) = m
  BY <1>1 DEF HasNext
<1>4. \A k, j \in Files : c(k) > 1 => Time(k, scan, c(k) - 1) <= Time(j, scan, c(j))
  BY DEF PlaceInv, OneTimeBehind
<1> HIDE DEF c, d, m, moved
<1>5. ASSUME NEW k \in Files
      PROVE  /\ d(k) \in 1 .. Len(History(k, scan)) /\ d(k) \in 1 .. Size(k, scan)
             /\ Time(k, scan, c(k)) <= Time(k, scan, d(k))
             /\ m <= Time(k, scan, c(k)) /\ Time(k, scan, c(k)) \in Nat
             /\ Time(k, scan, d(k)) \in Nat
  <2>1. CASE moved(k)
    <3>1. d(k) = c(k) + 1 /\ d(k) \in 1 .. Len(History(k, scan)) /\ d(k) \in 1 .. Size(k, scan)
      BY <1>1, <1>2, <1>3, <2>1
    <3>2. Time(k, scan, c(k)) < Time(k, scan, d(k))
      BY <1>1, <3>1
    <3> QED
      BY <1>1, <3>1, <3>2
  <2>2. CASE ~moved(k)
    BY <1>1, <1>2, <2>2
  <2> QED
    BY <2>1, <2>2
<1>6. ASSUME NEW k \in Files, NEW j \in Files, d(k) > 1
      PROVE  Time(k, scan, d(k) - 1) <= Time(j, scan, d(j))
  <2>1. CASE moved(k)
    <3>1. d(k) - 1 = c(k)
      BY <1>1, <1>2, <2>1
    <3>2. Time(k, scan, c(k)) = m
      BY <1>3, <2>1
    <3>3. /\ m <= Time(j, scan, c(j)) /\ Time(j, scan, c(j)) <= Time(j, scan, d(j))
          /\ m \in Nat /\ Time(j, scan, c(j)) \in Nat /\ Time(j, scan, d(j)) \in Nat
      BY <1>1, <1>5
    <3> QED
      BY <3>1, <3>2, <3>3
  <2>2. CASE ~moved(k)
    <3>1. d(k) = c(k)
      BY <1>2, <2>2
    <3>2. c(k) - 1 \in 1 .. Size(k, scan)
      BY <1>1, <1>6, <3>1
    <3>3. Time(k, scan, c(k) - 1) <= Time(j, scan, c(j)) /\ Time(k, scan, c(k) - 1) \in Nat
      BY <1>1, <1>4, <1>6, <3>1, <3>2
    <3> QED
      BY <1>5, <3>1, <3>3
  <2> QED
    BY <2>1, <2>2
<1>7. ASSUME NEW t \in Tags(scan), \A k \in Files : t < Time(k, scan, d(k)),
             NEW i \in Files, ~(t < Time(i, scan, c(i)))
      PROVE  t = m
  <2>1. PICK j \in Files : \E n \in 1 .. Size(j, scan) : Time(j, scan, n) = t
    BY TagsAre DEF IInv
  <2>2. PICK n \in 1 .. Size(j, scan) : Time(j, scan, n) = t
    BY <2>1
  <2>3. /\ Size(j, scan) \in Nat /\ c(j) \in 1 .. Size(j, scan) /\ d(j) \in 1 .. Size(j, scan)
        /\ \A l \in 1 .. Size(j, scan) : Time(j, scan, l) \in Nat
        /\ \A l, h \in 1 .. Size(j, scan) : l < h => Time(j, scan, l) < Time(j, scan, h)
        /\ t < Time(j, scan, d(j))
    BY <1>1, <1>5, <1>7, <2>1
  <2>4. t \in Nat
    BY <2>2, <2>3
  <2>5. m <= t
    <3>1. m <= Time(i, scan, c(i)) /\ Time(i, scan, c(i)) \in Nat /\ m \in Nat
      BY <1>1, <1>5
    <3> QED
      BY <1>7, <2>4, <3>1
  <2>6. n < d(j)
    <3>1. ~(d(j) < n) /\ d(j) # n
      BY <2>2, <2>3, <2>4
    <3> QED
      BY <2>2, <2>3, <3>1
  <2>7. CASE moved(j)
    <3>1. d(j) = c(j) + 1 /\ Time(j, scan, c(j)) = m
      BY <1>2, <1>3, <2>1, <2>7
    <3>2. n = c(j) \/ n < c(j)
      BY <2>2, <2>3, <2>6, <3>1
    <3>3. t <= Time(j, scan, c(j))
      BY <2>2, <2>3, <3>2
    <3> QED
      BY <1>1, <2>4, <2>5, <3>1, <3>3
  <2>8. CASE ~moved(j)
    <3>1. d(j) = c(j)
      BY <1>2, <2>1, <2>8
    <3>2. c(j) > 1 /\ c(j) - 1 \in 1 .. Size(j, scan) /\ (n = c(j) - 1 \/ n < c(j) - 1)
      BY <2>2, <2>3, <2>6, <3>1
    <3>3. t <= Time(j, scan, c(j) - 1) /\ Time(j, scan, c(j) - 1) \in Nat
      BY <2>2, <2>3, <3>2
    <3>4. PICK k \in Files : k \in Consumed(scan)
      BY <1>1
    <3>5. Time(k, scan, c(k)) = m
      BY <1>1, <3>4
    <3>6. Time(j, scan, c(j) - 1) <= m
      BY <1>4, <2>1, <3>2, <3>4, <3>5
    <3> QED
      BY <1>1, <2>4, <2>5, <3>3, <3>6
  <2> QED
    BY <2>7, <2>8
<1> QED
  BY <1>5, <1>6, <1>7 DEF c, d, m

\* What the invariant says of the next state, if the files are still the same.
LEMMA GoodNext == ASSUME content' = content, scope' = scope PROVE Good' <=> Good
BY DEF Good, Sound, Orderly, Missing, HasKind, FirstTime, Matches

LEMMA ComparedNext ==
  ASSUME content' = content, NEW r
  PROVE  Compared(r)' <=>
           /\ \A k \in Files : cursor'[r][k] = Size(k, r)
           /\ Time(0, r, Size(0, r)) = Time(1, r, Size(1, r))
           /\ Time(0, r, Size(0, r)) \in Differences(r) => << r, Time(0, r, Size(0, r)) >> \in diffs'
<1>1. \A k : FileHistory(k, r)' = FileHistory(k, r)
  BY DEF FileHistory, HistoryIn, AllRecords, Matches
<1>2. Differences(r)' = Differences(r)
  BY SameFiles
<1> QED
  BY <1>1, <1>2 DEF Compared, Decided, Size, Time

LEMMA PlaceNext ==
  ASSUME content' = content, NEW r
  PROVE  PlaceInv(r)' <=>
           /\ \A k \in Files : cursor'[r][k] \in 1 .. Len(History(k, r)')
           /\ \A k, j \in Files : cursor'[r][k] > 1 =>
                Time(k, r, cursor'[r][k] - 1) <= Time(j, r, cursor'[r][j])
           /\ \A t \in Tags(r) : (\A k \in Files : t < Time(k, r, cursor'[r][k])) =>
                (t \in Differences(r) => << r, t >> \in diffs')
<1>1. \A k : FileHistory(k, r)' = FileHistory(k, r)
  BY DEF FileHistory, HistoryIn, AllRecords, Matches
<1>2. Differences(r)' = Differences(r) /\ Tags(r)' = Tags(r)
  BY SameFiles
<1> QED
  BY <1>1, <1>2 DEF PlaceInv, InHistory, OneTimeBehind, DecidedBefore, Decided, Time

\* When both files are at their end, the resource has been compared.
LEMMA PairEnds ==
  ASSUME IInv, SettleInv, SoundInv, Good, ComparePair, complete, PlaceInv(scan),
         \A k \in Files : ~HasNext(k, scan), Consumed(scan) = Files, NEW r, r = scan
  PROVE  Compared(r)'
<1>1. scan \in Resources /\ content' = content
  BY DEF SettleInv, CursorTypes, ComparePair, CmpFrame, comVars
<1>2. \A k \in Files : Done(k) = Len(content[k]) /\ Done(k) \in Nat
  BY DEF SoundInv, ThreadInv, SettleInv, AllExtracted, IInv, TypeInv, Done
<1>3. \A k \in Files : Done(k) <= Len(content[k])
  BY <1>2
<1>4. /\ \A k \in Files :
           /\ cursor[scan][k] \in Nat /\ Size(k, scan) \in Nat
           /\ cursor[scan][k] <= Len(History(k, scan))
           /\ Len(History(k, scan)) = Size(k, scan)
           /\ Tag(k, scan) = Time(k, scan, cursor[scan][k])
           /\ Tag(k, scan) = TagNow(scan)
      /\ << scan, TagNow(scan) >> \in diffs' <=>
           << scan, TagNow(scan) >> \in diffs \/ TagNow(scan) \in Differences(scan)
  BY <1>1, <1>2, <1>3, PairFacts, PairDecides
<1>5. \A k \in Files : cursor[scan][k] = Size(k, scan)
  BY <1>4 DEF HasNext
<1>6. \A k \in Files : cursor'[scan][k] = cursor[scan][k]
  BY <1>1 DEF ComparePair, SettleInv, CursorTypes
<1>7. \A k \in Files : Time(k, scan, Size(k, scan)) = TagNow(scan)
  BY <1>4, <1>5
<1>8. /\ \A k \in Files : cursor'[r][k] = Size(k, r)
      /\ Time(0, r, Size(0, r)) = TagNow(scan) /\ Time(1, r, Size(1, r)) = TagNow(scan)
  BY <1>5, <1>6, <1>7 DEF Files
<1> QED
  BY <1>1, <1>4, <1>8, ComparedNext

\* The comparison of one pair of nodes keeps the invariant.
LEMMA PairCompares ==
  ASSUME IInv, SettleInv, SoundInv, Good, ComparePair
  PROVE  CompareInv'
<1>1. /\ pcC = "scan" /\ ~fresh /\ scan \in Resources /\ ~errors
      /\ UNCHANGED << content, processed, seen, closing, fresh, complete, extracted >>
      /\ \A r \in Resources : PlaceInv(r)
      /\ \A k \in Files : Done(k) <= Len(content[k])
  BY DEF ComparePair, SettleInv, CursorTypes, SoundInv, CompareInv, ThreadInv, CmpFrame, comVars,
         extVars
<1>2. /\ << scan, TagNow(scan) >> \in diffs' <=>
           << scan, TagNow(scan) >> \in diffs \/ TagNow(scan) \in Differences(scan)
      /\ diffs \subseteq diffs'
      /\ \A d \in diffs' : d \in diffs \/ d = << scan, TagNow(scan) >>
  BY <1>1, PairDecides
<1>3. \A r \in Resources : r # scan => cursor'[r] = cursor[r]
  BY <1>1 DEF ComparePair, SettleInv, CursorTypes
<1>4. \A k \in Files, r \in Resources : History(k, r)' = History(k, r)
  BY ComparatorFrame DEF Comparator
<1>5. ASSUME NEW r \in Resources PROVE PlaceInv(r)'
  <2>1. CASE r = scan
    <3>1. /\ \A k \in Files : cursor'[scan][k] \in 1 .. Len(History(k, scan))
          /\ \A k, j \in Files : cursor'[scan][k] > 1 =>
               Time(k, scan, cursor'[scan][k] - 1) <= Time(j, scan, cursor'[scan][j])
          /\ \A t \in Tags(scan) : (\A k \in Files : t < Time(k, scan, cursor'[scan][k])) =>
               t = TagNow(scan) \/ (\A k \in Files : t < Time(k, scan, cursor[scan][k]))
      BY <1>1, PairPlace
    <3>2. \A t \in Tags(scan) : (\A k \in Files : t < Time(k, scan, cursor[scan][k])) =>
            (t \in Differences(scan) => << scan, t >> \in diffs)
      BY <1>1 DEF PlaceInv, DecidedBefore, Decided
    <3>3. \A t \in Tags(scan) : (\A k \in Files : t < Time(k, scan, cursor'[scan][k])) =>
            (t \in Differences(scan) => << scan, t >> \in diffs')
      BY <1>2, <3>1, <3>2
    <3> QED
      BY <1>1, <1>4, <2>1, <3>1, <3>3, PlaceNext
  <2>2. CASE r # scan
    <3>1. /\ \A k \in Files : cursor[r][k] \in 1 .. Len(History(k, r))
          /\ \A k, j \in Files : cursor[r][k] > 1 =>
               Time(k, r, cursor[r][k] - 1) <= Time(j, r, cursor[r][j])
          /\ \A t \in Tags(r) : (\A k \in Files : t < Time(k, r, cursor[r][k])) =>
               (t \in Differences(r) => << r, t >> \in diffs)
      BY <1>1 DEF PlaceInv, InHistory, OneTimeBehind, DecidedBefore, Decided
    <3>2. cursor'[r] = cursor[r]
      BY <1>3, <2>2
    <3> QED
      BY <1>1, <1>2, <1>4, <3>1, <3>2, PlaceNext
  <2> QED
    BY <2>1, <2>2
<1>6. ASSUME complete, NEW r \in Resources, r < scan PROVE Compared(r)'
  <2>1. Compared(r)
    BY <1>1, <1>6 DEF SoundInv, CompareInv
  <2>2. cursor'[r] = cursor[r]
    BY <1>1, <1>3, <1>6 DEF Resources
  <2> QED
    BY <1>1, <1>2, <2>1, <2>2, ComparedNext DEF Compared, Decided
<1>7. ASSUME complete, scan' # scan \/ pcC' # "scan", NEW r, r = scan PROVE Compared(r)'
  <2>1. (\A k \in Files : ~HasNext(k, scan)) /\ Consumed(scan) = Files
    BY <1>1, <1>7 DEF ComparePair
  <2> QED
    BY <1>1, <1>7, <2>1, PairEnds
<1>8. \/ scan' = scan /\ pcC' = "scan"
      \/ scan' = scan + 1 /\ scan < NRes /\ pcC' = "scan"
      \/ scan = NRes /\ pcC' = IF closing THEN "end" ELSE "poll"
  BY <1>1, ResAssumption DEF ComparePair, NextResource, Resources
<1>9. closing => complete
  BY <1>1 DEF SoundInv, CompareInv
<1>10. ASSUME pcC' = "scan", complete, NEW r \in Resources, r < scan' PROVE Compared(r)'
  <2>1. r < scan \/ (r = scan /\ scan' # scan)
    BY <1>1, <1>8, <1>10 DEF Resources
  <2> QED
    BY <1>6, <1>7, <1>10, <2>1
<1>11. ASSUME pcC' = "end", NEW r \in Resources PROVE Compared(r)'
  <2>1. (r < scan \/ r = scan) /\ complete
    BY <1>1, <1>8, <1>9, <1>11, ResAssumption DEF Resources
  <2> QED
    BY <1>6, <1>7, <1>11, <2>1
<1>12. \A d \in diffs' : \E r \in Resources : \E t \in Differences(r) : d = << r, t >>
  BY <1>1, <1>2 DEF SoundInv, CompareInv
<1>13. \A r \in Resources : Differences(r)' = Differences(r)
  BY <1>1, SameFiles
<1>14. AllExtracted' <=> AllExtracted
  BY <1>1 DEF AllExtracted
<1>15. pcC' # "decide"
  BY <1>8
<1> QED
  BY <1>1, <1>5, <1>9, <1>10, <1>11, <1>12, <1>13, <1>14, <1>15 DEF CompareInv, SoundInv

-----------------------------------------------------------------------------
(* The steps of the comparator, the comparison of two nodes apart *)

\* What the comparator has decided stays decided while it stands still.
LEMMA StandingStill ==
  ASSUME content' = content, cursor' = cursor, diffs' = diffs, NEW r,
         \A k \in Files : /\ Len(History(k, r)) \in Nat /\ Len(History(k, r)') \in Nat
                          /\ Len(History(k, r)) <= Len(History(k, r)')
  PROVE  (PlaceInv(r) => PlaceInv(r)') /\ (Compared(r) => Compared(r)')
<1>1. ASSUME PlaceInv(r) PROVE PlaceInv(r)'
  <2>1. /\ \A k \in Files : cursor[r][k] \in 1 .. Len(History(k, r))
        /\ \A k, j \in Files : cursor[r][k] > 1 =>
             Time(k, r, cursor[r][k] - 1) <= Time(j, r, cursor[r][j])
        /\ \A t \in Tags(r) : (\A k \in Files : t < Time(k, r, cursor[r][k])) =>
             (t \in Differences(r) => << r, t >> \in diffs)
    BY <1>1 DEF PlaceInv, InHistory, OneTimeBehind, DecidedBefore, Decided
  <2>2. \A k \in Files : cursor[r][k] \in 1 .. Len(History(k, r)')
    BY <2>1
  <2> QED
    BY <2>1, <2>2, PlaceNext
<1>2. ASSUME Compared(r) PROVE Compared(r)'
  BY <1>2, ComparedNext DEF Compared, Decided
<1> QED
  BY <1>1, <1>2

\* Nothing the comparator does makes a thread fail.
LEMMA ComparatorThreads ==
  ASSUME IInv, SettleInv, SoundInv, Good, Comparator
  PROVE  ~errors' /\ DOMAIN stamp' = Files /\ \A k \in Files : ThreadInv(k)'
<1>1. ~errors'
  BY DEF Comparator, TakeVectors, GiveUp, CompareInitialStates, GoOn, StartHistories, StopScan,
         ComparePair, Good, Sound, SoundInv
<1>2. /\ UNCHANGED << content, pcP, pcX, processed, stamp, extracted >>
      /\ DOMAIN stamp = Files
  BY DEF Comparator, TakeVectors, GiveUp, CompareInitialStates, GoOn, StartHistories, StopScan,
         ComparePair, CmpFrame, comVars, parVars, extVars, SoundInv
<1>3. ASSUME NEW k \in Files
      PROVE  /\ slot'[k] \in {slot[k], NoVector}
             /\ seen'[k] \in {seen[k], slot[k]}
  <2>1. CASE TakeVectors
    BY <2>1 DEF TakeVectors, LatestSeen
  <2>2. CASE ~TakeVectors
    <3>1. slot' = slot /\ seen' = seen
      BY <2>2 DEF Comparator, GiveUp, CompareInitialStates, GoOn, StartHistories, StopScan,
                  ComparePair
    <3> QED
      BY <3>1
  <2> QED
    BY <2>1, <2>2
<1>4. ASSUME NEW k \in Files PROVE Begun(NoVector, k)
  <2>1. FirstTime(k) \in Nat
    <3>1. content[k] \in Seq(Record)
      BY DEF IInv, TypeInv
    <3>2. content[k] # << >> => content[k][1] \in Record
      BY <3>1
    <3> QED
      BY <3>2 DEF FirstTime, Record
  <2> QED
    BY <2>1 DEF Begun, NoVector
<1>5. ASSUME NEW k \in Files PROVE ThreadInv(k)'
  <2>1. ThreadInv(k) /\ Begun(NoVector, k)
    BY <1>4 DEF SoundInv
  <2>2. Begun(slot'[k], k) /\ Begun(seen'[k], k)
    BY <1>3, <2>1 DEF ThreadInv
  <2>3. Begun(slot[k], k)' /\ Begun(seen[k], k)'
    BY <1>2, <2>2 DEF Begun, FirstTime
  <2> QED
    BY <1>2, <2>1, <2>3 DEF ThreadInv, Done
<1> QED
  BY <1>1, <1>2, <1>5

\* No time is before the first node of a history.
LEMMA NothingBefore ==
  ASSUME TypeInv, Orderly, NEW r \in Resources, NEW t \in Tags(r)
  PROVE  \E k \in Files : ~(t < Time(k, r, 1))
<1>1. PICK k \in Files : \E n \in 1 .. Size(k, r) : Time(k, r, n) = t
  BY TagsAre
<1>2. PICK n \in 1 .. Size(k, r) : Time(k, r, n) = t
  BY <1>1
<1>3. /\ Size(k, r) \in Nat
      /\ \A l \in 1 .. Size(k, r) : Time(k, r, l) \in Nat
      /\ \A l, h \in 1 .. Size(k, r) : l < h => Time(k, r, l) < Time(k, r, h)
  BY <1>1, TimesAscend
<1>4. 1 \in 1 .. Size(k, r) /\ (n = 1 \/ 1 < n)
  BY <1>2, <1>3
<1>5. ~(t < Time(k, r, 1))
  BY <1>2, <1>3, <1>4
<1> QED
  BY <1>1, <1>5

\* The first nodes: every history has one.
LEMMA InitialStatesCompare ==
  ASSUME IInv, SettleInv, SoundInv, Good, CompareInitialStates
  PROVE  CompareInv'
<1>1. /\ UNCHANGED << content, seen, closing, diffs, extracted, complete >>
      /\ pcC = "decide" /\ fresh /\ ~fresh'
      /\ FirstTime(0) = FirstTime(1)
  BY DEF CompareInitialStates, CmpFrame, comVars, Good, Sound
<1>2. pcC' \in {"start", "crashed"} /\ cursor' = [r \in Resources |-> [k \in Files |-> 1]]
  BY <1>1 DEF CompareInitialStates
<1>3. ASSUME NEW k \in Files, NEW r \in Resources
      PROVE  Len(History(k, r)) \in Nat /\ Len(History(k, r)) > 0
  <2>1. TypeInv /\ Orderly /\ InOrder(processed[k]) /\ Done(k) \in Nat /\ Done(k) <= Len(content[k])
    BY DEF IInv, TypeInv, FileInv, ExtractInv, Good, Done, SoundInv, ThreadInv
  <2>2. CASE closing
    <3>1. Done(k) = Len(content[k])
      BY <2>2 DEF SoundInv, CompareInv, AllExtracted, ThreadInv
    <3> QED
      BY <2>1, <3>1, HistoryBegun
  <2>3. CASE ~closing
    <3>1. seen[k].time > FirstTime(k)
      BY <1>1, <2>3 DEF SoundInv, CompareInv
    <3>2. seen[k] # NoVector /\ seen[k].last[r] > 0
      BY <3>1 DEF SoundInv, ThreadInv, Begun
    <3>3. seen[k].last[r] \in Nat /\ seen[k].last[r] <= Len(History(k, r))
      BY <3>2 DEF SettleInv, VectorsInv, PointsInto
    <3> QED
      BY <2>1, <3>2, <3>3, HistoryInFile
  <2> QED
    BY <2>2, <2>3
<1>4. ASSUME NEW r \in Resources PROVE PlaceInv(r)'
  <2>1. \A k \in Files : cursor'[r][k] = 1
    BY <1>2
  <2>2. \A k \in Files : History(k, r)' = History(k, r)
    BY ComparatorFrame DEF Comparator
  <2>3. \A k \in Files : 1 \in 1 .. Len(History(k, r)')
    BY <1>3, <2>2
  <2>4. \A t \in Tags(r) : ~ \A k \in Files : t < Time(k, r, 1)
    BY NothingBefore DEF IInv, Good
  <2> QED
    BY <1>1, <2>1, <2>3, <2>4, PlaceNext
<1>5. \A d \in diffs' : \E r \in Resources : \E t \in Differences(r)' : d = << r, t >>
  BY <1>1, SameFiles DEF SoundInv, CompareInv
<1>6. closing => AllExtracted'
  BY <1>1 DEF SoundInv, CompareInv, AllExtracted
<1> QED
  BY <1>1, <1>2, <1>4, <1>5, <1>6 DEF CompareInv

\* The other steps of the comparator.
LEMMA OthersCompare ==
  ASSUME IInv, SettleInv, SoundInv, Good, TakeVectors \/ GiveUp \/ GoOn \/ StartHistories \/ StopScan
  PROVE  CompareInv'
<1>1. UNCHANGED << content, fresh, cursor, diffs, extracted >> /\ CompareInv /\ ~errors
  BY DEF TakeVectors, GiveUp, GoOn, StartHistories, StopScan, CmpFrame, comVars, SoundInv
<1>2. \A k \in Files, r \in Resources : /\ History(k, r)' = History(k, r)
                                        /\ Len(History(k, r)) \in Nat
  BY ComparatorFrame, HistoryInFile DEF Comparator, IInv, FileInv, ExtractInv, SoundInv, ThreadInv
<1>3. \A r \in Resources : (PlaceInv(r) => PlaceInv(r)') /\ (Compared(r) => Compared(r)')
  BY <1>1, <1>2, StandingStill
<1>4. \A d \in diffs' : \E r \in Resources : \E t \in Differences(r)' : d = << r, t >>
  BY <1>1, SameFiles DEF CompareInv
<1>5. AllExtracted' <=> AllExtracted
  BY <1>1 DEF AllExtracted
<1>6. CASE TakeVectors
  <2>1. /\ closing' = (closing \/ AllExtracted) /\ pcC' \in {"decide", "poll"}
        /\ pcC' = "decide" => closing' \/ \A k \in Files : seen'[k].time > FirstTime(k)
    BY <1>6 DEF TakeVectors, Ready, InitialRecordsRead
  <2>2. \A k \in Files : FirstTime(k)' = FirstTime(k)
    BY <1>1 DEF FirstTime
  <2> QED
    BY <1>1, <1>3, <1>4, <1>5, <2>1, <2>2 DEF CompareInv
<1>7. CASE GiveUp
  <2>1. pcC' = "aborted" /\ UNCHANGED closing
    BY <1>1, <1>7 DEF GiveUp
  <2> QED
    BY <1>1, <1>3, <1>4, <1>5, <2>1 DEF CompareInv
<1>8. CASE GoOn
  <2>1. pcC' = "start" /\ UNCHANGED closing
    BY <1>8 DEF GoOn
  <2> QED
    BY <1>1, <1>3, <1>4, <1>5, <2>1 DEF CompareInv
<1>9. CASE StartHistories
  <2>1. pcC' \in {"scan", "aborted"} /\ UNCHANGED closing /\ complete' = AllExtracted /\ scan' = 1
    BY <1>9 DEF StartHistories
  <2>2. \A r \in Resources : ~(r < 1)
    BY DEF Resources
  <2> QED
    BY <1>1, <1>3, <1>4, <1>5, <2>1, <2>2 DEF CompareInv
<1>10. CASE StopScan
  <2>1. ~complete /\ ~complete' /\ UNCHANGED closing /\ ~closing /\ pcC' \in {"scan", "poll"}
    BY <1>1, <1>10 DEF StopScan, Unsettled, NextResource, CompareInv
  <2> QED
    BY <1>1, <1>3, <1>4, <1>5, <2>1 DEF CompareInv
<1> QED
  BY <1>6, <1>7, <1>8, <1>9, <1>10

LEMMA ComparatorIsSound == ASSUME IInv, SettleInv, SoundInv, Comparator PROVE SoundInv'
<1>1. Good' <=> Good
  BY ComparatorFrame, GoodNext
<1>2. ASSUME Good PROVE CompareInv'
  BY <1>2, PairCompares, InitialStatesCompare, OthersCompare DEF Comparator
<1> QED
  BY <1>1, <1>2, ComparatorThreads DEF SoundInv

-----------------------------------------------------------------------------
(* The steps of the other threads *)

\* A step of another thread changes nothing that the comparator has decided.
LEMMA OtherCompares ==
  ASSUME IInv, IInv', OtherStep, SoundInv, Good
  PROVE  CompareInv'
<1>1. ASSUME NEW k \in Files PROVE HistoriesGrow(k)
  BY MoreIsProcessed DEF OtherStep, IInv, FileInv, ExtractInv
<1>2. UNCHANGED << content, seen, closing, fresh, complete, scan, cursor, diffs >> /\ CompareInv
  BY DEF OtherStep, SoundInv
<1>3. \A r \in Resources : (PlaceInv(r) => PlaceInv(r)') /\ (Compared(r) => Compared(r)')
  BY <1>1, <1>2, StandingStill DEF HistoriesGrow
<1>4. \A d \in diffs' : \E r \in Resources : \E t \in Differences(r)' : d = << r, t >>
  BY <1>2, SameFiles DEF CompareInv
<1>5. AllExtracted => AllExtracted'
  BY DEF AllExtracted, OtherStep
<1>6. \A k \in Files : FirstTime(k)' = FirstTime(k)
  BY <1>2 DEF FirstTime
<1>7. pcC' = pcC \/ pcC' = "crashed"
  BY DEF OtherStep
<1> QED
  BY <1>2, <1>3, <1>4, <1>5, <1>6, <1>7 DEF CompareInv

\* What the invariant says of the thread of one file depends on this.
LEMMA SameThread ==
  ASSUME NEW k \in Files, ThreadInv(k), content' = content, pcP'[k] \notin {"missing", "close"},
         pcX'[k] # "report", processed'[k] = processed[k], stamp'[k] = stamp[k],
         extracted'[k] => extracted[k], slot'[k] = slot[k], seen' = seen
  PROVE  ThreadInv(k)'
BY DEF ThreadInv, Done, Begun, FirstTime

LEMMA ParserIsSound ==
  ASSUME IInv, IInv', SettleInv, SoundInv, Good, NEW k \in Files, Parser(k)
  PROVE  SoundInv'
<1>1. OtherStep /\ UNCHANGED << content, scope, extVars, seen, slot, extracted >>
  BY ParserIsOther DEF Parser, CannotOpen, ReportMissing, ParseRecord, SyntaxError, TransferLast,
     Free, Close, Clear, comVars, sharedVars, cmpVars
<1>2. ~errors /\ ThreadInv(k) /\ content[k] # << >> /\ pcP \in [Files -> ParserStates]
  BY DEF SoundInv, Good, Sound, Missing, IInv, TypeInv
<1>3. ~SyntaxError(k)
  <2>1. SUFFICES ASSUME SyntaxError(k) PROVE FALSE
    OBVIOUS
  <2>2. read[k] \in Nat /\ read[k] <= Len(content[k]) /\ read[k] # Len(content[k])
        /\ Len(content[k]) \in Nat
    BY <2>1, AtFile DEF SyntaxError, AtEnd, IInv, FileInv, ParseInv
  <2>3. read[k] + 1 \in 1 .. Len(content[k])
    BY <2>2
  <2> QED
    BY <2>1, <2>3 DEF SyntaxError, Good, Sound, HasKind
<1>4. ~CannotOpen(k) /\ ~ReportMissing(k) /\ ~Close(k)
  BY <1>2 DEF CannotOpen, ReportMissing, Close, ThreadInv
<1>5. ~errors'
  BY <1>2, <1>3, <1>4 DEF Parser, ParseRecord, TransferLast, Free, Clear, sharedVars
<1>6. \E s \in {"reading", "free", "freeLast", "wait", "end"} : pcP' = [pcP EXCEPT ![k] = s]
  BY <1>3, <1>4 DEF Parser, ParseRecord, TransferLast, Free, Clear, Goto
<1>7. ASSUME NEW j \in Files PROVE ThreadInv(j)'
  <2>1. ThreadInv(j)
    BY DEF SoundInv, Good
  <2>2. pcP'[j] \notin {"missing", "close"} /\ pcX'[j] # "report"
    BY <1>1, <1>2, <1>6, <2>1 DEF ThreadInv, extVars
  <2> QED
    BY <1>1, <2>1, <2>2, SameThread DEF extVars
<1>8. DOMAIN stamp' = Files
  BY <1>1 DEF SoundInv, extVars
<1> QED
  BY <1>1, <1>5, <1>7, <1>8, OtherCompares DEF SoundInv

\* The records of sound files can be processed.
LEMMA NoThrow ==
  ASSUME IInv, Good, NEW k \in Files PROVE ~Throw(k)
<1>1. SUFFICES ASSUME Throw(k) PROVE FALSE
  OBVIOUS
<1> DEFINE upto == IF pcX[k] = "batch" THEN end[k] - 1 ELSE end[k]
<1>2. /\ first[k] \in Nat /\ end[k] \in Nat /\ last[k] \in Nat /\ read[k] \in Nat
      /\ Len(content[k]) \in Nat /\ end[k] <= last[k] /\ last[k] <= read[k]
      /\ read[k] <= Len(content[k]) /\ (first[k] = 0 => last[k] = 0)
      /\ pcX[k] \in {"batch", "tail"} /\ (pcX[k] = "tail" => first[k] # 0)
  BY <1>1, AtFile DEF Throw, IInv, FileInv, ParseInv, ExtractInv
<1>3. upto \in Int /\ upto <= Len(content[k]) /\ (first[k] = 0 => upto < 0)
  BY <1>2
<1>4. PICK n \in first[k] .. upto : content[k][n].kind = "undefined"
  BY <1>1 DEF Throw, Undefined
<1>5. n \in 1 .. Len(content[k])
  BY <1>2, <1>3, <1>4
<1> QED
  BY <1>4, <1>5 DEF Good, Sound, HasKind

\* The time stamp is that of the record processed last.
LEMMA StampOfBatch ==
  ASSUME IInv, DOMAIN stamp = Files, NEW k \in Files, ThreadInv(k), ProcessBatch(k)
  PROVE  /\ DOMAIN stamp' = Files /\ \A j \in Files : j # k => stamp'[j] = stamp[j]
         /\ Len(processed'[k]) <= Len(content[k])
         /\ stamp'[k] = IF Len(processed'[k]) = 0 THEN 0 ELSE content[k][Len(processed'[k])].time
<1> DEFINE upto == end[k] - 1
<1>1. /\ first[k] \in Nat /\ end[k] \in Nat /\ last[k] \in Nat /\ read[k] \in Nat
      /\ Len(content[k]) \in Nat /\ first[k] <= end[k] /\ end[k] <= last[k] /\ last[k] <= read[k]
      /\ read[k] <= Len(content[k]) /\ (first[k] = 0 => last[k] = 0)
      /\ Done(k) = IF first[k] = 0 THEN 0 ELSE first[k] - 1
      /\ ProcessRecords(k, first[k], upto) /\ Undefined(k, first[k], upto) = {}
  BY AtFile DEF ProcessBatch, IInv, FileInv, ParseInv, ExtractInv
<1>2. Len(processed'[k]) = IF end[k] = 0 THEN 0 ELSE end[k] - 1
  BY BatchProcessed DEF IInv
<1>3. upto \in Int
  BY <1>1
<1>4. /\ DOMAIN stamp' = Files
      /\ stamp'[k] = IF first[k] <= upto THEN content[k][upto].time ELSE stamp[k]
      /\ \A h \in Files : h # k => stamp'[h] = stamp[h]
  <2> HIDE DEF upto
  <2> QED
    BY <1>1, <1>3, StampAfter
<1>5. stamp[k] = IF Done(k) = 0 THEN 0 ELSE content[k][Done(k)].time
  BY DEF ThreadInv
<1>6. CASE first[k] <= upto
  <2>1. end[k] # 0 /\ end[k] - 1 # 0
    BY <1>1, <1>6
  <2> QED
    BY <1>1, <1>2, <1>4, <1>6, <2>1
<1>7. CASE ~(first[k] <= upto)
  <2>1. first[k] = end[k]
    BY <1>1, <1>7
  <2>2. Len(processed'[k]) = Done(k)
    BY <1>1, <1>2, <2>1
  <2> QED
    BY <1>1, <1>2, <1>4, <1>5, <1>7, <2>2
<1> QED
  BY <1>6, <1>7

LEMMA StampOfRest ==
  ASSUME IInv, DOMAIN stamp = Files, NEW k \in Files, ProcessRest(k)
  PROVE  /\ DOMAIN stamp' = Files /\ \A j \in Files : j # k => stamp'[j] = stamp[j]
         /\ Len(processed'[k]) <= Len(content[k])
         /\ stamp'[k] = IF Len(processed'[k]) = 0 THEN 0 ELSE content[k][Len(processed'[k])].time
<1>1. /\ first[k] \in Nat /\ end[k] \in Int /\ last[k] \in Nat /\ read[k] \in Nat
      /\ Len(content[k]) \in Nat /\ first[k] <= end[k] /\ end[k] = last[k] /\ last[k] <= read[k]
      /\ read[k] <= Len(content[k]) /\ first[k] # 0
      /\ ProcessRecords(k, first[k], end[k]) /\ Undefined(k, first[k], end[k]) = {}
  BY AtFile DEF ProcessRest, IInv, FileInv, ParseInv, ExtractInv
<1>2. Len(processed'[k]) = end[k]
  BY RestProcessed DEF IInv
<1>3. /\ DOMAIN stamp' = Files
      /\ stamp'[k] = IF first[k] <= end[k] THEN content[k][end[k]].time ELSE stamp[k]
      /\ \A h \in Files : h # k => stamp'[h] = stamp[h]
  BY <1>1, StampAfter
<1> QED
  BY <1>1, <1>2, <1>3

\* So is the vector that an extraction thread delivers.
LEMMA VectorBegun ==
  ASSUME IInv, Good, NEW k \in Files, ThreadInv(k)
  PROVE  Begun(SafeVector(k), k)
<1> SUFFICES ASSUME stamp[k] > FirstTime(k)
             PROVE  SafeVector(k) # NoVector /\ \A r \in Resources : SafeVector(k).last[r] > 0
  BY DEF Begun, SafeVector
<1>1. FirstTime(k) \in Nat
  <2>1. content[k] \in Seq(Record)
    BY DEF IInv, TypeInv
  <2>2. content[k] # << >> => content[k][1] \in Record
    BY <2>1
  <2> QED
    BY <2>2 DEF FirstTime, Record
<1>2. Done(k) # 0 /\ content[k][Done(k)].time > FirstTime(k)
  BY <1>1 DEF ThreadInv
<1>3. \A r \in Resources : Len(History(k, r)) \in Nat /\ Len(History(k, r)) > 0
  <2>1. TypeInv /\ Orderly /\ InOrder(processed[k]) /\ Done(k) \in Nat
    BY DEF IInv, TypeInv, FileInv, ExtractInv, Good, Done
  <2> QED
    BY <1>2, <2>1, HistoryBegun
<1>4. SafeVector(k) # NoVector
  <2>1. SafeVector(k).time = stamp[k] /\ NoVector.time = 0
    BY DEF SafeVector, NoVector
  <2> QED
    BY <1>1, <2>1
<1> QED
  BY <1>3, <1>4 DEF SafeVector

\* What a step of an extraction thread changes, if the files are sound.
LEMMA ExtractionGoesOn ==
  ASSUME IInv, DOMAIN stamp = Files, DOMAIN slot = Files, Good, ~errors, NEW k \in Files,
         ThreadInv(k), Extractor(k)
  PROVE  /\ ~errors' /\ UNCHANGED << content, scope, pcP, seen >>
         /\ DOMAIN stamp' = Files
         /\ \A j \in Files : j # k => stamp'[j] = stamp[j] /\ slot'[j] = slot[j]
         /\ pcX'[k] # "report"
         /\ \/ processed'[k] = processed[k] /\ stamp'[k] = stamp[k]
            \/ /\ Len(processed'[k]) <= Len(content[k])
               /\ stamp'[k] = IF Len(processed'[k]) = 0 THEN 0
                              ELSE content[k][Len(processed'[k])].time
         /\ extracted'[k] => extracted[k] \/ Done(k) = Len(content[k])
         /\ slot'[k] = slot[k] \/ slot'[k] = SafeVector(k)
<1>1. pcX[k] # "report" /\ ~Throw(k) /\ ~ReportThrow(k)
  BY NoThrow DEF ThreadInv, ReportThrow
<1>2. pcX \in [Files -> ExtractorStates] /\ extracted \in [Files -> BOOLEAN] /\ ~terminate[k]
  BY DEF IInv, TypeInv, TimeInv, Good, Sound
<1> USE DEF ExtFrame, comVars, parVars, cmpVars, Goto
<1>3. CASE SeeBatch(k)
  BY <1>2, <1>3 DEF SeeBatch
<1>4. CASE SeeParsed(k)
  BY <1>2, <1>4 DEF SeeParsed
<1>5. CASE ProcessBatch(k)
  <2>1. /\ UNCHANGED << errors, content, scope, pcP, seen, slot, extracted >> /\ pcX'[k] = "vector"
    BY <1>2, <1>5 DEF ProcessBatch
  <2> QED
    BY <1>5, <2>1, StampOfBatch
<1>6. CASE ProcessRest(k)
  <2>1. UNCHANGED << errors, content, scope, pcP, seen, slot, extracted >> /\ pcX'[k] = "lastVector"
    BY <1>2, <1>6 DEF ProcessRest
  <2> QED
    BY <1>6, <2>1, StampOfRest
<1>7. CASE ReadDeleted(k)
  BY <1>1, <1>7 DEF ReadDeleted, extVars, sharedVars
<1>8. CASE StoreVector(k)
  BY <1>2, <1>8 DEF StoreVector
<1>9. CASE FindSlotFull(k)
  BY <1>2, <1>9 DEF FindSlotFull
<1>10. CASE RetrySlot(k)
  BY <1>2, <1>10 DEF RetrySlot
<1>11. CASE Poll(k)
  BY <1>2, <1>11 DEF Poll
<1>12. CASE PollFlags(k)
  BY <1>2, <1>12 DEF PollFlags
<1>13. CASE Finish(k)
  <2>1. Done(k) = Len(content[k])
    BY <1>13 DEF Finish, IInv, FileInv, ParseInv, ExtractInv, Good, Sound, ThreadInv
  <2> QED
    BY <1>2, <1>13, <2>1 DEF Finish, SetExtracted
<1> QED
  BY <1>1, <1>3, <1>4, <1>5, <1>6, <1>7, <1>8, <1>9, <1>10, <1>11, <1>12, <1>13 DEF Extractor

LEMMA ExtractorIsSound ==
  ASSUME IInv, IInv', SettleInv, SoundInv, Good, NEW k \in Files, Extractor(k)
  PROVE  SoundInv'
<1>1. DOMAIN stamp = Files /\ DOMAIN slot = Files /\ ~errors /\ \A j \in Files : ThreadInv(j)
  BY DEF SoundInv, SettleInv, CursorTypes
<1>2. OtherStep
  BY <1>1, ExtractorIsOther
<1>3. /\ ~errors' /\ UNCHANGED << content, scope, pcP, seen >>
      /\ DOMAIN stamp' = Files
      /\ \A j \in Files : j # k => stamp'[j] = stamp[j] /\ slot'[j] = slot[j]
      /\ pcX'[k] # "report"
      /\ \/ processed'[k] = processed[k] /\ stamp'[k] = stamp[k]
         \/ /\ Len(processed'[k]) <= Len(content[k])
            /\ stamp'[k] = IF Len(processed'[k]) = 0 THEN 0
                           ELSE content[k][Len(processed'[k])].time
      /\ extracted'[k] => extracted[k] \/ Done(k) = Len(content[k])
      /\ slot'[k] = slot[k] \/ slot'[k] = SafeVector(k)
  BY <1>1, ExtractionGoesOn
<1>4. ASSUME NEW j \in Files, j # k PROVE ThreadInv(j)'
  <2>1. Same(j)
    BY <1>4, ExtractorOthers DEF IInv
  <2> QED
    BY <1>1, <1>3, <1>4, <2>1, SameThread DEF Same, ThreadInv
<1>5. ThreadInv(k)'
  <2>1. pcP'[k] \notin {"missing", "close"} /\ pcX'[k] # "report"
    BY <1>1, <1>3 DEF ThreadInv
  <2>2. /\ Done(k)' <= Len(content'[k])
        /\ stamp'[k] = IF Done(k)' = 0 THEN 0 ELSE content'[k][Done(k)'].time
    BY <1>1, <1>3 DEF ThreadInv, Done
  <2>3. extracted'[k] => Done(k)' = Len(content'[k])
    <3>1. Done(k) <= Done(k)' /\ Done(k) \in Nat /\ Done(k)' \in Nat /\ Len(content[k]) \in Nat
      BY <1>2 DEF OtherStep, Done, IInv, TypeInv
    <3> QED
      BY <1>1, <1>3, <2>2, <3>1 DEF ThreadInv
  <2>4. Begun(slot'[k], k) /\ Begun(seen'[k], k)
    BY <1>1, <1>3, VectorBegun DEF ThreadInv
  <2>5. Begun(slot[k], k)' /\ Begun(seen[k], k)'
    BY <1>3, <2>4 DEF Begun, FirstTime
  <2> QED
    BY <2>1, <2>2, <2>3, <2>5 DEF ThreadInv
<1> QED
  BY <1>2, <1>3, <1>4, <1>5, OtherCompares DEF SoundInv

LEMMA InitSoundInv == Init => SoundInv
<1> SUFFICES ASSUME Init, Good
             PROVE  ~errors /\ DOMAIN stamp = Files /\ (\A k \in Files : ThreadInv(k)) /\ CompareInv
  BY DEF SoundInv
<1>1. TypeInv
  BY InitIInv DEF IInv
<1>2. ASSUME NEW k \in Files PROVE ThreadInv(k)
  <2>1. FirstTime(k) \in Nat /\ Len(content[k]) \in Nat
    <3>1. content[k] \in Seq(Record)
      BY <1>1 DEF TypeInv
    <3>2. content[k] # << >> => content[k][1] \in Record
      BY <3>1
    <3> QED
      BY <3>1, <3>2 DEF FirstTime, Record
  <2>2. Done(k) = 0
    BY DEF Init, Done
  <2>3. Begun(NoVector, k)
    BY <2>1 DEF Begun, NoVector
  <2> QED
    BY <2>1, <2>2, <2>3 DEF Init, ThreadInv
<1>3. CompareInv
  BY DEF Init, CompareInv
<1> QED
  BY <1>2, <1>3 DEF Init

LEMMA NextIsSound == IInv /\ SettleInv /\ SoundInv /\ [Next]_vars => SoundInv'
<1> SUFFICES ASSUME IInv, SettleInv, SoundInv, [Next]_vars PROVE SoundInv'
  OBVIOUS
<1>1. IInv'
  BY NextIInv
<1>2. CASE Comparator
  BY <1>2, ComparatorIsSound
<1>3. CASE ~Good /\ ~Comparator
  <2>1. UNCHANGED << content, scope >>
    BY <1>3 DEF Next, Parser, CannotOpen, ReportMissing, ParseRecord, SyntaxError, TransferLast,
       Free, Close, Clear, Extractor, SeeBatch, SeeParsed, ProcessBatch, ProcessRest, Throw,
       ReportThrow, ReadDeleted, StoreVector, FindSlotFull, RetrySlot, Poll, PollFlags, Finish,
       ExtFrame, TimeUp, Terminated, vars, comVars
  <2> QED
    BY <1>3, <2>1, GoodNext DEF SoundInv
<1>4. ASSUME Good, NEW k \in Files, Parser(k) PROVE SoundInv'
  BY <1>1, <1>4, ParserIsSound
<1>5. ASSUME Good, NEW k \in Files, Extractor(k) PROVE SoundInv'
  BY <1>1, <1>5, ExtractorIsSound
<1>6. CASE Good /\ (TimeUp \/ UNCHANGED vars)
  <2>1. OtherStep /\ UNCHANGED << content, pcP, extVars, cmpVars, slot, extracted, errors >>
    BY <1>6, RestIsOther DEF TimeUp, vars, comVars, parVars, sharedVars
  <2>2. \A k \in Files : ThreadInv(k) /\ pcP'[k] \notin {"missing", "close"} /\ pcX'[k] # "report"
    BY <1>6, <2>1 DEF SoundInv, ThreadInv, extVars
  <2>3. \A k \in Files : ThreadInv(k)'
    BY <2>1, <2>2, SameThread DEF extVars, cmpVars
  <2> QED
    BY <1>1, <1>6, <2>1, <2>3, OtherCompares DEF SoundInv, extVars
<1> QED
  BY <1>2, <1>3, <1>4, <1>5, <1>6 DEF Next, Terminated

\* The differences that the comparator has listed are those of the files: at every
\* time that both histories of a resource have been compared up to, and at every
\* time once it has ended, whatever the threads do in the meantime.
THEOREM ComparisonIsRight == Spec => []DifferencesAreRight
<1>1. ASSUME IInv, SettleInv, SoundInv PROVE DifferencesAreRight
  <2> SUFFICES ASSUME Good
               PROVE  /\ ~fresh => \A r \in Resources : \A t \in Tags(r) :
                           (\A k \in Files : t < Tag(k, r)) =>
                           (<< r, t >> \in diffs <=> t \in Differences(r))
                      /\ pcC = "end" =>
                           diffs = UNION {{<< r, t >> : t \in Differences(r)} : r \in Resources}
    BY DEF DifferencesAreRight, Good
  <2>1. /\ TypeInv /\ Orderly
        /\ \A k \in Files : Done(k) <= Len(content[k])
        /\ ~fresh => \A r \in Resources : PlaceInv(r)
        /\ pcC = "end" => ~fresh /\ \A r \in Resources : Compared(r)
        /\ \A d \in diffs : \E r \in Resources : \E t \in Differences(r) : d = << r, t >>
    BY <1>1 DEF IInv, Good, SoundInv, ThreadInv, CompareInv
  <2>2. ASSUME NEW r \in Resources, NEW t, << r, t >> \in diffs PROVE t \in Differences(r)
    BY <2>1, <2>2
  <2>3. ASSUME ~fresh, NEW r \in Resources, NEW t \in Tags(r), \A k \in Files : t < Tag(k, r)
        PROVE  << r, t >> \in diffs <=> t \in Differences(r)
    <3>1. \A k \in Files : Tag(k, r) = Time(k, r, cursor[r][k])
      BY <1>1, <2>1, <2>3, CurrentNodes DEF PlaceInv
    <3>2. Decided(r, t)
      BY <2>1, <2>3, <3>1 DEF PlaceInv, DecidedBefore
    <3> QED
      BY <2>2, <3>2 DEF Decided
  <2>4. ASSUME pcC = "end", NEW r \in Resources, NEW t \in Differences(r)
        PROVE  << r, t >> \in diffs
    <3>1. t \in Tags(r) /\ PlaceInv(r) /\ Compared(r)
      BY <2>1, <2>4 DEF Differences
    <3>2. PICK j \in Files : \E n \in 1 .. Size(j, r) : Time(j, r, n) = t
      BY <2>1, <3>1, TagsAre
    <3>3. PICK n \in 1 .. Size(j, r) : Time(j, r, n) = t
      BY <3>2
    <3>4. /\ Size(j, r) \in Nat
          /\ \A l \in 1 .. Size(j, r) : Time(j, r, l) \in Nat
          /\ \A l, h \in 1 .. Size(j, r) : l < h => Time(j, r, l) < Time(j, r, h)
      BY <2>1, <3>2, TimesAscend
    <3>5. \A k \in Files : Time(k, r, cursor[r][k]) = Time(j, r, Size(j, r))
      BY <3>1, <3>2 DEF Compared, Files
    <3>6. Time(0, r, Size(0, r)) = Time(j, r, Size(j, r))
      BY <3>1, <3>2 DEF Compared, Files
    <3>7. CASE n = Size(j, r)
      BY <2>4, <3>1, <3>3, <3>6, <3>7 DEF Compared, Decided
    <3>8. CASE n < Size(j, r)
      <4>1. t < Time(j, r, Size(j, r))
        BY <3>3, <3>4, <3>8
      <4>2. Decided(r, t)
        BY <3>1, <3>5, <4>1 DEF PlaceInv, DecidedBefore
      <4> QED
        BY <2>4, <4>2 DEF Decided
    <3> QED
      BY <3>3, <3>4, <3>7, <3>8
  <2>5. ASSUME pcC = "end"
        PROVE  diffs = UNION {{<< r, t >> : t \in Differences(r)} : r \in Resources}
    BY <2>1, <2>4, <2>5
  <2> QED
    BY <2>3, <2>5
<1> QED
  BY <1>1, InitIInv, NextIInv, InitSettleInv, NextSettles, InitSoundInv, NextIsSound, PTL DEF Spec
=============================================================================
