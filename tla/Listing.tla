------------------------------- MODULE Listing -------------------------------
(***************************************************************************)
(* What TOL output promises, without the threads that keep the promise.    *)
(* Records are published in order of time and handed over in batches.  A   *)
(* file lists one block per batch, in order: a selection of its records    *)
(* that leaves out no activity or violation and from which every resource  *)
(* value of the batch can be read back, up to the resource's tolerance.    *)
(* The TOL and the XMLTOL list the same blocks, and the output is over     *)
(* only when both list everything that was published.                      *)
(***************************************************************************)
EXTENDS Integers, Sequences

CONSTANTS
  Resource,
  Interpolated,   \* resources whose values are joined by straight lines
  Delta,          \* Delta[r]: largest difference between values told the same
  Dual            \* both a TOL and an XMLTOL are written

VARIABLES
  held,           \* records published but not handed over
  given,          \* batches handed over
  tol, xml,       \* the blocks in the two files
  over            \* the output request has ended

listVars == <<held, given, tol, xml, over>>

Abs(x) == IF x < 0 THEN -x ELSE x

Positions(s) == DOMAIN s

\* The positions of the records of batch that block lists.
ListedIn(block, batch) == {i \in Positions(batch) : \E j \in Positions(block) : block[j] = batch[i]}

SameResource(batch, i) == {j \in Positions(batch) : batch[j].res = batch[i].res}

\* p is the nearest listed position of the same resource at or before i.
NearestBefore(p, listed, batch, i) ==
  p \in listed \cap SameResource(batch, i) /\ p <= i
  /\ \A j \in listed \cap SameResource(batch, i) : j <= i => j <= p

NearestAfter(p, listed, batch, i) ==
  p \in listed \cap SameResource(batch, i) /\ p >= i
  /\ \A j \in listed \cap SameResource(batch, i) : j >= i => j >= p

\* A value held until the next one is listed ...
ReadBackStep(listed, batch, i) ==
  \E p \in listed :
    NearestBefore(p, listed, batch, i) /\ Abs(batch[p].val - batch[i].val) <= Delta[batch[i].res]

\* ... or on the straight line between two.
OnLine(p, q, batch, i) ==
  Abs(batch[p].val * (batch[q].at - batch[i].at) + batch[q].val * (batch[i].at - batch[p].at)
      - batch[i].val * (batch[q].at - batch[p].at))
    <= Delta[batch[i].res] * (batch[q].at - batch[p].at)

ReadBackLine(listed, batch, i) ==
  \E p, q \in listed :
    NearestBefore(p, listed, batch, i) /\ NearestAfter(q, listed, batch, i) /\ OnLine(p, q, batch, i)

ReadBack(listed, batch, i) ==
  CASE batch[i].res \in Interpolated -> ReadBackLine(listed, batch, i)
    [] batch[i].res \in Resource \ Interpolated -> ReadBackStep(listed, batch, i)
    [] batch[i].res \notin Resource -> i \in listed

InOrder(block) == \A i, j \in Positions(block) : i < j => block[i].at < block[j].at

Represents(block, batch) ==
  /\ \A j \in Positions(block) : \E i \in Positions(batch) : block[j] = batch[i]
  /\ InOrder(block)
  /\ \A i \in Positions(batch) : ReadBack(ListedIn(block, batch), batch, i)

-----------------------------------------------------------------------------
ListInit == held = <<>> /\ given = <<>> /\ tol = <<>> /\ xml = <<>> /\ over = FALSE

\* A record is later than those already published.
Publish ==
  /\ ~over
  /\ Len(held') = Len(held) + 1 /\ SubSeq(held', 1, Len(held)) = held
  /\ UNCHANGED <<given, tol, xml, over>>

HandOver ==
  /\ ~over
  /\ given' = Append(given, held) /\ held' = <<>>
  /\ UNCHANGED <<tol, xml, over>>

\* The next block of a file, the same in both.
NextBlock(file, file1, other) ==
  LET n == Len(file) + 1
  IN  /\ n <= Len(given)
      /\ Len(file1) = n /\ SubSeq(file1, 1, Len(file)) = file
      /\ Represents(file1[n], given[n])
      /\ n <= Len(other) => file1[n] = other[n]

ListTol == ~over /\ NextBlock(tol, tol', xml) /\ UNCHANGED <<held, given, xml, over>>

ListXml == ~over /\ Dual /\ NextBlock(xml, xml', tol) /\ UNCHANGED <<held, given, tol, over>>

Finish ==
  /\ ~over
  /\ held = <<>>
  /\ Len(tol) = Len(given)
  /\ Dual => Len(xml) = Len(given)
  /\ over' = TRUE
  /\ UNCHANGED <<held, given, tol, xml>>

ListNext == Publish \/ HandOver \/ ListTol \/ ListXml \/ Finish

ListSpec == ListInit /\ [][ListNext]_listVars
=============================================================================
