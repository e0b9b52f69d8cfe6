---------------------------- MODULE RecordReader ----------------------------
(***************************************************************************)
(* What reading a file of records is for: every record that is parsed is   *)
(* taken over once, before the next one is parsed, and a read is good only *)
(* if nothing failed and all the records have been taken over.             *)
(***************************************************************************)
EXTENDS Naturals, Sequences

VARIABLES
  status,  \* "none", "reading", "good" or "bad"
  parsed,  \* number of records parsed
  built,   \* the records that have been taken over
  failed   \* something failed

readerVars == << status, parsed, built, failed >>

Init == status = "none" /\ parsed = 0 /\ built = << >> /\ failed = FALSE

Start ==
  /\ status # "reading"
  /\ status' = "reading" /\ parsed' = 0 /\ built' = << >> /\ failed' = FALSE

Parse ==
  /\ status = "reading" /\ ~failed
  /\ parsed = Len(built)
  /\ parsed' = parsed + 1
  /\ UNCHANGED << status, built, failed >>

TakeOver ==
  /\ status = "reading" /\ ~failed
  /\ parsed = Len(built) + 1
  /\ built' = Append(built, parsed)
  /\ UNCHANGED << status, parsed, failed >>

Fail ==
  /\ status = "reading"
  /\ failed' = TRUE
  /\ UNCHANGED << status, parsed, built >>

End ==
  /\ status = "reading"
  /\ failed \/ parsed = Len(built)
  /\ status' = IF failed THEN "bad" ELSE "good"
  /\ UNCHANGED << parsed, built, failed >>

Next == Start \/ Parse \/ TakeOver \/ Fail \/ End

Spec == Init /\ [][Next]_readerVars
=============================================================================
