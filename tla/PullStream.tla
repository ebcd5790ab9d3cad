----------------------------- MODULE PullStream -----------------------------
(***************************************************************************)
(* What an execution stream promises its consumer (the DataStream trait of *)
(* dol-engine): batches are the next rows of the result, in order, without *)
(* gaps or repetitions; the end is announced only after the last row; once *)
(* the stream has ended, failed or been cancelled no pull produces rows.   *)
(***************************************************************************)
EXTENDS Naturals, Sequences

VARIABLES
  result,   \* the rows of the query, in the engine's order
  seen,     \* the rows the consumer has been given
  live,     \* the stream may still produce rows
  last      \* what the last call returned

vars == <<result, seen, live, last>>

Init ==
  /\ seen = <<>>
  /\ live = TRUE
  /\ last = "new"

\* Opening the stream settles what its result is.
Open ==
  /\ live /\ last = "new"
  /\ last' = "opened"
  /\ UNCHANGED <<seen, live>>

Deliver ==
  /\ live
  /\ \E n \in Len(seen) + 1 .. Len(result) : seen' = SubSeq(result, 1, n)
  /\ last' = "batch"
  /\ UNCHANGED <<result, live>>

Complete ==
  /\ live /\ seen = result
  /\ live' = FALSE
  /\ last' = "none"
  /\ UNCHANGED <<result, seen>>

Fail ==
  /\ live
  /\ live' = FALSE
  /\ last' = "error"
  /\ UNCHANGED <<result, seen>>

Cancel ==
  /\ live' = FALSE
  /\ UNCHANGED <<result, seen, last>>

\* A pull on a stream that is over; its timeout may still be noticed.
PullAgain ==
  /\ ~ live
  /\ last' \in {"none", "error"}
  /\ UNCHANGED <<result, seen, live>>

Next == Open \/ Deliver \/ Complete \/ Fail \/ Cancel \/ PullAgain

Spec == Init /\ [][Next]_vars
=============================================================================
