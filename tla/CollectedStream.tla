-------------------------- MODULE CollectedStream --------------------------
(***************************************************************************)
(* Eager collection (crates/dol-engine/src/stream: collect_stream,         *)
(* collect_stream_with_limits) over the MongoDB stream: a consumer that    *)
(* pulls batches until the end under limits of its own, and cancels the    *)
(* stream it gives up on.                                                  *)
(*                                                                         *)
(* The collector borrows the stream: until it returns nobody else pulls,   *)
(* cancels or drops it.  The stream may have been used before, and may be  *)
(* used afterwards.  It is collected once (a bound of the model).          *)
(***************************************************************************)
EXTENDS MongodbStream

CONSTANT CollectLimits   \* the CollectLimits a collection is made under

ASSUME CollectAssumption == CollectLimits \subseteq [maxRows : Nat, maxBytes : Nat]

VARIABLES
  collect,    \* "off", "running", or how the collection ended
  limits,     \* its CollectLimits
  asked,      \* whether it waits for next_batch
  origin,     \* rows the stream had given before (history)
  collected   \* the rows collected so far

collectVars == <<collect, limits, asked, origin, collected>>

\* Before there is a collection.
NoLimits == [maxRows |-> 0, maxBytes |-> 0]

CollectInit ==
  /\ Init
  /\ collect = "off" /\ limits = NoLimits
  /\ asked = FALSE /\ origin = 0 /\ collected = <<>>

StartCollect ==
  /\ pc = "idle" /\ collect = "off"
  /\ limits' \in CollectLimits
  /\ collect' = "running" /\ origin' = Len(seen)
  /\ UNCHANGED <<vars, asked, collected>>

\* The entry of next_batch.
Pull == StartPull \/ PullCancelled \/ PullTooLate

AskBatch ==
  /\ collect = "running" /\ ~ asked
  /\ Pull
  /\ asked' = TRUE
  /\ UNCHANGED <<collect, limits, origin, collected>>

Answered == asked /\ pc = "idle"

\* The rows of the batch that has just been returned.
NewRows == SubSeq(seen, origin + Len(collected) + 1, Len(seen))

\* Mutation: the counters start again with every batch.
Admits_PerBatch(rows) ==
  LET counted == SubSeq(rows, Len(collected) + 1, Len(rows))
  IN  Len(counted) <= limits.maxRows /\ TotalBytes(counted) <= limits.maxBytes

Admits(rows) == Len(rows) <= limits.maxRows /\ TotalBytes(rows) <= limits.maxBytes

TakeBatch ==
  /\ Answered /\ last = "batch"
  /\ Admits(collected \o NewRows)
  /\ collected' = collected \o NewRows
  /\ asked' = FALSE
  /\ UNCHANGED <<vars, collect, limits, origin>>

\* More than the limits allow: the stream is cancelled and the rows are dropped.
Refuse ==
  /\ Answered /\ last = "batch"
  /\ ~ Admits(collected \o NewRows)
  /\ Cancel
  /\ collect' = "refused" /\ collected' = <<>> /\ asked' = FALSE
  /\ UNCHANGED <<limits, origin>>

\* The end of the stream, or an error of it, ends the collection.
EndCollect ==
  /\ Answered /\ last \in {"none", "error"}
  /\ collect' = IF last = "none" THEN "done" ELSE "failed"
  /\ collected' = IF last = "none" THEN collected ELSE <<>>
  /\ asked' = FALSE
  /\ UNCHANGED <<vars, limits, origin>>

\* Other uses of the stream, and its own steps.
UseStream ==
  /\ \/ collect # "running" /\ (Open \/ Pull \/ Cancel \/ Drop \/ Closed)
     \/ Refill \/ Exhaust \/ PullExhausted
     \/ RejectRow \/ KeepRow \/ PushRow \/ BatchFull \/ PullFails
  /\ UNCHANGED collectVars

CollectNext ==
  \/ StartCollect \/ AskBatch \/ TakeBatch \/ Refuse \/ EndCollect
  \/ UseStream

CollectSpec == CollectInit /\ [][CollectNext]_<<vars, collectVars>>

-----------------------------------------------------------------------------
WithinLimits(rows) == Len(rows) <= limits.maxRows /\ TotalBytes(rows) <= limits.maxBytes

\* What is being collected is within the limits, over all batches together.  A
\* collection that succeeds holds, in order, all that was left of the result, if no
\* earlier error cost the stream rows.  One that is refused really met more than its
\* limits, and has left the stream cancelled, without cursor or rows
\* (collect_stream_with_limits).
CollectionIsExact ==
  /\ WithinLimits(collected)
  /\ collect = "done" /\ ~ Failed /\ ~ cancelled => collected = SubSeq(result, origin + 1, Len(result))
  /\ collect = "refused" =>
       /\ cancelled /\ ~ cursor /\ pending = <<>> /\ driver = <<>>
       /\ ~ WithinLimits(SubSeq(seen, origin + 1, Len(seen)))
=============================================================================
