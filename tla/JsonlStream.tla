----------------------------- MODULE JsonlStream -----------------------------
(***************************************************************************)
(* The JSONL pull stream (engines/jsonl/src/stream.rs): it reads one line  *)
(* at a time, sends the decoded row through a chain of operators that keep *)
(* only counters, queues what comes out and fills batches from the queue,  *)
(* while another process may append to the file.                           *)
(*                                                                         *)
(* A line is what reading, decoding and evaluating it come to; a row is    *)
(* identified by its line and, once a list has been unnested, by its       *)
(* position in the list.  An error drops the batch in preparation but      *)
(* leaves the stream as it is.  Lines are appended whole.                  *)
(***************************************************************************)
EXTENDS Naturals, Sequences, SequencesExt

CONSTANTS
  Files,        \* the contents a file may have: sequences of lines
  Appended,     \* the lines another process may append
  MaxLines,     \* bound on the lines of a file
  Plans,        \* the operator chains: sequences of stream operators
  Options,      \* the limits a stream is opened with
  Unlimited,    \* the absence of a limit
  EvalError,    \* the result of an expression that cannot be evaluated
  Faults        \* what may fail: "read"

Truth == {"True", "False", "Unknown"}

\* `status` says whether the line is too long, not a row of the model, or fine; `cond`
\* what filters evaluate to; `list` how many elements the projected list has (a missing
\* or null list counts as empty).
Line ==
  [status : {"ok", "bad", "long"}, cond : Truth \cup {EvalError},
   list : Nat \cup {EvalError}, bytes : Nat]

Limit == Nat \cup {Unlimited}

StreamOp ==
  [op : {"filter", "project", "unnest"}] \cup [op : {"slice"}, offset : Nat, limit : Limit]

StreamOptions ==
  [batchRows : Nat, maxRows : Limit, maxBytes : Limit, maxScanned : Nat, maxSource : Nat,
   timeout : BOOLEAN]

ASSUME JsonlAssumption ==
  /\ Unlimited \notin Nat /\ EvalError \notin Nat \cup Truth
  /\ MaxLines \in Nat
  /\ Files \subseteq Seq(Line) /\ Appended \subseteq Line
  /\ Plans \subseteq Seq(StreamOp) /\ Options \subseteq StreamOptions

\* Lists of lists are left out: a row is told from others by its place in one list.
ASSUME ListsAssumption ==
  \A p \in Plans : \A i, j \in DOMAIN p : p[i].op = "unnest" /\ p[j].op = "unnest" => i = j

VARIABLES
  file,        \* the lines in the file
  plan,        \* the operators of the plan
  options,     \* the limits
  result,      \* what the plan makes of the file as it was opened (history)
  pc,          \* where the stream is
  extent,      \* lines in the file when it was opened (Take)
  line,        \* lines read
  torn,        \* whether an error left only the rest of the next line to be read
  scanned,     \* JsonlStream.scanned_rows
  ops,         \* JsonlStream.ops, with their counters
  pending,     \* JsonlStream.pending
  done,        \* JsonlStream.done
  cancelled,   \* JsonlStream.cancelled
  batch,       \* the batch in preparation
  last,        \* what the last call returned
  failedAt,    \* rows given before the first error, if there was one (history)
  seen         \* the rows the consumer has been given

inputVars == <<file, plan, options, result>>
sourceVars == <<extent, line, torn, scanned, ops>>
callVars == <<last, failedAt>>
vars == <<inputVars, pc, sourceVars, pending, done, cancelled, batch, callVars, seen>>

Row(i, item) == [line |-> i, item |-> item]

\* The element of a list counts one byte.
RowBytes(row) == IF row.item = 0 THEN file[row.line].bytes ELSE 1

Sum(numbers) ==
  LET sum[i \in 0 .. Len(numbers)] == IF i = 0 THEN 0 ELSE sum[i - 1] + numbers[i]
  IN  sum[Len(numbers)]

TotalBytes(rows) == Sum([i \in 1 .. Len(rows) |-> RowBytes(rows[i])])

Over(limit, n) == limit # Unlimited /\ n > limit

\* enforce_rows.
WithinLimits(rows) == ~ Over(options.maxRows, Len(rows)) /\ ~ Over(options.maxBytes, TotalBytes(rows))

Failed == failedAt # Unlimited

Returned(value) ==
  /\ last' = value
  /\ failedAt' = IF value = "error" /\ ~ Failed THEN Len(seen) ELSE failedAt

Init ==
  /\ file \in Files /\ plan \in Plans /\ options \in Options
  /\ pc = "new" /\ last = "new" /\ failedAt = Unlimited /\ seen = <<>>
  /\ extent = 0 /\ line = 0 /\ torn = FALSE /\ scanned = 0 /\ ops = plan
  /\ pending = <<>> /\ batch = <<>> /\ result = <<>>
  /\ done = FALSE /\ cancelled = FALSE

\* Another process appends to the file.
AppendLine(l) ==
  /\ Len(file) < MaxLines
  /\ file' = Append(file, l)
  /\ UNCHANGED <<plan, options, result, pc, sourceVars, pending, done, cancelled, batch, callVars, seen>>

-----------------------------------------------------------------------------
(***************************************************************************)
(* One source row through the operators: apply_ops and apply_op.  The      *)
(* counters an operator has used up stay used up when a later one fails.   *)
(***************************************************************************)
Min2(a, b) == IF a < b THEN a ELSE b

Elements(lines, row) ==
  LET list == lines[row.line].list
  IN  IF list = EvalError THEN <<>> ELSE [k \in 1 .. list |-> Row(row.line, k)]

OpFails(op, rows) ==
  \E i \in DOMAIN rows :
    \/ op.op = "filter" /\ file[rows[i].line].cond = EvalError
    \/ op.op = "project" /\ file[rows[i].line].list = EvalError

\* How many of n rows the offset swallows, and how many of the rest the limit lets pass.
Skipped(op, n) == Min2(op.offset, n)

Passed(op, n) == IF op.limit = Unlimited THEN n - Skipped(op, n) ELSE Min2(op.limit, n - Skipped(op, n))

\* What one row becomes.
Produced(lines, op, row) ==
  CASE op.op = "filter" -> IF lines[row.line].cond = "True" THEN <<row>> ELSE <<>>
    [] op.op = "project" -> <<row>>
    [] op.op = "unnest" -> Elements(lines, row)

OpRows(lines, op, rows) ==
  IF op.op = "slice"
  THEN SubSeq(rows, Skipped(op, Len(rows)) + 1, Skipped(op, Len(rows)) + Passed(op, Len(rows)))
  ELSE FlattenSeq([i \in 1 .. Len(rows) |-> Produced(lines, op, rows[i])])

\* Mutation: a limit counts the rows of one source row only.
OpAfter_LimitStays(op, n) ==
  IF op.op = "slice" THEN [op EXCEPT !.offset = op.offset - Skipped(op, n)] ELSE op

OpAfter(op, n) ==
  IF op.op # "slice" THEN op
  ELSE [op EXCEPT !.offset = op.offset - Skipped(op, n),
                  !.limit = IF op.limit = Unlimited THEN Unlimited ELSE op.limit - Passed(op, n)]

ApplyOp(state, i) ==
  IF state.failed THEN state
  ELSE IF OpFails(state.ops[i], state.rows) THEN [state EXCEPT !.failed = TRUE]
  ELSE LET rows == OpRows(file, state.ops[i], state.rows)
       IN  [rows |-> rows, failed |-> ~ WithinLimits(rows),
            ops |-> [state.ops EXCEPT ![i] = OpAfter(state.ops[i], Len(state.rows))]]

ApplyOps(row) ==
  LET state[i \in 0 .. Len(ops)] ==
        IF i = 0 THEN [rows |-> <<row>>, ops |-> ops, failed |-> ~ WithinLimits(<<row>>)]
        ELSE ApplyOp(state[i - 1], i)
  IN  state[Len(ops)]

\* Operators over many rows at once, one operator after the other: filters select,
\* unnesting concatenates, a slice is a piece of the sequence.
ChainRows(lines, chain, rows) ==
  LET out[i \in 0 .. Len(chain)] == IF i = 0 THEN rows ELSE OpRows(lines, chain[i], out[i - 1])
  IN  out[Len(chain)]

WholeResult == ChainRows(file, plan, [i \in 1 .. Len(file) |-> Row(i, 0)])

\* open: limits, the size of the source, and how much of it will be read.
Open ==
  /\ pc = "new"
  /\ IF options.batchRows # 0 /\ options.maxScanned # 0 /\ Len(file) <= options.maxSource
     THEN /\ pc' = "idle" /\ Returned("opened")
          /\ extent' = Len(file) /\ result' = WholeResult
     ELSE pc' = "closed" /\ Returned("error") /\ UNCHANGED <<extent, result>>
  /\ UNCHANGED <<file, plan, options, line, torn, scanned, ops, pending, done, cancelled, batch, seen>>

-----------------------------------------------------------------------------
(***************************************************************************)
(* fill_pending, one turn of its loop at a time.                           *)
(***************************************************************************)
TargetRows ==
  IF options.maxRows = Unlimited THEN options.batchRows
  ELSE Min2(options.batchRows, IF options.maxRows = 0 THEN 1 ELSE options.maxRows)

Filling == pc = "pulling" /\ Len(batch) < TargetRows /\ pending = <<>> /\ ~ done

Return(value) == pc' = "idle" /\ batch' = <<>> /\ Returned(value)

Exhausted == \E i \in DOMAIN ops : ops[i].op = "slice" /\ ops[i].limit = 0

\* Everything the file held when it was opened is read; the last line may have lost
\* all of its bytes to an error.
SourceRead == line = extent \/ (torn /\ line + 1 = extent)

\* Mutation: an offset that is used up counts as exhaustion.
SourceEnds_OffsetToo ==
  /\ Filling
  /\ \/ \E i \in DOMAIN ops : ops[i].op = "slice" /\ (ops[i].limit = 0 \/ ops[i].offset = 0)
     \/ SourceRead
  /\ done' = TRUE
  /\ UNCHANGED <<inputVars, pc, sourceVars, pending, cancelled, batch, callVars, seen>>

\* A limit is used up, or the source is.
SourceEnds ==
  /\ Filling
  /\ Exhausted \/ SourceRead
  /\ done' = TRUE
  /\ UNCHANGED <<inputVars, pc, sourceVars, pending, cancelled, batch, callVars, seen>>

LineAtHand == Filling /\ ~ Exhausted /\ line < extent

\* What is read next.  The rest of a torn line is taken for a line of its own.
NextStatus == IF torn THEN {"ok", "bad", "long"} ELSE {file[line + 1].status}

\* A line that is too long, or a read that fails; either may leave the line torn.
ReadFails ==
  /\ LineAtHand
  /\ "long" \in NextStatus \/ "read" \in Faults
  /\ torn' \in {torn, TRUE}
  /\ Return("error")
  /\ UNCHANGED <<inputVars, extent, line, scanned, ops, pending, done, cancelled, seen>>

\* A line is counted before anything is made of it.
LineConsumed == line' = line + 1 /\ torn' = FALSE /\ scanned' = scanned + 1

LineRejected ==
  /\ LineAtHand
  /\ "bad" \in NextStatus \/ ("ok" \in NextStatus /\ scanned + 1 > options.maxScanned)
  /\ LineConsumed
  /\ Return("error")
  /\ UNCHANGED <<inputVars, extent, ops, pending, done, cancelled, seen>>

RowDecoded ==
  /\ LineAtHand /\ "ok" \in NextStatus /\ scanned + 1 <= options.maxScanned
  /\ LineConsumed

\* What came out is lost with the batch when an operator or the timeout fails.
RowFails ==
  /\ RowDecoded
  /\ LET applied == ApplyOps(Row(line + 1, 0))
     IN  /\ applied.failed \/ options.timeout
         /\ ops' = applied.ops
  /\ Return("error")
  /\ UNCHANGED <<inputVars, extent, pending, done, cancelled, seen>>

RowQueued ==
  /\ RowDecoded
  /\ LET applied == ApplyOps(Row(line + 1, 0))
     IN  /\ ~ applied.failed
         /\ ops' = applied.ops
         /\ pending' = applied.rows
  /\ UNCHANGED <<inputVars, pc, extent, done, cancelled, batch, callVars, seen>>

-----------------------------------------------------------------------------
(***************************************************************************)
(* next_batch.                                                             *)
(***************************************************************************)
StreamOver == cancelled \/ (done /\ pending = <<>>)

StartPull ==
  /\ pc = "idle" /\ ~ StreamOver
  /\ pc' = "pulling"
  /\ UNCHANGED <<inputVars, sourceVars, pending, done, cancelled, batch, callVars, seen>>

PullOver ==
  /\ pc = "idle" /\ StreamOver
  /\ Return("none")
  /\ UNCHANGED <<inputVars, sourceVars, pending, done, cancelled, seen>>

\* The timeout, noticed at the start of a pull and of each turn of fill_pending.
TimeOut ==
  /\ options.timeout
  /\ (pc = "idle" /\ ~ StreamOver) \/ Filling
  /\ Return("error")
  /\ UNCHANGED <<inputVars, sourceVars, pending, done, cancelled, seen>>

\* A row in the queue has passed enforce_rows, so that it fits into a batch of its own.
RowAtHand == pc = "pulling" /\ Len(batch) < TargetRows /\ pending # <<>>

Overflows == batch # <<>> /\ Over(options.maxBytes, TotalBytes(batch) + RowBytes(Head(pending)))

TakeRow ==
  /\ RowAtHand /\ ~ Overflows
  /\ batch' = Append(batch, Head(pending))
  /\ pending' = Tail(pending)
  /\ UNCHANGED <<inputVars, pc, sourceVars, done, cancelled, callVars, seen>>

\* The batch is full in rows or bytes, or the source has ended.
EndBatch ==
  /\ pc = "pulling"
  /\ \/ Len(batch) = TargetRows
     \/ RowAtHand /\ Overflows
     \/ pending = <<>> /\ done
  /\ Return(IF batch = <<>> THEN "none" ELSE "batch")
  /\ seen' = seen \o batch
  /\ UNCHANGED <<inputVars, sourceVars, pending, done, cancelled>>

Cancel ==
  /\ pc = "idle"
  /\ cancelled' = TRUE /\ pending' = <<>>
  /\ UNCHANGED <<inputVars, pc, sourceVars, done, batch, callVars, seen>>

Drop ==
  /\ pc = "idle"
  /\ pc' = "closed"
  /\ UNCHANGED <<inputVars, sourceVars, pending, done, cancelled, batch, callVars, seen>>

Closed == pc = "closed" /\ UNCHANGED vars

Next ==
  \/ \E l \in Appended : AppendLine(l)
  \/ Open
  \/ StartPull \/ PullOver \/ TimeOut
  \/ SourceEnds \/ ReadFails \/ LineRejected \/ RowFails \/ RowQueued
  \/ TakeRow \/ EndBatch
  \/ Cancel \/ Drop \/ Closed

Spec == Init /\ [][Next]_vars

-----------------------------------------------------------------------------
(***************************************************************************)
(* Properties.                                                             *)
(***************************************************************************)
Rows == [line : Nat \ {0}, item : Nat]

Before(r, s) == r.line < s.line \/ (r.line = s.line /\ r.item < s.item)

\* Type correctness; the counters of the operators only count down, what is queued
\* comes from one line of the file as it was opened, and the batch that is being
\* prepared is within the row and the byte limit (next_batch).  A consumer that goes on
\* after an error may miss rows, but is never given a row twice or out of order, and the
\* limits of the plan's slices still bound what it is given in all: counters are never
\* set back by an error (apply_op).
TypeOK ==
  /\ file \in Seq(Line) /\ plan \in Seq(StreamOp) /\ options \in StreamOptions /\ result \in Seq(Rows)
  /\ pc \in {"new", "idle", "pulling", "closed"}
  /\ extent \in 0 .. Len(file) /\ line \in 0 .. extent /\ torn \in BOOLEAN /\ scanned \in 0 .. line
  /\ ops \in Seq(StreamOp) /\ Len(ops) = Len(plan)
  /\ \A i \in DOMAIN ops : ops[i].op = "slice" => ops[i].offset <= plan[i].offset
  /\ pending \in Seq(Rows) /\ batch \in Seq(Rows) /\ seen \in Seq(Rows)
  /\ \A i \in DOMAIN pending : pending[i].line = line
  /\ pc = "pulling" => ~ Over(options.maxRows, Len(batch)) /\ ~ Over(options.maxBytes, TotalBytes(batch))
  /\ done \in BOOLEAN /\ cancelled \in BOOLEAN
  /\ last \in {"new", "opened", "batch", "none", "error"}
  /\ failedAt \in 0 .. Len(seen) \cup {Unlimited}
  /\ \A i, j \in DOMAIN seen : i < j => Before(seen[i], seen[j])
  /\ \A i \in DOMAIN plan :
       plan[i].op = "slice" /\ (\A j \in i + 1 .. Len(plan) : plan[j].op # "unnest")
       => ~ Over(plan[i].limit, Len(seen))

Stream == INSTANCE PullStream
  WITH live <- ~ cancelled /\ ~ Failed /\ last # "none",
       seen <- IF Failed THEN SubSeq(seen, 1, failedAt) ELSE seen,
       last <- IF Failed THEN "error" ELSE last

\* The row-by-row execution gives a consumer that stops at the first error exactly
\* the result of the plan over the file as it was when the stream was opened, in
\* order: counters kept across rows do what slicing the whole sequence does, stopping
\* early loses nothing and appended lines do not leak in (docs/engines/jsonl.md).
ImplementsPullStream == Stream!Spec
=============================================================================
