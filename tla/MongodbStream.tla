---------------------------- MODULE MongodbStream ----------------------------
(***************************************************************************)
(* The MongoDB pull stream (engines/mongodb/src/runtime.rs): one thread    *)
(* that pulls documents from an aggregation cursor, fills batches under    *)
(* the row and byte limits and keeps the row that did not fit.             *)
(*                                                                         *)
(* An error drops the batch in preparation but leaves the stream as it is: *)
(* whether the consumer pulls again is up to it.  A row that does not      *)
(* decode is a document that changed after the collection was checked.     *)
(***************************************************************************)
EXTENDS StreamRows

CONSTANTS
  Results,     \* the query results: sequences of rows
  Options,     \* the execution options a stream is opened with
  MaxFetch,    \* MAX_DRIVER_BATCH_ROWS
  Faults       \* what may fail: "open", "server"

ASSUME FetchAssumption == MaxFetch \in Nat \ {0}

ASSUME RequestAssumption == Results \subseteq Seq(ResultRow) /\ Options \subseteq ExecutionOptions

\* The id of a document stands for its place in the result.
ASSUME OrderAssumption ==
  \A rows \in Results : \A i, j \in DOMAIN rows : i < j => rows[i].id < rows[j].id

VARIABLES
  result,      \* the documents the aggregation produces
  options,     \* MongodbStream.options
  pc,          \* where the stream is
  cancelled,   \* MongodbStream.cancelled
  cursor,      \* whether MongodbStream holds its cursor and client
  pending,     \* MongodbStream.pending: no row or one
  fetched,     \* documents the server has handed over
  driver,      \* those the driver holds and DOL has not seen
  batch,       \* the batch in preparation
  batchBytes,  \* its size
  last,        \* what the last call returned
  failedAt,    \* rows given before the first error, if there was one (history)
  seen         \* the rows the consumer has been given

serverVars == <<result, options, fetched, driver>>
batchVars == <<batch, batchBytes>>
callVars == <<last, failedAt>>
vars == <<serverVars, pc, cancelled, cursor, pending, batchVars, callVars, seen>>

Target == RowTarget(options)

Failed == failedAt # Unlimited

Returned(value) ==
  /\ last' = value
  /\ failedAt' = IF value = "error" /\ ~ Failed THEN Len(seen) ELSE failedAt

Init ==
  /\ result \in Results /\ options \in Options
  /\ pc = "new" /\ last = "new" /\ failedAt = Unlimited /\ seen = <<>>
  /\ cancelled = FALSE /\ cursor = FALSE
  /\ pending = <<>> /\ batch = <<>> /\ batchBytes = 0
  /\ fetched = 0 /\ driver = <<>>

\* driver_batch_rows: the size of the pages the driver asks for.
DriverBatchRows == IF Target < MaxFetch THEN Target ELSE MaxFetch

\* A page from the server; the first comes with the reply to the aggregation.
FetchPage ==
  LET page == NextPage(result, fetched, DriverBatchRows)
  IN  driver' = page /\ fetched' = fetched + Len(page)

\* open: connecting, checking the collection and running the aggregation.
Open ==
  /\ pc = "new"
  /\ \/ /\ Target # 0
        /\ FetchPage
        /\ pc' = "idle" /\ cursor' = TRUE /\ Returned("opened")
     \/ /\ Target = 0 \/ options.timeout \/ "open" \in Faults
        /\ pc' = "closed" /\ Returned("error")
        /\ UNCHANGED <<cursor, driver, fetched>>
  /\ UNCHANGED <<result, options, cancelled, pending, batchVars, seen>>

-----------------------------------------------------------------------------
(***************************************************************************)
(* next_batch.                                                             *)
(***************************************************************************)
Return(value) ==
  /\ pc' = "idle" /\ Returned(value)
  /\ batch' = <<>> /\ batchBytes' = 0

\* Mutation: the row kept back stays where it is.
StartPull_Keeps ==
  /\ pc = "idle" /\ ~ cancelled
  /\ pc' = "pulling"
  /\ batch' = pending /\ batchBytes' = TotalBytes(pending)
  /\ UNCHANGED <<serverVars, cancelled, cursor, pending, callVars, seen>>

\* The row kept back opens the batch.
StartPull ==
  /\ pc = "idle" /\ ~ cancelled
  /\ pc' = "pulling"
  /\ batch' = pending /\ batchBytes' = TotalBytes(pending)
  /\ pending' = <<>>
  /\ UNCHANGED <<serverVars, cancelled, cursor, callVars, seen>>

PullCancelled ==
  /\ pc = "idle" /\ cancelled
  /\ Return("none")
  /\ UNCHANGED <<serverVars, cancelled, cursor, pending, seen>>

\* The check that precedes everything else.
PullTooLate ==
  /\ pc = "idle" /\ ~ cancelled
  /\ options.timeout
  /\ Return("error")
  /\ UNCHANGED <<serverVars, cancelled, cursor, pending, seen>>

\* Mutation: a full batch takes another row.
NeedsRow_OneMore == pc = "pulling" /\ Len(batch) <= Target

NeedsRow == pc = "pulling" /\ Len(batch) < Target

\* The driver asks for the next page when it has no document left.
Refill ==
  /\ NeedsRow /\ cursor
  /\ driver = <<>> /\ fetched < Len(result)
  /\ FetchPage
  /\ UNCHANGED <<result, options, pc, cancelled, cursor, pending, batchVars, callVars, seen>>

\* Mutation: the cursor is kept when it is exhausted.
Exhaust_KeepsCursor ==
  /\ NeedsRow /\ cursor
  /\ driver = <<>> /\ fetched = Len(result)
  /\ Return(IF batch = <<>> THEN "none" ELSE "batch")
  /\ seen' = seen \o batch
  /\ UNCHANGED <<serverVars, cancelled, cursor, pending>>

\* The cursor ends: it and the client are released.
Exhaust ==
  /\ NeedsRow /\ cursor
  /\ driver = <<>> /\ fetched = Len(result)
  /\ cursor' = FALSE
  /\ Return(IF batch = <<>> THEN "none" ELSE "batch")
  /\ seen' = seen \o batch
  /\ UNCHANGED <<serverVars, cancelled, pending>>

\* A pull behind the end of the cursor.
PullExhausted ==
  /\ NeedsRow /\ ~ cursor
  /\ Return(IF batch = <<>> THEN "none" ELSE "batch")
  /\ seen' = seen \o batch
  /\ UNCHANGED <<serverVars, cancelled, cursor, pending>>

RowAtHand == NeedsRow /\ cursor /\ driver # <<>>

Rejected(row) == ~ row.decodes \/ ExceedsBytes(options, row.bytes)

Overflows(row) == batch # <<>> /\ ExceedsBytes(options, batchBytes + row.bytes)

\* A document that cannot be decoded or is too large alone is consumed, and the
\* batch in preparation is lost with it.
RejectRow ==
  /\ RowAtHand /\ Rejected(Head(driver))
  /\ driver' = Tail(driver)
  /\ Return("error")
  /\ UNCHANGED <<result, options, fetched, cancelled, cursor, pending, seen>>

KeepRow ==
  /\ RowAtHand /\ ~ Rejected(Head(driver)) /\ Overflows(Head(driver))
  /\ driver' = Tail(driver)
  /\ pending' = <<Head(driver)>>
  /\ Return("batch")
  /\ seen' = seen \o batch
  /\ UNCHANGED <<result, options, fetched, cancelled, cursor>>

PushRow ==
  /\ RowAtHand /\ ~ Rejected(Head(driver)) /\ ~ Overflows(Head(driver))
  /\ driver' = Tail(driver)
  /\ batch' = Append(batch, Head(driver))
  /\ batchBytes' = batchBytes + Head(driver).bytes
  /\ UNCHANGED <<result, options, fetched, pc, cancelled, cursor, pending, callVars, seen>>

BatchFull ==
  /\ pc = "pulling" /\ Len(batch) = Target
  /\ Return("batch")
  /\ seen' = seen \o batch
  /\ UNCHANGED <<serverVars, cancelled, cursor, pending>>

\* The timeout before a row, or an error of the driver when it asks the server,
\* after which its cursor may go on or be at its end.
PullFails ==
  /\ NeedsRow
  /\ \/ options.timeout /\ UNCHANGED fetched
     \/ /\ cursor /\ driver = <<>> /\ "server" \in Faults
        /\ fetched' \in {fetched, Len(result)}
  /\ Return("error")
  /\ UNCHANGED <<result, options, driver, cancelled, cursor, pending, seen>>

Cancel ==
  /\ pc = "idle"
  /\ cancelled' = TRUE /\ pending' = <<>> /\ cursor' = FALSE
  /\ driver' = <<>>
  /\ UNCHANGED <<result, options, fetched, pc, batchVars, callVars, seen>>

\* Dropping the stream drops what it holds.
Drop ==
  /\ pc = "idle"
  /\ pc' = "closed" /\ pending' = <<>> /\ cursor' = FALSE
  /\ driver' = <<>>
  /\ UNCHANGED <<result, options, fetched, cancelled, batchVars, callVars, seen>>

Closed == pc = "closed" /\ UNCHANGED vars

Next ==
  \/ Open
  \/ StartPull \/ PullCancelled \/ PullTooLate
  \/ Refill \/ Exhaust \/ PullExhausted
  \/ RejectRow \/ KeepRow \/ PushRow \/ BatchFull \/ PullFails
  \/ Cancel \/ Drop \/ Closed

Spec == Init /\ [][Next]_vars

-----------------------------------------------------------------------------
(***************************************************************************)
(* Properties.                                                             *)
(***************************************************************************)

\* Type correctness of the stream and its cursor; the batch that is being prepared is
\* within the row and the byte limit, also across pages and kept rows, and its bytes
\* are counted right; a consumer that goes on after an error may miss rows, but is never
\* given a row twice or out of order (next_batch).
TypeOK ==
  /\ result \in Seq(ResultRow) /\ options \in ExecutionOptions
  /\ pc \in {"new", "idle", "pulling", "closed"}
  /\ cancelled \in BOOLEAN /\ cursor \in BOOLEAN
  /\ pending \in Seq(ResultRow) /\ Len(pending) <= 1
  /\ fetched \in 0 .. Len(result)
  /\ driver \in Seq(ResultRow) /\ batch \in Seq(ResultRow) /\ seen \in Seq(ResultRow)
  /\ pc = "pulling" =>
       Len(batch) <= Target /\ batchBytes = TotalBytes(batch) /\ ~ ExceedsBytes(options, batchBytes)
  /\ batchBytes \in Nat
  /\ \A i, j \in DOMAIN seen : i < j => seen[i].id < seen[j].id
  /\ last \in {"new", "opened", "batch", "none", "error"}
  /\ failedAt \in 0 .. Len(seen) \cup {Unlimited}

Stream == INSTANCE PullStream
  WITH live <- ~ cancelled /\ ~ Failed /\ last # "none",
       seen <- IF Failed THEN SubSeq(seen, 1, failedAt) ELSE seen,
       last <- IF Failed THEN "error" ELSE last

\* A consumer that stops at the first error is given the result in order, without
\* gaps or repetitions across pages, batches and the row kept back, and learns of
\* the end only after the last row (next_batch).
ImplementsPullStream == Stream!Spec

\* A stream that announced its end, or was cancelled, no longer holds a cursor and
\* a connection (next_batch, cancel), whatever errors came before.
ConnectionIsReleased == (last = "none" \/ cancelled \/ pc = "closed") => ~ cursor
=============================================================================
