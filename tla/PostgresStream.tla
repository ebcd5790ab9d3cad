--------------------------- MODULE PostgresStream ---------------------------
(***************************************************************************)
(* The PostgreSQL pull stream (engines/postgres/src/runtime.rs): a client  *)
(* that pulls batches and a worker thread that owns the connection, joined *)
(* by three channels of capacity one.  The worker fetches pages from a     *)
(* portal, fills batches under the row and byte limits and keeps the row   *)
(* that did not fit.  The client may cancel or drop the stream whenever it *)
(* has control.                                                            *)
(*                                                                         *)
(* A row is what the limits and the decoder tell apart; rows of a result   *)
(* differ.  The end of a channel is dropped when its owner is gone:        *)
(* messages already sent can still be received, sending and waiting fail.  *)
(***************************************************************************)
EXTENDS StreamRows

CONSTANTS
  Results,      \* the query results: sequences of rows
  Options,      \* the execution options a stream is opened with
  MaxFetch,     \* MAX_PORTAL_FETCH_ROWS
  Faults        \* what may fail: "open", "initialize", "server", "panic"

ASSUME FetchAssumption == MaxFetch \in Nat \ {0}

ASSUME RequestAssumption == Results \subseteq Seq(ResultRow) /\ Options \subseteq ExecutionOptions

VARIABLES
  result,      \* the rows of the query
  options,     \* the options of the stream
  client,      \* where the client is
  done,        \* PostgresStream.done
  cancelled,   \* PostgresStream.cancelled
  last,        \* what the client's last call returned
  seen,        \* the rows it has been given
  init,        \* the channel the worker reports its initialization on
  commands,    \* the channel from the client to the worker
  responses,   \* the channel back
  worker,      \* where the worker is
  fetched,     \* rows the portal has produced
  buffered,    \* PullState.buffered_rows
  pending,     \* PullState.pending: no row or one
  batch,       \* the batch in preparation
  batchBytes,  \* its size
  reply        \* the response about to be sent

clientVars == <<client, done, cancelled, last, seen>>
channels == <<init, commands, responses>>
pullVars == <<fetched, buffered, pending, batch, batchBytes, reply>>
vars == <<result, options, clientVars, channels, worker, pullVars>>

ClientPhases == {"new", "opening", "idle", "sending", "receiving", "gone"}

WorkerPhases == {"none", "starting", "waiting", "pulling", "responding", "stopped"}

Response(kind, rows) == [kind |-> kind, rows |-> rows]

NoReply == Response("error", <<>>)

Init ==
  /\ result \in Results /\ options \in Options
  /\ client = "new" /\ done = FALSE /\ cancelled = FALSE
  /\ last = "new" /\ seen = <<>>
  /\ init = <<>> /\ commands = <<>> /\ responses = <<>>
  /\ worker = "none"
  /\ fetched = 0 /\ buffered = <<>> /\ pending = <<>> /\ reply = NoReply
  /\ batch = <<>> /\ batchBytes = 0

-----------------------------------------------------------------------------
(***************************************************************************)
(* The client: PostgresStream and its DataStream implementation.           *)
(***************************************************************************)
WorkerGone == worker \in {"none", "stopped"}

ClientGone == client = "gone"

WorkerUnchanged == UNCHANGED <<result, options, worker, pullVars>>

\* open, up to the wait for the worker; the plan limits and the spawn may fail.
Open ==
  /\ client = "new"
  /\ \/ /\ options.batchRows # 0
        /\ client' = "opening" /\ worker' = "starting"
        /\ UNCHANGED last
     \/ /\ options.batchRows = 0 \/ "open" \in Faults
        /\ client' = "gone" /\ last' = "error"
        /\ UNCHANGED worker
  /\ UNCHANGED <<result, options, done, cancelled, seen, channels, pullVars>>

\* open, from the worker's report on: without a stream there is nothing to pull.
Opened ==
  /\ client = "opening"
  /\ init # <<>> \/ WorkerGone
  /\ IF init = <<"ok">>
     THEN client' = "idle" /\ last' = "opened"
     ELSE client' = "gone" /\ last' = "error"
  /\ init' = <<>>
  /\ UNCHANGED <<done, cancelled, seen, commands, responses>> /\ WorkerUnchanged

\* next_batch.
Pull ==
  /\ client = "idle"
  /\ IF done \/ cancelled
     THEN last' = "none" /\ UNCHANGED client
     ELSE client' = "sending" /\ UNCHANGED last
  /\ UNCHANGED <<done, cancelled, seen, channels>> /\ WorkerUnchanged

\* The send blocks while the channel is full, and fails without a receiver.
SendPull ==
  /\ client = "sending"
  /\ \/ /\ ~ WorkerGone /\ commands = <<>>
        /\ commands' = <<"pull">>
        /\ client' = "receiving"
        /\ UNCHANGED last
     \/ /\ WorkerGone
        /\ client' = "idle" /\ last' = "error"
        /\ UNCHANGED commands
  /\ UNCHANGED <<done, cancelled, seen, init, responses>> /\ WorkerUnchanged

ReceiveResponse ==
  /\ client = "receiving"
  /\ \/ /\ responses # <<>>
        /\ LET response == Head(responses)
           IN  /\ last' = response.kind
               /\ seen' = seen \o response.rows
               /\ done' = (response.kind # "batch")
        /\ responses' = Tail(responses)
     \/ /\ responses = <<>> /\ WorkerGone
        /\ last' = "error"
        /\ UNCHANGED <<seen, done, responses>>
  /\ client' = "idle"
  /\ UNCHANGED <<cancelled, init, commands>> /\ WorkerUnchanged

\* try_send: the command is discarded when the channel is full or has no receiver.
TrySendCancel ==
  commands' = IF commands = <<>> /\ ~ WorkerGone THEN <<"cancel">> ELSE commands

\* Mutation: the flag is set but the worker is not told.
Cancel_OnlyFlag ==
  /\ client = "idle" /\ ~ done /\ ~ cancelled
  /\ cancelled' = TRUE
  /\ UNCHANGED <<client, done, last, seen, channels>> /\ WorkerUnchanged

\* cancel, which does nothing on a stream that is over.
Cancel ==
  /\ client = "idle" /\ ~ done /\ ~ cancelled
  /\ cancelled' = TRUE
  /\ TrySendCancel
  /\ UNCHANGED <<client, done, last, seen, init, responses>> /\ WorkerUnchanged

\* drop.
Drop ==
  /\ client = "idle"
  /\ IF ~ done /\ ~ cancelled THEN TrySendCancel ELSE UNCHANGED commands
  /\ client' = "gone"
  /\ UNCHANGED <<done, cancelled, last, seen, init, responses>> /\ WorkerUnchanged

-----------------------------------------------------------------------------
(***************************************************************************)
(* The worker: Worker::run and pull_batch.                                 *)
(***************************************************************************)
ClientUnchanged == UNCHANGED <<result, options, clientVars>>

\* Connecting, checking the live contract, preparing and binding the portal.
Initialize ==
  /\ worker = "starting"
  /\ \/ init' = <<"ok">> /\ worker' = "waiting"
     \/ "initialize" \in Faults /\ init' = <<"error">> /\ worker' = "stopped"
  /\ UNCHANGED <<commands, responses, pullVars>> /\ ClientUnchanged

\* The command loop: it ends on Cancel and when the client has dropped its end.
ReceiveCommand ==
  /\ worker = "waiting"
  /\ \/ commands # <<>> /\ commands' = Tail(commands)
        /\ worker' = IF Head(commands) = "cancel" THEN "stopped" ELSE "pulling"
     \/ commands = <<>> /\ ClientGone /\ worker' = "stopped" /\ UNCHANGED commands
  /\ batch' = <<>> /\ batchBytes' = 0
  /\ UNCHANGED <<init, responses, fetched, buffered, pending, reply>> /\ ClientUnchanged

TargetRows == RowTarget(options)

\* Mutation: every page is as large as a whole batch.
FetchRows_WholeBatch ==
  IF options.maxBytes # Unlimited THEN 1
  ELSE IF TargetRows < MaxFetch THEN TargetRows ELSE MaxFetch

\* portal_fetch_rows: a page of one row when bytes are bounded.
FetchRows ==
  IF options.maxBytes # Unlimited THEN 1
  ELSE IF TargetRows - Len(batch) < MaxFetch THEN TargetRows - Len(batch) ELSE MaxFetch

\* What the portal returns for a page of at most n rows.
Page(n) == NextPage(result, fetched, n)

Reply(response) == worker' = "responding" /\ reply' = response

Pulling == worker = "pulling"

PullUnchanged == UNCHANGED channels /\ ClientUnchanged

\* prove_empty_or_reject, under a limit of zero rows: any row is one too many.
ProbeEmpty ==
  /\ Pulling /\ TargetRows = 0
  /\ LET held == pending \o buffered
         page == IF held = <<>> THEN Page(1) ELSE <<>>
     IN  /\ fetched' = fetched + Len(page)
         /\ Reply(Response(IF held \o page = <<>> THEN "none" ELSE "error", <<>>))
  /\ UNCHANGED <<buffered, pending, batch, batchBytes>> /\ PullUnchanged

NeedsRow == Pulling /\ Len(batch) < TargetRows

\* An empty batch is the end of the stream.
BatchResponse(rows) == Response(IF rows = <<>> THEN "none" ELSE "batch", rows)

\* A page that comes back empty ends the batch.
FetchPage ==
  /\ NeedsRow /\ pending = <<>> /\ buffered = <<>>
  /\ LET page == Page(FetchRows)
     IN  /\ buffered' = page
         /\ fetched' = fetched + Len(page)
         /\ IF page = <<>> THEN Reply(BatchResponse(batch)) ELSE UNCHANGED <<worker, reply>>
  /\ UNCHANGED <<pending, batch, batchBytes>> /\ PullUnchanged

RowAtHand == NeedsRow /\ pending \o buffered # <<>>

\* The row left over from the last batch goes first; it has been decoded already.
NextRow == Head(pending \o buffered)

RowsLeft == IF pending = <<>> THEN Tail(buffered) ELSE buffered

Exceeds(bytes) == ExceedsBytes(options, bytes)

Rejected(row) == ~ row.decodes \/ Exceeds(row.bytes)

\* A row that cannot be decoded, or is too large alone, ends the stream.
RejectRow ==
  /\ RowAtHand /\ Rejected(NextRow)
  /\ buffered' = RowsLeft /\ pending' = <<>>
  /\ Reply(Response("error", <<>>))
  /\ UNCHANGED <<fetched, batch, batchBytes>> /\ PullUnchanged

Overflows(row) == batch # <<>> /\ Exceeds(batchBytes + row.bytes)

\* Mutation: the row that does not fit is forgotten.
KeepRow_Forgets ==
  /\ RowAtHand /\ ~ Rejected(NextRow) /\ Overflows(NextRow)
  /\ pending' = <<>> /\ buffered' = RowsLeft
  /\ Reply(BatchResponse(batch))
  /\ UNCHANGED <<fetched, batch, batchBytes>> /\ PullUnchanged

\* A row that does not fit is kept for the next batch.
KeepRow ==
  /\ RowAtHand /\ ~ Rejected(NextRow) /\ Overflows(NextRow)
  /\ pending' = <<NextRow>> /\ buffered' = RowsLeft
  /\ Reply(BatchResponse(batch))
  /\ UNCHANGED <<fetched, batch, batchBytes>> /\ PullUnchanged

PushRow ==
  /\ RowAtHand /\ ~ Rejected(NextRow) /\ ~ Overflows(NextRow)
  /\ batch' = Append(batch, NextRow)
  /\ batchBytes' = batchBytes + NextRow.bytes
  /\ pending' = <<>> /\ buffered' = RowsLeft
  /\ UNCHANGED <<worker, fetched, reply>> /\ PullUnchanged

BatchFull ==
  /\ Pulling /\ TargetRows # 0 /\ Len(batch) = TargetRows
  /\ Reply(BatchResponse(batch))
  /\ UNCHANGED <<fetched, buffered, pending, batch, batchBytes>> /\ PullUnchanged

\* Mutation: a failed pull sends no response.
PullFails_Silently ==
  /\ NeedsRow \/ (Pulling /\ TargetRows = 0)
  /\ options.timeout
  /\ worker' = "waiting"
  /\ UNCHANGED pullVars /\ PullUnchanged

\* The timeout, noticed before the first and before each row, or a driver error.
PullFails ==
  /\ NeedsRow \/ (Pulling /\ TargetRows = 0)
  /\ options.timeout \/ ("server" \in Faults /\ pending \o buffered = <<>>)
  /\ Reply(Response("error", <<>>))
  /\ UNCHANGED <<fetched, buffered, pending, batch, batchBytes>> /\ PullUnchanged

\* Mutation: a batch that is not full is taken for the last one.
Respond_ShortIsLast ==
  /\ worker = "responding" /\ ~ ClientGone /\ responses = <<>>
  /\ responses' = <<reply>>
  /\ worker' = IF Len(reply.rows) = TargetRows THEN "waiting" ELSE "stopped"
  /\ UNCHANGED <<init, commands, pullVars>> /\ ClientUnchanged

\* The response channel blocks when it is full and fails without a receiver; the
\* worker goes on only after a batch that could be sent.
Respond ==
  /\ worker = "responding"
  /\ \/ /\ ~ ClientGone /\ responses = <<>>
        /\ responses' = <<reply>>
        /\ worker' = IF reply.kind = "batch" THEN "waiting" ELSE "stopped"
     \/ /\ ClientGone
        /\ worker' = "stopped"
        /\ UNCHANGED responses
  /\ UNCHANGED <<init, commands, pullVars>> /\ ClientUnchanged

\* A panic in the driver or the decoder unwinds the thread and drops its ends.
Panic ==
  /\ "panic" \in Faults /\ worker \in {"starting", "pulling"}
  /\ worker' = "stopped"
  /\ UNCHANGED <<channels, pullVars>> /\ ClientUnchanged

-----------------------------------------------------------------------------
ClientStep == Opened \/ SendPull \/ ReceiveResponse

ClientCall == Open \/ Pull \/ Cancel \/ Drop

WorkerStep ==
  \/ Initialize \/ ReceiveCommand
  \/ ProbeEmpty \/ FetchPage \/ RejectRow \/ KeepRow \/ PushRow \/ BatchFull \/ PullFails
  \/ Respond \/ Panic

\* The end of everything: the client is gone and the worker has stopped.
Finished == ClientGone /\ WorkerGone /\ UNCHANGED vars

Next == ClientCall \/ ClientStep \/ WorkerStep \/ Finished

Spec == Init /\ [][Next]_vars

\* Both threads are scheduled and calls to the server return; what the client does
\* when it has control is up to it.
FairSpec == Spec /\ WF_vars(ClientStep) /\ WF_vars(WorkerStep)

-----------------------------------------------------------------------------
(***************************************************************************)
(* Properties.                                                             *)
(***************************************************************************)
Responses == [kind : {"batch", "none", "error"}, rows : Seq(ResultRow)]

\* Type correctness; no channel ever holds more than its capacity of one; no batch
\* handed over exceeds the row or the byte limit (pull_batch); and however slow the
\* client, the worker never holds more rows than one batch, and nothing but the row kept
\* back once the batch is on its way.
TypeOK ==
  /\ result \in Seq(ResultRow) /\ options \in ExecutionOptions
  /\ client \in ClientPhases /\ worker \in WorkerPhases
  /\ done \in BOOLEAN /\ cancelled \in BOOLEAN
  /\ last \in {"new", "opened", "batch", "none", "error"}
  /\ seen \in Seq(ResultRow)
  /\ init \in {<<>>, <<"ok">>, <<"error">>}
  /\ commands \in {<<>>, <<"pull">>, <<"cancel">>}
  /\ responses \in Seq(Responses) /\ Len(responses) <= 1
  /\ fetched \in 0 .. Len(result)
  /\ buffered \in Seq(ResultRow) /\ batch \in Seq(ResultRow)
  /\ pending \in Seq(ResultRow) /\ Len(pending) <= 1
  /\ batchBytes \in Nat
  /\ reply \in Responses
  /\ \A i \in DOMAIN responses :
       /\ Len(responses[i].rows) <= TargetRows
       /\ ~ Exceeds(TotalBytes(responses[i].rows))
  /\ Pulling => Len(batch) + Len(pending) + Len(buffered) <= TargetRows
  /\ worker \in {"waiting", "responding"} /\ reply.kind = "batch" => buffered = <<>>

Stream == INSTANCE PullStream WITH live <- ~ done /\ ~ cancelled /\ last # "error"

\* The stream delivers the result in order, without gaps or repetitions across
\* batches, pages and the row kept back, announces the end only after the last row,
\* and delivers nothing after an end, an error or a cancellation (DataStream).
ImplementsPullStream == Stream!Spec

\* Short of a panic the worker never abandons a stream that its client may still
\* pull from: it stops with an end or an error on its way, or because the client
\* cancelled or left (Worker::run).
WorkerStaysWhileNeeded ==
  [][worker # "stopped" /\ worker' = "stopped" =>
       \/ Panic \/ cancelled \/ ClientGone
       \/ init' = <<"error">>
       \/ \E i \in DOMAIN responses' : responses'[i].kind # "batch"]_vars

\* Every pull returns: client and worker never wait for each other (next_batch).
PullReturns == client \in {"opening", "sending", "receiving"} ~> client \in {"idle", "gone"}

\* A stream that is over, cancelled or dropped releases its connection: the worker
\* stops, although cancellation is only tried and may find the channel full.
ConnectionIsReleased ==
  (done \/ cancelled \/ client = "gone") ~> WorkerGone
=============================================================================
