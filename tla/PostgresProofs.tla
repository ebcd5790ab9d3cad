--------------------------- MODULE PostgresProofs ---------------------------
(***************************************************************************)
(* Proofs about the PostgreSQL pull stream, for every result, every limit  *)
(* and every fault.                                                        *)
(***************************************************************************)
EXTENDS PostgresStream, StreamLemmas

-----------------------------------------------------------------------------
(***************************************************************************)
(* The inductive invariant.                                                *)
(***************************************************************************)

\* Who may be where: one pull is under way at a time, as a command, in the worker's hands
\* or as a response, and only for a client that waits for it.
Handshake ==
  /\ client = "new" => worker = "none" /\ init = <<>>
  /\ client \in {"new", "opening"} =>
       /\ commands = <<>> /\ responses = <<>>
       /\ last = "new" /\ ~ done /\ ~ cancelled
  /\ worker = "starting" => client = "opening" /\ init = <<>>
  /\ client = "sending" => commands = <<>> /\ responses = <<>> /\ ~ done /\ ~ cancelled
  /\ client = "receiving" => ~ done /\ ~ cancelled /\ last # "error"
  /\ worker \in {"pulling", "responding"} =>
       client = "receiving" /\ commands = <<>> /\ responses = <<>>
  /\ responses # <<>> =>
       client = "receiving" /\ commands = <<>> /\ worker \in {"waiting", "stopped"}
  /\ commands = <<"pull">> => client = "receiving" /\ worker = "waiting"
  /\ commands = <<"cancel">> => cancelled \/ client = "gone"
  /\ last = "error" => done \/ WorkerGone \/ client = "gone"

\* Behind what the client has seen come the given rows, the row kept back and the rest of
\* the page, and with them the portal's position.
Aligned(rows) ==
  LET at == Len(seen) + Len(rows)
  IN  /\ IsSlice(rows, result, Len(seen))
      /\ IsSlice(pending, result, at)
      /\ IsSlice(buffered, result, at + Len(pending))
      /\ fetched = at + Len(pending) + Len(buffered)

\* What a response promises.
Truthful(response) ==
  /\ response.kind = "batch" => response.rows # <<>> /\ IsSlice(response.rows, result, Len(seen))
  /\ response.kind # "batch" => response.rows = <<>>
  /\ response.kind = "none" => Len(seen) = Len(result)
  /\ Len(response.rows) <= TargetRows
  /\ ~ Exceeds(TotalBytes(response.rows))

RowsInFlight == IF responses = <<>> THEN <<>> ELSE responses[1].rows

Positions ==
  /\ IsSlice(seen, result, 0)
  /\ responses # <<>> => Truthful(responses[1])
  /\ worker = "responding" => Truthful(reply)
  /\ worker \in {"none", "starting", "waiting"} => Aligned(RowsInFlight) /\ buffered = <<>>
  /\ worker = "pulling" => Aligned(batch)
  /\ worker = "responding" /\ reply.kind = "batch" => Aligned(reply.rows) /\ buffered = <<>>

Accounts ==
  /\ worker = "pulling" => batchBytes = TotalBytes(batch) /\ ~ Exceeds(batchBytes)
  /\ worker = "pulling" => Len(batch) + Len(pending) + Len(buffered) <= TargetRows
  /\ pending # <<>> => TargetRows > 0
  /\ options.maxBytes # Unlimited => Len(pending) + Len(buffered) <= 1

Types ==
  /\ result \in Seq(ResultRow) /\ options \in ExecutionOptions
  /\ client \in ClientPhases /\ worker \in WorkerPhases
  /\ done \in BOOLEAN /\ cancelled \in BOOLEAN
  /\ last \in {"new", "opened", "batch", "none", "error"}
  /\ seen \in Seq(ResultRow)
  /\ init \in {<<>>, <<"ok">>, <<"error">>}
  /\ commands \in {<<>>, <<"pull">>, <<"cancel">>}
  /\ responses \in Seq(Responses) /\ Len(responses) <= 1
  /\ fetched \in 0 .. Len(result)
  /\ buffered \in Seq(ResultRow) /\ batch \in Seq(ResultRow)
  /\ pending \in Seq(ResultRow) /\ Len(pending) <= 1
  /\ batchBytes \in Nat
  /\ reply \in Responses

PInv == Types /\ Handshake /\ Positions /\ Accounts

-----------------------------------------------------------------------------
(***************************************************************************)
(* Steps that leave the rows alone.                                        *)
(***************************************************************************)

\* The row target of a batch is a number.
LEMMA TargetType ==
  ASSUME options \in ExecutionOptions
  PROVE  TargetRows \in Nat
BY DEF TargetRows, RowTarget, ExecutionOptions, Limit

\* A step that touches no rows and starts no pull keeps positions and accounts.
LEMMA QuietRows ==
  ASSUME Positions, Accounts,
         UNCHANGED <<result, options, seen, responses, pullVars>>,
         \/ worker' \in {worker, "stopped"}
         \/ worker \in {"none", "starting", "waiting"} /\ worker' \in {"none", "starting", "waiting"}
  PROVE  Positions' /\ Accounts'
<1>1. Positions'
  BY DEF Positions, Aligned, Truthful, RowsInFlight, TargetRows, Exceeds, pullVars
<1>2. Accounts'
  BY DEF Accounts, TargetRows, Exceeds, pullVars
<1>. QED
  BY <1>1, <1>2

\* The invariant holds initially.
LEMMA InitInv == Init => PInv
<1>. SUFFICES ASSUME Init PROVE PInv
  OBVIOUS
<1>1. result \in Seq(ResultRow) /\ options \in ExecutionOptions
  BY RequestAssumption DEF Init
<1>2. Len(result) \in Nat
  BY <1>1, LenProperties
<1>3. Types
  <2>1. NoReply \in Responses
    BY DEF NoReply, Response, Responses
  <2>2. <<>> \in Seq(ResultRow) /\ <<>> \in Seq(Responses) /\ Len(<<>>) <= 1
    BY EmptySeq
  <2>3. fetched \in 0 .. Len(result) /\ batchBytes \in Nat
    BY <1>2 DEF Init
  <2>. QED
    BY <1>1, <2>1, <2>2, <2>3 DEF Init, Types, ClientPhases, WorkerPhases
<1>4. Handshake
  BY DEF Init, Handshake
<1>5. Positions
  BY <1>2 DEF Init, Positions, Aligned, IsSlice, RowsInFlight
<1>6. Accounts
  BY DEF Init, Accounts
<1>. QED
  BY <1>3, <1>4, <1>5, <1>6 DEF PInv

\* Opening, pulling, cancelling and dropping leave the rows alone.
LEMMA ClientInv ==
  ASSUME PInv, Open \/ Opened \/ Pull \/ SendPull \/ Cancel \/ Drop
  PROVE  PInv'
<1>. USE DEF PInv
<1>1. Types'
  <2>1. UNCHANGED <<result, options, seen, fetched, buffered, pending, batch, batchBytes, reply>>
    BY DEF Open, Opened, Pull, SendPull, Cancel, Drop, TrySendCancel, channels, pullVars, WorkerUnchanged
  <2>2. responses' = responses /\ init' \in {init, <<>>}
    BY DEF Open, Opened, Pull, SendPull, Cancel, Drop, TrySendCancel, channels, pullVars, WorkerUnchanged
  <2>3. commands' \in {<<>>, <<"pull">>, <<"cancel">>}
    BY DEF Open, Opened, Pull, SendPull, Cancel, Drop, TrySendCancel, Types, channels, pullVars, WorkerUnchanged
  <2>4. /\ client' \in ClientPhases /\ worker' \in WorkerPhases
        /\ done' \in BOOLEAN /\ cancelled' \in BOOLEAN
        /\ last' \in {"new", "opened", "batch", "none", "error"}
    BY DEF Open, Opened, Pull, SendPull, Cancel, Drop, TrySendCancel, Types, ClientPhases, WorkerPhases,
           channels, pullVars, WorkerUnchanged
  <2>5. responses' \in Seq(Responses) /\ Len(responses') <= 1
    BY <2>2 DEF Types
  <2>. QED
    BY <2>1, <2>2, <2>3, <2>4, <2>5 DEF Types
<1>2. Handshake'
  <2>1. CASE Open
    <3>1. /\ client = "new" /\ worker = "none" /\ UNCHANGED <<done, cancelled, init, commands, responses>>
          /\ \/ client' = "opening" /\ worker' = "starting" /\ last' = last
             \/ client' = "gone" /\ worker' = "none" /\ last' = "error"
          /\ init = <<>> /\ commands = <<>> /\ responses = <<>> /\ last = "new" /\ ~ done /\ ~ cancelled
      BY <2>1 DEF Open, Handshake, channels
    <3>2. <<"pull">> # <<>> /\ <<"cancel">> # <<>>
      OBVIOUS
    <3>. QED
      BY <3>1, <3>2 DEF Handshake, WorkerGone
  <2>2. CASE Opened
    BY <2>2 DEF Opened, Handshake, WorkerUnchanged, WorkerGone
  <2>3. CASE Pull
    BY <2>3 DEF Pull, Handshake, channels, pullVars, WorkerUnchanged, WorkerGone, Types
  <2>4. CASE SendPull
    <3>1. <<"pull">> # <<>> /\ <<"pull">> # <<"cancel">>
      OBVIOUS
    <3>2. CASE WorkerGone
      BY <2>4, <3>2 DEF SendPull, Handshake, WorkerUnchanged, WorkerGone
    <3>3. CASE ~ WorkerGone
      <4>1. worker = "waiting"
        BY <2>4, <3>3 DEF SendPull, Handshake, WorkerGone, Types, WorkerPhases
      <4>. QED
        BY <2>4, <3>1, <3>3, <4>1 DEF SendPull, Handshake, WorkerUnchanged, WorkerGone
    <3>. QED
      BY <3>2, <3>3
  <2>5. CASE Cancel
    BY <2>5 DEF Cancel, TrySendCancel, Handshake, pullVars, WorkerUnchanged, WorkerGone, Types
  <2>6. CASE Drop
    BY <2>6 DEF Drop, TrySendCancel, Handshake, pullVars, WorkerUnchanged, WorkerGone, Types
  <2>. QED
    BY <2>1, <2>2, <2>3, <2>4, <2>5, <2>6
<1>3. /\ UNCHANGED <<result, options, seen, responses, pullVars>>
      /\ \/ worker' = worker
         \/ worker = "none" /\ worker' = "starting"
  BY DEF Open, Opened, Pull, SendPull, Cancel, Drop, channels, pullVars, WorkerUnchanged, Handshake
<1>4. Positions' /\ Accounts'
  BY <1>3, QuietRows
<1>. QED
  BY <1>1, <1>2, <1>4

\* So do the worker's start and its end by a panic.
LEMMA LifeInv ==
  ASSUME PInv, Initialize \/ Panic
  PROVE  PInv'
<1>. USE DEF PInv
<1>1. Types'
  BY DEF Initialize, Panic, Types, WorkerPhases, channels, pullVars, ClientUnchanged, clientVars
<1>2. Handshake'
  BY DEF Initialize, Panic, Handshake, channels, pullVars, ClientUnchanged, clientVars, WorkerGone, Types
<1>3. /\ UNCHANGED <<result, options, seen, responses, pullVars>>
      /\ \/ worker' = "stopped"
         \/ worker = "starting" /\ worker' = "waiting"
  BY DEF Initialize, Panic, channels, pullVars, ClientUnchanged, clientVars
<1>4. Positions' /\ Accounts'
  BY <1>3, QuietRows
<1>. QED
  BY <1>1, <1>2, <1>4

-----------------------------------------------------------------------------
(***************************************************************************)
(* Steps of a pull.                                                        *)
(***************************************************************************)

\* A command opens a new batch behind the rows the client has by then; the client waits.
LEMMA ReceiveCommandInv ==
  ASSUME PInv, ReceiveCommand
  PROVE  PInv'
<1>. USE DEF PInv
<1>1. /\ worker = "waiting" /\ batch' = <<>> /\ batchBytes' = 0
      /\ UNCHANGED <<result, options, client, done, cancelled, last, seen, init, responses,
                     fetched, buffered, pending, reply>>
      /\ \/ commands = <<"pull">> /\ worker' = "pulling" /\ commands' = <<>>
         \/ commands = <<"cancel">> /\ worker' = "stopped" /\ commands' = <<>>
         \/ commands = <<>> /\ client = "gone" /\ worker' = "stopped" /\ commands' = commands
  <2>1. /\ Head(<<"pull">>) = "pull" /\ Tail(<<"pull">>) = <<>> /\ <<"pull">> # <<>>
        /\ Head(<<"cancel">>) = "cancel" /\ Tail(<<"cancel">>) = <<>> /\ <<"cancel">> # <<>>
    OBVIOUS
  <2>2. commands \in {<<>>, <<"pull">>, <<"cancel">>}
    BY DEF Types
  <2>. QED
    BY <2>1, <2>2 DEF ReceiveCommand, ClientUnchanged, clientVars, ClientGone
<1>2. TargetRows \in Nat /\ TargetRows' = TargetRows
  BY <1>1, TargetType DEF Types, TargetRows
<1>3. Types'
  BY <1>1, EmptySeq DEF Types, WorkerPhases
<1>4. <<"pull">> # <<>> /\ <<"cancel">> # <<>> /\ <<"pull">> # <<"cancel">>
  OBVIOUS
<1>5. Handshake'
  BY <1>1, <1>4 DEF Handshake, WorkerGone
<1>6. Positions'
  <2>1. IsSlice(seen, result, 0)' /\ (responses # <<>> => Truthful(responses[1]))'
    BY <1>1 DEF Positions, Truthful, TargetRows, Exceeds
  <2>2. ASSUME worker' = "pulling" PROVE Aligned(batch)'
    <3>1. commands = <<"pull">>
      BY <1>1, <2>2
    <3>2. responses = <<>>
      BY <1>4, <3>1 DEF Handshake
    <3>3. Aligned(<<>>)
      BY <1>1, <3>2 DEF Positions, RowsInFlight
    <3>. QED
      BY <1>1, <3>3 DEF Aligned
  <2>. QED
    BY <1>1, <2>1, <2>2 DEF Positions
<1>7. Accounts'
  <2>1. TotalBytes(<<>>) = 0
    BY TotalBytesFacts, EmptySeq
  <2>2. ~ Exceeds(0)
    BY <1>1 DEF Exceeds, ExceedsBytes, Types, ExecutionOptions, Limit
  <2>3. buffered = <<>> /\ Len(buffered) = 0 /\ Len(batch') = 0 /\ Len(pending) \in Nat
    BY <1>1, LenProperties DEF Positions, Types
  <2>4. Len(pending) <= 1 /\ (pending # <<>> => TargetRows > 0) /\ (pending = <<>> => Len(pending) = 0)
    BY DEF Types, Accounts
  <2>5. Len(pending) <= TargetRows
    BY <1>2, <2>3, <2>4
  <2>. QED
    BY <1>1, <1>2, <2>1, <2>2, <2>3, <2>4, <2>5 DEF Accounts, Exceeds, ExceedsBytes
<1>. QED
  BY <1>3, <1>5, <1>6, <1>7

\* What pull_batch may answer with, and what it must leave for the next pull.
LEMMA ReplyInv ==
  ASSUME PInv, worker = "pulling", worker' = "responding",
         UNCHANGED <<result, options, client, done, cancelled, last, seen, init, commands, responses,
                     batch, batchBytes>>,
         reply' \in Responses, Truthful(reply'),
         fetched' \in 0 .. Len(result), buffered' \in Seq(ResultRow),
         pending' \in Seq(ResultRow), Len(pending') <= 1,
         reply'.kind = "batch" => Aligned(reply.rows)' /\ buffered' = <<>>,
         pending' # <<>> => TargetRows > 0,
         options.maxBytes # Unlimited => Len(pending') + Len(buffered') <= 1
  PROVE  PInv'
<1>. USE DEF PInv
<1>1. Types'
  BY DEF Types, WorkerPhases
<1>2. Handshake'
  BY DEF Handshake, WorkerGone
<1>3. Positions'
  <2>1. responses = <<>>
    BY DEF Handshake
  <2>2. Truthful(reply)'
    BY DEF Truthful, TargetRows, Exceeds
  <2>. QED
    BY <2>1, <2>2 DEF Positions
<1>4. Accounts'
  BY DEF Accounts, TargetRows
<1>. QED
  BY <1>1, <1>2, <1>3, <1>4

\* An end or an error carries no rows.
LEMMA EmptyReply ==
  ASSUME PInv, NEW kind \in {"none", "error"}, kind = "none" => Len(seen) = Len(result)
  PROVE  Response(kind, <<>>) \in Responses /\ Truthful(Response(kind, <<>>))
<1>1. TotalBytes(<<>>) = 0 /\ <<>> \in Seq(ResultRow) /\ Len(<<>>) = 0
  BY TotalBytesFacts, EmptySeq
<1>2. ~ Exceeds(0)
  BY DEF PInv, Exceeds, ExceedsBytes, Types, ExecutionOptions, Limit
<1>3. TargetRows \in Nat
  BY TargetType DEF PInv, Types
<1>. QED
  BY <1>1, <1>2, <1>3 DEF Response, Responses, Truthful

\* A batch under preparation can be handed over; without rows, at the end of the result,
\* it announces the end.
LEMMA BatchReply ==
  ASSUME PInv, worker = "pulling", batch = <<>> => Len(seen) = Len(result)
  PROVE  /\ BatchResponse(batch) \in Responses /\ Truthful(BatchResponse(batch))
         /\ BatchResponse(batch).kind = "batch" => BatchResponse(batch).rows = batch
<1>1. CASE batch = <<>>
  <2>1. BatchResponse(batch) = Response("none", <<>>) /\ BatchResponse(batch).kind = "none"
    BY <1>1 DEF BatchResponse, Response
  <2>. QED
    BY <1>1, <2>1, EmptyReply
<1>2. CASE batch # <<>>
  <2>1. BatchResponse(batch) = [kind |-> "batch", rows |-> batch]
    BY <1>2 DEF BatchResponse, Response
  <2>2. /\ batch \in Seq(ResultRow) /\ IsSlice(batch, result, Len(seen))
        /\ ~ Exceeds(TotalBytes(batch))
        /\ Len(batch) + Len(pending) + Len(buffered) <= TargetRows
    BY DEF PInv, Types, Positions, Aligned, Accounts
  <2>3. Len(batch) \in Nat /\ Len(pending) \in Nat /\ Len(buffered) \in Nat /\ TargetRows \in Nat
    BY LenProperties, TargetType DEF PInv, Types
  <2>4. Len(batch) <= TargetRows
    BY <2>2, <2>3
  <2>. QED
    BY <1>2, <2>1, <2>2, <2>4 DEF Responses, Truthful
<1>. QED
  BY <1>1, <1>2

\* The next row is the one that follows the batch in the result, wherever it is held.
LEMMA NextRowFacts ==
  ASSUME PInv, RowAtHand
  PROVE  LET at == Len(seen) + Len(batch) IN
         /\ at \in Nat /\ at < Len(result)
         /\ NextRow = result[at + 1] /\ NextRow \in ResultRow /\ NextRow.bytes \in Nat
         /\ RowsLeft \in Seq(ResultRow) /\ Len(RowsLeft) \in Nat
         /\ Len(RowsLeft) = Len(pending) + Len(buffered) - 1
         /\ IsSlice(RowsLeft, result, at + 1)
         /\ fetched = at + 1 + Len(RowsLeft)
<1>. DEFINE at == Len(seen) + Len(batch)
<1>1. /\ result \in Seq(ResultRow) /\ seen \in Seq(ResultRow) /\ batch \in Seq(ResultRow)
      /\ pending \in Seq(ResultRow) /\ buffered \in Seq(ResultRow) /\ Len(pending) <= 1
  BY DEF PInv, Types
<1>2. /\ Len(result) \in Nat /\ Len(seen) \in Nat /\ Len(batch) \in Nat
      /\ Len(pending) \in Nat /\ Len(buffered) \in Nat
  BY <1>1, LenProperties
<1>3. /\ IsSlice(pending, result, at) /\ IsSlice(buffered, result, at + Len(pending))
      /\ fetched = at + Len(pending) + Len(buffered)
      /\ at + Len(pending) <= Len(result)
  BY DEF PInv, Positions, Aligned, RowAtHand, NeedsRow, Pulling, IsSlice
<1>4. at \in Nat /\ at + Len(pending) \in 0 .. Len(result) /\ at \in 0 .. Len(result)
  BY <1>2, <1>3
<1>. HIDE DEF at
<1>5. CASE pending = <<>>
  <2>1. Len(pending) = 0 /\ at + Len(pending) = at
    BY <1>4, <1>5
  <2>2. pending \o buffered = buffered /\ buffered # <<>>
    BY <1>1, <1>5, ConcatEmptySeq DEF RowAtHand
  <2>3. NextRow = Head(buffered) /\ RowsLeft = Tail(buffered)
    BY <1>5, <2>2 DEF NextRow, RowsLeft
  <2>4. /\ Len(buffered) > 0 /\ at + 1 \in 1 .. Len(result) /\ Head(buffered) = result[at + 1]
        /\ IsSlice(Tail(buffered), result, at + 1)
    BY <1>1, <1>3, <1>4, <2>1, <2>2, SliceSteps
  <2>5. Tail(buffered) \in Seq(ResultRow) /\ Len(Tail(buffered)) = Len(buffered) - 1
    BY <1>1, <2>2, HeadTailProperties
  <2>6. result[at + 1] \in ResultRow /\ result[at + 1].bytes \in Nat
    BY <1>1, <2>4, RowsOfSeq
  <2>. QED
    BY <1>2, <1>3, <1>4, <2>1, <2>3, <2>4, <2>5, <2>6 DEF at
<1>6. CASE pending # <<>>
  <2>1. /\ Len(pending) > 0 /\ at + 1 \in 1 .. Len(result) /\ Head(pending) = result[at + 1]
    BY <1>1, <1>3, <1>4, <1>6, SliceSteps
  <2>2. Len(pending) = 1
    <3>1. Len(pending) <= 1 /\ Len(pending) \in Nat /\ Len(pending) > 0
      BY <1>1, <1>2, <2>1
    <3>. QED
      BY <3>1
  <2>3. Head(pending \o buffered) = Head(pending)
    <3>. DEFINE held == pending \o buffered
    <3>1. /\ held \in Seq(ResultRow) /\ Len(held) = Len(pending) + Len(buffered)
          /\ \A i \in 1 .. Len(pending) + Len(buffered) :
               held[i] = IF i <= Len(pending) THEN pending[i] ELSE buffered[i - Len(pending)]
      BY <1>1, ConcatProperties
    <3>. HIDE DEF held
    <3>2. 1 \in 1 .. Len(pending) + Len(buffered) /\ 1 <= Len(pending)
      BY <1>2, <2>2
    <3>3. held[1] = pending[1]
      BY <3>1, <3>2
    <3>4. Head(held) = held[1] /\ Head(pending) = pending[1]
      BY <1>1
    <3>5. Head(held) = Head(pending)
      BY <3>3, <3>4
    <3>. QED
      BY <3>5 DEF held
  <2>4. NextRow = result[at + 1] /\ RowsLeft = buffered
    BY <1>6, <2>1, <2>3 DEF NextRow, RowsLeft
  <2>5. result[at + 1] \in ResultRow /\ result[at + 1].bytes \in Nat
    BY <1>1, <2>1, RowsOfSeq
  <2>. QED
    BY <1>1, <1>2, <1>3, <1>4, <2>1, <2>2, <2>4, <2>5 DEF at
<1>. QED
  BY <1>5, <1>6

\* While a batch is prepared the lengths are numbers that fit the result and the target.
LEMMA PullingFacts ==
  ASSUME PInv, worker = "pulling"
  PROVE  /\ result \in Seq(ResultRow) /\ Len(result) \in Nat /\ TargetRows \in Nat
         /\ Len(seen) \in Nat /\ Len(batch) \in Nat /\ Len(pending) \in Nat /\ Len(buffered) \in Nat
         /\ fetched = Len(seen) + Len(batch) + Len(pending) + Len(buffered)
         /\ fetched \in 0 .. Len(result)
         /\ Len(batch) + Len(pending) + Len(buffered) <= TargetRows
         /\ (pending = <<>>) <=> Len(pending) = 0
         /\ (buffered = <<>>) <=> Len(buffered) = 0
         /\ (batch = <<>>) <=> Len(batch) = 0
<1>1. /\ result \in Seq(ResultRow) /\ seen \in Seq(ResultRow) /\ batch \in Seq(ResultRow)
      /\ pending \in Seq(ResultRow) /\ buffered \in Seq(ResultRow) /\ fetched \in 0 .. Len(result)
  BY DEF PInv, Types
<1>2. /\ Len(result) \in Nat /\ Len(seen) \in Nat /\ Len(batch) \in Nat
      /\ Len(pending) \in Nat /\ Len(buffered) \in Nat /\ TargetRows \in Nat
  BY <1>1, LenProperties, TargetType DEF PInv, Types
<1>3. /\ fetched = Len(seen) + Len(batch) + Len(pending) + Len(buffered)
      /\ Len(batch) + Len(pending) + Len(buffered) <= TargetRows
  BY DEF PInv, Positions, Aligned, Accounts
<1>4. /\ (pending = <<>>) <=> Len(pending) = 0
      /\ (buffered = <<>>) <=> Len(buffered) = 0
      /\ (batch = <<>>) <=> Len(batch) = 0
  BY <1>1, EmptySeq
<1>. QED
  BY <1>1, <1>2, <1>3, <1>4

\* A limit of zero rows: the result is empty, or an error says that it is not.
LEMMA ProbeEmptyInv ==
  ASSUME PInv, ProbeEmpty
  PROVE  PInv'
<1>. DEFINE held == pending \o buffered
            page == IF held = <<>> THEN Page(1) ELSE <<>>
<1>1. /\ worker = "pulling" /\ TargetRows = 0 /\ worker' = "responding"
      /\ fetched' = fetched + Len(page)
      /\ reply' = Response(IF held \o page = <<>> THEN "none" ELSE "error", <<>>)
      /\ UNCHANGED <<result, options, client, done, cancelled, last, seen, init, commands, responses,
                     buffered, pending, batch, batchBytes>>
  BY DEF ProbeEmpty, Reply, Pulling, PullUnchanged, channels, ClientUnchanged, clientVars
<1>2. /\ pending = <<>> /\ buffered = <<>> /\ fetched = Len(seen)
      /\ result \in Seq(ResultRow) /\ fetched \in 0 .. Len(result)
  BY <1>1, PullingFacts
<1>3. held = <<>>
  BY <1>2
<1>4. /\ page = NextPage(result, fetched, 1) /\ page \in Seq(ResultRow)
      /\ fetched + Len(page) \in 0 .. Len(result)
      /\ (page = <<>>) <=> fetched = Len(result)
  BY <1>2, <1>3, PageFacts DEF Page
<1>. HIDE DEF page, held
<1>5. held \o page = page
  BY <1>3, <1>4, ConcatEmptySeq
<1>6. reply' \in Responses /\ Truthful(reply') /\ reply'.kind # "batch"
  <2>1. PICK kind \in {"none", "error"} :
          reply' = Response(kind, <<>>) /\ (kind = "none" => Len(seen) = Len(result))
    BY <1>1, <1>2, <1>4, <1>5
  <2>2. reply' \in Responses /\ Truthful(reply')
    BY <2>1, EmptyReply
  <2>. QED
    BY <2>1, <2>2 DEF Response
<1>7. /\ buffered \in Seq(ResultRow) /\ pending \in Seq(ResultRow) /\ Len(pending) <= 1
      /\ options.maxBytes # Unlimited => Len(pending) + Len(buffered) <= 1
  BY DEF PInv, Types, Accounts
<1>. QED
  BY <1>1, <1>2, <1>4, <1>6, <1>7, ReplyInv

\* A step inside pull_batch: the row limit bounds what is in hand, the byte limit the batch.
LEMMA FillingInv ==
  ASSUME PInv, worker = "pulling", worker' = "pulling",
         UNCHANGED <<result, options, client, done, cancelled, last, seen, init, commands, responses,
                     reply>>,
         fetched' \in 0 .. Len(result), buffered' \in Seq(ResultRow), batch' \in Seq(ResultRow),
         pending' = <<>>, batchBytes' \in Nat,
         Aligned(batch)',
         batchBytes' = TotalBytes(batch'), ~ Exceeds(batchBytes'),
         Len(batch') + Len(buffered') <= TargetRows,
         options.maxBytes # Unlimited => Len(buffered') <= 1
  PROVE  PInv'
<1>. USE DEF PInv
<1>1. /\ Len(batch') \in Nat /\ Len(buffered') \in Nat /\ Len(pending') = 0
      /\ pending' \in Seq(ResultRow)
  BY LenProperties, EmptySeq
<1>2. Types'
  BY <1>1 DEF Types
<1>3. Handshake'
  BY DEF Handshake, WorkerGone
<1>4. Positions'
  <2>1. responses = <<>>
    BY DEF Handshake
  <2>. QED
    BY <2>1 DEF Positions
<1>5. Accounts'
  <2>1. Exceeds(batchBytes)' = Exceeds(batchBytes') /\ TargetRows' = TargetRows
    BY DEF Exceeds, TargetRows
  <2>2. Len(batch') + Len(pending') + Len(buffered') <= TargetRows
    BY <1>1
  <2>3. options.maxBytes # Unlimited => Len(pending') + Len(buffered') <= 1
    BY <1>1
  <2>. QED
    BY <2>1, <2>2, <2>3 DEF Accounts
<1>. QED
  BY <1>2, <1>3, <1>4, <1>5

\* A page is asked for when no row is at hand; it continues the result and fits the batch,
\* and when it is empty the batch is handed over as it is.
LEMMA FetchPageInv ==
  ASSUME PInv, FetchPage
  PROVE  PInv'
<1>. DEFINE page == Page(FetchRows)
            at == Len(seen) + Len(batch)
<1>1. /\ worker = "pulling" /\ Len(batch) < TargetRows /\ pending = <<>> /\ buffered = <<>>
      /\ buffered' = page /\ fetched' = fetched + Len(page)
      /\ IF page = <<>> THEN worker' = "responding" /\ reply' = BatchResponse(batch)
                        ELSE worker' = "pulling" /\ reply' = reply
      /\ UNCHANGED <<result, options, client, done, cancelled, last, seen, init, commands, responses,
                     pending, batch, batchBytes>>
  BY DEF FetchPage, NeedsRow, Reply, Pulling, PullUnchanged, channels, ClientUnchanged, clientVars
<1>2. /\ result \in Seq(ResultRow) /\ fetched = at /\ fetched \in 0 .. Len(result) /\ at \in Nat
      /\ Len(batch) \in Nat /\ TargetRows \in Nat /\ Len(pending) = 0 /\ Len(seen) \in Nat
      /\ Len(result) \in Nat
      /\ (batch = <<>>) <=> Len(batch) = 0
  BY <1>1, PullingFacts
<1>3. /\ FetchRows \in Nat /\ FetchRows # 0 /\ FetchRows <= TargetRows - Len(batch)
      /\ options.maxBytes # Unlimited => FetchRows = 1
  BY <1>1, <1>2, FetchAssumption DEF FetchRows
<1>4. /\ page \in Seq(ResultRow) /\ Len(page) <= FetchRows
      /\ IsSlice(page, result, fetched)
      /\ fetched + Len(page) \in 0 .. Len(result)
      /\ (page = <<>>) <=> fetched = Len(result)
  BY <1>2, <1>3, PageFacts DEF Page
<1>5. Len(page) \in Nat
  BY <1>4, LenProperties
<1>. HIDE DEF page
<1>6. Aligned(batch)'
  <2>1. IsSlice(batch, result, Len(seen)) /\ IsSlice(pending, result, at)
    BY <1>1 DEF PInv, Positions, Aligned
  <2>2. at + Len(pending) = fetched /\ at + Len(pending) + Len(page) = fetched + Len(page)
    BY <1>2, <1>5
  <2>. QED
    BY <1>1, <1>4, <2>1, <2>2 DEF Aligned
<1>7. options.maxBytes # Unlimited => Len(page) <= 1
  BY <1>3, <1>4, <1>5
<1>8. CASE page = <<>>
  <2>1. Len(seen) + Len(batch) = Len(result) /\ Len(page) = 0
    BY <1>2, <1>4, <1>8
  <2>2. batch = <<>> => Len(seen) = Len(result)
    BY <1>2, <2>1
  <2>3. /\ BatchResponse(batch) \in Responses /\ Truthful(BatchResponse(batch))
        /\ BatchResponse(batch).kind = "batch" => BatchResponse(batch).rows = batch
    BY <1>1, <2>2, BatchReply
  <2>4. reply'.kind = "batch" => Aligned(reply.rows)' /\ buffered' = <<>>
    BY <1>1, <1>6, <1>8, <2>3
  <2>5. /\ fetched' \in 0 .. Len(result) /\ buffered' \in Seq(ResultRow)
        /\ pending' \in Seq(ResultRow) /\ Len(pending') <= 1 /\ pending' = <<>>
        /\ options.maxBytes # Unlimited => Len(pending') + Len(buffered') <= 1
    BY <1>1, <1>2, <1>4, <1>7, <2>1, EmptySeq
  <2>. QED
    BY <1>1, <1>8, <2>3, <2>4, <2>5, ReplyInv
<1>9. CASE page # <<>>
  <2>1. /\ batch \in Seq(ResultRow) /\ batchBytes \in Nat
        /\ batchBytes = TotalBytes(batch) /\ ~ Exceeds(batchBytes)
    BY <1>1 DEF PInv, Types, Accounts
  <2>2. Len(batch) + Len(page) <= TargetRows
    BY <1>2, <1>3, <1>4, <1>5
  <2>. QED
    BY <1>1, <1>4, <1>6, <1>7, <1>9, <2>1, <2>2, FillingInv
<1>. QED
  BY <1>8, <1>9

\* A failed pull answers with an error and leaves the portal where it is.
LEMMA FailingInv ==
  ASSUME PInv, worker = "pulling", worker' = "responding", reply' = Response("error", <<>>),
         UNCHANGED <<result, options, client, done, cancelled, last, seen, init, commands, responses,
                     fetched, batch, batchBytes>>,
         buffered' \in Seq(ResultRow), pending' \in {<<>>, pending},
         options.maxBytes # Unlimited => Len(pending') + Len(buffered') <= 1
  PROVE  PInv'
<1>1. Response("error", <<>>) \in Responses /\ Truthful(Response("error", <<>>))
  BY EmptyReply
<1>2. Response("error", <<>>).kind # "batch"
  BY DEF Response
<1>3. /\ fetched \in 0 .. Len(result) /\ pending \in Seq(ResultRow) /\ Len(pending) <= 1
      /\ pending # <<>> => TargetRows > 0
  BY DEF PInv, Types, Accounts
<1>4. pending' \in Seq(ResultRow) /\ Len(pending') <= 1 /\ (pending' # <<>> => TargetRows > 0)
  <2>1. <<>> \in Seq(ResultRow) /\ Len(<<>>) <= 1
    OBVIOUS
  <2>2. CASE pending' = <<>>
    BY <2>1, <2>2
  <2>3. CASE pending' = pending
    BY <1>3, <2>3
  <2>. QED
    BY <2>2, <2>3
<1>. QED
  BY <1>1, <1>2, <1>3, <1>4, ReplyInv

\* A row that is rejected, a timeout and a driver error.
LEMMA ErrorsInv ==
  ASSUME PInv, RejectRow \/ PullFails
  PROVE  PInv'
<1>1. /\ worker = "pulling" /\ worker' = "responding" /\ reply' = Response("error", <<>>)
      /\ UNCHANGED <<result, options, client, done, cancelled, last, seen, init, commands, responses,
                     fetched, batch, batchBytes>>
  BY DEF RejectRow, PullFails, RowAtHand, NeedsRow, Reply, Pulling, PullUnchanged, channels,
         ClientUnchanged, clientVars
<1>2. /\ buffered \in Seq(ResultRow)
      /\ options.maxBytes # Unlimited => Len(pending) + Len(buffered) <= 1
  BY DEF PInv, Types, Accounts
<1>3. CASE RejectRow
  <2>1. RowAtHand /\ buffered' = RowsLeft /\ pending' = <<>>
    BY <1>3 DEF RejectRow
  <2>2. RowsLeft \in Seq(ResultRow) /\ Len(RowsLeft) \in Nat /\ Len(RowsLeft) = Len(pending) + Len(buffered) - 1
    BY <2>1, NextRowFacts
  <2>3. Len(pending) \in Nat /\ Len(buffered) \in Nat
    BY <1>1, PullingFacts
  <2>4. options.maxBytes # Unlimited => Len(pending') + Len(buffered') <= 1
    BY <1>2, <2>1, <2>2, <2>3, EmptySeq
  <2>. QED
    BY <1>1, <2>1, <2>2, <2>4, FailingInv
<1>4. CASE PullFails
  <2>1. buffered' = buffered /\ pending' = pending
    BY <1>4 DEF PullFails
  <2>. QED
    BY <1>1, <1>2, <2>1, FailingInv
<1>. QED
  BY <1>3, <1>4

\* The row kept back is the next one, and nothing else is in hand: bytes are bounded, so
\* the page had one row.
LEMMA KeepRowInv ==
  ASSUME PInv, KeepRow
  PROVE  PInv'
<1>. DEFINE at == Len(seen) + Len(batch)
<1>1. /\ worker = "pulling" /\ worker' = "responding" /\ reply' = BatchResponse(batch)
      /\ RowAtHand /\ Overflows(NextRow)
      /\ pending' = <<NextRow>> /\ buffered' = RowsLeft
      /\ UNCHANGED <<result, options, client, done, cancelled, last, seen, init, commands, responses,
                     fetched, batch, batchBytes>>
  BY DEF KeepRow, RowAtHand, NeedsRow, Reply, Pulling, PullUnchanged, channels, ClientUnchanged, clientVars
<1>2. /\ at \in Nat /\ at < Len(result)
      /\ NextRow = result[at + 1] /\ NextRow \in ResultRow
      /\ RowsLeft \in Seq(ResultRow) /\ Len(RowsLeft) \in Nat
      /\ Len(RowsLeft) = Len(pending) + Len(buffered) - 1
      /\ fetched = at + 1 + Len(RowsLeft)
  BY <1>1, NextRowFacts
<1>3. /\ Len(pending) \in Nat /\ Len(buffered) \in Nat /\ Len(seen) \in Nat /\ Len(batch) \in Nat
      /\ Len(result) \in Nat /\ TargetRows \in Nat /\ fetched \in 0 .. Len(result)
      /\ result \in Seq(ResultRow)
  BY <1>1, PullingFacts
<1>4. options.maxBytes # Unlimited /\ batch # <<>>
  BY <1>1 DEF Overflows, Exceeds, ExceedsBytes
<1>5. Len(RowsLeft) = 0
  <2>1. Len(pending) + Len(buffered) <= 1
    BY <1>4 DEF PInv, Accounts
  <2>. QED
    BY <1>2, <1>3, <2>1
<1>6. RowsLeft = <<>>
  BY <1>2, <1>5, EmptySeq
<1>7. <<NextRow>> \in Seq(ResultRow) /\ Len(<<NextRow>>) = 1 /\ <<NextRow>>[1] = NextRow
  BY <1>2
<1>8. IsSlice(<<NextRow>>, result, at)
  BY <1>2, <1>3, <1>7 DEF IsSlice
<1>9. TargetRows > 0
  BY <1>1, <1>3 DEF RowAtHand, NeedsRow
<1>10. /\ BatchResponse(batch) \in Responses /\ Truthful(BatchResponse(batch))
       /\ BatchResponse(batch).kind = "batch" => BatchResponse(batch).rows = batch
  BY <1>1, <1>4, BatchReply
<1>11. Aligned(batch)'
  <2>1. IsSlice(batch, result, Len(seen))
    BY <1>1 DEF PInv, Positions, Aligned
  <2>2. at + 1 \in 0 .. Len(result) /\ fetched = at + 1 + 0
    BY <1>2, <1>3, <1>5
  <2>3. IsSlice(<<>>, result, at + 1)
    BY <1>3, <2>2, SliceSteps, EmptySeq
  <2>4. /\ Len(pending') = 1 /\ Len(buffered') = 0
        /\ IsSlice(pending', result, at) /\ IsSlice(buffered', result, at + 1)
    BY <1>1, <1>5, <1>6, <1>7, <1>8, <2>3
  <2>. QED
    BY <1>1, <2>1, <2>2, <2>4 DEF Aligned
<1>12. reply'.kind = "batch" => Aligned(reply.rows)' /\ buffered' = <<>>
  BY <1>1, <1>6, <1>10, <1>11
<1>13. /\ pending' \in Seq(ResultRow) /\ Len(pending') <= 1
       /\ Len(pending') + Len(buffered') <= 1 /\ buffered' \in Seq(ResultRow)
  BY <1>1, <1>2, <1>5, <1>7
<1>14. fetched' \in 0 .. Len(result)
  BY <1>1, <1>3
<1>15. reply' \in Responses /\ Truthful(reply')
  BY <1>1, <1>10
<1>. HIDE DEF at
<1>. QED
  BY <1>1, <1>9, <1>12, <1>13, <1>14, <1>15, ReplyInv

\* A row that fits continues the batch, within both limits.
LEMMA PushRowInv ==
  ASSUME PInv, PushRow
  PROVE  PInv'
<1>. DEFINE at == Len(seen) + Len(batch)
<1>1. /\ worker = "pulling" /\ worker' = "pulling" /\ Len(batch) < TargetRows
      /\ RowAtHand /\ ~ Rejected(NextRow) /\ ~ Overflows(NextRow)
      /\ batch' = Append(batch, NextRow) /\ batchBytes' = batchBytes + NextRow.bytes
      /\ pending' = <<>> /\ buffered' = RowsLeft
      /\ UNCHANGED <<result, options, client, done, cancelled, last, seen, init, commands, responses,
                     fetched, reply>>
  BY DEF PushRow, RowAtHand, NeedsRow, Pulling, PullUnchanged, channels, ClientUnchanged, clientVars
<1>2. /\ at \in Nat /\ at < Len(result)
      /\ NextRow = result[at + 1] /\ NextRow \in ResultRow /\ NextRow.bytes \in Nat
      /\ RowsLeft \in Seq(ResultRow) /\ Len(RowsLeft) \in Nat
      /\ Len(RowsLeft) = Len(pending) + Len(buffered) - 1
      /\ IsSlice(RowsLeft, result, at + 1)
      /\ fetched = at + 1 + Len(RowsLeft)
  BY <1>1, NextRowFacts
<1>3. /\ Len(pending) \in Nat /\ Len(buffered) \in Nat /\ Len(seen) \in Nat /\ Len(batch) \in Nat
      /\ Len(result) \in Nat /\ TargetRows \in Nat /\ fetched \in 0 .. Len(result)
      /\ result \in Seq(ResultRow) /\ Len(batch) + Len(pending) + Len(buffered) <= TargetRows
      /\ (batch = <<>>) <=> Len(batch) = 0
  BY <1>1, PullingFacts
<1>4. /\ batch \in Seq(ResultRow) /\ IsSlice(batch, result, Len(seen))
      /\ batchBytes \in Nat /\ batchBytes = TotalBytes(batch)
      /\ options.maxBytes # Unlimited => Len(pending) + Len(buffered) <= 1
  BY <1>1 DEF PInv, Types, Positions, Aligned, Accounts
<1>5. batch' \in Seq(ResultRow) /\ Len(batch') = Len(batch) + 1
  BY <1>1, <1>2, <1>4, AppendProperties
<1>6. batchBytes' = TotalBytes(batch') /\ batchBytes' \in Nat
  <2>1. TotalBytes(Append(batch, NextRow)) = TotalBytes(batch) + NextRow.bytes
    BY <1>2, <1>4, TotalBytesFacts
  <2>2. batchBytes' = batchBytes + NextRow.bytes /\ batch' = Append(batch, NextRow)
    BY <1>1
  <2>3. batchBytes = TotalBytes(batch) /\ batchBytes \in Nat /\ NextRow.bytes \in Nat
    BY <1>2, <1>4
  <2>. QED
    BY <2>1, <2>2, <2>3
<1>7. ~ Exceeds(batchBytes')
  <2>1. CASE batch = <<>>
    <3>1. batchBytes = 0
      BY <1>4, <2>1, TotalBytesFacts
    <3>2. batchBytes' = NextRow.bytes
      BY <1>1, <1>2, <3>1
    <3>. QED
      BY <1>1, <3>2 DEF Rejected
  <2>2. CASE batch # <<>>
    BY <1>1, <2>2 DEF Overflows
  <2>. QED
    BY <2>1, <2>2
<1>8. Aligned(batch)'
  <2>1. IsSlice(Append(batch, NextRow), result, Len(seen))
    <3>1. Len(seen) \in 0 .. Len(result) /\ Len(seen) + Len(batch) < Len(result)
      BY <1>2, <1>3
    <3>2. IsSlice(Append(batch, result[Len(seen) + Len(batch) + 1]), result, Len(seen))
      BY <1>3, <1>4, <3>1, SliceSteps
    <3>. QED
      BY <1>2, <3>2
  <2>2. Len(seen) + Len(batch') = at + 1 /\ Len(pending') = 0 /\ at + 1 \in 0 .. Len(result)
    <3>1. Len(seen) + Len(batch') = at + 1
      BY <1>3, <1>5
    <3>2. Len(pending') = 0
      BY <1>1
    <3>3. at + 1 \in 0 .. Len(result)
      BY <1>2, <1>3
    <3>. QED
      BY <3>1, <3>2, <3>3
  <2>3. IsSlice(<<>>, result, at + 1)
    BY <1>3, <2>2, SliceSteps, EmptySeq
  <2>4. at + 1 + Len(pending') = at + 1
    BY <1>2, <2>2
  <2>5. /\ IsSlice(batch', result, Len(seen)) /\ IsSlice(pending', result, at + 1)
        /\ IsSlice(buffered', result, at + 1)
    BY <1>1, <1>2, <2>1, <2>3
  <2>6. fetched = at + 1 + Len(buffered')
    BY <1>1, <1>2
  <2>. HIDE DEF at
  <2>. QED
    BY <1>1, <2>2, <2>4, <2>5, <2>6 DEF Aligned
<1>9. Len(batch') + Len(buffered') <= TargetRows
  BY <1>1, <1>2, <1>3, <1>5
<1>10. options.maxBytes # Unlimited => Len(buffered') <= 1
  BY <1>1, <1>2, <1>3, <1>4
<1>11. fetched' \in 0 .. Len(result) /\ buffered' \in Seq(ResultRow)
  BY <1>1, <1>2, <1>3
<1>. HIDE DEF at
<1>. QED
  BY <1>1, <1>5, <1>6, <1>7, <1>8, <1>9, <1>10, <1>11, FillingInv

\* A full batch is handed over; no other row is in hand.
LEMMA BatchFullInv ==
  ASSUME PInv, BatchFull
  PROVE  PInv'
<1>1. /\ worker = "pulling" /\ worker' = "responding" /\ reply' = BatchResponse(batch)
      /\ TargetRows # 0 /\ Len(batch) = TargetRows
      /\ UNCHANGED <<result, options, client, done, cancelled, last, seen, init, commands, responses,
                     fetched, buffered, pending, batch, batchBytes>>
  BY DEF BatchFull, Reply, Pulling, PullUnchanged, channels, ClientUnchanged, clientVars
<1>2. /\ Len(pending) = 0 /\ Len(buffered) = 0 /\ buffered = <<>> /\ pending = <<>> /\ batch # <<>>
      /\ fetched \in 0 .. Len(result)
  BY <1>1, PullingFacts
<1>3. /\ BatchResponse(batch) \in Responses /\ Truthful(BatchResponse(batch))
      /\ BatchResponse(batch).kind = "batch" => BatchResponse(batch).rows = batch
  BY <1>1, <1>2, BatchReply
<1>4. Aligned(batch)'
  BY <1>1 DEF PInv, Positions, Aligned
<1>5. reply'.kind = "batch" => Aligned(reply.rows)' /\ buffered' = <<>>
  BY <1>1, <1>2, <1>3, <1>4
<1>6. /\ buffered' \in Seq(ResultRow) /\ pending' \in Seq(ResultRow) /\ Len(pending') <= 1
      /\ pending' = <<>> /\ Len(pending') + Len(buffered') <= 1
  BY <1>1, <1>2, EmptySeq
<1>. QED
  BY <1>1, <1>2, <1>3, <1>5, <1>6, ReplyInv

-----------------------------------------------------------------------------
(***************************************************************************)
(* Handing over.                                                           *)
(***************************************************************************)

\* The response enters an empty channel; after anything but a batch the worker stops.
LEMMA RespondInv ==
  ASSUME PInv, Respond
  PROVE  PInv'
<1>. USE DEF PInv
<1>1. /\ worker = "responding" /\ client = "receiving" /\ commands = <<>> /\ responses = <<>>
  BY DEF Respond, Handshake
<1>2. /\ responses' = <<reply>>
      /\ worker' = IF reply.kind = "batch" THEN "waiting" ELSE "stopped"
      /\ UNCHANGED <<result, options, client, done, cancelled, last, seen, init, commands,
                     fetched, buffered, pending, batch, batchBytes, reply>>
  BY <1>1 DEF Respond, ClientGone, ClientUnchanged, clientVars, pullVars
<1>3. reply \in Responses /\ Truthful(reply)
  BY <1>1 DEF Types, Positions
<1>4. responses' \in Seq(Responses) /\ Len(responses') = 1 /\ responses'[1] = reply /\ responses' # <<>>
  <2>1. <<reply>> # <<>>
    OBVIOUS
  <2>. QED
    BY <1>2, <1>3, <2>1
<1>5. Types'
  BY <1>2, <1>4 DEF Types, WorkerPhases
<1>6. Handshake'
  BY <1>1, <1>2, <1>4 DEF Handshake, WorkerGone
<1>7. Positions'
  <2>1. (responses # <<>> => Truthful(responses[1]))' /\ IsSlice(seen, result, 0)'
    BY <1>2, <1>3, <1>4 DEF Positions, Truthful, TargetRows, Exceeds
  <2>2. RowsInFlight' = reply.rows
    BY <1>4 DEF RowsInFlight
  <2>3. ASSUME worker' = "waiting" PROVE Aligned(RowsInFlight)' /\ buffered' = <<>>
    <3>1. Aligned(reply.rows) /\ buffered = <<>>
      BY <1>1, <1>2, <2>3 DEF Positions
    <3>. QED
      BY <1>2, <2>2, <3>1 DEF Aligned
  <2>. QED
    BY <1>2, <2>1, <2>3 DEF Positions
<1>8. Accounts'
  BY <1>2 DEF Accounts, TargetRows
<1>. QED
  BY <1>5, <1>6, <1>7, <1>8

\* What the client takes from the channel.
LEMMA ResponseFacts ==
  ASSUME PInv, responses # <<>>
  PROVE  /\ Head(responses) = responses[1] /\ Tail(responses) = <<>>
         /\ responses[1] \in Responses /\ responses[1].rows \in Seq(ResultRow)
         /\ Truthful(responses[1])
         /\ responses[1].kind \in {"batch", "none", "error"}
<1>1. responses \in Seq(Responses) /\ Len(responses) <= 1 /\ Truthful(responses[1])
  BY DEF PInv, Types, Positions
<1>2. Len(responses) = 1
  <2>1. Len(responses) \in Nat /\ Len(responses) # 0
    BY <1>1, EmptySeq
  <2>2. Len(responses) <= 1
    BY <1>1
  <2>3. \A n \in Nat : n # 0 /\ n <= 1 => n = 1
    OBVIOUS
  <2>. QED
    BY <2>1, <2>2, <2>3
<1>3. responses[1] \in Responses
  BY <1>1, <1>2, ElementOfSeq
<1>4. Tail(responses) \in Seq(Responses) /\ Len(Tail(responses)) = 0
  BY <1>1, <1>2, HeadTailProperties
<1>5. Tail(responses) = <<>> /\ Head(responses) = responses[1]
  BY <1>1, <1>4, EmptySeq
<1>6. responses[1].rows \in Seq(ResultRow) /\ responses[1].kind \in {"batch", "none", "error"}
  BY <1>3 DEF Responses
<1>. QED
  BY <1>1, <1>3, <1>5, <1>6

\* What the client has seen grows by the rows of the response.
LEMMA ReceiveResponseInv ==
  ASSUME PInv, ReceiveResponse
  PROVE  PInv'
<1>. USE DEF PInv
<1>1. CASE responses = <<>>
  <2>1. /\ client = "receiving" /\ client' = "idle" /\ WorkerGone /\ last' = "error"
        /\ UNCHANGED <<result, options, seen, done, cancelled, init, commands, responses, worker, pullVars>>
    BY <1>1 DEF ReceiveResponse, WorkerUnchanged
  <2>2. Types'
    BY <2>1 DEF Types, ClientPhases, pullVars
  <2>3. Handshake'
    BY <1>1, <2>1 DEF Handshake, WorkerGone
  <2>. QED
    BY <2>1, <2>2, <2>3, QuietRows
<1>2. CASE responses # <<>>
  <2>. DEFINE r == responses[1]
  <2>1. /\ r \in Responses /\ r.rows \in Seq(ResultRow) /\ Truthful(r)
        /\ r.kind \in {"batch", "none", "error"}
        /\ Head(responses) = r /\ Tail(responses) = <<>>
    BY <1>2, ResponseFacts
  <2>. HIDE DEF r
  <2>2. /\ client = "receiving" /\ client' = "idle" /\ responses' = <<>>
        /\ last' = r.kind /\ seen' = seen \o r.rows /\ done' = (r.kind # "batch")
        /\ UNCHANGED <<result, options, cancelled, init, commands, worker,
                       fetched, buffered, pending, batch, batchBytes, reply>>
    BY <1>2, <2>1 DEF ReceiveResponse, WorkerUnchanged, pullVars
  <2>3. commands = <<>> /\ worker \in {"waiting", "stopped"} /\ ~ cancelled
    BY <1>2, <2>2 DEF Handshake
  <2>4. seen \in Seq(ResultRow) /\ result \in Seq(ResultRow) /\ IsSlice(seen, result, 0)
    BY DEF Types, Positions
  <2>5. seen' \in Seq(ResultRow) /\ Len(seen') = Len(seen) + Len(r.rows)
    BY <2>1, <2>2, <2>4, ConcatProperties
  <2>6. Types'
    <3>1. last' \in {"new", "opened", "batch", "none", "error"} /\ done' \in BOOLEAN
          /\ responses' \in Seq(Responses) /\ Len(responses') <= 1
      BY <2>1, <2>2, EmptySeq
    <3>. QED
      BY <2>2, <2>5, <3>1 DEF Types, ClientPhases
  <2>7. Handshake'
    BY <2>2, <2>3 DEF Handshake
  <2>8. IsSlice(seen', result, 0)
    <3>1. CASE r.kind = "batch"
      <4>1. IsSlice(r.rows, result, Len(seen))
        BY <2>1, <3>1 DEF Truthful
      <4>. QED
        BY <2>1, <2>2, <2>4, <4>1, SliceJoins
    <3>2. CASE r.kind # "batch"
      <4>1. r.rows = <<>>
        BY <2>1, <3>2 DEF Truthful
      <4>2. seen' = seen
        BY <2>2, <2>4, <4>1, ConcatEmptySeq
      <4>. QED
        BY <2>4, <4>2
    <3>. QED
      BY <3>1, <3>2
  <2>9. ASSUME worker = "waiting" PROVE Aligned(RowsInFlight)' /\ buffered' = <<>>
    <3>1. Aligned(r.rows) /\ buffered = <<>>
      BY <1>2, <2>9 DEF Positions, RowsInFlight, r
    <3>2. RowsInFlight' = <<>>
      BY <2>2 DEF RowsInFlight
    <3>3. /\ Len(seen) \in Nat /\ Len(r.rows) \in Nat /\ Len(result) \in Nat /\ Len(<<>>) = 0
          /\ Len(seen') \in Nat /\ Len(seen') + 0 = Len(seen')
      BY <2>1, <2>4, <2>5, LenProperties
    <3>4. Len(seen') \in 0 .. Len(result)
      BY <2>4, <2>5, <2>8, SliceJoins
    <3>5. IsSlice(<<>>, result, Len(seen'))
      BY <2>4, <3>4, SliceSteps, EmptySeq
    <3>. QED
      BY <2>2, <2>5, <3>1, <3>2, <3>3, <3>5 DEF Aligned
  <2>10. Positions'
    BY <2>2, <2>3, <2>8, <2>9 DEF Positions
  <2>11. Accounts'
    BY <2>2 DEF Accounts, TargetRows, Exceeds
  <2>. QED
    BY <2>6, <2>7, <2>10, <2>11
<1>. QED
  BY <1>1, <1>2

\* Every step keeps the invariant.
LEMMA NextInv ==
  ASSUME PInv, [Next]_vars
  PROVE  PInv'
<1>1. CASE UNCHANGED vars
  BY <1>1 DEF vars, clientVars, channels, pullVars, PInv, Types, Handshake, Positions, Accounts,
              Aligned, Truthful, RowsInFlight, TargetRows, Exceeds, WorkerGone
<1>2. CASE ClientCall
  BY <1>2, ClientInv DEF ClientCall
<1>3. CASE ClientStep
  BY <1>3, ClientInv, ReceiveResponseInv DEF ClientStep
<1>4. CASE WorkerStep
  BY <1>4, LifeInv, ReceiveCommandInv, ProbeEmptyInv, FetchPageInv, ErrorsInv, KeepRowInv, PushRowInv,
     BatchFullInv, RespondInv DEF WorkerStep
<1>. QED
  BY <1>1, <1>2, <1>3, <1>4 DEF Next, Finished

\* The invariant implies the limits on what is handed over and held.
LEMMA InvTypes == PInv => TypeOK
<1>. SUFFICES ASSUME PInv PROVE TypeOK
  OBVIOUS
<1>1. ASSUME NEW i \in DOMAIN responses
      PROVE  Len(responses[i].rows) <= TargetRows /\ ~ Exceeds(TotalBytes(responses[i].rows))
  <2>1. responses \in Seq(Responses) /\ Len(responses) <= 1
    BY DEF PInv, Types
  <2>2. Len(responses) \in Nat /\ i \in 1 .. Len(responses)
    BY <2>1, LenProperties
  <2>3. i = 1 /\ Len(responses) # 0
    BY <2>1, <2>2
  <2>4. responses # <<>>
    BY <2>3
  <2>. QED
    BY <2>3, <2>4, ResponseFacts DEF Truthful
<1>2. Pulling => Len(batch) + Len(pending) + Len(buffered) <= TargetRows
  BY DEF PInv, Accounts, Pulling
<1>3. worker \in {"waiting", "responding"} /\ reply.kind = "batch" => buffered = <<>>
  BY DEF PInv, Positions
<1>. QED
  BY <1>1, <1>2, <1>3 DEF PInv, Types, TypeOK

\* The invariant is one of the specification.
THEOREM PostgresInvariance == Spec => []PInv
<1>1. Init => PInv
  BY InitInv
<1>2. PInv /\ [Next]_vars => PInv'
  BY NextInv
<1>. QED
  BY <1>1, <1>2, PTL DEF Spec

\* Type correctness of the pull stream, with the limits pull_batch promises: for every
\* result and every options no channel holds more than one message, no batch handed over
\* exceeds the row or the byte limit, and the worker never holds more rows than one batch.
THEOREM PostgresLimits == Spec => []TypeOK
BY PostgresInvariance, InvTypes, PTL

-----------------------------------------------------------------------------
(***************************************************************************)
(* The promise to the consumer.                                            *)
(***************************************************************************)
Live == ~ done /\ ~ cancelled /\ last # "error"

\* A pull in flight is answered by a delivery, the end or a failure of the abstract stream.
LEMMA ReceiveRefines ==
  ASSUME PInv, PInv', ReceiveResponse
  PROVE  Stream!Deliver \/ Stream!Complete \/ Stream!Fail
<1>1. client = "receiving" /\ Live /\ UNCHANGED <<result, cancelled>>
  BY DEF ReceiveResponse, PInv, Handshake, WorkerUnchanged, Live
<1>2. CASE responses = <<>>
  <2>1. last' = "error" /\ UNCHANGED <<result, seen>>
    BY <1>2 DEF ReceiveResponse, WorkerUnchanged
  <2>. QED
    BY <1>1, <2>1 DEF Stream!Fail, Live
<1>3. CASE responses # <<>>
  <2>. DEFINE r == responses[1]
  <2>1. /\ r.rows \in Seq(ResultRow) /\ Truthful(r) /\ r.kind \in {"batch", "none", "error"}
        /\ Head(responses) = r
    BY <1>3, ResponseFacts
  <2>. HIDE DEF r
  <2>2. last' = r.kind /\ seen' = seen \o r.rows /\ done' = (r.kind # "batch")
    BY <1>3, <2>1 DEF ReceiveResponse
  <2>3. /\ result \in Seq(ResultRow) /\ seen \in Seq(ResultRow) /\ IsSlice(seen, result, 0)
        /\ seen' \in Seq(ResultRow) /\ IsSlice(seen', result, 0)
    BY <1>1 DEF PInv, Types, Positions
  <2>4. CASE r.kind = "batch"
    <3>1. r.rows # <<>> /\ Len(r.rows) \in Nat /\ Len(r.rows) # 0 /\ Len(seen) \in Nat /\ Len(result) \in Nat
      BY <2>1, <2>3, <2>4, EmptySeq, LenProperties DEF Truthful
    <3>2. Len(seen') = Len(seen) + Len(r.rows)
      BY <2>1, <2>2, <2>3, ConcatProperties
    <3>3. Len(seen') \in 0 .. Len(result) /\ seen' = SubSeq(result, 1, Len(seen'))
      BY <2>3, SliceJoins
    <3>4. Len(seen') \in Len(seen) + 1 .. Len(result)
      BY <3>1, <3>2, <3>3
    <3>5. \E n \in Len(seen) + 1 .. Len(result) : seen' = SubSeq(result, 1, n)
      BY <3>3, <3>4
    <3>. QED
      BY <1>1, <2>2, <2>4, <3>5 DEF Stream!Deliver, Live
  <2>5. CASE r.kind # "batch"
    <3>1. r.rows = <<>>
      BY <2>1, <2>5 DEF Truthful
    <3>2. seen' = seen
      BY <2>2, <2>3, <3>1, ConcatEmptySeq
    <3>3. CASE r.kind = "none"
      <4>1. seen = result
        BY <2>1, <2>3, <3>3, SliceJoins DEF Truthful
      <4>. QED
        BY <1>1, <2>2, <3>2, <3>3, <4>1 DEF Stream!Complete, Live
    <3>4. CASE r.kind = "error"
      BY <1>1, <2>2, <3>2, <3>4 DEF Stream!Fail, Live
    <3>. QED
      BY <2>1, <2>5, <3>3, <3>4
  <2>. QED
    BY <2>4, <2>5
<1>. QED
  BY <1>2, <1>3

\* Every other call of the client is a step of the abstract stream or none of its business.
LEMMA CallsRefine ==
  ASSUME PInv, Open \/ Opened \/ Pull \/ SendPull \/ Cancel \/ Drop
  PROVE  Stream!Next \/ UNCHANGED Stream!vars
<1>. USE DEF Live
<1>1. UNCHANGED <<result, seen>>
  BY DEF Open, Opened, Pull, SendPull, Cancel, Drop, WorkerUnchanged
<1>2. CASE Open
  <2>1. Live /\ UNCHANGED <<done, cancelled>> /\ (last' = last \/ last' = "error")
    BY <1>2 DEF Open, PInv, Handshake
  <2>. QED
    BY <1>1, <2>1 DEF Stream!Next, Stream!Fail, Stream!vars
<1>3. CASE Opened
  <2>1. Live /\ last = "new" /\ UNCHANGED <<done, cancelled>> /\ (last' = "opened" \/ last' = "error")
    BY <1>3 DEF Opened, PInv, Handshake
  <2>. QED
    BY <1>1, <2>1 DEF Stream!Next, Stream!Open, Stream!Fail
<1>4. CASE Pull
  <2>1. UNCHANGED <<done, cancelled>> /\ (last' = last \/ (last' = "none" /\ (done \/ cancelled)))
    BY <1>4 DEF Pull
  <2>. QED
    BY <1>1, <2>1 DEF Stream!Next, Stream!PullAgain, Stream!vars
<1>5. CASE SendPull
  <2>1. UNCHANGED <<done, cancelled>> /\ (last' = last \/ last' = "error")
    BY <1>5 DEF SendPull
  <2>. QED
    BY <1>1, <2>1 DEF Stream!Next, Stream!PullAgain, Stream!Fail, Stream!vars
<1>6. CASE Cancel
  <2>1. last' = last /\ cancelled' = TRUE
    BY <1>6 DEF Cancel
  <2>. QED
    BY <1>1, <2>1 DEF Stream!Next, Stream!Cancel
<1>7. CASE Drop
  <2>1. UNCHANGED <<done, cancelled, last>>
    BY <1>7 DEF Drop
  <2>. QED
    BY <1>1, <2>1 DEF Stream!vars
<1>. QED
  BY <1>2, <1>3, <1>4, <1>5, <1>6, <1>7

\* The pull stream implements the DataStream contract: for every result, every limit, every
\* page size and every fault, what the client has been given is always a prefix of the
\* result, the end is announced only after its last row, and nothing is delivered after an
\* end, an error or a cancellation.
THEOREM PostgresDeliversTheResult == Spec => ImplementsPullStream
<1>1. Init => Stream!Init
  BY DEF Init, Stream!Init
<1>2. PInv /\ PInv' /\ [Next]_vars => [Stream!Next]_(Stream!vars)
  <2>. SUFFICES ASSUME PInv, PInv', [Next]_vars
                PROVE  Stream!Next \/ UNCHANGED Stream!vars
    OBVIOUS
  <2>1. CASE Open \/ Opened \/ Pull \/ SendPull \/ Cancel \/ Drop
    BY <2>1, CallsRefine
  <2>2. CASE ReceiveResponse
    BY <2>2, ReceiveRefines DEF Stream!Next
  <2>3. CASE WorkerStep \/ Finished \/ UNCHANGED vars
    <3>1. UNCHANGED <<result, clientVars>>
      BY <2>3 DEF WorkerStep, Finished, vars, ClientUnchanged, PullUnchanged, Initialize, ReceiveCommand,
                  ProbeEmpty, FetchPage, RejectRow, KeepRow, PushRow, BatchFull, PullFails, Respond, Panic
    <3>. QED
      BY <3>1 DEF clientVars, Stream!vars
  <2>. QED
    BY <2>1, <2>2, <2>3 DEF Next, ClientCall, ClientStep
<1>. QED
  BY <1>1, <1>2, PostgresInvariance, PTL DEF Spec, ImplementsPullStream, Stream!Spec

-----------------------------------------------------------------------------
(***************************************************************************)
(* The worker's end.                                                       *)
(***************************************************************************)

\* Short of a panic the worker never abandons a stream that its client may still pull from,
\* whatever the interleaving: the command it stops on was sent by a client that cancelled
\* or left, and otherwise an end or an error is on its way.
THEOREM WorkerIsLoyal == Spec => WorkerStaysWhileNeeded
<1>. DEFINE Needed == worker # "stopped" /\ worker' = "stopped" =>
              \/ Panic \/ cancelled \/ ClientGone
              \/ init' = <<"error">>
              \/ \E i \in DOMAIN responses' : responses'[i].kind # "batch"
<1>1. PInv /\ [Next]_vars => [Needed]_vars
  <2>. SUFFICES ASSUME PInv, Next, worker # "stopped", worker' = "stopped", ~ Panic, ~ cancelled, ~ ClientGone
                PROVE  init' = <<"error">> \/ \E i \in DOMAIN responses' : responses'[i].kind # "batch"
    OBVIOUS
  <2>1. Initialize \/ ReceiveCommand \/ Respond
    BY DEF Next, ClientCall, ClientStep, WorkerStep, Finished, vars, WorkerUnchanged, Open, Opened, Pull, SendPull,
           ReceiveResponse, Cancel, Drop, ProbeEmpty, FetchPage, RejectRow, KeepRow, PushRow, BatchFull,
           PullFails, Reply, Pulling, NeedsRow, RowAtHand
  <2>2. CASE Initialize
    BY <2>2 DEF Initialize
  <2>3. CASE ReceiveCommand
    <3>1. Head(<<"pull">>) = "pull" /\ <<"pull">> # <<"cancel">>
      OBVIOUS
    <3>2. commands = <<"pull">> \/ commands = <<"cancel">>
      BY <2>3 DEF ReceiveCommand, PInv, Types
    <3>3. commands = <<"cancel">>
      BY <2>3, <3>1, <3>2 DEF ReceiveCommand
    <3>. QED
      BY <3>3 DEF PInv, Handshake, ClientGone
  <2>4. CASE Respond
    <3>1. responses' = <<reply>> /\ reply.kind # "batch"
      BY <2>4 DEF Respond
    <3>2. 1 \in DOMAIN <<reply>> /\ <<reply>>[1] = reply
      OBVIOUS
    <3>. QED
      BY <3>1, <3>2
  <2>. QED
    BY <2>1, <2>2, <2>3, <2>4
<1>. QED
  BY <1>1, PostgresInvariance, PTL DEF Spec, WorkerStaysWhileNeeded
=============================================================================
