----------------------------- MODULE StreamRows -----------------------------
(***************************************************************************)
(* Rows of a query result and the limits a stream is executed under        *)
(* (crates/dol-engine: execute, stream), as far as the database streams    *)
(* tell them apart.                                                        *)
(***************************************************************************)
EXTENDS Naturals, Sequences

CONSTANT Unlimited   \* the absence of a limit

ASSUME UnlimitedAssumption == Unlimited \notin Nat

ResultRow == [id : Nat, bytes : Nat, decodes : BOOLEAN]

Limit == Nat \cup {Unlimited}

ExecutionOptions == [batchRows : Nat, maxRows : Limit, maxBytes : Limit, timeout : BOOLEAN]

\* materialized_row_target: the rows of a full batch.
RowTarget(options) ==
  IF options.maxRows # Unlimited /\ options.maxRows < options.batchRows
  THEN options.maxRows ELSE options.batchRows

\* enforce_single_row_byte_limit, and the same comparison for a batch.
ExceedsBytes(options, bytes) == options.maxBytes # Unlimited /\ bytes > options.maxBytes

\* The next rows a server hands over when it has produced `fetched` of them.
NextPage(result, fetched, n) ==
  SubSeq(result, fetched + 1, IF fetched + n < Len(result) THEN fetched + n ELSE Len(result))

TotalBytes(rows) ==
  LET sum[i \in 0 .. Len(rows)] == IF i = 0 THEN 0 ELSE sum[i - 1] + rows[i].bytes
  IN  sum[Len(rows)]
=============================================================================
