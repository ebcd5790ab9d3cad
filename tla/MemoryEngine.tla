---------------------------- MODULE MemoryEngine ----------------------------
(***************************************************************************)
(* The memory engine (engines/memory): its tables, the flag that caches    *)
(* their validation, writes that change a table in place and put it back   *)
(* when they fail, and the transaction that works on a private copy.       *)
(*                                                                         *)
(* Calls that take the engine by mutable reference exclude every other     *)
(* call, and an open transaction holds that reference; calls that take it  *)
(* by shared reference (executing a plan, validating) may run in several   *)
(* reader threads at once.  A write is a sequence of steps, so that the    *)
(* tables can be seen half changed, as they are when one of them fails.    *)
(***************************************************************************)
EXTENDS TableStore

CONSTANTS
  Writes,       \* the logical writes the program issues
  Limits,       \* the write limits it issues them with
  TxLimits,     \* the limits it opens transactions with
  Loads,        \* the definitions and rows it loads: pairs <<def, rows>>
  Readers       \* threads that share the engine for reading

ASSUME RequestsAssumption ==
  /\ \A w \in Writes : IsLogicalWrite(w) /\ Lowered(w)
  /\ Limits \subseteq WriteLimits
  /\ TxLimits \subseteq TransactionLimits
  /\ Loads \subseteq Defs \X Seq(Row)

VARIABLES
  tables,      \* MemoryEngine.tables
  validated,   \* MemoryEngine.validated
  inTx,        \* whether a MemoryTransaction is open
  working,     \* MemoryTransaction.working
  txLimits,    \* MemoryTransaction.limits
  writes,      \* MemoryTransaction.writes
  pc,          \* where the write in progress is
  op,          \* its request and the table it started from
  cursor,      \* the row an update looks at next
  affected,    \* rows the write has touched
  outcome,     \* what the last mutating call returned
  reader       \* where each reader is

engineVars == <<tables, validated>>
txVars == <<inTx, working, txLimits, writes>>
opVars == <<pc, op, cursor, affected>>
vars == <<engineVars, txVars, opVars, outcome, reader>>

NoTable == [model |-> "none"]

NoOp == [write |-> "none"]

NoLimits == [rows |-> 0, bytes |-> 0, writes |-> 0]

Phases == {"idle", "apply", "local", "global", "restore"}

ReaderPhases == {"idle", "validating", "reading"}

Ok(call, n) == [call |-> call, ok |-> TRUE, affected |-> n]

Err(call) == [call |-> call, ok |-> FALSE, affected |-> 0]

Calls == {"new", "define", "write", "begin", "commit", "rollback"}

-----------------------------------------------------------------------------
\* The tables a write works on: the transaction's copy or the engine's own.
Current == IF inTx THEN working ELSE tables

SetCurrent(t) ==
  IF inTx THEN working' = t /\ UNCHANGED tables
          ELSE tables' = t /\ UNCHANGED working

\* A call by mutable reference: no reader shares the engine, no write is running.
Exclusive == pc = "idle" /\ \A r \in Readers : reader[r] = "idle"

\* ... on the engine itself, which an open transaction has borrowed.
EngineFree == Exclusive /\ ~ inTx

TableOf(t, key) == IF key \in DOMAIN t THEN t[key] ELSE NoTable

\* Mutation: a table that was not there before is put back as if it had been.
RestoreTable_NeverRemoves(t, key, previous) == Put(t, key, previous)

\* restore_table.
RestoreTable(t, key, previous) ==
  IF previous = NoTable THEN Remove(t, key) ELSE Put(t, key, previous)

Init ==
  /\ tables = EmptyTables
  /\ validated = TRUE
  /\ inTx = FALSE
  /\ working = EmptyTables
  /\ txLimits = NoLimits
  /\ writes = 0
  /\ pc = "idle"
  /\ op = NoOp
  /\ cursor = 1
  /\ affected = 0
  /\ outcome = Ok("new", 0)
  /\ reader = [r \in Readers |-> "idle"]

-----------------------------------------------------------------------------
(***************************************************************************)
(* Definition of models and bulk loading.                                  *)
(***************************************************************************)

Clear ==
  /\ EngineFree
  /\ tables' = EmptyTables
  /\ validated' = TRUE
  /\ outcome' = Ok("define", 0)
  /\ UNCHANGED <<txVars, opVars, reader>>

\* register: idempotent for one definition, refused for another of the same key.
Register(def) ==
  /\ EngineFree
  /\ \/ /\ def.key \notin DOMAIN tables
        /\ tables' = Put(tables, def.key, [model |-> def, rows |-> <<>>])
        /\ validated' = FALSE
        /\ outcome' = Ok("define", 0)
     \/ /\ def.key \in DOMAIN tables /\ tables[def.key].model = def
        /\ validated' = FALSE
        /\ outcome' = Ok("define", 0)
        /\ UNCHANGED tables
     \/ /\ def.key \in DOMAIN tables /\ tables[def.key].model # def
        /\ outcome' = Err("define")
        /\ UNCHANGED engineVars
  /\ UNCHANGED <<txVars, opVars, reader>>

\* Mutation: the flag survives a load.
Load_KeepsFlag(def, rows) ==
  /\ EngineFree
  /\ IF LocalValid(def, rows) /\ def.key \notin DOMAIN tables
     THEN tables' = Put(tables, def.key, [model |-> def, rows |-> rows]) /\ outcome' = Ok("define", 0)
     ELSE outcome' = Err("define") /\ UNCHANGED tables
  /\ UNCHANGED <<validated, txVars, opVars, reader>>

\* load and load_dynamic: local validation first, then the key must be new.
Load(def, rows) ==
  /\ EngineFree
  /\ IF LocalValid(def, rows) /\ def.key \notin DOMAIN tables
     THEN /\ tables' = Put(tables, def.key, [model |-> def, rows |-> rows])
          /\ validated' = FALSE
          /\ outcome' = Ok("define", 0)
     ELSE /\ outcome' = Err("define")
          /\ UNCHANGED engineVars
  /\ UNCHANGED <<txVars, opVars, reader>>

-----------------------------------------------------------------------------
(***************************************************************************)
(* Reading.  The flag is loaded, the tables validated and the flag stored  *)
(* in separate steps, so readers interleave inside MemoryEngine::validate. *)
(***************************************************************************)
ReadVars == <<tables, txVars, opVars, outcome>>

\* Mutation: a plan is executed without validate.
StartRead_Unchecked(r) ==
  /\ pc = "idle" /\ ~ inTx
  /\ reader[r] = "idle"
  /\ reader' = [reader EXCEPT ![r] = "reading"]
  /\ UNCHANGED <<ReadVars, validated>>

StartRead(r) ==
  /\ pc = "idle" /\ ~ inTx
  /\ reader[r] = "idle"
  /\ reader' = [reader EXCEPT ![r] = IF validated THEN "reading" ELSE "validating"]
  /\ UNCHANGED <<ReadVars, validated>>

ValidateRead(r) ==
  /\ reader[r] = "validating"
  /\ IF ValidTables(tables)
     THEN validated' = TRUE /\ reader' = [reader EXCEPT ![r] = "reading"]
     ELSE reader' = [reader EXCEPT ![r] = "idle"] /\ UNCHANGED validated
  /\ UNCHANGED ReadVars

EndRead(r) ==
  /\ reader[r] = "reading"
  /\ reader' = [reader EXCEPT ![r] = "idle"]
  /\ UNCHANGED <<ReadVars, validated>>

-----------------------------------------------------------------------------
(***************************************************************************)
(* Writes: execute_write of the engine and of the transaction, and         *)
(* apply_atomic_write, which both call.                                    *)
(***************************************************************************)

StartApply(w, limits) ==
  /\ pc' = "apply"
  /\ op' = [write |-> w, limits |-> limits, previous |-> TableOf(Current, w.model.key)]
  /\ cursor' = 1
  /\ affected' = 0
  /\ UNCHANGED outcome

RefuseWrite == outcome' = Err("write") /\ UNCHANGED opVars

\* MemoryEngine::execute_write.
EngineWrite(w, limits) ==
  /\ EngineFree
  /\ IF limits.concurrency # 0 /\ (validated \/ ValidTables(tables))
     THEN validated' = TRUE /\ StartApply(w, limits)
     ELSE RefuseWrite /\ UNCHANGED validated
  /\ UNCHANGED <<tables, txVars, reader>>

\* MemoryTransaction::execute_write.
TransactionWrite(w, limits) ==
  /\ inTx /\ Exclusive
  /\ IF writes < txLimits.writes /\ limits.concurrency # 0
     THEN StartApply(w, limits)
     ELSE RefuseWrite
  /\ UNCHANGED <<engineVars, txVars, reader>>

\* table_mut: the model is registered with the semantics the write was lowered for.
TableAddressed == op.write.model.key \in DOMAIN Current
                  /\ Current[op.write.model.key].model = op.write.model

RowsNow == Current[op.write.model.key].rows

SetRows(rows) ==
  SetCurrent(Put(Current, op.write.model.key, [model |-> op.write.model, rows |-> rows]))

OpUnchanged == UNCHANGED <<validated, inTx, txLimits, writes, op, outcome, reader>>

FailApply == pc' = "restore" /\ UNCHANGED <<cursor, affected>>

\* Mutation: InsertMany reports one row, as Insert does.
ApplyInsert_CountsOne ==
  /\ pc = "apply" /\ op.write.kind = "insert"
  /\ WithinAffected(op.limits, Len(op.write.rows))
  /\ op.previous = NoTable \/ TableAddressed
  /\ SetRows((IF op.previous = NoTable THEN <<>> ELSE RowsNow) \o op.write.rows)
  /\ affected' = 1
  /\ pc' = "local"
  /\ UNCHANGED cursor
  /\ OpUnchanged

\* Insert and InsertMany: limit, registration, append.
ApplyInsert ==
  /\ pc = "apply" /\ op.write.kind = "insert"
  /\ WithinAffected(op.limits, Len(op.write.rows))
  /\ op.previous = NoTable \/ TableAddressed
  /\ SetRows((IF op.previous = NoTable THEN <<>> ELSE RowsNow) \o op.write.rows)
  /\ affected' = Len(op.write.rows)
  /\ pc' = "local"
  /\ UNCHANGED cursor
  /\ OpUnchanged

RejectInsert ==
  /\ pc = "apply" /\ op.write.kind = "insert"
  /\ \/ ~ WithinAffected(op.limits, Len(op.write.rows))
     \/ op.previous # NoTable /\ ~ TableAddressed
  /\ FailApply
  /\ OpUnchanged /\ UNCHANGED <<tables, working>>

\* One turn of the update loop: filter, limit, every expression, then every field.
UpdateRow ==
  /\ pc = "apply" /\ op.write.kind = "update" /\ TableAddressed
  /\ cursor \in DOMAIN RowsNow
  /\ LET row    == RowsNow[cursor]
         values == Evaluated(op.write, row)
     IN  \/ /\ op.write.condition[row] \in {"False", "Unknown"}
            /\ UNCHANGED <<tables, working, affected>>
         \/ /\ Selected(op.write, row)
            /\ WithinAffected(op.limits, affected + 1)
            /\ \A f \in DOMAIN values : values[f] \in op.write.model.admits[f]
            /\ SetRows([RowsNow EXCEPT ![cursor] = AssignRow(row, values)])
            /\ affected' = affected + 1
  /\ cursor' = cursor + 1
  /\ UNCHANGED pc
  /\ OpUnchanged

\* The loop fails in the filter, at the limit, in an expression, or in set_field
\* after some of the row's fields have been assigned.
FailUpdate ==
  /\ pc = "apply" /\ op.write.kind = "update"
  /\ \/ ~ TableAddressed /\ UNCHANGED <<tables, working>>
     \/ /\ TableAddressed /\ cursor \in DOMAIN RowsNow
        /\ LET row    == RowsNow[cursor]
               values == Evaluated(op.write, row)
               Fits   == {f \in DOMAIN values : values[f] \in op.write.model.admits[f]}
           IN  \/ /\ op.write.condition[row] = EvalError
                  /\ UNCHANGED <<tables, working>>
               \/ /\ Selected(op.write, row)
                  /\ \/ ~ WithinAffected(op.limits, affected + 1)
                     \/ \E f \in DOMAIN values : values[f] = EvalError
                  /\ UNCHANGED <<tables, working>>
               \/ /\ Selected(op.write, row)
                  /\ WithinAffected(op.limits, affected + 1)
                  /\ \A f \in DOMAIN values : values[f] # EvalError
                  /\ Fits # DOMAIN values
                  /\ \E assigned \in SUBSET Fits :
                       SetRows([RowsNow EXCEPT ![cursor] =
                                  AssignRow(row, [f \in assigned |-> values[f]])])
  /\ FailApply
  /\ OpUnchanged

EndUpdate ==
  /\ pc = "apply" /\ op.write.kind = "update" /\ TableAddressed
  /\ cursor \notin DOMAIN RowsNow
  /\ pc' = "local"
  /\ OpUnchanged /\ UNCHANGED <<tables, working, cursor, affected>>

\* Delete selects over all rows before it removes the first.
SelectedRows == {i \in DOMAIN RowsNow : Selected(op.write, RowsNow[i])}

FilterFails == \E i \in DOMAIN RowsNow : op.write.condition[RowsNow[i]] = EvalError

\* retain: `at` lists the positions that stay, in their order.
KeptRows == DOMAIN RowsNow \ SelectedRows

ApplyDelete ==
  /\ pc = "apply" /\ op.write.kind = "delete" /\ TableAddressed
  /\ ~ FilterFails
  /\ WithinAffected(op.limits, Cardinality(SelectedRows))
  /\ \E at \in [1 .. Cardinality(KeptRows) -> KeptRows] :
       /\ \A i, j \in DOMAIN at : i < j => at[i] < at[j]
       /\ SetRows([i \in 1 .. Cardinality(KeptRows) |-> RowsNow[at[i]]])
  /\ affected' = Cardinality(SelectedRows)
  /\ pc' = "local"
  /\ UNCHANGED cursor
  /\ OpUnchanged

RejectDelete ==
  /\ pc = "apply" /\ op.write.kind = "delete"
  /\ ~ /\ TableAddressed
       /\ ~ FilterFails
       /\ WithinAffected(op.limits, Cardinality(SelectedRows))
  /\ FailApply
  /\ OpUnchanged /\ UNCHANGED <<tables, working>>

\* The local validation that ends apply_write.
ValidateLocally ==
  /\ pc = "local"
  /\ pc' = IF LocalValid(op.write.model, RowsNow) THEN "global" ELSE "restore"
  /\ OpUnchanged /\ UNCHANGED <<tables, working, cursor, affected>>

\* check_timeout: before the first step, at each row, after local validation.
TimeOut ==
  /\ pc \in {"apply", "local"}
  /\ op.limits.timeout
  /\ FailApply
  /\ OpUnchanged /\ UNCHANGED <<tables, working>>

\* Mutation: a transaction checks its limits only when it commits.
WriteAccepted_Unlimited == inTx \/ ValidTables(tables)

\* The validation apply_atomic_write was given: all constraints for the engine,
\* the snapshot limits for a transaction.
WriteAccepted ==
  IF inTx THEN WithinSnapshotLimits(working, txLimits) ELSE ValidTables(tables)

EndWrite(result) ==
  /\ pc' = "idle" /\ op' = NoOp /\ cursor' = 1 /\ affected' = 0
  /\ outcome' = result

FinishWrite ==
  /\ pc = "global" /\ WriteAccepted
  /\ IF inTx THEN writes' = writes + 1 /\ UNCHANGED validated
             ELSE validated' = TRUE /\ UNCHANGED writes
  /\ EndWrite(Ok("write", affected))
  /\ UNCHANGED <<tables, inTx, working, txLimits, reader>>

\* Mutation: a rejected write is validated again instead of undone.
RejectWrite_Retries ==
  /\ pc = "global" /\ ~ WriteAccepted
  /\ pc' = "local"
  /\ OpUnchanged /\ UNCHANGED <<tables, working, cursor, affected>>

RejectWrite ==
  /\ pc = "global" /\ ~ WriteAccepted
  /\ FailApply
  /\ OpUnchanged /\ UNCHANGED <<tables, working>>

UndoWrite ==
  /\ pc = "restore"
  /\ SetCurrent(RestoreTable(Current, op.write.model.key, op.previous))
  /\ EndWrite(Err("write"))
  /\ UNCHANGED <<validated, inTx, txLimits, writes, reader>>

-----------------------------------------------------------------------------
(***************************************************************************)
(* Transactions.                                                           *)
(***************************************************************************)
LimitsNonZero(limits) == limits.rows # 0 /\ limits.bytes # 0 /\ limits.writes # 0

\* begin_transaction_with_limits: a successful validation is cached even if the
\* limits then refuse the transaction.  Serializable is the only isolation level.
BeginTransaction(limits) ==
  /\ EngineFree
  /\ IF validated \/ ValidTables(tables)
     THEN /\ validated' = TRUE
          /\ IF LimitsNonZero(limits) /\ WithinSnapshotLimits(tables, limits)
             THEN /\ inTx' = TRUE
                  /\ working' = tables
                  /\ txLimits' = limits
                  /\ writes' = 0
                  /\ outcome' = Ok("begin", 0)
             ELSE outcome' = Err("begin") /\ UNCHANGED txVars
     ELSE outcome' = Err("begin") /\ UNCHANGED <<validated, txVars>>
  /\ UNCHANGED <<tables, opVars, reader>>

CloseTransaction ==
  /\ inTx' = FALSE
  /\ working' = EmptyTables
  /\ txLimits' = NoLimits
  /\ writes' = 0

\* commit consumes the transaction whether or not it publishes.
Commit ==
  /\ inTx /\ Exclusive
  /\ IF WithinSnapshotLimits(working, txLimits) /\ ValidTables(working)
     THEN tables' = working /\ validated' = TRUE /\ outcome' = Ok("commit", 0)
     ELSE outcome' = Err("commit") /\ UNCHANGED engineVars
  /\ CloseTransaction
  /\ UNCHANGED <<opVars, reader>>

\* rollback, or dropping the transaction.
Rollback ==
  /\ inTx /\ Exclusive
  /\ outcome' = Ok("rollback", 0)
  /\ CloseTransaction
  /\ UNCHANGED <<engineVars, opVars, reader>>

-----------------------------------------------------------------------------
Define ==
  \/ Clear
  \/ \E def \in Defs : Register(def)
  \/ \E load \in Loads : Load(load[1], load[2])

Read(r) == StartRead(r) \/ ValidateRead(r) \/ EndRead(r)

Request ==
  \E w \in Writes, limits \in Limits : EngineWrite(w, limits) \/ TransactionWrite(w, limits)

WriteStep ==
  \/ ApplyInsert \/ RejectInsert
  \/ UpdateRow \/ FailUpdate \/ EndUpdate
  \/ ApplyDelete \/ RejectDelete
  \/ ValidateLocally \/ TimeOut
  \/ FinishWrite \/ RejectWrite \/ UndoWrite

Transact ==
  \/ \E limits \in TxLimits : BeginTransaction(limits)
  \/ Commit
  \/ Rollback

Next == Define \/ (\E r \in Readers : Read(r)) \/ Request \/ WriteStep \/ Transact

Spec == Init /\ [][Next]_vars

\* A call that has started runs to its end: nothing can preempt it for ever.
FairSpec == Spec /\ WF_vars(WriteStep)

-----------------------------------------------------------------------------
(***************************************************************************)
(* Properties.                                                             *)
(***************************************************************************)

\* The store as callers know it: while a write runs on the engine's own tables,
\* the tables with the write undone.
Published ==
  IF pc = "idle" \/ inTx THEN tables
  ELSE RestoreTable(tables, op.write.model.key, op.previous)

\* The same for the candidate of the open transaction.
Candidate ==
  IF pc = "idle" \/ ~ inTx THEN working
  ELSE RestoreTable(working, op.write.model.key, op.previous)

Operation == [write : Writes, limits : Limits, previous : Table \cup {NoTable}]

\* Type correctness of the engine, its transaction and the write in progress.
TypeOK ==
  /\ IsTables(tables)
  /\ validated \in BOOLEAN
  /\ inTx \in BOOLEAN
  /\ IsTables(working)
  /\ txLimits \in TransactionLimits
  /\ writes \in Nat
  /\ pc \in Phases
  /\ IF pc = "idle" THEN op = NoOp ELSE op \in Operation
  /\ cursor \in Nat \ {0}
  /\ affected \in Nat
  /\ outcome \in [call : Calls, ok : BOOLEAN, affected : Nat]
  /\ reader \in [Readers -> ReaderPhases]

\* The cached flag never lies (lib.rs, `validated`): when it is set, the store
\* satisfies every local and cross-model constraint, whatever sequence of
\* registrations, loads, writes, undone writes and transactions set it.
ValidatedSound == validated => ValidTables(Published)

\* No plan is executed over tables that violate a constraint (execute_plan),
\* although readers race through the check of the cached flag.
ReadersSeeValidTables ==
  (\E r \in Readers : reader[r] = "reading") => ValidTables(tables)

\* A transaction never retains more rows, bytes or writes than it was opened
\* for, at any point where its owner regains control (transaction.rs).
CandidateWithinLimits ==
  inTx => WithinSnapshotLimits(Candidate, txLimits) /\ writes <= txLimits.writes

Atomic == INSTANCE AtomicStore WITH store <- Published, open <- inTx, candidate <- Candidate

\* Writes and transactions are atomic (docs/engines/memory.md): the row-by-row,
\* in-place engine implements the store in which a write is a single step that
\* applies as a whole or fails without effect, and reports which.
ImplementsAtomicStore == Atomic!Spec

\* Every write that starts returns (apply_write's loops end).
WriteReturns == (pc # "idle") ~> (pc = "idle")
=============================================================================
