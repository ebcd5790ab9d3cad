------------------------- MODULE MemoryEngineProofs -------------------------
(***************************************************************************)
(* Proofs about the memory engine, for every set of models, rows, writes,  *)
(* limits and readers.                                                     *)
(***************************************************************************)
EXTENDS MemoryEngine, InductionLemmas

-----------------------------------------------------------------------------
(***************************************************************************)
(* The table map.                                                          *)
(***************************************************************************)

\* Inserting a table under one of the keys keeps a map of tables (BTreeMap::insert).
LEMMA PutTables ==
  ASSUME NEW t, IsTables(t), NEW k \in Keys, NEW table \in Table
  PROVE  IsTables(Put(t, k, table))
BY DEF IsTables, Put

\* So does removing a key (BTreeMap::remove).
LEMMA RemoveTables ==
  ASSUME NEW t, IsTables(t), NEW k
  PROVE  IsTables(Remove(t, k))
BY DEF IsTables, Remove

\* The marker of a table that was not there is not a table.
LEMMA NoTableIsNoTable ==
  ASSUME NEW table \in Table
  PROVE  table # NoTable
BY DEF Table, NoTable

\* What was found under a key is a table or its absence (apply_atomic_write, `previous`).
LEMMA TableOfType ==
  ASSUME NEW t, IsTables(t), NEW k
  PROVE  TableOf(t, k) \in Table \cup {NoTable}
BY DEF IsTables, TableOf

\* Undoing keeps a map of tables (restore_table).
LEMMA RestoreTables ==
  ASSUME NEW t, IsTables(t), NEW k \in Keys, NEW previous \in Table \cup {NoTable}
  PROVE  IsTables(RestoreTable(t, k, previous))
BY PutTables, RemoveTables DEF RestoreTable

\* Undoing right after looking changes nothing (restore_table).
LEMMA RestoreUntouched ==
  ASSUME NEW t, IsTables(t), NEW k
  PROVE  RestoreTable(t, k, TableOf(t, k)) = t
<1>1. CASE k \in DOMAIN t
  <2>1. TableOf(t, k) = t[k] /\ t[k] # NoTable
    BY <1>1, NoTableIsNoTable DEF TableOf, IsTables
  <2>2. Put(t, k, t[k]) = t
    BY <1>1 DEF Put, IsTables
  <2>. QED
    BY <2>1, <2>2 DEF RestoreTable
<1>2. CASE k \notin DOMAIN t
  <2>1. TableOf(t, k) = NoTable
    BY <1>2 DEF TableOf
  <2>2. Remove(t, k) = t
    BY <1>2 DEF Remove, IsTables
  <2>. QED
    BY <2>1, <2>2 DEF RestoreTable
<1>. QED
  BY <1>1, <1>2

\* Whatever a write does to its own table is forgotten when it is undone.
LEMMA RestoreAfterPut ==
  ASSUME NEW t, NEW k, NEW table, NEW previous
  PROVE  RestoreTable(Put(t, k, table), k, previous) = RestoreTable(t, k, previous)
BY DEF RestoreTable, Put, Remove

-----------------------------------------------------------------------------
(***************************************************************************)
(* The write in progress.                                                  *)
(***************************************************************************)

\* A request in progress is one of the lowered writes, with what it was given.
LEMMA RunningWrite ==
  ASSUME TypeOK, pc # "idle"
  PROVE  /\ op.write \in Writes
         /\ op.limits \in Limits
         /\ op.previous \in Table \cup {NoTable}
         /\ IsLogicalWrite(op.write)
         /\ op.write.model \in Defs
         /\ op.write.model \in ModelDef
         /\ op.write.model.key \in Keys
         /\ op.write.model.admits \in [Fields -> SUBSET Datum]
<1>1. op \in Operation
  BY DEF TypeOK
<1>2. op.write \in Writes /\ op.limits \in Limits /\ op.previous \in Table \cup {NoTable}
  BY <1>1 DEF Operation
<1>3. IsLogicalWrite(op.write)
  BY <1>2, RequestsAssumption
<1>4. op.write.model \in Defs /\ op.write.model \in ModelDef
  BY <1>3, DefsAssumption DEF IsLogicalWrite
<1>5. op.write.model.key \in Keys /\ op.write.model.admits \in [Fields -> SUBSET Datum]
  BY <1>4 DEF ModelDef
<1>. QED
  BY <1>2, <1>3, <1>4, <1>5

\* The tables a write works on are well formed.
LEMMA CurrentTables ==
  ASSUME TypeOK
  PROVE  IsTables(Current)
BY DEF TypeOK, Current

\* So are the rows of the table it works on.
LEMMA RowsNowType ==
  ASSUME TypeOK, op.write.model.key \in DOMAIN Current
  PROVE  RowsNow \in Seq(Row) /\ DOMAIN RowsNow = 1 .. Len(RowsNow)
<1>1. Current[op.write.model.key] \in Table
  BY CurrentTables DEF IsTables
<1>. QED
  BY <1>1 DEF Table, RowsNow

\* Assigning admitted data to some fields of a row gives a row (set_field).
LEMMA AssignRowType ==
  ASSUME NEW row \in Row, NEW values,
         \A f \in DOMAIN values : f \in Fields => values[f] \in Datum
  PROVE  AssignRow(row, values) \in Row
BY DEF AssignRow, Row

\* Replacing the rows of the write's table keeps both maps well formed and does
\* not change what undoing the write would restore.
LEMMA SetRowsStep ==
  ASSUME TypeOK, pc # "idle", NEW rows \in Seq(Row), SetRows(rows)
  PROVE  /\ IsTables(tables') /\ IsTables(working')
         /\ inTx => tables' = tables
         /\ ~ inTx => working' = working
         /\ RestoreTable(tables', op.write.model.key, op.previous)
              = RestoreTable(tables, op.write.model.key, op.previous)
         /\ RestoreTable(working', op.write.model.key, op.previous)
              = RestoreTable(working, op.write.model.key, op.previous)
<1>. DEFINE table == [model |-> op.write.model, rows |-> rows]
            key == op.write.model.key
<1>1. key \in Keys /\ table \in Table
  BY RunningWrite DEF Table
<1>2. IsTables(tables) /\ IsTables(working)
  BY DEF TypeOK
<1>. HIDE DEF table, key
<1>3. SetCurrent(Put(Current, key, table))
  BY DEF SetRows, table, key
<1>4. CASE inTx
  <2>1. working' = Put(working, key, table) /\ tables' = tables
    BY <1>3, <1>4 DEF SetCurrent, Current
  <2>. QED
    BY <1>1, <1>2, <1>4, <2>1, PutTables, RestoreAfterPut DEF key
<1>5. CASE ~ inTx
  <2>1. tables' = Put(tables, key, table) /\ working' = working
    BY <1>3, <1>5 DEF SetCurrent, Current
  <2>. QED
    BY <1>1, <1>2, <1>5, <2>1, PutTables, RestoreAfterPut DEF key
<1>. QED
  BY <1>4, <1>5

-----------------------------------------------------------------------------
(***************************************************************************)
(* Steps inside a write.                                                   *)
(***************************************************************************)

\* What every step of a write before its last has in common: it may change the
\* write's table, but not what undoing the write restores.
InsideWrite ==
  /\ pc # "idle" /\ pc' # "idle" /\ pc' \in Phases
  /\ UNCHANGED <<validated, inTx, txLimits, writes, op, outcome, reader>>
  /\ IsTables(tables') /\ IsTables(working')
  /\ cursor' \in Nat \ {0} /\ affected' \in Nat
  /\ Published' = Published
  /\ Candidate' = Candidate

\* A step that leaves the tables alone is such a step.
LEMMA QuietStep ==
  ASSUME TypeOK, pc # "idle", pc' # "idle", pc' \in Phases, OpUnchanged,
         UNCHANGED <<tables, working, cursor, affected>>
  PROVE  InsideWrite
BY DEF TypeOK, OpUnchanged, InsideWrite, Published, Candidate

\* A step that replaces the rows of the write's table is one too.
LEMMA MutatingStep ==
  ASSUME TypeOK, pc # "idle", pc' # "idle", pc' \in Phases, OpUnchanged,
         cursor' \in Nat \ {0}, affected' \in Nat,
         NEW rows \in Seq(Row), SetRows(rows)
  PROVE  InsideWrite
<1>1. /\ IsTables(tables') /\ IsTables(working')
      /\ inTx => tables' = tables
      /\ ~ inTx => working' = working
      /\ RestoreTable(tables', op.write.model.key, op.previous)
           = RestoreTable(tables, op.write.model.key, op.previous)
      /\ RestoreTable(working', op.write.model.key, op.previous)
           = RestoreTable(working, op.write.model.key, op.previous)
  BY SetRowsStep
<1>2. op' = op /\ inTx' = inTx
  BY DEF OpUnchanged
<1>3. Published' = Published
  BY <1>1, <1>2 DEF Published
<1>4. Candidate' = Candidate
  BY <1>1, <1>2 DEF Candidate
<1>. QED
  BY <1>1, <1>3, <1>4 DEF InsideWrite, OpUnchanged

\* Insert and InsertMany append rows of the model's shape.
LEMMA InsertStep ==
  ASSUME TypeOK, ApplyInsert
  PROVE  InsideWrite
<1>. DEFINE rows == (IF op.previous = NoTable THEN <<>> ELSE RowsNow) \o op.write.rows
<1>1. pc # "idle" /\ pc' = "local" /\ OpUnchanged /\ SetRows(rows)
  BY DEF ApplyInsert
<1>2. op.write.rows \in Seq(Row)
  BY <1>1, RunningWrite DEF ApplyInsert, IsLogicalWrite, IsInsert, IsUpdate, IsDelete
<1>3. op.previous # NoTable => RowsNow \in Seq(Row)
  BY RowsNowType DEF ApplyInsert, TableAddressed
<1>4. rows \in Seq(Row)
  BY <1>2, <1>3
<1>5. cursor' \in Nat \ {0} /\ affected' \in Nat
  BY <1>2 DEF ApplyInsert, TypeOK
<1>. HIDE DEF rows
<1>. QED
  BY <1>1, <1>4, <1>5, MutatingStep DEF Phases

\* A turn of the update loop that goes through.
LEMMA UpdateStep ==
  ASSUME TypeOK, UpdateRow
  PROVE  InsideWrite
<1>. DEFINE row == RowsNow[cursor]
            values == Evaluated(op.write, row)
<1>1. pc # "idle" /\ pc' = pc /\ OpUnchanged /\ cursor' = cursor + 1
  BY DEF UpdateRow
<1>2. cursor' \in Nat \ {0} /\ pc' \in Phases
  BY <1>1 DEF TypeOK
<1>3. CASE UNCHANGED <<tables, working, affected>>
  BY <1>1, <1>2, <1>3 DEF TypeOK, OpUnchanged, InsideWrite, Published, Candidate
<1>4. CASE /\ \A f \in DOMAIN values : values[f] \in op.write.model.admits[f]
           /\ SetRows([RowsNow EXCEPT ![cursor] = AssignRow(row, values)])
           /\ affected' = affected + 1
  <2>1. RowsNow \in Seq(Row) /\ cursor \in 1 .. Len(RowsNow) /\ row \in Row
    BY RowsNowType DEF UpdateRow, TableAddressed
  <2>2. op.write.model.admits \in [Fields -> SUBSET Datum]
    BY <1>1, RunningWrite
  <2>3. AssignRow(row, values) \in Row
    <3>1. \A f \in DOMAIN values : f \in Fields => values[f] \in Datum
      BY <1>4, <2>2
    <3>. HIDE DEF row, values
    <3>. QED
      BY <2>1, <3>1, AssignRowType
  <2>4. [RowsNow EXCEPT ![cursor] = AssignRow(row, values)] \in Seq(Row)
    BY <2>1, <2>3, ExceptSeq
  <2>5. affected' \in Nat
    BY <1>4 DEF TypeOK
  <2>. QED
    BY <1>1, <1>2, <1>4, <2>4, <2>5, MutatingStep
<1>. QED
  BY <1>3, <1>4 DEF UpdateRow

\* A turn that fails, possibly with some of the row's fields assigned.
LEMMA FailedUpdateStep ==
  ASSUME TypeOK, FailUpdate
  PROVE  InsideWrite
<1>. DEFINE row == RowsNow[cursor]
            values == Evaluated(op.write, row)
            Fits == {f \in DOMAIN values : values[f] \in op.write.model.admits[f]}
            rows(assigned) ==
              [RowsNow EXCEPT ![cursor] = AssignRow(row, [f \in assigned |-> values[f]])]
<1>1. /\ pc # "idle" /\ pc' = "restore" /\ OpUnchanged
      /\ UNCHANGED <<cursor, affected>>
  BY DEF FailUpdate, FailApply
<1>2. CASE UNCHANGED <<tables, working>>
  BY <1>1, <1>2, QuietStep DEF Phases
<1>3. CASE /\ TableAddressed /\ cursor \in DOMAIN RowsNow
           /\ \E assigned \in SUBSET Fits : SetRows(rows(assigned))
  <2>1. PICK assigned \in SUBSET Fits : SetRows(rows(assigned))
    BY <1>3
  <2>2. RowsNow \in Seq(Row) /\ cursor \in 1 .. Len(RowsNow) /\ row \in Row
    BY <1>3, RowsNowType DEF TableAddressed
  <2>3. op.write.model.admits \in [Fields -> SUBSET Datum]
    BY <1>1, RunningWrite
  <2>4. AssignRow(row, [f \in assigned |-> values[f]]) \in Row
    <3>1. \A f \in assigned : f \in Fields => values[f] \in Datum
      BY <2>1, <2>3
    <3>. HIDE DEF row, values
    <3>. QED
      BY <2>2, <3>1, AssignRowType
  <2>5. rows(assigned) \in Seq(Row)
    BY <2>2, <2>4, ExceptSeq
  <2>6. cursor' \in Nat \ {0} /\ affected' \in Nat
    BY <1>1 DEF TypeOK
  <2>. HIDE DEF rows
  <2>. QED
    BY <1>1, <2>1, <2>5, <2>6, MutatingStep DEF Phases
<1>. QED
  BY <1>2, <1>3 DEF FailUpdate

\* Deletion keeps rows of the table, as many as were not selected.
LEMMA DeleteStep ==
  ASSUME TypeOK, ApplyDelete
  PROVE  InsideWrite
<1>1. /\ pc # "idle" /\ pc' = "local" /\ OpUnchanged
      /\ affected' = Cardinality(SelectedRows) /\ UNCHANGED cursor
  BY DEF ApplyDelete
<1>2. RowsNow \in Seq(Row) /\ DOMAIN RowsNow = 1 .. Len(RowsNow) /\ Len(RowsNow) \in Nat
  BY RowsNowType, LenProperties DEF ApplyDelete, TableAddressed
<1>3. IsFiniteSet(DOMAIN RowsNow)
  BY <1>2, FS_Interval
<1>4. IsFiniteSet(SelectedRows) /\ IsFiniteSet(KeptRows)
  BY <1>3, FS_Subset DEF SelectedRows, KeptRows
<1>5. Cardinality(SelectedRows) \in Nat /\ Cardinality(KeptRows) \in Nat
  BY <1>4, FS_CardinalityType
<1>. DEFINE n == Cardinality(KeptRows)
<1>6. PICK at \in [1 .. n -> KeptRows] : SetRows([i \in 1 .. n |-> RowsNow[at[i]]])
  BY DEF ApplyDelete
<1>. HIDE DEF n
<1>7. \A i \in 1 .. n : RowsNow[at[i]] \in Row
  <2>. TAKE i \in 1 .. n
  <2>1. at[i] \in 1 .. Len(RowsNow)
    BY <1>2 DEF KeptRows
  <2>. QED
    BY <1>2, <2>1, ElementOfSeq
<1>8. [i \in 1 .. n |-> RowsNow[at[i]]] \in Seq(Row)
  BY <1>5, <1>7, IsASeq DEF n
<1>9. cursor' \in Nat \ {0} /\ affected' \in Nat
  BY <1>1, <1>5 DEF TypeOK
<1>. QED
  BY <1>1, <1>6, <1>8, <1>9, MutatingStep DEF Phases

-----------------------------------------------------------------------------
(***************************************************************************)
(* The inductive invariant.                                                *)
(***************************************************************************)

\* While a reader shares the engine nobody changes it (`&self` against `&mut self`).
ReadersExclude == (\E r \in Readers : reader[r] # "idle") => pc = "idle" /\ ~ inTx

\* A reader that executes has seen, or set, the flag; nobody has cleared it since.
ReadingValidated == (\E r \in Readers : reader[r] = "reading") => validated

\* A transaction starts a write only when one more may succeed.
WritesLeft == inTx /\ pc # "idle" => writes < txLimits.writes

Inv ==
  /\ TypeOK
  /\ ValidatedSound
  /\ CandidateWithinLimits
  /\ ReadersExclude
  /\ ReadingValidated
  /\ WritesLeft

\* The invariant holds of a new engine: the empty store is valid (MemoryEngine::new).
LEMMA InitInv == Init => Inv
<1>. SUFFICES ASSUME Init PROVE Inv
  OBVIOUS
<1>1. IsTables(EmptyTables)
  BY DEF EmptyTables, IsTables
<1>2. ValidTables(EmptyTables)
  BY DEF EmptyTables, ValidTables, ModelSetValid, ReferencesHold
<1>3. TypeOK
  <2>1. Ok("new", 0) \in [call : Calls, ok : BOOLEAN, affected : Nat]
    BY DEF Ok, Calls
  <2>2. NoLimits \in TransactionLimits
    BY DEF NoLimits, TransactionLimits
  <2>3. [r \in Readers |-> "idle"] \in [Readers -> ReaderPhases] /\ "idle" \in Phases
    BY DEF ReaderPhases, Phases
  <2>4. /\ IsTables(tables) /\ IsTables(working)
        /\ txLimits \in TransactionLimits
        /\ outcome \in [call : Calls, ok : BOOLEAN, affected : Nat]
        /\ reader \in [Readers -> ReaderPhases]
    BY <1>1, <2>1, <2>2, <2>3 DEF Init
  <2>5. validated \in BOOLEAN /\ inTx \in BOOLEAN
    BY DEF Init
  <2>6. writes = 0 /\ cursor = 1 /\ affected = 0 /\ pc = "idle" /\ op = NoOp
    BY DEF Init
  <2>. QED
    BY <2>3, <2>4, <2>5, <2>6 DEF TypeOK
<1>4. ValidatedSound
  BY <1>2 DEF Init, ValidatedSound, Published
<1>. QED
  BY <1>3, <1>4 DEF Init, Inv, CandidateWithinLimits, ReadersExclude, ReadingValidated, WritesLeft

\* Steps inside a write keep the invariant.
LEMMA InsideWriteInv ==
  ASSUME Inv, InsideWrite
  PROVE  Inv'
<1>1. TypeOK'
  BY DEF Inv, TypeOK, InsideWrite
<1>2. ValidatedSound'
  BY DEF Inv, ValidatedSound, InsideWrite
<1>3. CandidateWithinLimits'
  BY DEF Inv, CandidateWithinLimits, InsideWrite
<1>4. ReadersExclude' /\ ReadingValidated' /\ WritesLeft'
  BY DEF Inv, ReadersExclude, ReadingValidated, WritesLeft, InsideWrite
<1>. QED
  BY <1>1, <1>2, <1>3, <1>4 DEF Inv

\* Starting a write looks at the table it may have to restore (apply_atomic_write).
LEMMA StartApplyType ==
  ASSUME TypeOK, NEW w \in Writes, NEW limits \in Limits, StartApply(w, limits)
  PROVE  /\ pc' # "idle" /\ pc' \in Phases
         /\ op' \in Operation
         /\ cursor' \in Nat \ {0} /\ affected' \in Nat
         /\ outcome' = outcome
         /\ RestoreTable(Current, op'.write.model.key, op'.previous) = Current
<1>1. IsTables(Current)
  BY CurrentTables
<1>2. TableOf(Current, w.model.key) \in Table \cup {NoTable}
  BY <1>1, TableOfType
<1>3. op' = [write |-> w, limits |-> limits, previous |-> TableOf(Current, w.model.key)]
  BY DEF StartApply
<1>4. op' \in Operation
  BY <1>2, <1>3 DEF Operation
<1>5. RestoreTable(Current, op'.write.model.key, op'.previous) = Current
  BY <1>1, <1>3, RestoreUntouched
<1>. QED
  BY <1>4, <1>5 DEF StartApply, Phases

\* Outcomes are well typed.
LEMMA OutcomeType ==
  ASSUME NEW call \in Calls, NEW n \in Nat
  PROVE  /\ Ok(call, n) \in [call : Calls, ok : BOOLEAN, affected : Nat]
         /\ Err(call) \in [call : Calls, ok : BOOLEAN, affected : Nat]
BY DEF Ok, Err

\* Requests keep the invariant: a write starts on a validated store, or on a
\* candidate that is within its limits.
LEMMA RequestInv ==
  ASSUME Inv, NEW w \in Writes, NEW limits \in Limits,
         EngineWrite(w, limits) \/ TransactionWrite(w, limits)
  PROVE  Inv'
<1>1. TypeOK
  BY DEF Inv
<1>2. CASE EngineWrite(w, limits)
  <2>1. pc = "idle" /\ ~ inTx /\ UNCHANGED <<tables, txVars, reader>> /\ Current = tables
    BY <1>2 DEF EngineWrite, EngineFree, Exclusive, Current
  <2>2. CASE StartApply(w, limits) /\ validated' = TRUE /\ (validated \/ ValidTables(tables))
    <3>1. /\ pc' # "idle" /\ pc' \in Phases /\ op' \in Operation
          /\ cursor' \in Nat \ {0} /\ affected' \in Nat /\ outcome' = outcome
          /\ RestoreTable(tables, op'.write.model.key, op'.previous) = tables
      BY <1>1, <2>1, <2>2, StartApplyType
    <3>2. TypeOK'
      BY <1>1, <2>1, <2>2, <3>1 DEF TypeOK, txVars
    <3>3. ValidTables(tables)
      BY <2>1, <2>2 DEF Inv, ValidatedSound, Published
    <3>4. ValidatedSound'
      BY <2>1, <3>1, <3>3 DEF ValidatedSound, Published, txVars
    <3>5. CandidateWithinLimits' /\ WritesLeft'
      BY <2>1 DEF CandidateWithinLimits, WritesLeft, txVars
    <3>6. ReadersExclude' /\ ReadingValidated'
      BY <1>2, <2>1, <2>2 DEF ReadersExclude, ReadingValidated, EngineWrite, EngineFree, Exclusive
    <3>. QED
      BY <3>2, <3>4, <3>5, <3>6 DEF Inv
  <2>3. CASE RefuseWrite /\ UNCHANGED validated
    <3>1. TypeOK'
      BY <1>1, <2>1, <2>3, OutcomeType DEF TypeOK, txVars, opVars, RefuseWrite, Calls
    <3>2. Published' = Published /\ Candidate' = Candidate
      BY <2>1, <2>3 DEF Published, Candidate, txVars, opVars, RefuseWrite
    <3>. QED
      BY <2>1, <2>3, <3>1, <3>2 DEF Inv, ValidatedSound, CandidateWithinLimits, ReadersExclude,
           ReadingValidated, WritesLeft, txVars, opVars, RefuseWrite
  <2>. QED
    BY <1>2, <2>2, <2>3 DEF EngineWrite
<1>3. CASE TransactionWrite(w, limits)
  <2>1. /\ pc = "idle" /\ inTx /\ UNCHANGED <<engineVars, txVars, reader>>
        /\ Current = working /\ \A r \in Readers : reader[r] = "idle"
    BY <1>3 DEF TransactionWrite, Exclusive, Current
  <2>2. CASE StartApply(w, limits) /\ writes < txLimits.writes
    <3>1. /\ pc' # "idle" /\ pc' \in Phases /\ op' \in Operation
          /\ cursor' \in Nat \ {0} /\ affected' \in Nat /\ outcome' = outcome
          /\ RestoreTable(working, op'.write.model.key, op'.previous) = working
      BY <1>1, <2>1, <2>2, StartApplyType
    <3>2. TypeOK'
      BY <1>1, <2>1, <3>1 DEF TypeOK, txVars, engineVars
    <3>3. Published' = Published /\ Candidate' = Candidate
      BY <2>1, <3>1 DEF Published, Candidate, txVars, engineVars
    <3>. QED
      BY <2>1, <2>2, <3>2, <3>3 DEF Inv, ValidatedSound, CandidateWithinLimits, ReadersExclude,
           ReadingValidated, WritesLeft, txVars, engineVars
  <2>3. CASE RefuseWrite
    <3>1. TypeOK'
      BY <1>1, <2>1, <2>3, OutcomeType DEF TypeOK, txVars, opVars, engineVars, RefuseWrite, Calls
    <3>2. Published' = Published /\ Candidate' = Candidate
      BY <2>1, <2>3 DEF Published, Candidate, txVars, opVars, engineVars, RefuseWrite
    <3>. QED
      BY <2>1, <2>3, <3>1, <3>2 DEF Inv, ValidatedSound, CandidateWithinLimits, ReadersExclude,
           ReadingValidated, WritesLeft, txVars, opVars, engineVars, RefuseWrite
  <2>. QED
    BY <1>3, <2>2, <2>3 DEF TransactionWrite
<1>. QED
  BY <1>2, <1>3

\* The end of a write keeps the invariant: a finished write was accepted by the
\* validation it was given, an undone one leaves the store it started from.
LEMMA EndWriteInv ==
  ASSUME Inv, FinishWrite \/ UndoWrite
  PROVE  Inv'
<1>1. TypeOK /\ pc # "idle" /\ UNCHANGED <<inTx, txLimits, reader>>
  BY DEF Inv, FinishWrite, UndoWrite
<1>2. pc' = "idle" /\ op' = NoOp /\ cursor' = 1 /\ affected' = 0
  BY DEF FinishWrite, UndoWrite, EndWrite
<1>3. outcome' \in [call : Calls, ok : BOOLEAN, affected : Nat]
  <2>1. affected \in Nat /\ 0 \in Nat /\ "write" \in Calls
    BY <1>1 DEF TypeOK, Calls
  <2>2. outcome' = Ok("write", affected) \/ outcome' = Err("write")
    BY DEF FinishWrite, UndoWrite, EndWrite
  <2>. QED
    BY <2>1, <2>2, OutcomeType
<1>4. \A r \in Readers : reader[r] = "idle"
  BY <1>1 DEF Inv, ReadersExclude
<1>5. ReadersExclude' /\ ReadingValidated' /\ WritesLeft'
  BY <1>1, <1>2, <1>4 DEF ReadersExclude, ReadingValidated, WritesLeft
<1>6. CASE FinishWrite
  <2>1. /\ UNCHANGED <<tables, working>>
        /\ validated' \in BOOLEAN
    BY <1>1, <1>6 DEF FinishWrite, TypeOK
  <2>2. CASE inTx
    <3>1. /\ writes' = writes + 1 /\ validated' = validated
          /\ WithinSnapshotLimits(working, txLimits)
      BY <1>6, <2>2 DEF FinishWrite, WriteAccepted
    <3>2. writes < txLimits.writes /\ txLimits.writes \in Nat /\ writes \in Nat
      BY <1>1, <2>2 DEF Inv, WritesLeft, TypeOK, TransactionLimits
    <3>3. writes' \in Nat /\ writes' <= txLimits'.writes
      BY <1>1, <3>1, <3>2
    <3>4. TypeOK'
      BY <1>1, <1>2, <1>3, <2>1, <3>3 DEF TypeOK, Phases
    <3>5. ValidatedSound'
      BY <1>1, <1>2, <2>1, <2>2, <3>1 DEF Inv, ValidatedSound, Published
    <3>6. CandidateWithinLimits'
      BY <1>1, <1>2, <2>1, <3>1, <3>3 DEF CandidateWithinLimits, Candidate
    <3>. QED
      BY <1>5, <3>4, <3>5, <3>6 DEF Inv
  <2>3. CASE ~ inTx
    <3>1. writes' = writes /\ ValidTables(tables)
      BY <1>6, <2>3 DEF FinishWrite, WriteAccepted
    <3>2. TypeOK'
      BY <1>1, <1>2, <1>3, <2>1, <3>1 DEF TypeOK, Phases
    <3>3. ValidatedSound'
      BY <1>2, <2>1, <3>1 DEF ValidatedSound, Published
    <3>4. CandidateWithinLimits'
      BY <1>1, <2>3 DEF CandidateWithinLimits
    <3>. QED
      BY <1>5, <3>2, <3>3, <3>4 DEF Inv
  <2>. QED
    BY <2>2, <2>3
<1>7. CASE UndoWrite
  <2>1. /\ UNCHANGED <<validated, writes>>
        /\ SetCurrent(RestoreTable(Current, op.write.model.key, op.previous))
    BY <1>7 DEF UndoWrite
  <2>2. tables' = Published /\ working' = Candidate
    BY <1>1, <2>1 DEF SetCurrent, Current, Published, Candidate
  <2>3. IsTables(Published) /\ IsTables(Candidate)
    BY <1>1, RunningWrite, RestoreTables DEF TypeOK, Published, Candidate
  <2>4. TypeOK'
    BY <1>1, <1>2, <1>3, <2>1, <2>2, <2>3 DEF TypeOK, Phases
  <2>5. Published' = Published /\ Candidate' = Candidate
    BY <1>2, <2>2 DEF Published, Candidate
  <2>. QED
    BY <1>1, <1>5, <2>1, <2>4, <2>5 DEF Inv, ValidatedSound, CandidateWithinLimits
<1>. QED
  BY <1>6, <1>7

\* Every step of a write keeps the invariant.
LEMMA WriteStepInv ==
  ASSUME Inv, WriteStep
  PROVE  Inv'
<1>1. TypeOK
  BY DEF Inv
<1>2. CASE ApplyInsert
  BY <1>1, <1>2, InsertStep, InsideWriteInv
<1>3. CASE UpdateRow
  BY <1>1, <1>3, UpdateStep, InsideWriteInv
<1>4. CASE FailUpdate
  BY <1>1, <1>4, FailedUpdateStep, InsideWriteInv
<1>5. CASE ApplyDelete
  BY <1>1, <1>5, DeleteStep, InsideWriteInv
<1>6. CASE RejectInsert \/ EndUpdate \/ RejectDelete \/ ValidateLocally \/ TimeOut \/ RejectWrite
  <2>1. /\ pc # "idle" /\ pc' # "idle" /\ pc' \in Phases /\ OpUnchanged
        /\ UNCHANGED <<tables, working, cursor, affected>>
    BY <1>6 DEF RejectInsert, EndUpdate, RejectDelete, ValidateLocally, TimeOut, RejectWrite,
                FailApply, Phases
  <2>. QED
    BY <1>1, <2>1, QuietStep, InsideWriteInv
<1>7. CASE FinishWrite \/ UndoWrite
  BY <1>7, EndWriteInv
<1>. QED
  BY <1>2, <1>3, <1>4, <1>5, <1>6, <1>7 DEF WriteStep

-----------------------------------------------------------------------------
(***************************************************************************)
(* The other calls.                                                        *)
(***************************************************************************)

\* Defining and loading keep the invariant: whatever adds a table clears the flag.
LEMMA DefineInv ==
  ASSUME Inv, Define
  PROVE  Inv'
<1>1. /\ TypeOK /\ pc = "idle" /\ ~ inTx /\ \A r \in Readers : reader[r] = "idle"
      /\ UNCHANGED <<txVars, opVars, reader>>
  BY DEF Inv, Define, Clear, Register, Load, EngineFree, Exclusive
<1>2. outcome' \in [call : Calls, ok : BOOLEAN, affected : Nat]
  <2>1. "define" \in Calls /\ 0 \in Nat
    BY DEF Calls
  <2>2. outcome' = Ok("define", 0) \/ outcome' = Err("define")
    BY DEF Define, Clear, Register, Load
  <2>. QED
    BY <2>1, <2>2, OutcomeType
<1>3. \A def \in Defs : def.key \in Keys
  BY DefsAssumption DEF ModelDef
<1>4. IsTables(tables') /\ validated' \in BOOLEAN /\ (validated' => ValidTables(tables'))
  <2>1. IsTables(tables) /\ validated \in BOOLEAN /\ (validated => ValidTables(tables))
    BY <1>1 DEF Inv, TypeOK, ValidatedSound, Published
  <2>2. CASE Clear
    <3>1. IsTables(EmptyTables)
      BY DEF EmptyTables, IsTables
    <3>2. ValidTables(EmptyTables)
      BY DEF EmptyTables, ValidTables, ModelSetValid, ReferencesHold
    <3>. QED
      BY <2>2, <3>1, <3>2 DEF Clear
  <2>3. ASSUME NEW def \in Defs, Register(def)
        PROVE  IsTables(tables') /\ validated' \in BOOLEAN /\ (validated' => ValidTables(tables'))
    <3>1. CASE tables' = Put(tables, def.key, [model |-> def, rows |-> <<>>]) /\ validated' = FALSE
      <4>1. [model |-> def, rows |-> <<>>] \in Table
        BY DEF Table
      <4>. QED
        BY <1>3, <2>1, <3>1, <4>1, PutTables
    <3>2. CASE tables' = tables /\ (validated' = FALSE \/ validated' = validated)
      <4>1. validated' \in BOOLEAN /\ (validated' => validated)
        <5>1. CASE validated' = FALSE
          BY <5>1
        <5>2. CASE validated' = validated
          BY <2>1, <5>2
        <5>. QED
          BY <3>2, <5>1, <5>2
      <4>2. IsTables(tables')
        BY <2>1, <3>2
      <4>3. ValidTables(tables) => ValidTables(tables')
        BY <3>2
      <4>. QED
        BY <2>1, <4>1, <4>2, <4>3
    <3>. QED
      BY <2>3, <3>1, <3>2 DEF Register, engineVars
  <2>4. ASSUME NEW load \in Loads, Load(load[1], load[2])
        PROVE  IsTables(tables') /\ validated' \in BOOLEAN /\ (validated' => ValidTables(tables'))
    <3>1. load[1] \in Defs /\ load[2] \in Seq(Row)
      BY RequestsAssumption
    <3>2. [model |-> load[1], rows |-> load[2]] \in Table
      BY <3>1 DEF Table
    <3>3. CASE /\ tables' = Put(tables, load[1].key, [model |-> load[1], rows |-> load[2]])
               /\ validated' = FALSE
      BY <1>3, <2>1, <3>1, <3>2, <3>3, PutTables
    <3>4. CASE tables' = tables /\ validated' = validated
      BY <2>1, <3>4
    <3>. QED
      BY <2>4, <3>3, <3>4 DEF Load, engineVars
  <2>. QED
    BY <2>2, <2>3, <2>4 DEF Define
<1>5. TypeOK'
  BY <1>1, <1>2, <1>4 DEF TypeOK, txVars, opVars
<1>6. ValidatedSound'
  BY <1>1, <1>4 DEF ValidatedSound, Published, opVars
<1>7. CandidateWithinLimits' /\ ReadersExclude' /\ ReadingValidated' /\ WritesLeft'
  BY <1>1 DEF CandidateWithinLimits, ReadersExclude, ReadingValidated, WritesLeft, txVars, opVars
<1>. QED
  BY <1>5, <1>6, <1>7 DEF Inv

\* Reading keeps the invariant: a reader sets the flag only after it has validated
\* tables that nobody can have changed in between.
LEMMA ReadInv ==
  ASSUME Inv, NEW r \in Readers, Read(r)
  PROVE  Inv'
<1>1. TypeOK /\ UNCHANGED ReadVars /\ reader \in [Readers -> ReaderPhases]
  BY DEF Inv, TypeOK, Read, StartRead, ValidateRead, EndRead
<1>2. pc = "idle" /\ ~ inTx
  BY DEF Inv, ReadersExclude, Read, StartRead, ValidateRead, EndRead
<1>3. validated' \in BOOLEAN /\ (validated => validated')
  BY <1>1 DEF TypeOK, Read, StartRead, ValidateRead, EndRead
<1>4. PICK phase \in ReaderPhases : /\ reader' = [reader EXCEPT ![r] = phase]
                                    /\ phase = "reading" => validated'
  BY <1>1 DEF TypeOK, Read, StartRead, ValidateRead, EndRead, ReaderPhases
<1>5. validated' => ValidTables(tables)
  BY <1>2 DEF Inv, ValidatedSound, Published, Read, StartRead, ValidateRead, EndRead
<1>6. TypeOK'
  BY <1>1, <1>3, <1>4 DEF TypeOK, ReadVars, txVars, opVars
<1>7. ValidatedSound'
  BY <1>1, <1>2, <1>5 DEF ValidatedSound, Published, ReadVars, txVars, opVars
<1>8. CandidateWithinLimits' /\ WritesLeft'
  BY <1>1, <1>2 DEF CandidateWithinLimits, WritesLeft, ReadVars, txVars, opVars
<1>9. ReadersExclude'
  BY <1>1, <1>2 DEF ReadersExclude, ReadVars, txVars, opVars
<1>10. ReadingValidated'
  BY <1>1, <1>3, <1>4 DEF Inv, ReadingValidated
<1>. QED
  BY <1>6, <1>7, <1>8, <1>9, <1>10 DEF Inv

\* Transactions keep the invariant: one opens within its limits, and publishes
\* only what has passed every validation.
LEMMA TransactInv ==
  ASSUME Inv, Transact
  PROVE  Inv'
<1>1. /\ TypeOK /\ pc = "idle" /\ \A r \in Readers : reader[r] = "idle"
      /\ UNCHANGED <<opVars, reader>>
  BY DEF Inv, Transact, BeginTransaction, Commit, Rollback, EngineFree, Exclusive
<1>2. outcome' \in [call : Calls, ok : BOOLEAN, affected : Nat]
  <2>1. {"begin", "commit", "rollback"} \subseteq Calls /\ 0 \in Nat
    BY DEF Calls
  <2>2. \E call \in {"begin", "commit", "rollback"} : outcome' = Ok(call, 0) \/ outcome' = Err(call)
    BY DEF Transact, BeginTransaction, Commit, Rollback
  <2>. QED
    BY <2>1, <2>2, OutcomeType
<1>3. IsTables(tables) /\ IsTables(working) /\ (validated => ValidTables(tables))
  BY <1>1 DEF Inv, TypeOK, ValidatedSound, Published
<1>4. /\ IsTables(tables') /\ validated' \in BOOLEAN /\ (validated' => ValidTables(tables'))
      /\ IsTables(working') /\ inTx' \in BOOLEAN /\ txLimits' \in TransactionLimits
      /\ writes' \in Nat
      /\ inTx' => WithinSnapshotLimits(working', txLimits') /\ writes' <= txLimits'.writes
  <2>1. ASSUME NEW limits \in TxLimits, BeginTransaction(limits)
        PROVE  <1>4!:
    <3>1. limits \in TransactionLimits /\ limits.writes \in Nat
      BY RequestsAssumption DEF TransactionLimits
    <3>2. CASE /\ UNCHANGED <<tables, txVars>>
               /\ validated' = validated \/ (validated' = TRUE /\ (validated \/ ValidTables(tables)))
      <4>1. validated' \in BOOLEAN /\ (validated' => ValidTables(tables))
        <5>1. CASE validated' = validated
          BY <1>1, <1>3, <5>1 DEF TypeOK
        <5>2. CASE validated' = TRUE /\ (validated \/ ValidTables(tables))
          BY <1>3, <5>2
        <5>. QED
          BY <3>2, <5>1, <5>2
      <4>2. ~ inTx /\ inTx' = inTx
        BY <2>1, <3>2 DEF BeginTransaction, EngineFree, txVars
      <4>3. inTx' \in BOOLEAN
        BY <1>1, <4>2 DEF TypeOK
      <4>. QED
        BY <1>1, <1>3, <3>2, <4>1, <4>2, <4>3 DEF TypeOK, txVars
    <3>3. CASE /\ tables' = tables /\ validated' = TRUE /\ (validated \/ ValidTables(tables))
               /\ inTx' = TRUE /\ working' = tables /\ txLimits' = limits /\ writes' = 0
               /\ WithinSnapshotLimits(tables, limits)
      BY <1>3, <3>1, <3>3
    <3>. QED
      BY <2>1, <3>2, <3>3 DEF BeginTransaction
  <2>2. CASE Commit \/ Rollback
    <3>1. inTx' = FALSE /\ working' = EmptyTables /\ txLimits' = NoLimits /\ writes' = 0
      BY <2>2 DEF Commit, Rollback, CloseTransaction
    <3>2. IsTables(EmptyTables) /\ NoLimits \in TransactionLimits
      BY DEF EmptyTables, IsTables, NoLimits, TransactionLimits
    <3>3. \/ tables' = working /\ validated' = TRUE /\ ValidTables(working)
          \/ tables' = tables /\ validated' = validated
      BY <2>2 DEF Commit, Rollback, engineVars
    <3>4. validated \in BOOLEAN
      BY <1>1 DEF TypeOK
    <3>5. validated' \in BOOLEAN /\ inTx' \in BOOLEAN /\ ~ inTx'
      BY <3>1, <3>3, <3>4
    <3>6. IsTables(tables') /\ (validated' => ValidTables(tables'))
      BY <1>3, <3>3
    <3>. QED
      BY <3>1, <3>2, <3>5, <3>6
  <2>. QED
    BY <2>1, <2>2 DEF Transact
<1>5. TypeOK'
  BY <1>1, <1>2, <1>4 DEF TypeOK, opVars
<1>6. ValidatedSound' /\ CandidateWithinLimits'
  BY <1>1, <1>4 DEF ValidatedSound, Published, CandidateWithinLimits, Candidate, opVars
<1>7. ReadersExclude' /\ ReadingValidated' /\ WritesLeft'
  BY <1>1 DEF ReadersExclude, ReadingValidated, WritesLeft, opVars
<1>. QED
  BY <1>5, <1>6, <1>7 DEF Inv

-----------------------------------------------------------------------------
(***************************************************************************)
(* The theorems.                                                           *)
(***************************************************************************)

\* Every step keeps the invariant.
LEMMA StepInv ==
  ASSUME Inv, [Next]_vars
  PROVE  Inv'
<1>1. CASE UNCHANGED vars
  BY <1>1 DEF vars, engineVars, txVars, opVars, Inv, TypeOK, ValidatedSound,
              CandidateWithinLimits, ReadersExclude, ReadingValidated, WritesLeft,
              Published, Candidate
<1>2. CASE Define
  BY <1>2, DefineInv
<1>3. CASE \E r \in Readers : Read(r)
  BY <1>3, ReadInv
<1>4. CASE Request
  BY <1>4, RequestInv DEF Request
<1>5. CASE WriteStep
  BY <1>5, WriteStepInv
<1>6. CASE Transact
  BY <1>6, TransactInv
<1>. QED
  BY <1>1, <1>2, <1>3, <1>4, <1>5, <1>6 DEF Next

\* Inv is an invariant of the engine.
THEOREM Invariance == Spec => []Inv
BY InitInv, StepInv, PTL DEF Spec

\* Type correctness of the engine, its transaction and the write in progress.
THEOREM TypeCorrect == Spec => []TypeOK
<1>1. Inv => TypeOK
  BY DEF Inv
<1>. QED
  BY <1>1, Invariance, PTL

\* The cached validation flag never lies (MemoryEngine.validated): when it is set,
\* the published tables satisfy every local and cross-model constraint.
THEOREM FlagIsSound == Spec => []ValidatedSound
<1>1. Inv => ValidatedSound
  BY DEF Inv
<1>. QED
  BY <1>1, Invariance, PTL

\* No plan is ever executed over tables that violate a constraint (execute_plan).
THEOREM ReadsAreValid == Spec => []ReadersSeeValidTables
<1>1. Inv => ReadersSeeValidTables
  <2>. SUFFICES ASSUME Inv, NEW r \in Readers, reader[r] = "reading" PROVE ValidTables(tables)
    BY DEF ReadersSeeValidTables
  <2>1. validated
    BY DEF Inv, ReadingValidated
  <2>2. pc = "idle"
    BY DEF Inv, ReadersExclude
  <2>. QED
    BY <2>1, <2>2 DEF Inv, ValidatedSound, Published
<1>. QED
  BY <1>1, Invariance, PTL

\* A transaction never retains more than its limits allow (MemoryTransaction).
THEOREM TransactionsAreBounded == Spec => []CandidateWithinLimits
<1>1. Inv => CandidateWithinLimits
  BY DEF Inv
<1>. QED
  BY <1>1, Invariance, PTL


-----------------------------------------------------------------------------
(***************************************************************************)
(* Atomicity.  The invariant that relates the table a write has reached to *)
(* the one it started from.                                                *)
(***************************************************************************)

\* The tables the write in progress started from.
Base == RestoreTable(Current, op.write.model.key, op.previous)

RowsBefore == IF op.previous = NoTable THEN <<>> ELSE op.previous.rows

\* The positions of the first n rows that the write selects.
SelectedUpTo(n) == {i \in 1 .. n : Selected(op.write, RowsBefore[i])}

\* The update loop has dealt with the rows before its cursor, and with no other.
LoopRows(rows) ==
  /\ Len(rows) = Len(RowsBefore) /\ cursor <= Len(rows) + 1
  /\ \A i \in 1 .. Len(rows) :
       rows[i] = IF i < cursor THEN Atomic!UpdatedRow(op.write, RowsBefore[i]) ELSE RowsBefore[i]
  /\ affected = Cardinality(SelectedUpTo(cursor - 1))

Applying ==
  pc = "apply" =>
    /\ op.previous = NoTable => op.write.model.key \notin DOMAIN Current
    /\ op.previous # NoTable =>
         /\ op.write.model.key \in DOMAIN Current
         /\ Current[op.write.model.key].model = op.previous.model
         /\ LoopRows(RowsNow)
    /\ op.write.kind # "update" => cursor = 1

Applied ==
  pc \in {"local", "global"} =>
    /\ Atomic!Addresses(Base, op.write)
    /\ Current = Atomic!Effect(Base, op.write)
    /\ affected = Atomic!Affected(Base, op.write)
    /\ pc = "global" => LocalValid(op.write.model, RowsNow)

\* A write on the engine's own tables starts once they are known to be valid.
StartedValid == pc # "idle" /\ ~ inTx => validated

AInv == Inv /\ Applying /\ Applied /\ StartedValid


-----------------------------------------------------------------------------
(***************************************************************************)
(* The abstract store speaks of the same tables.                           *)
(***************************************************************************)

\* What tables are, how they are put and what makes them valid is shared.
LEMMA SharedOperators ==
  ASSUME NEW t, NEW k, NEW x, NEW def, NEW rows
  PROVE  /\ Atomic!EmptyTables = EmptyTables
         /\ Atomic!Put(t, k, x) = Put(t, k, x)
         /\ Atomic!LocalValid(def, rows) <=> LocalValid(def, rows)
         /\ Atomic!ValidTables(t) <=> ValidTables(t)
         /\ Atomic!Ok(k, x) = Ok(k, x) /\ Atomic!Err(k) = Err(k)
<1>1. Atomic!LocalValid(def, rows) <=> LocalValid(def, rows)
  BY DEF Atomic!LocalValid, Atomic!RowAdmitted, Atomic!TuplesDistinct, Atomic!TuplePresent, Atomic!Absent,
         LocalValid, RowAdmitted, TuplesDistinct, TuplePresent, Absent
<1>2. Atomic!ValidTables(t) <=> ValidTables(t)
  BY DEF Atomic!ValidTables, Atomic!ModelSetValid, Atomic!ReferencesHold, Atomic!SameValueTypes,
         Atomic!IsUnique, Atomic!LocalValid, Atomic!RowAdmitted, Atomic!TuplesDistinct,
         Atomic!TuplePresent, Atomic!Absent,
         ValidTables, ModelSetValid, ReferencesHold, SameValueTypes, IsUnique, LocalValid, RowAdmitted,
         TuplesDistinct, TuplePresent, Absent
<1>3. Atomic!EmptyTables = EmptyTables /\ Atomic!Put(t, k, x) = Put(t, k, x)
  BY DEF Atomic!EmptyTables, EmptyTables, Atomic!Put, Put
<1>4. Atomic!Ok(k, x) = Ok(k, x) /\ Atomic!Err(k) = Err(k)
  BY DEF Atomic!Ok, Atomic!Err, Ok, Err
<1>. QED
  BY <1>1, <1>2, <1>3, <1>4

\* And how sets are counted.
LEMMA SharedCardinality ==
  ASSUME NEW S
  PROVE  Atomic!Cardinality(S) = Cardinality(S)
BY DEF Atomic!Cardinality, Cardinality

\* So is what a write selects and assigns.
LEMMA SharedEffects ==
  ASSUME NEW w, NEW row, NEW rows
  PROVE  /\ Atomic!Selected(w, row) <=> Selected(w, row)
         /\ Atomic!SelectedAt(w, rows) = {i \in DOMAIN rows : Selected(w, rows[i])}
         /\ Atomic!UpdatedRow(w, row) = IF Selected(w, row) THEN AssignRow(row, Evaluated(w, row)) ELSE row
BY DEF Atomic!Selected, Selected, Atomic!SelectedAt, Atomic!UpdatedRow, Atomic!AssignRow, Atomic!Evaluated,
       AssignRow, Evaluated

\* Putting the write's table into the tables it started from, or into the ones it has
\* reached, is the same.
LEMMA PutOverRestore ==
  ASSUME NEW t, NEW k, NEW previous, NEW x
  PROVE  Put(RestoreTable(t, k, previous), k, x) = Put(t, k, x)
BY DEF Put, RestoreTable, Remove

\* The table the write started from.
LEMMA BaseTable ==
  ASSUME TypeOK, pc # "idle"
  PROVE  /\ op.write.model.key \in DOMAIN Base <=> op.previous # NoTable
         /\ op.previous # NoTable =>
              Base[op.write.model.key] = op.previous /\ op.previous \in Table
         /\ Base = IF inTx THEN Candidate ELSE Published
         /\ RowsBefore \in Seq(Row) /\ Len(RowsBefore) \in Nat
         /\ DOMAIN RowsBefore = 1 .. Len(RowsBefore)
         /\ Atomic!RowsOf(Base, op.write.model) = RowsBefore
<1>. DEFINE key == op.write.model.key
<1>1. op.previous \in Table \cup {NoTable}
  BY RunningWrite
<1>2. key \in DOMAIN Base <=> op.previous # NoTable
  BY DEF Base, RestoreTable, Put, Remove
<1>3. op.previous # NoTable => Base[key] = op.previous /\ op.previous \in Table
  BY <1>1 DEF Base, RestoreTable, Put
<1>4. Base = IF inTx THEN Candidate ELSE Published
  BY DEF Base, Current, Candidate, Published
<1>5. RowsBefore \in Seq(Row)
  BY <1>1 DEF RowsBefore, Table
<1>6. Len(RowsBefore) \in Nat /\ DOMAIN RowsBefore = 1 .. Len(RowsBefore)
  BY <1>5, LenProperties
<1>7. Atomic!RowsOf(Base, op.write.model) = RowsBefore
  BY <1>2, <1>3 DEF Atomic!RowsOf, RowsBefore
<1>. QED
  BY <1>2, <1>3, <1>4, <1>5, <1>6, <1>7

\* Steps inside a write do not change where it started from.
LEMMA BaseStays ==
  ASSUME InsideWrite
  PROVE  Base' = Base /\ RowsBefore' = RowsBefore
<1>1. pc # "idle" /\ pc' # "idle" /\ inTx' = inTx /\ op' = op
  BY DEF InsideWrite
<1>2. Base = IF inTx THEN Candidate ELSE Published
  BY <1>1 DEF Base, Current, Candidate, Published
<1>3. Base' = IF inTx' THEN Candidate' ELSE Published'
  BY <1>1 DEF Base, Current, Candidate, Published
<1>. QED
  BY <1>1, <1>2, <1>3 DEF InsideWrite, RowsBefore

\* What a step that sets the write's rows makes of the tables.
LEMMA CurrentAfter ==
  ASSUME TypeOK, pc # "idle", OpUnchanged, NEW rows, SetRows(rows)
  PROVE  /\ Current' = Put(Current, op.write.model.key, [model |-> op.write.model, rows |-> rows])
         /\ Current' = Put(Base, op.write.model.key, [model |-> op.write.model, rows |-> rows])
         /\ op.write.model.key \in DOMAIN Current'
         /\ Current'[op.write.model.key] = [model |-> op.write.model, rows |-> rows]
         /\ RowsNow' = rows
<1>. DEFINE key == op.write.model.key
            x == [model |-> op.write.model, rows |-> rows]
<1>1. inTx' = inTx /\ op' = op
  BY DEF OpUnchanged
<1>2. SetCurrent(Put(Current, key, x))
  BY DEF SetRows
<1>3. Current' = Put(Current, key, x)
  BY <1>1, <1>2 DEF SetCurrent, Current
<1>4. x.rows = rows
  OBVIOUS
<1>. HIDE DEF x
<1>5. Put(Base, key, x) = Put(Current, key, x)
  BY PutOverRestore DEF Base
<1>6. key \in DOMAIN Current' /\ Current'[key] = x
  BY <1>3 DEF Put
<1>7. RowsNow' = rows
  BY <1>1, <1>4, <1>6 DEF RowsNow
<1>. QED
  BY <1>3, <1>5, <1>6, <1>7 DEF x, key


-----------------------------------------------------------------------------
(***************************************************************************)
(* The steps of a write bring about its effect as a whole.                 *)
(***************************************************************************)

\* Before the first row is dealt with, the rows are those the write started from.
LEMMA UntouchedRows ==
  ASSUME AInv, pc = "apply", op.write.kind # "update", op.previous # NoTable
  PROVE  /\ RowsNow = RowsBefore /\ op.write.model.key \in DOMAIN Current
         /\ Current[op.write.model.key].model = op.previous.model
<1>1. /\ op.write.model.key \in DOMAIN Current /\ cursor = 1 /\ LoopRows(RowsNow)
      /\ Current[op.write.model.key].model = op.previous.model
  BY DEF AInv, Applying
<1>2. TypeOK /\ pc # "idle"
  BY DEF AInv, Inv
<1>3. RowsNow \in Seq(Row) /\ RowsBefore \in Seq(Row) /\ Len(RowsNow) \in Nat
  BY <1>1, <1>2, RowsNowType, BaseTable, LenProperties
<1>4. \A i \in 1 .. Len(RowsNow) : ~ (i < cursor)
  BY <1>1, <1>3
<1>5. \A i \in 1 .. Len(RowsNow) : RowsNow[i] = RowsBefore[i]
  BY <1>1, <1>4 DEF LoopRows
<1>6. Len(RowsNow) = Len(RowsBefore)
  BY <1>1 DEF LoopRows
<1>7. RowsNow = RowsBefore
  BY <1>3, <1>5, <1>6, SeqEqual
<1>. QED
  BY <1>1, <1>7

\* The model of the write is the registered one, or none is registered and it inserts.
LEMMA WriteAddresses ==
  ASSUME AInv, pc = "apply", TableAddressed \/ (op.previous = NoTable /\ op.write.kind = "insert")
  PROVE  Atomic!Addresses(Base, op.write)
<1>1. TypeOK /\ pc # "idle"
  BY DEF AInv, Inv
<1>2. CASE op.previous = NoTable
  BY <1>1, <1>2, BaseTable DEF AInv, Applying, TableAddressed, Atomic!Addresses
<1>3. CASE op.previous # NoTable
  <2>1. TableAddressed /\ Current[op.write.model.key].model = op.previous.model
    BY <1>3 DEF AInv, Applying
  <2>. QED
    BY <1>1, <1>3, <2>1, BaseTable DEF TableAddressed, Atomic!Addresses
<1>. QED
  BY <1>2, <1>3

\* Setting the rows that the whole write makes is the effect of the write.
LEMMA WholeEffect ==
  ASSUME TypeOK, pc # "idle", OpUnchanged, NEW rows, SetRows(rows),
         rows = Atomic!RowsAfter(Base, op.write)
  PROVE  Current' = Atomic!Effect(Base, op.write)
<1>1. Current' = Put(Base, op.write.model.key, [model |-> op.write.model, rows |-> rows])
  BY CurrentAfter
<1>. QED
  BY <1>1, SharedOperators DEF Atomic!Effect

\* Insert and InsertMany.
LEMMA InsertApplied ==
  ASSUME AInv, ApplyInsert
  PROVE  Applied'
<1>1. /\ TypeOK /\ pc = "apply" /\ pc # "idle" /\ pc' = "local" /\ op' = op /\ OpUnchanged
      /\ op.write.kind = "insert" /\ (op.previous = NoTable \/ TableAddressed)
  BY DEF AInv, Inv, ApplyInsert, OpUnchanged
<1>2. InsideWrite
  BY <1>1, InsertStep
<1>3. Base' = Base
  BY <1>2, BaseStays
<1>4. Atomic!Addresses(Base, op.write)
  BY <1>1, WriteAddresses
<1>. DEFINE rows == (IF op.previous = NoTable THEN <<>> ELSE RowsNow) \o op.write.rows
<1>5. rows = RowsBefore \o op.write.rows
  BY <1>1, UntouchedRows DEF RowsBefore
<1>6. rows = Atomic!RowsAfter(Base, op.write)
  BY <1>1, <1>5, BaseTable DEF Atomic!RowsAfter
<1>7. SetRows(rows)
  BY DEF ApplyInsert
<1>. HIDE DEF rows
<1>8. Current' = Atomic!Effect(Base, op.write)
  BY <1>1, <1>6, <1>7, WholeEffect
<1>9. affected' = Atomic!Affected(Base, op.write)
  BY <1>1 DEF ApplyInsert, Atomic!Affected
<1>. QED
  BY <1>1, <1>3, <1>4, <1>8, <1>9 DEF Applied

\* One turn of the update loop.
LEMMA UpdateApplying ==
  ASSUME AInv, UpdateRow
  PROVE  Applying'
<1>1. /\ TypeOK /\ pc = "apply" /\ pc # "idle" /\ pc' = pc /\ op' = op /\ OpUnchanged
      /\ op.write.kind = "update" /\ TableAddressed /\ cursor' = cursor + 1
      /\ cursor \in DOMAIN RowsNow
  BY DEF AInv, Inv, UpdateRow, OpUnchanged
<1>2. InsideWrite
  BY <1>1, UpdateStep
<1>3. RowsBefore' = RowsBefore
  BY <1>2, BaseStays
<1>4. op.previous # NoTable /\ LoopRows(RowsNow) /\ Current[op.write.model.key].model = op.previous.model
  BY <1>1 DEF AInv, Applying, TableAddressed
<1>5. /\ RowsNow \in Seq(Row) /\ DOMAIN RowsNow = 1 .. Len(RowsNow) /\ Len(RowsNow) \in Nat
      /\ RowsBefore \in Seq(Row) /\ Len(RowsBefore) = Len(RowsNow)
  BY <1>1, <1>4, RowsNowType, BaseTable, LenProperties DEF TableAddressed, LoopRows
<1>6. cursor \in 1 .. Len(RowsNow) /\ cursor' \in Nat /\ cursor' <= Len(RowsNow) + 1 /\ cursor' - 1 = cursor
  BY <1>1, <1>5
<1>. DEFINE row == RowsNow[cursor]
            updated == AssignRow(row, Evaluated(op.write, row))
<1>7. row = RowsBefore[cursor]
  BY <1>4, <1>6 DEF LoopRows
<1>8. IsFiniteSet(SelectedUpTo(cursor - 1)) /\ cursor \notin SelectedUpTo(cursor - 1)
  <2>1. IsFiniteSet(1 .. cursor - 1)
    BY <1>6, FS_Interval
  <2>2. SelectedUpTo(cursor - 1) \subseteq 1 .. cursor - 1
    BY DEF SelectedUpTo
  <2>. QED
    BY <1>6, <2>1, <2>2, FS_Subset
<1>9. SelectedUpTo(cursor)' = SelectedUpTo(cursor') /\ (SelectedUpTo(cursor - 1))' = SelectedUpTo(cursor)
  BY <1>1, <1>3, <1>6 DEF SelectedUpTo
<1>10. SelectedUpTo(cursor) = IF Selected(op.write, row) THEN SelectedUpTo(cursor - 1) \cup {cursor}
                              ELSE SelectedUpTo(cursor - 1)
  BY <1>6, <1>7 DEF SelectedUpTo
<1>11. CASE /\ op.write.condition[row] \in {"False", "Unknown"}
            /\ UNCHANGED <<tables, working, affected>>
  <2>1. Current' = Current /\ RowsNow' = RowsNow
    BY <1>1, <1>11 DEF OpUnchanged, Current, RowsNow
  <2>2. ~ Selected(op.write, row)
    BY <1>11 DEF Selected
  <2>. HIDE DEF row
  <2>3. Atomic!UpdatedRow(op.write, row) = row
    BY <2>2, SharedEffects
  <2>4. affected' = Cardinality(SelectedUpTo(cursor))
    BY <1>4, <1>10, <1>11, <2>2 DEF LoopRows
  <2>5. ASSUME NEW i \in 1 .. Len(RowsNow)
        PROVE  RowsNow[i] = IF i < cursor' THEN Atomic!UpdatedRow(op.write, RowsBefore[i]) ELSE RowsBefore[i]
    <3>1. i \in Nat /\ cursor \in Nat /\ (i < cursor' <=> i < cursor \/ i = cursor)
      BY <1>1, <1>5, <1>6
    <3>. QED
      BY <1>4, <1>7, <2>3, <3>1 DEF LoopRows, row
  <2>6. LoopRows(RowsNow)'
    BY <1>1, <1>3, <1>5, <1>6, <1>9, <2>1, <2>4, <2>5 DEF LoopRows
  <2>. QED
    BY <1>1, <1>4, <2>1, <2>6 DEF Applying, TableAddressed
<1>12. CASE /\ Selected(op.write, row)
            /\ SetRows([RowsNow EXCEPT ![cursor] = updated])
            /\ affected' = affected + 1
  <2>. DEFINE rows == [RowsNow EXCEPT ![cursor] = updated]
  <2>1. /\ op.write.model.key \in DOMAIN Current' /\ RowsNow' = rows
        /\ Current'[op.write.model.key] = [model |-> op.write.model, rows |-> rows]
    BY <1>1, <1>12, CurrentAfter
  <2>2. Atomic!UpdatedRow(op.write, RowsBefore[cursor]) = updated
    BY <1>7, <1>12, SharedEffects
  <2>. HIDE DEF row, updated
  <2>3. /\ Len(rows) = Len(RowsNow) /\ rows[cursor] = updated
        /\ \A i \in 1 .. Len(RowsNow) : i # cursor => rows[i] = RowsNow[i]
    BY <1>5, <1>6
  <2>. HIDE DEF rows
  <2>4. affected' = Cardinality(SelectedUpTo(cursor))
    <3>1. Cardinality(SelectedUpTo(cursor - 1) \cup {cursor}) = Cardinality(SelectedUpTo(cursor - 1)) + 1
      BY <1>8, FS_AddElement
    <3>. QED
      BY <1>4, <1>10, <1>12, <3>1 DEF LoopRows
  <2>5. ASSUME NEW i \in 1 .. Len(RowsNow)
        PROVE  rows[i] = IF i < cursor' THEN Atomic!UpdatedRow(op.write, RowsBefore[i]) ELSE RowsBefore[i]
    <3>1. i \in Nat /\ cursor \in Nat /\ (i < cursor' <=> i < cursor \/ i = cursor) /\ ~ (cursor < cursor)
      BY <1>1, <1>5, <1>6
    <3>. QED
      BY <1>4, <2>2, <2>3, <3>1 DEF LoopRows
  <2>6. LoopRows(RowsNow)'
    BY <1>1, <1>3, <1>5, <1>6, <1>9, <2>1, <2>3, <2>4, <2>5 DEF LoopRows
  <2>. QED
    BY <1>1, <1>4, <2>1, <2>6 DEF Applying, TableAddressed
<1>. QED
  BY <1>11, <1>12 DEF UpdateRow

\* The end of the update loop.
LEMMA UpdateApplied ==
  ASSUME AInv, EndUpdate
  PROVE  Applied'
<1>1. /\ TypeOK /\ pc = "apply" /\ pc # "idle" /\ pc' = "local" /\ op' = op /\ OpUnchanged
      /\ op.write.kind = "update" /\ TableAddressed /\ cursor \notin DOMAIN RowsNow
      /\ UNCHANGED <<tables, working, cursor, affected, inTx>>
  BY DEF AInv, Inv, EndUpdate, OpUnchanged
<1>2. Current' = Current /\ Base' = Base
  BY <1>1 DEF Current, Base
<1>3. Atomic!Addresses(Base, op.write)
  BY <1>1, WriteAddresses
<1>4. op.previous # NoTable /\ LoopRows(RowsNow)
  BY <1>1 DEF AInv, Applying, TableAddressed
<1>5. /\ RowsNow \in Seq(Row) /\ DOMAIN RowsNow = 1 .. Len(RowsNow) /\ Len(RowsNow) \in Nat
      /\ DOMAIN RowsBefore = 1 .. Len(RowsBefore) /\ Len(RowsBefore) = Len(RowsNow)
      /\ Atomic!RowsOf(Base, op.write.model) = RowsBefore
  BY <1>1, <1>4, RowsNowType, BaseTable, LenProperties DEF TableAddressed, LoopRows
<1>6. cursor = Len(RowsNow) + 1 /\ \A i \in 1 .. Len(RowsNow) : i < cursor
  <2>1. cursor \in Nat \ {0} /\ cursor <= Len(RowsNow) + 1
    BY <1>1, <1>4 DEF TypeOK, LoopRows
  <2>. QED
    BY <1>1, <1>5, <2>1
<1>7. RowsNow = [i \in DOMAIN RowsBefore |-> Atomic!UpdatedRow(op.write, RowsBefore[i])]
  <2>1. \A i \in 1 .. Len(RowsNow) : RowsNow[i] = Atomic!UpdatedRow(op.write, RowsBefore[i])
    BY <1>4, <1>6 DEF LoopRows
  <2>2. RowsNow = [i \in DOMAIN RowsNow |-> RowsNow[i]]
    BY <1>5
  <2>. QED
    BY <1>5, <2>1, <2>2
<1>8. RowsNow = Atomic!RowsAfter(Base, op.write)
  BY <1>1, <1>5, <1>7 DEF Atomic!RowsAfter
<1>9. Current = Atomic!Effect(Base, op.write)
  <2>1. IsTables(Current) /\ Current[op.write.model.key] \in Table
    BY <1>1, CurrentTables DEF IsTables, TableAddressed
  <2>2. Current[op.write.model.key] = [model |-> op.write.model, rows |-> RowsNow]
    BY <1>1, <2>1 DEF TableAddressed, RowsNow, Table
  <2>3. Current = Put(Current, op.write.model.key, Current[op.write.model.key])
    BY <1>1, <2>1 DEF Put, IsTables, TableAddressed
  <2>4. Current = Put(Base, op.write.model.key, [model |-> op.write.model, rows |-> RowsNow])
    BY <2>2, <2>3, PutOverRestore DEF Base
  <2>. QED
    BY <1>8, <2>4, SharedOperators DEF Atomic!Effect
<1>10. affected = Atomic!Affected(Base, op.write)
  <2>1. SelectedUpTo(cursor - 1) = Atomic!SelectedAt(op.write, RowsBefore)
    <3>1. cursor - 1 = Len(RowsBefore)
      BY <1>5, <1>6
    <3>. QED
      BY <1>5, <3>1, SharedEffects DEF SelectedUpTo
  <2>. QED
    BY <1>1, <1>4, <1>5, <2>1, SharedCardinality DEF LoopRows, Atomic!Affected
<1>. QED
  BY <1>1, <1>2, <1>3, <1>9, <1>10 DEF Applied


\* Listing a finite set of numbers in increasing order puts each at its place.
LEMMA IncreasingIsByRank ==
  ASSUME NEW S \in SUBSET Nat, IsFiniteSet(S),
         NEW at \in [1 .. Cardinality(S) -> S],
         \A i, j \in 1 .. Cardinality(S) : i < j => at[i] < at[j],
         NEW i \in 1 .. Cardinality(S)
  PROVE  at[i] = Atomic!Position(S, i)
<1>. DEFINE n == Cardinality(S)
            R == {p \in S \X S : p[1] < p[2]}
            Smaller(x) == {j \in S : j < x}
<1>1. n \in Nat /\ i \in Nat
  BY FS_CardinalityType
<1>2. IsFiniteSet(1 .. n) /\ Cardinality(1 .. n) = n
  BY <1>1, FS_Interval
<1>3. \A k, m \in 1 .. n : at[k] = at[m] => k = m
  <2>. SUFFICES ASSUME NEW k \in 1 .. n, NEW m \in 1 .. n, at[k] = at[m], k # m PROVE FALSE
    OBVIOUS
  <2>1. at[k] \in Nat /\ at[m] \in Nat
    OBVIOUS
  <2>2. k < m \/ m < k
    BY <1>1
  <2>. QED
    BY <2>1, <2>2
<1>4. at \in Injection(1 .. n, S)
  BY <1>3 DEF Injection, IsInjective
<1>5. at \in Surjection(1 .. n, S)
  <2>. HIDE DEF n
  <2>1. Cardinality(S) = n
    BY DEF n
  <2>. QED
    BY <1>2, <1>4, <2>1, FS_Injection
<1>6. \A x \in S : \E k \in 1 .. n : at[k] = x
  BY <1>5 DEF Surjection
<1>7. Cardinality(Smaller(at[i])) = i - 1
  <2>. DEFINE B == Smaller(at[i])
              f == [k \in 1 .. i - 1 |-> at[k]]
  <2>1. \A k \in 1 .. i - 1 : k \in 1 .. n /\ k < i /\ at[k] \in B
    BY <1>1
  <2>2. ASSUME NEW x \in B PROVE \E k \in 1 .. i - 1 : at[k] = x
    <3>1. PICK k \in 1 .. n : at[k] = x
      BY <1>6, <2>2
    <3>2. x < at[i] /\ x \in Nat /\ at[i] \in Nat
      BY <2>2
    <3>3. ~ (i < k) /\ i # k
      BY <3>1, <3>2
    <3>. QED
      BY <1>1, <3>1, <3>3
  <2>3. f \in [1 .. i - 1 -> B]
    BY <2>1
  <2>4. \A k, m \in 1 .. i - 1 : f[k] = f[m] => k = m
    BY <1>3, <2>1
  <2>5. \A x \in B : \E k \in 1 .. i - 1 : f[k] = x
    BY <2>2
  <2>. HIDE DEF f, B
  <2>6. f \in Bijection(1 .. i - 1, B)
    BY <2>3, <2>4, <2>5 DEF Bijection, Injection, Surjection, IsInjective
  <2>7. IsFiniteSet(1 .. i - 1) /\ Cardinality(1 .. i - 1) = i - 1
    <3>. DEFINE m == i - 1
    <3>1. m \in Nat
      BY <1>1
    <3>. HIDE DEF m
    <3>2. IsFiniteSet(1 .. m) /\ Cardinality(1 .. m) = m
      BY <3>1, FS_Interval
    <3>. QED
      BY <3>2 DEF m
  <2>8. Cardinality(B) = i - 1
    BY <2>6, <2>7, FS_Bijection DEF ExistsBijection
  <2>. QED
    BY <2>8 DEF B
<1>8. IsOrder(R, S)
  BY DEF IsOrder
<1>9. \A x \in S : Below(R, S, x) = Smaller(x)
  BY DEF Below
<1>10. \A x, y \in S : Cardinality(Smaller(x)) = Cardinality(Smaller(y)) => x = y
  <2>. HIDE DEF R
  <2>1. \A x, y \in S : Cardinality(Below(R, S, x)) = Cardinality(Below(R, S, y)) => x = y
    BY <1>8, RanksExist
  <2>. QED
    BY <1>9, <2>1
<1>11. Atomic!Position(S, i) = CHOOSE k \in S : Cardinality(Smaller(k)) = i - 1
  BY SharedCardinality DEF Atomic!Position
<1>12. at[i] \in S
  OBVIOUS
<1>. HIDE DEF Smaller
<1>. QED
  BY <1>7, <1>10, <1>11, <1>12

\* Deletion.
LEMMA DeleteApplied ==
  ASSUME AInv, ApplyDelete
  PROVE  Applied'
<1>1. /\ TypeOK /\ pc = "apply" /\ pc # "idle" /\ pc' = "local" /\ op' = op /\ OpUnchanged
      /\ op.write.kind = "delete" /\ TableAddressed /\ affected' = Cardinality(SelectedRows)
  BY DEF AInv, Inv, ApplyDelete, OpUnchanged
<1>2. InsideWrite
  BY <1>1, DeleteStep
<1>3. Base' = Base
  BY <1>2, BaseStays
<1>4. Atomic!Addresses(Base, op.write)
  BY <1>1, WriteAddresses
<1>5. op.previous # NoTable
  BY <1>1 DEF AInv, Applying, TableAddressed
<1>6. RowsNow = RowsBefore /\ Atomic!RowsOf(Base, op.write.model) = RowsBefore
  BY <1>1, <1>5, UntouchedRows, BaseTable
<1>7. SelectedRows = Atomic!SelectedAt(op.write, RowsBefore)
  BY <1>6, SharedEffects DEF SelectedRows
<1>8. affected' = Atomic!Affected(Base, op.write)
  BY <1>1, <1>6, <1>7, SharedCardinality DEF Atomic!Affected
<1>9. KeptRows \in SUBSET Nat /\ IsFiniteSet(KeptRows)
  <2>1. DOMAIN RowsNow = 1 .. Len(RowsNow) /\ Len(RowsNow) \in Nat
    BY <1>1, RowsNowType, LenProperties DEF TableAddressed
  <2>2. IsFiniteSet(DOMAIN RowsNow)
    BY <2>1, FS_Interval
  <2>3. KeptRows \subseteq DOMAIN RowsNow
    BY DEF KeptRows
  <2>. QED
    BY <2>1, <2>2, <2>3, FS_Subset
<1>. DEFINE n == Cardinality(KeptRows)
<1>10. PICK at \in [1 .. n -> KeptRows] :
         /\ \A i, j \in DOMAIN at : i < j => at[i] < at[j]
         /\ SetRows([i \in 1 .. n |-> RowsNow[at[i]]])
  BY DEF ApplyDelete
<1>11. \A i \in 1 .. n : at[i] = Atomic!Position(KeptRows, i)
  <2>1. \A i, j \in 1 .. n : i < j => at[i] < at[j]
    BY <1>10
  <2>. QED
    BY <1>9, <1>10, <2>1, IncreasingIsByRank
<1>. DEFINE rows == [i \in 1 .. n |-> RowsNow[at[i]]]
<1>12. rows = Atomic!RowsAt(RowsBefore, KeptRows)
  <2>1. rows = [i \in 1 .. n |-> RowsBefore[Atomic!Position(KeptRows, i)]]
    BY <1>6, <1>11
  <2>. QED
    BY <2>1, SharedCardinality DEF Atomic!RowsAt
<1>13. KeptRows = DOMAIN RowsBefore \ Atomic!SelectedAt(op.write, RowsBefore)
  BY <1>6, <1>7 DEF KeptRows
<1>. HIDE DEF rows
<1>14. rows = Atomic!RowsAfter(Base, op.write)
  BY <1>1, <1>6, <1>12, <1>13 DEF Atomic!RowsAfter
<1>15. Current' = Atomic!Effect(Base, op.write)
  BY <1>1, <1>10, <1>14, WholeEffect DEF rows
<1>. QED
  BY <1>1, <1>3, <1>4, <1>8, <1>15 DEF Applied


\* A write that starts has dealt with no row.
LEMMA StartApplying ==
  ASSUME TypeOK, NEW w \in Writes, NEW limits \in Limits, StartApply(w, limits),
         UNCHANGED <<tables, working, inTx>>
  PROVE  Applying' /\ Applied'
<1>1. /\ pc' = "apply" /\ cursor' = 1 /\ affected' = 0 /\ op'.write = w
      /\ op'.previous = TableOf(Current, w.model.key) /\ Current' = Current
  BY DEF StartApply, Current
<1>2. Applied'
  BY <1>1 DEF Applied
<1>3. CASE w.model.key \notin DOMAIN Current
  BY <1>1, <1>2, <1>3 DEF Applying, TableOf
<1>4. CASE w.model.key \in DOMAIN Current
  <2>1. Current[w.model.key] \in Table
    BY <1>4, CurrentTables DEF IsTables
  <2>2. op'.previous = Current[w.model.key] /\ op'.previous # NoTable
    BY <1>1, <1>4, <2>1, NoTableIsNoTable DEF TableOf
  <2>3. RowsNow' = RowsBefore' /\ RowsNow' = Current[w.model.key].rows
    BY <1>1, <2>2 DEF RowsNow, RowsBefore
  <2>4. Len(RowsNow') \in Nat
    BY <2>1, <2>3, LenProperties DEF Table
  <2>5. (SelectedUpTo(cursor - 1))' = {}
    BY <1>1 DEF SelectedUpTo
  <2>6. LoopRows(RowsNow)'
    <3>1. Cardinality({}) = 0
      BY FS_EmptySet
    <3>2. affected' = Cardinality((SelectedUpTo(cursor - 1))')
      BY <1>1, <2>5, <3>1
    <3>3. \A i \in 1 .. Len(RowsNow') : ~ (i < cursor')
      BY <1>1, <2>4
    <3>4. cursor' <= Len(RowsNow') + 1
      BY <1>1, <2>4
    <3>. QED
      BY <2>3, <3>2, <3>3, <3>4 DEF LoopRows
  <2>. QED
    BY <1>1, <1>2, <1>4, <2>2, <2>6 DEF Applying
<1>. QED
  BY <1>2, <1>3, <1>4

\* The local validation, if it succeeds.
LEMMA ValidatedApplied ==
  ASSUME AInv, ValidateLocally
  PROVE  Applied'
<1>1. /\ pc = "local" /\ pc' \in {"global", "restore"} /\ op' = op
      /\ pc' = "global" => LocalValid(op.write.model, RowsNow)
      /\ UNCHANGED <<tables, working, inTx, affected>>
  BY DEF ValidateLocally, OpUnchanged
<1>2. Current' = Current /\ Base' = Base /\ RowsNow' = RowsNow
  BY <1>1 DEF Current, Base, RowsNow
<1>. QED
  BY <1>1, <1>2 DEF AInv, Applied

\* The invariant holds of a new engine, and every step keeps it.
LEMMA AtomicInv ==
  /\ Init => AInv
  /\ AInv /\ [Next]_vars => AInv'
<1>1. Init => AInv
  BY InitInv DEF Init, AInv, Applying, Applied, StartedValid
<1>2. ASSUME AInv, [Next]_vars PROVE AInv'
  <2>1. Inv /\ Inv' /\ TypeOK
    BY <1>2, StepInv DEF AInv, Inv
  <2>2. CASE pc' = "idle"
    BY <2>1, <2>2 DEF AInv, Applying, Applied, StartedValid
  <2>3. CASE UNCHANGED vars
    BY <1>2, <2>1, <2>3 DEF vars, engineVars, txVars, opVars, AInv, Applying, Applied, StartedValid,
         LoopRows, SelectedUpTo, RowsBefore, RowsNow, Base, Current
  <2>4. CASE Define \/ Transact
    <3>1. pc = "idle" /\ pc' = pc
      BY <2>4 DEF Define, Clear, Register, Load, Transact, BeginTransaction, Commit, Rollback, EngineFree,
           Exclusive, opVars
    <3>. QED
      BY <2>2, <3>1
  <2>5. ASSUME NEW r \in Readers, Read(r) PROVE AInv'
    <3>1. pc = "idle" /\ pc' = pc
      BY <2>1, <2>5 DEF Read, StartRead, ValidateRead, EndRead, Inv, ReadersExclude, ReadVars, opVars
    <3>. QED
      BY <2>2, <3>1
  <2>6. ASSUME NEW w \in Writes, NEW limits \in Limits, EngineWrite(w, limits) PROVE AInv'
    <3>1. CASE RefuseWrite
      BY <2>2, <2>6, <3>1 DEF EngineWrite, EngineFree, Exclusive, RefuseWrite, opVars
    <3>2. CASE StartApply(w, limits) /\ validated' = TRUE
      <4>1. Applying' /\ Applied'
        BY <2>1, <2>6, <3>2, StartApplying DEF EngineWrite, txVars
      <4>. QED
        BY <2>1, <3>2, <4>1 DEF AInv, StartedValid
    <3>. QED
      BY <2>6, <3>1, <3>2 DEF EngineWrite
  <2>7. ASSUME NEW w \in Writes, NEW limits \in Limits, TransactionWrite(w, limits) PROVE AInv'
    <3>1. CASE RefuseWrite
      BY <2>2, <2>7, <3>1 DEF TransactionWrite, Exclusive, RefuseWrite, opVars
    <3>2. CASE StartApply(w, limits)
      <4>1. Applying' /\ Applied'
        BY <2>1, <2>7, <3>2, StartApplying DEF TransactionWrite, txVars, engineVars
      <4>2. inTx'
        BY <2>7 DEF TransactionWrite, txVars
      <4>. QED
        BY <2>1, <4>1, <4>2 DEF AInv, StartedValid
    <3>. QED
      BY <2>7, <3>1, <3>2 DEF TransactionWrite
  <2>8. CASE WriteStep
    <3>1. CASE FinishWrite \/ UndoWrite
      BY <2>2, <3>1 DEF FinishWrite, UndoWrite, EndWrite
    <3>2. CASE ~ (FinishWrite \/ UndoWrite)
      <4>1. StartedValid'
        BY <1>2, <2>8, <3>2 DEF WriteStep, ApplyInsert, RejectInsert, UpdateRow, FailUpdate, EndUpdate,
             ApplyDelete, RejectDelete, ValidateLocally, TimeOut, RejectWrite, OpUnchanged, AInv, StartedValid
      <4>2. CASE ApplyInsert
        BY <1>2, <2>1, <4>1, <4>2, InsertApplied DEF AInv, Applying, ApplyInsert
      <4>3. CASE UpdateRow
        BY <1>2, <2>1, <4>1, <4>3, UpdateApplying DEF AInv, Applied, UpdateRow
      <4>4. CASE EndUpdate
        BY <1>2, <2>1, <4>1, <4>4, UpdateApplied DEF AInv, Applying, EndUpdate
      <4>5. CASE ApplyDelete
        BY <1>2, <2>1, <4>1, <4>5, DeleteApplied DEF AInv, Applying, ApplyDelete
      <4>6. CASE ValidateLocally
        BY <1>2, <2>1, <4>1, <4>6, ValidatedApplied DEF AInv, Applying, ValidateLocally
      <4>7. CASE RejectInsert \/ FailUpdate \/ RejectDelete \/ TimeOut \/ RejectWrite
        <5>1. pc' = "restore"
          BY <4>7 DEF RejectInsert, FailUpdate, RejectDelete, TimeOut, RejectWrite, FailApply
        <5>. QED
          BY <2>1, <4>1, <5>1 DEF AInv, Applying, Applied
      <4>. QED
        BY <2>8, <3>2, <4>2, <4>3, <4>4, <4>5, <4>6, <4>7 DEF WriteStep
    <3>. QED
      BY <3>1, <3>2
  <2>. QED
    BY <1>2, <2>3, <2>4, <2>5, <2>6, <2>7, <2>8 DEF Next, Request
<1>. QED
  BY <1>1, <1>2


-----------------------------------------------------------------------------
(***************************************************************************)
(* The refinement, call by call.                                           *)
(***************************************************************************)

\* A call that returns an error and is not a commit.
LEMMA FailedCall ==
  ASSUME NEW call \in {"define", "write", "begin"}, outcome' = Err(call),
         Published' = Published, inTx' = inTx, Candidate' = Candidate
  PROVE  Atomic!Fail
BY SharedOperators DEF Atomic!Fail

\* Definition and loading: a table is added that is locally valid, or all are removed.
LEMMA DefineRefines ==
  ASSUME AInv, Define
  PROVE  Atomic!Next
<1>1. /\ pc = "idle" /\ ~ inTx /\ UNCHANGED <<txVars, opVars>> /\ TypeOK
  BY DEF AInv, Inv, Define, Clear, Register, Load, EngineFree, Exclusive
<1>2. /\ Published = tables /\ Published' = tables' /\ Candidate' = Candidate /\ inTx' = inTx
  BY <1>1 DEF Published, Candidate, txVars, opVars
<1>3. CASE outcome' = Err("define") /\ tables' = tables
  BY <1>2, <1>3, FailedCall DEF Atomic!Next
<1>4. CASE outcome' = Ok("define", 0) /\ (tables' = tables \/ tables' = EmptyTables)
  BY <1>1, <1>2, <1>4, SharedOperators DEF Atomic!Next, Atomic!Define
<1>5. ASSUME NEW def \in Defs, NEW rows, outcome' = Ok("define", 0), def.key \notin DOMAIN tables,
             tables' = Put(tables, def.key, [model |-> def, rows |-> rows]), LocalValid(def, rows)
      PROVE  Atomic!Next
  <2>1. def.key \in Keys
    BY DefsAssumption DEF ModelDef
  <2>. DEFINE x == [model |-> def, rows |-> rows]
  <2>2. x.model = def /\ x.rows = rows
    OBVIOUS
  <2>. HIDE DEF x
  <2>3. def.key \in DOMAIN tables' /\ tables'[def.key] = x /\ tables' = Put(tables, def.key, x)
    BY <1>5 DEF Put, x
  <2>4. Atomic!LocalValid(tables'[def.key].model, tables'[def.key].rows)
    BY <1>5, <2>2, <2>3, SharedOperators
  <2>5. tables' = Atomic!Put(tables, def.key, tables'[def.key])
    BY <2>3, SharedOperators
  <2>6. outcome' = Atomic!Ok("define", 0)
    BY <1>5, SharedOperators
  <2>. QED
    BY <1>1, <1>2, <1>5, <2>1, <2>3, <2>4, <2>5, <2>6 DEF Atomic!Next, Atomic!Define
<1>6. CASE Clear
  BY <1>4, <1>6 DEF Clear
<1>7. ASSUME NEW def \in Defs, Register(def) PROVE Atomic!Next
  <2>1. LocalValid(def, <<>>)
    BY DEF LocalValid, TuplesDistinct
  <2>. QED
    BY <1>3, <1>4, <1>5, <1>7, <2>1 DEF Register, engineVars
<1>8. ASSUME NEW load \in Loads, Load(load[1], load[2]) PROVE Atomic!Next
  <2>1. load[1] \in Defs
    BY RequestsAssumption
  <2>. QED
    BY <1>3, <1>5, <1>8, <2>1 DEF Load, engineVars
<1>. QED
  BY <1>6, <1>7, <1>8 DEF Define

\* Readers, and writes that start or are under way, change nothing a caller can see.
LEMMA HiddenRefines ==
  ASSUME AInv, (\E r \in Readers : Read(r)) \/ Request \/ InsideWrite
  PROVE  Atomic!Next \/ UNCHANGED Atomic!vars
<1>1. TypeOK
  BY DEF AInv, Inv
<1>2. ASSUME NEW r \in Readers, Read(r) PROVE UNCHANGED Atomic!vars
  <2>1. UNCHANGED ReadVars
    BY <1>2 DEF Read, StartRead, ValidateRead, EndRead
  <2>. QED
    BY <2>1 DEF ReadVars, txVars, opVars, Atomic!vars, Published, Candidate
<1>3. CASE InsideWrite
  BY <1>3 DEF InsideWrite, Atomic!vars
<1>4. ASSUME NEW w \in Writes, NEW limits \in Limits, EngineWrite(w, limits) \/ TransactionWrite(w, limits)
      PROVE  Atomic!Next \/ UNCHANGED Atomic!vars
  <2>1. pc = "idle" /\ UNCHANGED <<tables, txVars>>
    BY <1>4 DEF EngineWrite, TransactionWrite, EngineFree, Exclusive, engineVars
  <2>2. CASE StartApply(w, limits)
    <3>1. pc' # "idle" /\ outcome' = outcome /\ Base' = Current
      <4>1. op'.write.model.key = w.model.key /\ Current' = Current
        BY <2>1, <2>2 DEF StartApply, Current, txVars
      <4>2. RestoreTable(Current, op'.write.model.key, op'.previous) = Current
        BY <1>1, <2>2, StartApplyType
      <4>. QED
        BY <2>2, <4>1, <4>2 DEF StartApply, Base
    <3>2. Published' = Published /\ Candidate' = Candidate
      BY <2>1, <3>1 DEF Published, Candidate, Base, Current, txVars
    <3>. QED
      BY <2>1, <3>1, <3>2 DEF Atomic!vars, txVars
  <2>3. CASE RefuseWrite
    <3>1. /\ outcome' = Err("write") /\ Published' = Published /\ Candidate' = Candidate /\ inTx' = inTx
      BY <2>1, <2>3 DEF RefuseWrite, Published, Candidate, txVars, opVars
    <3>. QED
      BY <3>1, FailedCall DEF Atomic!Next
  <2>. QED
    BY <1>4, <2>2, <2>3 DEF EngineWrite, TransactionWrite
<1>. QED
  BY <1>2, <1>3, <1>4 DEF Request

\* A write that ends takes effect as a whole, or not at all.
LEMMA WriteRefines ==
  ASSUME AInv, FinishWrite \/ UndoWrite
  PROVE  Atomic!Next
<1>1. TypeOK /\ pc # "idle" /\ pc' = "idle" /\ inTx' = inTx
  BY DEF AInv, Inv, FinishWrite, UndoWrite, EndWrite
<1>2. op.write \in Writes /\ Base = IF inTx THEN Candidate ELSE Published
  BY <1>1, RunningWrite, BaseTable
<1>3. CASE UndoWrite
  <2>1. /\ outcome' = Err("write") /\ SetCurrent(Base)
    BY <1>3 DEF UndoWrite, EndWrite, Base
  <2>2. Published' = Published /\ Candidate' = Candidate
    BY <1>1, <1>2, <2>1 DEF SetCurrent, Published, Candidate
  <2>. QED
    BY <1>1, <2>1, <2>2, FailedCall DEF Atomic!Next
<1>4. CASE FinishWrite
  <2>1. /\ Atomic!Addresses(Base, op.write) /\ Current = Atomic!Effect(Base, op.write)
        /\ affected = Atomic!Affected(Base, op.write) /\ LocalValid(op.write.model, RowsNow)
    BY <1>4 DEF FinishWrite, AInv, Applied
  <2>2. outcome' = Ok("write", affected) /\ tables' = tables /\ working' = working /\ WriteAccepted
    BY <1>4 DEF FinishWrite, EndWrite
  <2>3. outcome' = Atomic!Ok("write", Atomic!Affected(Base, op.write))
    BY <2>1, <2>2, SharedOperators
  <2>4. CASE inTx
    <3>1. /\ Base = Candidate /\ Candidate' = Current /\ Published' = Published
      BY <1>1, <1>2, <2>2, <2>4 DEF Candidate, Published, Current
    <3>2. Atomic!LocalValid(op.write.model, Current[op.write.model.key].rows)
      BY <2>1, SharedOperators DEF RowsNow
    <3>. QED
      BY <1>1, <1>2, <2>1, <2>3, <2>4, <3>1, <3>2 DEF Atomic!Next, Atomic!CandidateWrite
  <2>5. CASE ~ inTx
    <3>1. /\ Base = Published /\ Published' = Current /\ Candidate' = Candidate
      BY <1>1, <1>2, <2>2, <2>5 DEF Candidate, Published, Current
    <3>2. ValidTables(Published)
      BY <1>1, <2>5 DEF AInv, StartedValid, Inv, ValidatedSound
    <3>3. ValidTables(Current)
      BY <2>2, <2>5 DEF WriteAccepted, Current
    <3>4. Atomic!ValidTables(Published) /\ Atomic!ValidTables(Current)
      BY <3>2, <3>3, SharedOperators
    <3>. QED
      BY <1>1, <1>2, <2>1, <2>3, <2>5, <3>1, <3>4 DEF Atomic!Next, Atomic!Write
  <2>. QED
    BY <2>4, <2>5
<1>. QED
  BY <1>3, <1>4

\* A transaction starts from the store, and becomes the store or is dropped.
LEMMA TransactRefines ==
  ASSUME AInv, Transact
  PROVE  Atomic!Next
<1>1. TypeOK /\ pc = "idle" /\ UNCHANGED opVars
  BY DEF AInv, Inv, Transact, BeginTransaction, Commit, Rollback, EngineFree, Exclusive
<1>2. /\ Published = tables /\ Candidate = working /\ Published' = tables' /\ Candidate' = working'
  BY <1>1 DEF Published, Candidate, opVars
<1>3. ASSUME NEW limits \in TxLimits, BeginTransaction(limits) PROVE Atomic!Next
  <2>1. ~ inTx /\ tables' = tables
    BY <1>3 DEF BeginTransaction, EngineFree
  <2>2. CASE outcome' = Err("begin") /\ UNCHANGED txVars
    BY <1>2, <2>1, <2>2, FailedCall DEF txVars, Atomic!Next
  <2>3. CASE /\ validated \/ ValidTables(tables)
             /\ inTx' = TRUE /\ working' = tables /\ outcome' = Ok("begin", 0)
    <3>1. ValidTables(tables)
      BY <1>2, <2>3 DEF AInv, Inv, ValidatedSound
    <3>2. Atomic!ValidTables(tables) /\ outcome' = Atomic!Ok("begin", 0)
      BY <2>3, <3>1, SharedOperators
    <3>. QED
      BY <1>2, <2>1, <2>3, <3>2 DEF Atomic!Next, Atomic!Begin
  <2>. QED
    BY <1>3, <2>2, <2>3 DEF BeginTransaction
<1>4. CASE Commit
  <2>1. inTx /\ inTx' = FALSE /\ working' = EmptyTables
    BY <1>4 DEF Commit, CloseTransaction
  <2>2. CASE ValidTables(working) /\ tables' = working /\ outcome' = Ok("commit", 0)
    <3>1. Atomic!ValidTables(working) /\ outcome' = Atomic!Ok("commit", 0) /\ EmptyTables = Atomic!EmptyTables
      BY <2>2, SharedOperators
    <3>. QED
      BY <1>2, <2>1, <2>2, <3>1 DEF Atomic!Next, Atomic!Commit
  <2>3. CASE tables' = tables /\ outcome' = Err("commit")
    <3>1. outcome' = Atomic!Err("commit") /\ EmptyTables = Atomic!EmptyTables
      BY <2>3, SharedOperators
    <3>. QED
      BY <1>2, <2>1, <2>3, <3>1 DEF Atomic!Next, Atomic!Fail
  <2>. QED
    BY <1>4, <2>2, <2>3 DEF Commit, engineVars
<1>5. CASE Rollback
  <2>1. inTx /\ inTx' = FALSE /\ working' = EmptyTables /\ tables' = tables /\ outcome' = Ok("rollback", 0)
    BY <1>5 DEF Rollback, CloseTransaction, engineVars
  <2>2. outcome' = Atomic!Ok("rollback", 0) /\ EmptyTables = Atomic!EmptyTables
    BY <2>1, SharedOperators
  <2>. QED
    BY <1>2, <2>1, <2>2 DEF Atomic!Next, Atomic!Rollback
<1>. QED
  BY <1>3, <1>4, <1>5 DEF Transact

\* Writes and transactions are atomic (docs/engines/memory.md): the engine that changes a
\* table row by row, in place, and restores it when a step fails implements the store
\* in which a write is a single step that applies as a whole or not at all, and reports how
\* many rows it touched; this holds for any models, rows, writes and limits.
THEOREM WritesAreAtomic == Spec => ImplementsAtomicStore
<1>1. Init => Atomic!Init
  <2>. SUFFICES ASSUME Init PROVE Atomic!Init
    OBVIOUS
  <2>1. /\ Published = EmptyTables /\ Candidate = EmptyTables /\ inTx = FALSE /\ outcome = Ok("new", 0)
    BY DEF Init, Published, Candidate
  <2>. QED
    BY <2>1, SharedOperators DEF Atomic!Init
<1>2. AInv /\ [Next]_vars => [Atomic!Next]_(Atomic!vars)
  <2>. SUFFICES ASSUME AInv, [Next]_vars PROVE Atomic!Next \/ UNCHANGED Atomic!vars
    OBVIOUS
  <2>1. CASE UNCHANGED vars
    BY <2>1 DEF vars, engineVars, txVars, opVars, Atomic!vars, Published, Candidate
  <2>2. CASE WriteStep
    <3>1. FinishWrite \/ UndoWrite \/ InsideWrite
      <4>1. TypeOK
        BY DEF AInv, Inv
      <4>2. CASE RejectInsert \/ EndUpdate \/ RejectDelete \/ ValidateLocally \/ TimeOut \/ RejectWrite
        <5>1. /\ pc # "idle" /\ pc' # "idle" /\ pc' \in Phases /\ OpUnchanged
              /\ UNCHANGED <<tables, working, cursor, affected>>
          BY <4>2 DEF RejectInsert, EndUpdate, RejectDelete, ValidateLocally, TimeOut, RejectWrite,
                      FailApply, Phases
        <5>. QED
          BY <4>1, <5>1, QuietStep
      <4>. QED
        BY <2>2, <4>1, <4>2, InsertStep, UpdateStep, FailedUpdateStep, DeleteStep DEF WriteStep
    <3>. QED
      BY <3>1, WriteRefines, HiddenRefines
  <2>. QED
    BY <2>1, <2>2, DefineRefines, HiddenRefines, TransactRefines DEF Next
<1>. QED
  BY <1>1, <1>2, AtomicInv, PTL DEF Spec, ImplementsAtomicStore, Atomic!Spec
=============================================================================
