----------------------------- MODULE AtomicStore -----------------------------
(***************************************************************************)
(* What the memory engine promises of its writes and transactions: a write *)
(* is one step that either applies as a whole, leaves a valid store and    *)
(* reports how many rows it touched, or fails and changes nothing; a       *)
(* transaction collects whole writes in a private candidate that becomes   *)
(* the store in one step, if it is valid, or is dropped.                   *)
(***************************************************************************)
EXTENDS TableStore

CONSTANT Writes   \* the logical writes issued

VARIABLES
  store,       \* the published tables
  open,        \* whether a transaction is open
  candidate,   \* the transaction's private tables
  outcome      \* what the last call on the engine or its transaction returned

vars == <<store, open, candidate, outcome>>

Ok(call, n) == [call |-> call, ok |-> TRUE, affected |-> n]

Err(call) == [call |-> call, ok |-> FALSE, affected |-> 0]

(***************************************************************************)
(* The effect of a whole write on a store, read off the documentation of   *)
(* logical writes: rows are appended in authored order, assignments are    *)
(* simultaneous, deletion keeps the order of the rows that stay.           *)
(***************************************************************************)
RowsOf(tables, def) == IF def.key \in DOMAIN tables THEN tables[def.key].rows ELSE <<>>

SelectedAt(write, rows) == {i \in DOMAIN rows : Selected(write, rows[i])}

\* The i-th of a set of positions.
Position(S, i) == CHOOSE k \in S : Cardinality({j \in S : j < k}) = i - 1

RowsAt(rows, S) == [i \in 1 .. Cardinality(S) |-> rows[Position(S, i)]]

UpdatedRow(write, row) ==
  IF Selected(write, row) THEN AssignRow(row, Evaluated(write, row)) ELSE row

RowsAfter(tables, write) ==
  LET rows == RowsOf(tables, write.model)
  IN  CASE write.kind = "insert" -> rows \o write.rows
        [] write.kind = "update" -> [i \in DOMAIN rows |-> UpdatedRow(write, rows[i])]
        [] write.kind = "delete" -> RowsAt(rows, DOMAIN rows \ SelectedAt(write, rows))

Effect(tables, write) ==
  Put(tables, write.model.key,
      [model |-> write.model, rows |-> RowsAfter(tables, write)])

Affected(tables, write) ==
  IF write.kind = "insert" THEN Len(write.rows)
  ELSE Cardinality(SelectedAt(write, RowsOf(tables, write.model)))

\* The write addresses the model as it is registered; only an insert may register it.
Addresses(tables, write) ==
  IF write.model.key \in DOMAIN tables
  THEN tables[write.model.key].model = write.model
  ELSE write.kind = "insert"

-----------------------------------------------------------------------------
Init ==
  /\ store = EmptyTables
  /\ open = FALSE
  /\ candidate = EmptyTables
  /\ outcome = Ok("new", 0)

\* Registration and loading add one locally valid table; clearing removes them all.
Define ==
  /\ ~ open
  /\ \/ \E k \in Keys \ DOMAIN store :
          /\ k \in DOMAIN store'
          /\ store' = Put(store, k, store'[k])
          /\ LocalValid(store'[k].model, store'[k].rows)
     \/ store' = EmptyTables
     \/ UNCHANGED store
  /\ outcome' = Ok("define", 0)
  /\ UNCHANGED <<open, candidate>>

Write(w) ==
  /\ ~ open
  /\ ValidTables(store)
  /\ Addresses(store, w)
  /\ store' = Effect(store, w)
  /\ ValidTables(store')
  /\ outcome' = Ok("write", Affected(store, w))
  /\ UNCHANGED <<open, candidate>>

\* References may be broken until the transaction commits.
CandidateWrite(w) ==
  /\ open
  /\ Addresses(candidate, w)
  /\ candidate' = Effect(candidate, w)
  /\ LocalValid(w.model, candidate'[w.model.key].rows)
  /\ outcome' = Ok("write", Affected(candidate, w))
  /\ UNCHANGED <<store, open>>

Begin ==
  /\ ~ open
  /\ ValidTables(store)
  /\ open' = TRUE
  /\ candidate' = store
  /\ outcome' = Ok("begin", 0)
  /\ UNCHANGED store

Commit ==
  /\ open
  /\ ValidTables(candidate)
  /\ store' = candidate
  /\ open' = FALSE
  /\ candidate' = EmptyTables
  /\ outcome' = Ok("commit", 0)

Rollback ==
  /\ open
  /\ open' = FALSE
  /\ candidate' = EmptyTables
  /\ outcome' = Ok("rollback", 0)
  /\ UNCHANGED store

\* A failed commit consumes the transaction; no failure changes the store.
Fail ==
  \/ /\ outcome' \in {Err("define"), Err("write"), Err("begin")}
     /\ UNCHANGED <<store, open, candidate>>
  \/ /\ open
     /\ outcome' = Err("commit")
     /\ open' = FALSE
     /\ candidate' = EmptyTables
     /\ UNCHANGED store

Next ==
  \/ Define
  \/ \E w \in Writes : Write(w) \/ CandidateWrite(w)
  \/ Begin
  \/ Commit
  \/ Rollback
  \/ Fail

Spec == Init /\ [][Next]_vars
=============================================================================
