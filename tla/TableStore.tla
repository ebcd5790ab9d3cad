----------------------------- MODULE TableStore -----------------------------
(***************************************************************************)
(* The data the memory engine keeps and the rules the data obeys.          *)
(*                                                                         *)
(* A store is a partial function from model keys to tables; a table is a   *)
(* model definition and a sequence of rows (store.rs).  A model definition *)
(* is kept up to what validation tells apart: the data each field admits,  *)
(* the identity and unique field tuples, the references to other models    *)
(* and the relations.  Two definitions with one key and different contents *)
(* have different fingerprints.  An expression is what it evaluates to on  *)
(* each row; a write filter evaluates to a truth value of DOL's            *)
(* three-valued logic, or fails.                                           *)
(***************************************************************************)
EXTENDS Naturals, Sequences, FiniteSets, FiniteSetsExt

CONSTANTS
  Keys,         \* the model keys
  Fields,       \* the field slots of every row
  Values,       \* the proper values a field may hold
  Null,         \* Datum::Null
  Missing,      \* Datum::Missing
  EvalError,    \* the result of an expression that cannot be evaluated
  Unlimited,    \* the absence of an affected-row limit
  Defs,         \* the model definitions the program uses
  DatumBytes    \* Datum::logical_bytes, as a function on data

Absent == {Null, Missing}

Datum == Values \cup Absent

Row == [Fields -> Datum]

(***************************************************************************)
(* How the fields of one model are matched with those of another, source   *)
(* field by source field.                                                  *)
(***************************************************************************)
FieldPairs == UNION {[S -> Fields] : S \in SUBSET Fields}

Reference == [target : Keys, on : FieldPairs]

Relation == [target : Keys, on : FieldPairs, toOne : BOOLEAN]

ModelDef ==
  [key        : Keys,
   admits     : [Fields -> SUBSET Datum],
   identity   : SUBSET Fields,
   uniques    : SUBSET SUBSET Fields,
   references : SUBSET Reference,
   relations  : SUBSET Relation]

ASSUME DatumAssumption ==
  /\ Values \cap Absent = {}
  /\ EvalError \notin Datum
  /\ DatumBytes \in [Datum -> Nat]

ASSUME UnlimitedAssumption == Unlimited \notin Nat

ASSUME FieldsAssumption == IsFiniteSet(Fields)

ASSUME DefsAssumption == Defs \subseteq ModelDef

Table == [model : Defs, rows : Seq(Row)]

\* A partial function from keys to tables.
IsTables(t) == DOMAIN t \subseteq Keys /\ t \in [DOMAIN t -> Table]

EmptyTables == [k \in {} |-> k]

(***************************************************************************)
(* BTreeMap::insert and BTreeMap::remove.                                  *)
(***************************************************************************)
Put(tables, key, table) ==
  [k \in DOMAIN tables \cup {key} |-> IF k = key THEN table ELSE tables[k]]

Remove(tables, key) == [k \in DOMAIN tables \ {key} |-> tables[k]]

-----------------------------------------------------------------------------
(***************************************************************************)
(* Local validity: the shape of each row, then identity and unique tuples. *)
(***************************************************************************)

\* validate_record_against: presence, nullability and type of every field.
RowAdmitted(def, row) == \A f \in Fields : row[f] \in def.admits[f]

\* tuple_values with skip_absent: the tuple takes part in the constraint.
TuplePresent(row, fields) == \A f \in fields : row[f] \notin Absent

\* validate_unique_tuple.
TuplesDistinct(rows, fields, skipAbsent) ==
  \A i, j \in DOMAIN rows :
    /\ i # j
    /\ skipAbsent => TuplePresent(rows[i], fields) /\ TuplePresent(rows[j], fields)
    => \E f \in fields : rows[i][f] # rows[j][f]

\* validate_dynamic_dataset.
LocalValid(def, rows) ==
  /\ \A i \in DOMAIN rows : RowAdmitted(def, rows[i])
  /\ def.identity # {} => TuplesDistinct(rows, def.identity, FALSE)
  /\ \A u \in def.uniques : TuplesDistinct(rows, u, TRUE)

-----------------------------------------------------------------------------
(***************************************************************************)
(* Cross-model validity.                                                   *)
(***************************************************************************)

\* is_unique: the fields are the identity or one of the unique tuples.
IsUnique(def, fields) == (def.identity # {} /\ def.identity = fields) \/ fields \in def.uniques

\* TypeDef::same_value_type: the admitted values agree, nullability aside.
SameValueTypes(source, target, on) ==
  \A f \in DOMAIN on : source.admits[f] \cap Values = target.admits[on[f]] \cap Values

\* ModelSet::validate_relations and ModelSet::validate_references.  The check of a set's named
\* types, that one name has one definition (validate_type_identities), is left out with the
\* types' names.
ModelSetValid(tables) ==
  \A k \in DOMAIN tables :
    LET source == tables[k].model
        TargetOf(link) == tables[link.target].model
        FieldsOf(link) == {link.on[f] : f \in DOMAIN link.on}
    IN  /\ \A link \in source.relations :
             /\ link.target \in DOMAIN tables
             /\ SameValueTypes(source, TargetOf(link), link.on)
             /\ link.toOne => IsUnique(TargetOf(link), FieldsOf(link))
        /\ \A link \in source.references :
             /\ link.target \in DOMAIN tables
             /\ SameValueTypes(source, TargetOf(link), link.on)
             /\ IsUnique(TargetOf(link), FieldsOf(link))

\* validate_references: a reference whose source tuple is present has a target row.
ReferencesHold(tables) ==
  \A k \in DOMAIN tables : \A ref \in tables[k].model.references :
    /\ ref.target \in DOMAIN tables
    /\ \A i \in DOMAIN tables[k].rows :
         TuplePresent(tables[k].rows[i], DOMAIN ref.on)
         => \E j \in DOMAIN tables[ref.target].rows : \A f \in DOMAIN ref.on :
              tables[k].rows[i][f] = tables[ref.target].rows[j][ref.on[f]]

ValidTables(tables) ==
  /\ ModelSetValid(tables)
  /\ \A k \in DOMAIN tables : LocalValid(tables[k].model, tables[k].rows)
  /\ ReferencesHold(tables)

-----------------------------------------------------------------------------
(***************************************************************************)
(* Snapshot limits of a transaction.                                       *)
(***************************************************************************)
RowPositions(tables) ==
  UNION {{<<k, i>> : i \in DOMAIN tables[k].rows} : k \in DOMAIN tables}

\* DynRow::logical_bytes.
RowBytes(row) == 32 + MapThenSumSet(LAMBDA f : DatumBytes[row[f]], Fields)

TransactionLimits == [rows : Nat, bytes : Nat, writes : Nat]

\* validate_snapshot_limits.
WithinSnapshotLimits(tables, limits) ==
  /\ Cardinality(RowPositions(tables)) <= limits.rows
  /\ MapThenSumSet(LAMBDA p : RowBytes(tables[p[1]].rows[p[2]]), RowPositions(tables))
       <= limits.bytes

-----------------------------------------------------------------------------
(***************************************************************************)
(* Logical writes.  A filter and an assigned expression are functions of   *)
(* the row they are evaluated on; an absent filter is TRUE on every row.   *)
(***************************************************************************)
Truth == {"True", "False", "Unknown"}

Filter == [Row -> Truth \cup {EvalError}]

Expression == [Row -> Datum \cup {EvalError}]

\* An update assigns at least one field, and each field at most once.
IsAssignments(a) ==
  DOMAIN a # {} /\ DOMAIN a \subseteq Fields /\ a \in [DOMAIN a -> Expression]

IsInsert(w) == w.kind = "insert" /\ w.rows \in Seq(Row)

IsUpdate(w) ==
  w.kind = "update" /\ w.condition \in Filter /\ IsAssignments(w.assignments)

IsDelete(w) == w.kind = "delete" /\ w.condition \in Filter

IsLogicalWrite(w) == w.model \in Defs /\ (IsInsert(w) \/ IsUpdate(w) \/ IsDelete(w))

\* Lowering validates an inserted batch on its own (ops/prepare.rs).
Lowered(write) == write.kind = "insert" => LocalValid(write.model, write.rows)

WriteLimits == [affected : Nat \cup {Unlimited}, concurrency : Nat, timeout : BOOLEAN]

\* enforce_affected_limit.  A write of kind "insert" stands for Insert and InsertMany.
WithinAffected(limits, n) == limits.affected # Unlimited => n <= limits.affected

\* Only True selects a row; False and Unknown both leave it alone.
Selected(write, row) == write.condition[row] = "True"

\* What the assignments evaluate to on one row, and the row they produce.
Evaluated(write, row) == [f \in DOMAIN write.assignments |-> write.assignments[f][row]]

AssignRow(row, values) == [f \in Fields |-> IF f \in DOMAIN values THEN values[f] ELSE row[f]]
=============================================================================
