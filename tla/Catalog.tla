------------------------------- MODULE Catalog -------------------------------
(***************************************************************************)
(* Catalogs, their differences and the operations that turn one into       *)
(* another (crates/dol-migrate: catalog, diff, plan).                      *)
(*                                                                         *)
(* A catalog is a partial function from stable entity keys to entities; an *)
(* entity has a mutable physical name, fields by key and indexes by key.   *)
(* Keys are numbers so that they have the order of the BTreeMaps the code  *)
(* iterates; names and types are compared for equality only.  The          *)
(* `nullable` flag is folded into the type.  One catalog scope is          *)
(* modelled.                                                               *)
(***************************************************************************)
EXTENDS Naturals, Sequences, FiniteSets, SequencesExt

CONSTANTS
  EntityKeys, FieldKeys, IndexKeys,   \* stable keys
  Names,                              \* physical names
  Types                               \* physical field types

ASSUME KeysAssumption ==
  EntityKeys \subseteq Nat /\ FieldKeys \subseteq Nat /\ IndexKeys \subseteq Nat

PartialFunctions(D, R) == UNION {[S -> R] : S \in SUBSET D}

Field == [name : Names, type : Types, required : BOOLEAN]

\* The fields of an index are a sequence without repetition.
Index == [name : Names, fields : Seq(FieldKeys), unique : BOOLEAN]

\* A finite map (BTreeMap).
IsMap(f, Keys, Value(_)) ==
  /\ IsFiniteSet(DOMAIN f) /\ DOMAIN f \subseteq Keys
  /\ f = [k \in DOMAIN f |-> f[k]]
  /\ \A k \in DOMAIN f : Value(f[k])

IsEntity(e) ==
  /\ e = [name |-> e.name, fields |-> e.fields, indexes |-> e.indexes]
  /\ e.name \in Names
  /\ IsMap(e.fields, FieldKeys, LAMBDA field : field \in Field)
  /\ IsMap(e.indexes, IndexKeys, LAMBDA index : index \in Index)

IsCatalog(catalog) == IsMap(catalog, EntityKeys, IsEntity)

-----------------------------------------------------------------------------
(***************************************************************************)
(* Validation: CatalogEntity::try_new and CatalogSnapshot::try_new.        *)
(***************************************************************************)

\* validate_unique: keys are unique by construction, names must be too.
UniqueNames(f) == \A i, j \in DOMAIN f : f[i].name = f[j].name => i = j

ValidIndex(index, fields) ==
  /\ index.fields # <<>>
  /\ \A i \in DOMAIN index.fields : index.fields[i] \in DOMAIN fields
  /\ \A i, j \in DOMAIN index.fields : index.fields[i] = index.fields[j] => i = j

ValidEntity(entity) ==
  /\ UniqueNames(entity.fields)
  /\ UniqueNames(entity.indexes)
  /\ \A k \in DOMAIN entity.indexes : ValidIndex(entity.indexes[k], entity.fields)

ValidCatalog(catalog) ==
  /\ UniqueNames(catalog)
  /\ \A e \in DOMAIN catalog : ValidEntity(catalog[e])

-----------------------------------------------------------------------------
(***************************************************************************)
(* Operations.  An operation names its entity, the key of the field or     *)
(* index it is about (the entity's own key otherwise) and carries what it  *)
(* needs: a new definition, or a new name.                                 *)
(***************************************************************************)
Operation(kind, entity, key, value) ==
  [op |-> kind, entity |-> entity, key |-> key, value |-> value]

Kept(f, g) == DOMAIN f \cap DOMAIN g

\* A pair <<entity, key>> for the fields (or indexes) that satisfy P in kept entities.
InKept(s, t, KeysOf(_, _)) ==
  UNION {{<<e, k>> : k \in KeysOf(s[e], t[e])} : e \in Kept(s, t)}

\* The operations on those fields (or indexes).
FieldOps(s, t, kind, KeysOf(_, _), Value(_, _)) ==
  UNION {{Operation(kind, e, k, Value(e, k)) : k \in KeysOf(s[e], t[e])} : e \in Kept(s, t)}

DefinitionChanged(old, new) == old.fields # new.fields \/ old.unique # new.unique

\* diff_entity: fields that go, come, change their name or change their definition.
DroppedFields(a, b) == DOMAIN a.fields \ DOMAIN b.fields
AddedFields(a, b) == DOMAIN b.fields \ DOMAIN a.fields
RenamedFields(a, b) == {k \in Kept(a.fields, b.fields) : a.fields[k].name # b.fields[k].name}
AlteredFields(a, b) ==
  {k \in Kept(a.fields, b.fields) :
     \/ a.fields[k].type # b.fields[k].type
     \/ a.fields[k].required # b.fields[k].required}

\* diff_indexes: a changed definition is a drop and a create.
ReplacedIndexes(a, b) ==
  {k \in Kept(a.indexes, b.indexes) : DefinitionChanged(a.indexes[k], b.indexes[k])}
DroppedIndexes(a, b) == (DOMAIN a.indexes \ DOMAIN b.indexes) \cup ReplacedIndexes(a, b)
CreatedIndexes(a, b) == (DOMAIN b.indexes \ DOMAIN a.indexes) \cup ReplacedIndexes(a, b)
RenamedIndexes(a, b) ==
  {k \in Kept(a.indexes, b.indexes) : a.indexes[k].name # b.indexes[k].name}

\* The name changes that need a declared intent, replaced indexes included.
RequiredRenames(s, t) ==
       {<<"entity", e, e, s[e].name, t[e].name>> :
          e \in {e \in Kept(s, t) : s[e].name # t[e].name}}
  \cup {<<"field", p[1], p[2], s[p[1]].fields[p[2]].name, t[p[1]].fields[p[2]].name>> :
          p \in InKept(s, t, RenamedFields)}
  \cup {<<"index", p[1], p[2], s[p[1]].indexes[p[2]].name, t[p[1]].indexes[p[2]].name>> :
          p \in InKept(s, t, RenamedIndexes)}

\* The buckets of diff_catalog, in the order in which they are appended.
Buckets(s, t) ==
  LET OldIndex(e, k) == s[e].indexes[k]
      NewIndex(e, k) == t[e].indexes[k]
      OldField(e, k) == s[e].fields[k]
      NewField(e, k) == t[e].fields[k]
      KeptIndexRenames(a, b) == RenamedIndexes(a, b) \ ReplacedIndexes(a, b)
  IN << FieldOps(s, t, "dropIndex", DroppedIndexes, OldIndex),
        FieldOps(s, t, "dropField", DroppedFields, OldField),
        {Operation("dropEntity", e, e, s[e]) : e \in DOMAIN s \ DOMAIN t},
        {Operation("renameEntity", e, e, t[e].name) :
           e \in {e \in Kept(s, t) : s[e].name # t[e].name}},
        {Operation("createEntity", e, e, t[e]) : e \in DOMAIN t \ DOMAIN s},
        FieldOps(s, t, "renameField", RenamedFields, LAMBDA e, k : NewField(e, k).name),
        FieldOps(s, t, "addField", AddedFields, NewField),
        FieldOps(s, t, "alterField", AlteredFields, NewField),
        FieldOps(s, t, "renameIndex", KeptIndexRenames, LAMBDA e, k : NewIndex(e, k).name),
        FieldOps(s, t, "createIndex", CreatedIndexes, NewIndex) >>

\* Within a bucket operations come in key order.
InKeyOrder(o, p) == o.entity < p.entity \/ (o.entity = p.entity /\ o.key < p.key)

Sorted(bucket) ==
  [i \in 1 .. Cardinality(bucket) |->
     CHOOSE o \in bucket : Cardinality({p \in bucket : InKeyOrder(p, o)}) = i - 1]

\* Mutation: entities are created before the others give up their names.
DiffCatalog_CreatesFirst(s, t) ==
  LET b == Buckets(s, t)
      reordered == <<b[1], b[2], b[5], b[3], b[4], b[6], b[7], b[8], b[9], b[10]>>
  IN  FlattenSeq([i \in DOMAIN b |-> Sorted(reordered[i])])

\* diff_catalog, when it succeeds.
DiffCatalog(s, t) ==
  LET buckets == Buckets(s, t)
  IN  FlattenSeq([i \in DOMAIN buckets |-> Sorted(buckets[i])])

\* It succeeds when the declared renames are exactly the required ones and the
\* operations fit the limit.
DiffSucceeds(s, t, declared, maxOperations) ==
  /\ declared = RequiredRenames(s, t)
  /\ Len(DiffCatalog(s, t)) <= maxOperations

-----------------------------------------------------------------------------
(***************************************************************************)
(* What a backend does with one step: the reference backend of the         *)
(* applier's tests, which rebuilds the snapshot through its validation.    *)
(***************************************************************************)
With(f, k, v) == [x \in DOMAIN f \cup {k} |-> IF x = k THEN v ELSE f[x]]

Without(f, k) == [x \in DOMAIN f \ {k} |-> f[x]]

ApplyToEntity(entity, o) ==
  CASE o.op = "renameEntity" -> [entity EXCEPT !.name = o.value]
    [] o.op \in {"addField", "alterField"} ->
         [entity EXCEPT !.fields = With(entity.fields, o.key, o.value)]
    [] o.op = "dropField" -> [entity EXCEPT !.fields = Without(entity.fields, o.key)]
    [] o.op = "renameField" ->
         [entity EXCEPT !.fields = [entity.fields EXCEPT ![o.key].name = o.value]]
    [] o.op = "createIndex" ->
         [entity EXCEPT !.indexes = With(entity.indexes, o.key, o.value)]
    [] o.op = "dropIndex" -> [entity EXCEPT !.indexes = Without(entity.indexes, o.key)]
    [] o.op = "renameIndex" ->
         [entity EXCEPT !.indexes = [entity.indexes EXCEPT ![o.key].name = o.value]]

ApplyOperation(catalog, o) ==
  CASE o.op = "createEntity" -> With(catalog, o.entity, o.value)
    [] o.op = "dropEntity" -> Without(catalog, o.entity)
    [] OTHER -> With(catalog, o.entity, ApplyToEntity(catalog[o.entity], o))

\* A duplicate key, an unknown entity or an invalid result fails the step.
OperationAccepted(catalog, o) ==
  /\ o.op = "createEntity" => o.entity \notin DOMAIN catalog
  /\ o.op \notin {"createEntity", "dropEntity"} => o.entity \in DOMAIN catalog
  /\ o.op = "addField" => o.key \notin DOMAIN catalog[o.entity].fields
  /\ o.op = "createIndex" => o.key \notin DOMAIN catalog[o.entity].indexes
  /\ ValidCatalog(ApplyOperation(catalog, o))

-----------------------------------------------------------------------------
(***************************************************************************)
(* The generic minimum risk of an operation, MigrationRisk::for_operation. *)
(***************************************************************************)
Risk(o) ==
  CASE o.op = "createEntity" ->
         [data |-> "safe", operation |-> "locking", automation |-> "automatic"]
    [] o.op \in {"dropEntity", "dropField"} ->
         [data |-> "destructive", operation |-> "locking", automation |-> "approval"]
    [] o.op \in {"renameEntity", "renameField", "renameIndex"} ->
         [data |-> "safe", operation |-> "metadata", automation |-> "approval"]
    [] o.op = "addField" /\ ~ o.value.required ->
         [data |-> "safe", operation |-> "metadata", automation |-> "automatic"]
    [] o.op = "alterField" \/ (o.op = "addField" /\ o.value.required) ->
         [data |-> "rewrite", operation |-> "rewrite", automation |-> "approval"]
    [] o.op = "createIndex" ->
         [data |-> "safe", operation |-> "rebuild", automation |-> "approval"]
    [] o.op = "dropIndex" ->
         [data |-> "safe", operation |-> "locking", automation |-> "approval"]
=============================================================================
