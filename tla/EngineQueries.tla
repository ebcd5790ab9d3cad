--------------------------- MODULE EngineQueries ---------------------------
(***************************************************************************)
(* A read query of the PostgreSQL or the MongoDB engine: a pipeline is     *)
(* lowered, placed and compiled, the storage is checked against what the   *)
(* compiled query takes for granted, and then it is read.  Other clients   *)
(* write to the storage at any time, also between the check and the read.  *)
(* The memory engine is what the answer is compared with.                  *)
(*                                                                         *)
(* The server scans a table in an order of its own, here that of `tables`. *)
(***************************************************************************)
EXTENDS MongodbCompiler

CONSTANTS
  Engines,          \* "postgres", "mongodb"
  Requests,         \* a pipeline and the parameter bound for it
  Databases,        \* the rows of every model, as data
  Policies,         \* placement policies
  EngineLimits,     \* of a plan
  Target,           \* the model that is registered, and whose storage others write to
  Definitions,      \* those the target has, or once had
  Mappings,         \* by engine, the mappings that are registered
  Layout,           \* by engine and model, the mapping that the storage really has
  Known,            \* the models registered before
  Corruptions       \* what another client may do to the storage

VARIABLES
  engine,
  catalog,     \* model |-> its definition and its mapping
  tables,      \* what is stored, as data
  storage,     \* what is stored, by model: a schema and rows, or documents
  phase,       \* "idle", "refused", "compiled", "open", "read", or "failed"
  request,     \* the plan and the parameter, or None
  failure,     \* the step that failed, or None
  answer,      \* what reading gave, or None
  disturbed    \* whether, and in which phase, another client wrote

vars == <<engine, catalog, tables, storage, phase, request, failure, answer, disturbed>>

-----------------------------------------------------------------------------
(***************************************************************************)
(* The storage, as another program fills it (external).  The value column  *)
(* of a missing datum holds anything its type permits.                     *)
(***************************************************************************)
Filler == 1

SqlRow(model, mapping, data) ==
  LET fields == Models[model].fields
      Value(f) == [type |-> PostgresType(fields[f]), v |-> IF data[f] = Missing THEN Filler ELSE SqlEncode(fields[f], data[f]).v]
      valued == {mapping[f].value : f \in DOMAIN fields}
      Field(column) == CHOOSE f \in DOMAIN fields : column \in {mapping[f].value, mapping[f].presence}
  IN  [column \in valued \cup {mapping[f].presence : f \in Models[model].optional} |->
         IF column \in valued THEN Value(Field(column)) ELSE SqlBoolean(data[Field(column)] # Missing)]

TableSchema(model, mapping) ==
  LET fields == Models[model].fields
      valued == {mapping[f].value : f \in DOMAIN fields}
      Type(column) == fields[CHOOSE f \in DOMAIN fields : mapping[f].value = column]
  IN  [column \in valued \cup {mapping[f].presence : f \in Models[model].optional} |->
         IF column \in valued THEN [type |-> PostgresType(Type(column)), notNull |-> ~ Type(column).nullable]
         ELSE [type |-> "boolean", notNull |-> TRUE]]

BsonDocument(model, mapping, data) ==
  LET fields == Models[model].fields
      Field(name) == CHOOSE f \in DOMAIN fields : mapping[f] = name
  IN  [name \in {mapping[f] : f \in {g \in DOMAIN fields : data[g] # Missing}} |->
         BsonEncode(fields[Field(name)], data[Field(name)])]

Stored(e, model, rows) ==
  IF e = "postgres"
  THEN [schema |-> TableSchema(model, Layout[e][model]),
        rows |-> [i \in DOMAIN rows |-> SqlRow(model, Layout[e][model], rows[i])]]
  ELSE [schema |-> <<>>, rows |-> [i \in DOMAIN rows |-> BsonDocument(model, Layout[e][model], rows[i])]]

-----------------------------------------------------------------------------
Init ==
  /\ engine \in Engines
  /\ catalog = [model \in Known |-> [fingerprint |-> Models[model], mapping |-> Layout[engine][model]]]
  /\ tables \in Databases
  /\ storage = [model \in Known \cup {Target} |-> Stored(engine, model, tables[model])]
  /\ phase = "idle"
  /\ request = None /\ failure = None /\ answer = None /\ disturbed = None

\* PostgresCatalog::register, MongodbCatalog::register.
Register(definition, mapping) ==
  /\ phase = "idle"
  /\ catalog' = Registered(catalog, Target, definition, mapping,
                  IF engine = "postgres" THEN ValidTableMapping(definition, mapping)
                  ELSE ValidCollectionMapping(definition, mapping))
  /\ UNCHANGED <<engine, tables, storage, phase, request, failure, answer, disturbed>>

Fail(step) == phase' = "failed" /\ failure' = step

Supported(nodes) ==
  {i \in DOMAIN nodes : /\ CapabilitySupport(nodes[i], ReadCapabilities)
                        /\ IF engine = "postgres" THEN PostgresSupports(nodes[i], catalog)
                           ELSE MongodbSupports(nodes[i], catalog)}

Compiled(plan, bound) ==
  IF engine = "postgres" THEN SqlCompile(plan, catalog, bound) ELSE BsonCompile(plan, catalog, bound)

\* execute_plan up to the opening of a stream.
ExecutePlan(plan, bound, placement) ==
  /\ request' = [plan |-> plan, bound |-> bound]
  /\ CASE ~ WithinPlanLimits(plan.nodes, EngineLimits) -> Fail("limits")
       [] WithinPlanLimits(plan.nodes, EngineLimits) /\ ~ FullyEngine(placement) -> Fail("placement")
       [] OTHER -> IF Compiled(plan, bound).ok THEN phase' = "compiled" /\ UNCHANGED failure
                   ELSE Fail("compile")

PreparedQuery(compiled, bound, policy) ==
  IF ~ compiled.ok THEN phase' = "refused" /\ UNCHANGED <<request, failure>>
  ELSE ExecutePlan(Plan(compiled), bound, Placement(compiled.nodes, Supported(compiled.nodes), policy))

\* execute: a pipeline is lowered and its plan executed.
Execute(wanted, policy) ==
  /\ phase = "idle"
  /\ PreparedQuery(CompilePipeline(wanted.tree, <<>>, <<>>), wanted.bound, policy)
  /\ UNCHANGED <<engine, catalog, tables, storage, answer, disturbed>>

\* validate_live_contract, and the preflight of MongodbStream::open.
Holds(plan, bound) ==
  IF engine = "postgres" THEN LiveContract(plan, catalog, [m \in DOMAIN storage |-> storage[m].schema])
  ELSE Preflight(Compiled(plan, bound), storage[Compiled(plan, bound).model].rows)

Check ==
  /\ phase = "compiled"
  /\ IF Holds(request.plan, request.bound) THEN phase' = "open" /\ UNCHANGED failure ELSE Fail("contract")
  /\ UNCHANGED <<engine, catalog, tables, storage, request, answer, disturbed>>

\* A statement over a column that is no more does not get prepared.
Readable(relation) ==
  engine = "postgres" =>
    \A f \in DOMAIN Models[relation.model].fields :
      LET column == catalog[relation.model].mapping[f]
      IN  {column.value, column.presence} \ {None} \subseteq DOMAIN storage[relation.model].schema

Rows(relation) ==
  CASE ~ Readable(relation) -> Failed(ServerError)
    [] Readable(relation) /\ engine = "postgres" -> PostgresRows(relation, storage[relation.model].rows)
    [] Readable(relation) /\ engine = "mongodb" -> MongodbRows(relation, storage[relation.model].rows)

\* The stream is read to its end.
Read ==
  /\ phase = "open"
  /\ phase' = "read"
  /\ answer' = Rows(Compiled(request.plan, request.bound))
  /\ UNCHANGED <<engine, catalog, tables, storage, request, failure, disturbed>>

\* Another client corrupts the storage of the query.
Corrupt(corruption) ==
  /\ phase \in {"compiled", "open"} /\ disturbed = None
  /\ corruption.engine = engine
  /\ storage[Target].rows # <<>>
  /\ disturbed' = phase
  /\ storage' = [storage EXCEPT
       ![Target].schema = [c \in (DOMAIN @) \ corruption.dropped |->
                          IF c \in corruption.nullable THEN [@[c] EXCEPT !.notNull = FALSE] ELSE @[c]],
       ![Target].rows[1] = [c \in ((DOMAIN @) \cup (DOMAIN corruption.set)) \ corruption.dropped |->
                           IF c \in DOMAIN corruption.set THEN corruption.set[c] ELSE @[c]]]
  /\ UNCHANGED <<engine, catalog, tables, phase, request, failure, answer>>

Next ==
  \/ \E definition \in Definitions, mapping \in Mappings[engine] : Register(definition, mapping)
  \/ \E wanted \in Requests, policy \in Policies : Execute(wanted, policy)
  \/ Check
  \/ Read
  \/ \E corruption \in Corruptions : Corrupt(corruption)

Spec == Init /\ [][Next]_vars

-----------------------------------------------------------------------------
(***************************************************************************)
(* Properties.                                                             *)
(***************************************************************************)
RowConforms(output, row) ==
  /\ row.shape = output.shape
  /\ IF output.shape = "model"
     THEN /\ row.model = output.model
          /\ \A f \in DOMAIN Models[row.model].fields :
               IF row.data[f] = Missing THEN f \in Models[row.model].optional
               ELSE row.data[f] \notin Failures /\ Conforms(Models[row.model].fields[f], row.data[f])
     ELSE row.datum # Missing /\ row.datum \notin Failures /\ Conforms(output.ty, row.datum)

(***************************************************************************)
(* The phases are those of execute_plan, and every row that a stream       *)
(* delivers conforms to the output of the plan, whatever the storage holds *)
(* by then (codec.rs of either engine).                                    *)
(***************************************************************************)
TypeOK ==
  /\ engine \in Engines /\ tables \in Databases
  /\ phase \in {"idle", "refused", "compiled", "open", "read", "failed"}
  /\ failure \in (IF phase = "failed" THEN {"limits", "placement", "compile", "contract"} ELSE {None})
  /\ disturbed \in {None, "compiled", "open"}
  /\ (request = None) = (phase \in {"idle", "refused"})
  /\ (answer # None) = (phase = "read")
  /\ phase = "read" => \A i \in DOMAIN answer.rows : RowConforms(request.plan.output, answer.rows[i])

\* What the memory engine answers.
Expected ==
  ExecuteSubplan([plan |-> request.plan, tables |-> tables, bound |-> request.bound, depth |-> 0,
                  limits |-> [maxRows |-> None, maxBytes |-> None]], request.plan.root, <<>>)

HasNode(kind) == \E i \in DOMAIN request.plan.nodes : request.plan.nodes[i].kind = kind

\* A stage above a projection may drop the rows on which the projection fails.
DropsProjected == HasNode("project") /\ (HasNode("slice") \/ HasNode("filter"))

LimitsToNothing ==
  \E i \in DOMAIN request.plan.nodes : request.plan.nodes[i].kind = "slice" /\ request.plan.nodes[i].limit = 0

SameAnswer(got, expected) ==
  IF expected.ok
  THEN \/ got.ok /\ got.rows = [i \in DOMAIN expected.rows |-> expected.rows[i].output]
       \/ engine = "mongodb" /\ LimitsToNothing
  ELSE ~ got.ok \/ DropsProjected

(***************************************************************************)
(* A query that an engine executes has the answer that the memory engine   *)
(* has for it: Missing, Null and the three truth values survive the        *)
(* lowering to SQL and to an aggregation, and the way back.  Where the     *)
(* memory engine fails the engine fails too, unless a stage above a        *)
(* projection drops the row.  MongoDB refuses a limit of zero.             *)
(***************************************************************************)
LoweringIsExact == phase = "read" /\ disturbed = None => SameAnswer(answer, Expected)

RECURSIVE OrdersBytes(_)
OrdersBytes(node) ==
  \/ node.kind = "binary" /\ node.op \in OrderOps /\ node.left.ty.base = "bytes"
  \/ \E i \in DOMAIN Children(node) : OrdersBytes(Children(node)[i])

Misbound(node) ==
  \E ty \in ParameterTypes(node) : request.bound.ty # ty \/ ~ Conforms(ty, request.bound.datum)

(***************************************************************************)
(* A plan that supports_node places on the engine as a whole does compile: *)
(* expression_support, which decides without parameters, accepts nothing   *)
(* that compile_expr refuses but parameters that are unbound or bound to   *)
(* something else, and an order over binary data in MongoDB.               *)
(***************************************************************************)
PlacedPlansCompile ==
  failure = "compile" =>
    \E i \in DOMAIN request.plan.nodes : \E e \in Range(NodeExpressions(request.plan.nodes[i])) :
      Misbound(e.node) \/ (engine = "mongodb" /\ OrdersBytes(e.node))

\* A document as a row of its model, read by itself.
DocumentRow(model, document) ==
  LET source == BsonSource(model, catalog)
  IN  BsonRowOf(source, FoldLeft(BsonRows, Documents(<<document>>), source.stages)[1])

\* Fractional decimals, and binary data of another subtype, escape the preflight.
Escapes(document) == \E name \in DOMAIN document :
  document[name].type \in {"decimal", "binData"} /\ document[name].v % 2 # 0

DocumentsDecode(model) ==
  \A i \in DOMAIN storage[model].rows :
    DocumentRow(model, storage[model].rows[i]) # InvalidDatum \/ Escapes(storage[model].rows[i])

NullsArePermitted(model) ==
  \A i \in DOMAIN storage[model].rows, f \in DOMAIN Models[model].fields :
    storage[model].rows[i][Layout.postgres[model][f].value].v = SqlNull => Models[model].fields[f].nullable

Queried == Compiled(request.plan, request.bound).model

(***************************************************************************)
(* The check before the read is exact.  As long as nobody writes after it, *)
(* every document of the collection is a valid row, those apart that       *)
(* `Escapes` names, also the documents that the query does not return; and *)
(* no column of a type without null holds one, also where the field may be *)
(* missing.  A query whose check fails had a storage that was not as       *)
(* mapped.                                                                 *)
(***************************************************************************)
ContractIsExact ==
  /\ phase \in {"open", "read"} /\ disturbed # "open" =>
       IF engine = "mongodb" THEN DocumentsDecode(Queried) ELSE NullsArePermitted(Queried)
  /\ failure = "contract" =>
       IF engine = "mongodb"
       THEN \E i \in DOMAIN storage[Queried].rows : DocumentRow(Queried, storage[Queried].rows[i]) = InvalidDatum
       ELSE storage[Queried].schema # TableSchema(Queried, Layout.postgres[Queried])
=============================================================================
