# TLA+ models of DOL

DOL is a data-oriented language embedded in Rust: models, typed expressions,
pipelines and writes are lowered to engine-neutral logical plans, which engines
(memory, JSONL, PostgreSQL, MongoDB) execute under explicit limits. This project
models the parts of it that keep state and can go wrong in ways a unit test hardly
reaches, checks them with TLC on small instances, and proves with TLAPS for every
instance that the memory engine's writes are atomic, that migrations become visible whole
(or their callers are told that the state is uncertain), that the
database streams deliver the result and that JSONL streams read the pinned file.

`PROJECT.json` is the index: components, runs, what each definition models
(`map`), the mutations that show that each property can fail, hazards, findings
and theorems.

## Inventory

| Component | State | Operations | Hard behaviour | What makes it correct |
|---|---|---|---|---|
| Memory engine (`engines/memory`: `lib.rs`, `store.rs`, `write.rs`, `transaction.rs`) | tables by model key, the cached `validated` flag, a transaction's private copy | clear, register, load, validate, execute a plan, execute a write, begin, write in, commit and roll back a transaction | in-place writes that fail half way and are undone; a cached flag that several readers check and set without a lock; limits that refuse a write inside a transaction | writes and transactions are atomic; the flag never lies; readers see valid tables; a transaction stays within its limits |
| Validation (`dol-core`: `data/validate.rs`, `model/set.rs`) | none | row shape, identity and unique tuples, references, relations | absent values take part in some constraints and not in others | predicates used by every engine operation |
| Logical writes (`dol-core/src/ops`) | none | lowering and validation of insert, update, delete | three-valued filters; simultaneous assignment | only `True` selects; assignments see the old row |
| Migration: catalog, diff, plan (`dol-migrate`) | immutable snapshots | inspect, diff, classify | order of operations under unique names; renames need a declared intent | the diff is exact and its steps reach the target through valid catalogs |
| Migration: policy, apply (`dol-migrate`) | the visible catalog, a working snapshot, the lock | authorize, approve, begin, apply a step, verify, commit, abort | races of migrators, drift between planning and applying, failures of every backend call | only whole, fresh, consented migrations become visible, unless the caller is told that the state is uncertain; reports are true; the lock comes back |
| PostgreSQL stream (`engines/postgres/src/runtime.rs`) | client flags, three channels of capacity one, the worker's page, kept row and batch | open, pull, cancel, drop; fetch, decode, send | two threads; a cancellation that may be lost; timeouts, panics; limits in rows and bytes | the stream contract; bounded memory; every pull returns; the connection is released |
| JSONL engine (`engines/jsonl`) | pinned files, reader, counters of operators, pending rows | bind, open, pull, cancel | files replaced between system calls; appended lines; errors that are not terminal | a stream reads the file that was bound; the stream contract |
| MongoDB engine (`engines/mongodb`) | registered collections, cursor, kept row | register, place, compile, check the collection, open, pull, cancel | errors that are not terminal; a check and a read that are two calls; BSON's own order and nulls | answers of the memory engine; the check is exact; the stream contract |
| PostgreSQL compiler, codec, inspection (`engines/postgres`) | registered tables | register, place, compile, check the table, decode | SQL's null logic beside three-valued truth; support decided without parameters | answers of the memory engine; what is placed compiles |
| Engine contract (`dol-engine`) | none of its own | placement, eager collection, limits | a node placed on the engine below a local one; limits over several batches | placements are closed under dependency; collection is whole or cancelled |
| Wire format (`dol-wire`) | the offset and budgets of a decoder | encode, decode and lower types, data, models and model sets | counts and lengths declared by the sender; limits in three layers; canonical order | frames decode; one frame for one value; limits only refuse |
| Memory executor (`engines/memory/src/executor*`) | the rows of the executed nodes, the rows a stream still has | filter, project, join, group, window, unnest, sort, distinct, slice, set operations; pull, cancel | absent values, ties, empty groups, correlated subqueries, limits met while a stage is built | each stage computes its relational definition; accepted plans evaluate; the stream contract |
| Expressions (`dol-core/src/expr`) | the authored tree, the prepared nodes | author, check limits, validate, normalize, bind, evaluate | constants folded early, integers checked in two widths, nulls of an outer join at types without null | rewriting keeps values; the nulls stay outside; three-valued logic |
| Pipelines, plans, optimizer (`dol-core`) | the authored tree, the plan | author, lower, rewrite | scopes that joins lift and set operations close, uniqueness derived stage by stage, correlated subqueries | what compiling derives holds for the rows; rewriting keeps results |
| `dol-ml`, `dol-macros`, `dol-conformance`, tools | none | inference gates, code generation, tests | – | gates before provider calls |

Interaction. Applications author writes and pipelines with `dol-core`, which
validates and lowers them. Engines implement the traits of `dol-engine`
(`Engine`, `WriteEngine`, `TransactionalEngine`, `DataStream`). The memory engine
calls the validators of `dol-core` after each change. `dol-migrate` stands beside
the engines: it talks to a backend through `CatalogInspector` and
`CatalogMutator`. Threads appear in two places: readers that share a memory engine
by reference, and the worker of a PostgreSQL stream.

## Modules

| Module | Models |
|---|---|
| `TableStore` | tables, model definitions, validity, limits, logical writes: the operators of the memory engine |
| `AtomicStore` | abstract: what the engine promises, a store in which a write is one step |
| `MemoryEngine` | the engine as it works: the flag, readers, row-by-row writes, undo, transactions |
| `MemoryEngineProofs` | theorems about `MemoryEngine` |
| `Catalog` | catalogs, diff, operations, the reference backend's effect of a step, risk |
| `MigrationApply` | migrators, policy, approval, the locked protocol and its faults |
| `PullStream` | abstract: what `DataStream` promises the consumer |
| `StreamRows` | rows, sizes and limits shared by the streams |
| `PostgresStream` | the client, the worker and their channels |
| `MongodbStream` | the cursor, its page, the kept row, batches |
| `CollectedStream` | eager collection on top of `MongodbStream` |
| `JsonlStream` | the line reader, the row-by-row operations, pending rows, batches |
| `PinnedSource` | binding and opening the file of a `JsonlStream`, call by call, among other processes |
| `Expressions` | data, operators, evaluation, validation, normalization and binding of expressions |
| `PreparedExpression` | the life of one expression: authored, prepared, evaluated |
| `Pipelines` | trees of stages, scopes and outputs, their lowering to plans, the optimizer |
| `MemoryStages` | how the memory engine executes each kind of node, with its limits; subqueries |
| `MemoryExecutor` | the life of one query: authored, lowered, optimized, executed, streamed |
| `EnginePlacement` | plan limits, capabilities and placement analysis over the plans of `Pipelines` |
| `PostgresCompiler` | mappings, support, the compiled relation with states and truth tags, the live contract, decoding |
| `MongodbCompiler` | the same for aggregations over documents, with the preflight |
| `EngineQueries` | the life of a query on either engine: registered, lowered, placed, compiled, checked, read |
| `WireValues` | types, data and models as the core accepts them; order, limits, classification of errors |
| `WireFormat` | the encoder, the decoder and the lowering, byte by byte |
| `WireExchange` | a frame from a sender to a receiver, altered on its way or not |
| `InductionLemmas` | induction, recursion and ranks over the natural numbers, for the proofs |
| `CatalogProofs`, `MigrationProofs` | theorems about `Catalog` and `MigrationApply` |
| `StreamLemmas` | facts about rows, byte counts and slices, for the proofs about streams |
| `PostgresProofs` | theorems about `PostgresStream` |
| `MongodbProofs` | theorems about `MongodbStream` and `CollectedStream` |
| `JsonlProofs` | theorems about `PinnedSource` and `JsonlStream` |
| `MCMemoryEngine`, `MCMigration`, `MCPostgresStream`, `MCMongodbStream`, `MCJsonlStream`, `MCPreparedExpression`, `MCMemoryExecutor`, `MCEngineQueries`, `MCWireExchange` | instances for TLC |

### TableStore, MemoryEngine, AtomicStore

A store is a partial function from keys to tables. A model definition is kept up to
what validation tells apart: `admits` gives, for each field, the data that pass
`validate_datum` with the field's presence; identity and unique tuples are sets of
fields. An expression is a function of the row it is evaluated on, and may yield
`EvalError`. Fingerprints stand for definitions: two definitions under one key
differ exactly when their records differ.

Rust's borrows are the guards. A call that takes the engine by `&mut` needs
`EngineFree`; a transaction keeps that borrow (`inTx`); readers hold `&` while they
validate and execute. `execute_write` is a request (`EngineWrite`,
`TransactionWrite`), a number of steps in `apply_write` (insert; one step for each
row of an update, which may fail with some of the row's fields assigned; delete),
the local validation, the validation passed as a closure (`WriteAccepted`: all
constraints for the engine, snapshot limits for a transaction), and the end or the
undoing (`restore_table`). A time-out may strike at any check. Readers load the
flag, validate and store the flag in separate steps.

`Published` and `Candidate` are the tables as callers know them: while a write is
running, the tables with the write undone. Under this mapping `MemoryEngine`
implements `AtomicStore`, whose `Effect` says what a whole write does, written
independently of the loops.

### Catalog, MigrationApply

Names are compared and keys ordered, so names are strings and keys numbers.
`Buckets` lists the operations of `diff_catalog` in the order in which it appends
its buckets; each is sorted by entity and key, as the maps it iterates are. The
backend is `FakeBackend`, the reference backend of the applier's tests: a step
rebuilds the working snapshot through the validating constructors, so a duplicate
name fails the step. A migrator plans, obtains approvals, and applies; every
backend call may fail when `Faults` says so. What a failed commit or a failed abort leaves
behind is up to the backend: the model allows both the catalog as it was and the working
snapshot, and the lock held or free. After a failed abort that snapshot may be a migration
half done; `apply_checked` then returns MIGRATE-APPLY-003, "backend state is uncertain"
(`apply/mod.rs:171`), and this is the only way in which one becomes visible. An abort that
succeeds rolls back, as `FakeBackend` does; the trait asks for it only "when supported"
(`apply/mod.rs:45`), and nothing is claimed for a backend that cannot. `Drift` replaces the catalog outside of the protocol, possibly under
the same revision.

### PullStream and the streams

`PullStream` is the contract: batches are the next rows in order, the end comes
after the last row, nothing comes after an end, an error or a cancellation. In
`PostgresStream` each channel is a sequence of at most one message; an end is
dropped when its owner is gone, upon which sends and waits on the other side fail.
The worker's `pull_batch` is broken into fetching a page, and rejecting, keeping or
adding a row; `Page` is what the server's portal returns and is external. `Panic`
unwinds the worker.

`MongodbStream` and `JsonlStream` have no thread; their consumer may drop
a stream at its first error or pull again. `failedAt` is a history variable that lets
the refinement of `PullStream` speak of the time up to the first error. In `MongodbStream`
a pull takes rows from the driver's page, asks for a page of at most the batch's
size when it is empty, keeps a row that does not fit, and leaves the stream open on an
error that is not a limit. In `JsonlStream` a line of the file is whole, malformed, not
UTF-8, longer than the limit or not terminated; `torn` is the rest of a line that was
given up, which the next pull reads as a line of its own. The plan is a sequence
of filters, projections, unnests and slices, applied row by row with counters;
`extent` is how much of the file the open stream may read, and other processes append whole
lines. `result` is a history variable: the plan applied at once to the file as it
was when the stream was opened, which is what `PullStream` refers to.

`CollectedStream` composes `MongodbStream` with `collect_stream_with_limits`: while it runs
the collector holds the stream's only borrow, so `UseStream` leaves pulls, cancellation and
drop to it; `TakeBatch`, `Refuse` and `EndCollect` are what follows each answer. The stream
may have been pulled from, have failed or been cancelled before. `PinnedSource` composes
`JsonlStream` with `source.rs`: `ResolvePath` to `PinFile` are the system calls of
`bind_definition`, `Canonicalize` to `OpenPinned` those of `open_file`, and other processes
unlink, create, rename and link between any two of them. A file is its `gen`; the
engine sees only its inode, which is free for another file once no name and no handle
refers to it. `same_file` is the one for Unix.

### Expressions, PreparedExpression

A node is a record with its kind, its type and its children, as `ExprNode` is; a type
is an integer of a sign and a width, or a truth, and whether it has null. `EvaluateNode`
is `evaluate_node`: operands from left to right, only the selected branch, `coalesce` on
demand, and each result checked against the type of its node (`CheckedNode`).
Arithmetic is checked in `WideBits`, which stands for the 128 bits of the code, so that
an overflow of the type and an overflow of the arithmetic are different things.
`Normalize` is `normalize_node`; the order of fingerprints in which it puts the
candidates of a membership is some order that depends on the candidates alone.
`PreparedExpression` authors a tree operator by operator, in every position that
`Expr` offers, including casts that preparation has to reject, and ill-typed trees that
erased bindings could contain; then it prepares the tree for a scope
that is the nullable side of an outer join or not, and evaluates it in one of several
contexts. The reference in `NormalizationPreservesValues` is the
evaluation of the tree as authored.

### Pipelines, MemoryStages, MemoryExecutor

`Pipelines` extends `Expressions`, whose contexts have one record for each scope. A
pipeline is a tree of stages. `CompileStages` is `compile_node` for every stage, inputs
first: it checks the expressions against the scopes of the input, and derives the
scopes and the output of the stage. A scope says which model its record is of, whether
an outer join may have replaced it by nulls, and whether the identities in it are known
to occur once (`identity_unique`), on which row numbers and frames rest. The subqueries
of a filter are compiled before it, with the filter's scopes as enclosing ones. Every
occurrence of a stage is lowered on its own; the code recognizes a stage that two branches
share by its address.

`MemoryStages` has one operator for each kind of node, from the rows of its inputs to
rows or a failure; rows and bytes are checked with each row that is pushed (`Loop`,
`Push`) and after the stage (`Bounded`). `EvaluateExists` executes a subquery for a row,
with the records of all enclosing rows. In `MemoryExecutor` a query executes one node
in each step, a time-out may strike between them, and a consumer pulls batches or cancels.
The properties do not reuse the loops: a join is compared with the set of pairs that
meet the condition, a rank with the number of rows that come before, a frame with
distances in the order, a subquery with a pipeline that is run on its own after
the outer fields were replaced by their values.

### EnginePlacement, PostgresCompiler, MongodbCompiler, EngineQueries

Both database engines represent a datum by two expressions, one for its state (missing,
null, value) and one for its value, and a truth by a number. `PostgresCompiler` evaluates
the SQL that `compile_expr` generates, operator by operator, on values that have a type and
may be SQL's null, with SQL's logic for comparisons, `CASE` and `WHERE`; `MongodbCompiler`
does the same for the aggregation operators, on BSON values with their type order. What the
servers do is external and only as rich as the generated text needs. `expression_support`
and `supports_node`, which place a node without knowing parameters, are separate from the
compilers, as in the code. `LiveContract` is the comparison with the catalog of a PostgreSQL
server, `Preflight` the first aggregation on a MongoDB collection; `Read` is a step of its own
behind them, and `Corrupt` changes columns, constraints or documents before the check or
between check and read. The reference of `LoweringIsExact` is `ExecuteSubplan` of
`MemoryStages` on the data that are stored; exceptions are written into the property.

### WireValues, WireFormat, WireExchange

Numbers of every width are one byte of `ByteBits` bits, the header has six bytes; the order of
fields, tags, counts, flags and all checks are those of the code. The encoder is a sequence
of writes, each under a limit; decoding carries the remaining bytes and nodes, and stops at
the first error; lowering goes through the validating constructors of the core
(`types/validate.rs`, `value/validate.rs`, `model/builder.rs`, `model/set.rs`); the decoder's
last step encodes again and compares (`require_canonical`). An error is its kind, and
`CoreError` is the classification by message. In `WireExchange` one run of bytes may be replaced,
exchanged with its neighbour, cut off, dropped or repeated.

## Runs

| Run | Instance | Shows |
|---|---|---|
| `memory_engine` | two models (identity, nullable unique field, self relation, reference), a second definition of one key, eleven writes, three write limits, two transaction limits, two readers | type correctness, the flag, readers, limits, refinement of `AtomicStore`; every write returns |
| `migration` | two migrators, two plans each, one target, one drift (also under an equal revision), two policies, all faults of the locked part, fair | no stale or unconsented migration, a partial one only where the abort failed and the caller is told; true reports; the lock is given back |
| `migration_diff` | every pair of catalogs among those with one entity, two fields and one index, and those with up to three entities over three names; no faults | the diff is exact and applicable |
| `migration_swap` | one plan that swaps the names of two entities | expected violation, see Findings |
| `postgres_stream` | results of up to four rows of one or two bytes or with an undecodable row, batch sizes 0, 2, 3, row limits 0, 2, none, byte limits 1, 3, none, with and without time-outs, pages of at most two rows, all faults | the stream contract, limits, backpressure; pulls return, the worker stops |
| `mongodb_stream` | results of up to five rows of one or two bytes, possibly with an undecodable row, pages of at most two rows, two limits of collection | the stream contract up to the first error, no row twice, limits, released connections; collection is whole or refused and cancelled |
| `jsonl_stream` | files of three lines out of six kinds and one appended line, five plans, eight sets of options; for two requests three changes among three names and three inodes | the stream contract up to the first error, no row twice, limits, slices; only the pinned file is read |
| `expressions` | up to two operators on 18 trees, over integers of two bits in an arithmetic of three, five contexts with missing, null, extreme and null-extended values | values and types survive normalization and binding, stable normal forms, no null at a type without it |
| `expression_branches` | the same | expected violation, see Findings |
| `memory_executor` | up to two stages on top of two sources with and without alias and of a union of joins; two models of two and three rows with null, missing and list values, and empty tables; three-bit integers; with and without limits and a time-out | lowering, optimizing and executing agree with the relational definitions; uniqueness, scopes and types derived by the compiler hold for the rows; the stream contract |
| `engine_queries` | some eighty pipelines on a model with a field of every presence and nullability, two definitions and up to three mappings of it, five bindings of a parameter, three placement policies, 17 corruptions before or after the check | answers equal the memory engine's; placed plans compile; the checks are exact; delivered rows conform |
| `wire` | types, data and models in frames of up to 68 bytes, four limits on either side, one alteration | frames decode under their own limits, one frame for one value, limits only refuse, accepted values are well formed |

Why the bounds are enough to be interesting. `memory_engine` has writes that fail
at the first and at a later row, at the limit, in the filter, in an expression and
in an assignment; inserts that register a model; broken and dangling references;
tables up to the limits of the transaction and over them. In `migration` one migrator can
overtake another between authorization and lock, and an approval can outlive its
plan, which needs two plans. In `migration_diff` three entities suffice for chains
and swaps of names, two fields and one index for an index that loses a field.
In the stream runs a result of four rows spans pages of two, batches of three and the
kept row at each position. The engine's tables are bounded by identity over two
values; nothing else in it grows. The JSONL instances have every pair of a bad line
and a good one in both orders, rows that unnest to none, one and several, and slices
that end in the middle of an unnested row. Two operators on top of a comparison give every rule of
normalization a constant operand that arises by normalization itself, and two bits in
three every kind of overflow. Two stages on a source, which may be
joined or combined with a filtered, projected or aliased one, make plans of up to nine nodes:
a window or a filter above each kind of join and set operation, subqueries in subqueries,
equal rows, ties and empty inputs at each of them; every kind of failure but a null at a type
without one occurs. In `mongodb_stream` both limits of a collection are met in the second and
later batches. Three changes of names suffice to remove the bound file, create another with its
inode and link to it. In `engine_queries` every operator meets missing, null and concrete operands
of types with and without null, and each corruption is one that some check or decoder tells apart.
In `wire` every payload kind, shape and constraint occurs, each limit is met by some frame and
every kind of error is produced; numbers of six bits leave room for all tags. The named bounds are `MaxStages`, `MaxExistentialDepth` (256 in the
code), `MaxDrifts`, `MaxOperators`,
`MaxPlans`, `MaxFetch` (rows in a server's page), `MaxLines` (lines in a file),
`MaxReplacements`, `MaxSlice`, the widths of `WireValues` and, as in the code, the limits; a
stream is collected once.

Deadlock is checked in the memory, stream, expression and executor runs. Migrators may stop for good
once they have made `MaxPlans` plans, and a query and a frame are followed to their end, so the
migration runs, `engine_queries` and `wire` do not check it.

Fairness. `MemoryEngine!FairSpec`: a write in progress continues (weak fairness of
`WriteStep`), as straight-line code does; no caller is obliged to call.
`MigrationApply!FairSpec`: a migrator inside the locked part continues, backend
calls return, with success or with an error. `PostgresStream!FairSpec`: both threads
are scheduled and driver calls return; what the client does while it has control
is never assumed, in particular not that it pulls, cancels or drops.

Each property has a mutation of the code's model that breaks it (`mutants` in
`PROJECT.json`; the definitions with an underscore in their name, each before the
definition it changes).

## Proofs

Each proof module extends the module it is about. All theorems are about the specification
that the runs check, for every value of the constants that satisfies the named assumptions:
any number of models, rows, migrators, readers, catalogs of any size, results of any length.
Every inductive invariant below was also checked with TLC as an invariant of the run's instance (with
quantifiers over all values, where it has some, bounded by the instance's sets).

`InductionLemmas` derives what the rest needs about numbers from the existence of minimal
elements: induction (`NumberInduction`, where a property is the set of numbers that have it),
the existence of recursive functions (`Recursion`, given the step as a function), and the
enumeration of a finite set of numbers by rank (`RanksExist`). With these, what folds, concatenations
and sums return is proved without any operator parameter. The second part has the
states of a loop over a sequence (`Loops`), sequences from their end (`LastMember`), what joining the
members of a sequence of sequences returns (`JoiningFacts`), and the groupings of a concatenation
(`TogetherFacts`).

### Memory engine (`MemoryEngineProofs`)

`TypeCorrect`, `FlagIsSound` (`ValidatedSound`), `ReadsAreValid` (`ReadersSeeValidTables`) and
`TransactionsAreBounded` (`CandidateWithinLimits`) follow from `Invariance`, by the inductive
invariant `Inv`: the conjunction of `TypeOK`, `ValidatedSound`, `CandidateWithinLimits` and three
strengthenings, `ReadersExclude` (no write and no transaction while a reader is inside, which
keeps the tables still between a reader's check and its use), `ReadingValidated` (a reader that
executes a plan has seen the flag set, and it is still set) and `WritesLeft` (a write inside a
transaction was admitted below the limit of writes). `ValidatedSound` speaks of `Published`, not
of the tables themselves: this is what makes it inductive through the steps of a write, each of
which changes only the table that `RestoreTable` puts back (`RestoreAfterPut`). What validity
means is never unfolded in that argument: `ValidTables` could be any predicate.

`WritesAreAtomic` is the refinement of `AtomicStore` (`ImplementsAtomicStore`) under the mapping
to `Published` and `Candidate`. It needs more, `AInv`: `Applying` says how far the loop of an
update has come (the rows before the cursor are assigned or unselected, the others untouched, the
count is that of the selected rows so far), `Applied` that after the loop the tables are the whole
`Effect` of the write on the tables without it, and `StartedValid` that a write on the engine's own
tables starts from valid ones. The loop of a deletion drops rows; `AtomicStore` says what is left
by rank (`RowsAt`), and `IncreasingIsByRank` shows that there is one increasing selection only. Every
step of the loops is then a stutter, the accepting end of a write is one abstract step, and a failing
end or an undoing is a failed call.

### Migration (`CatalogProofs`, `MigrationProofs`)

`DiffIsExact`: for any two catalogs the diff is empty exactly when they are equal. The way there
is what `FlattenSeq` and `SetToSortSeq` return (`FlattenFacts`, `SortFacts`), which operations are in
each bucket (`BucketMembers`), and that equal names, definitions and keys make equal maps.
`PlansNoticeEverything` carries it to every plan a migrator makes: the first half of `PlansConverge`.

The second half, that the steps of a plan lead to its target, rests on a description of every
catalog on the way. A plan is a `Listing` (`DiffLists`): all that is due between two catalogs, each once,
in the order of the buckets (`Place`). What is left of it behind its first steps is a set of marks
(`Left`) with one property of the order, `Staged`: with an operation, all that belongs to later buckets is
left too. `CatalogBetween(s, t, c, L)` says what `c` is when `L` is left, field by field and index by index: of the
source where something is left to be done, of the target where not. It holds at the start with all
left (`StartBetween`), makes `c` the target with nothing left (`EndBetween`), and each operation takes it on
(`CatalogStep`). A catalog on the way is valid (`BetweenIsValid`) - its indexes have their fields because
indexes are dropped first and created last, its names are unique because they are partly the source's,
partly the target's - unless a rename has been made into a name which a later one has yet to give
up (`EntityClash`, `FieldClash`, `IndexClash`). So a backend that rebuilds the snapshot through its validation accepts
the next operation or there is such a clash (`PlanStep`), and a clash is a collision of the plan as `RenamesCollide`
describes it (`ClashesCollide`).

`MigrationTypeCorrect`, `StepsAreJustified` (`LockedStepsAreJustified`), `MigrationsAreWhole`
(`OnlyWholeMigrations`) and `ReportsHold` (`ReportsAreTrue`) follow from `MigrationInvariance`. Its
`MInv` says of a migrator, wherever it is, what the checks it has passed have established: its plan is
the exact diff of two snapshots (`Clients`), the policy admitted it (`PolicyPassed`), the catalog is
still its source, also when the attempt is given up later (`PreconditionPassed`), the working copy is
its target (`ConvergencePassed`). That
these stay true while others act is the work of the lock, whose exclusion is part of `TypeOK`
(`LockIsExclusive`).

`CInv` (`MigrationsStayOnTheWay`) adds that plans are made from and for valid catalogs and that the working copy is
valid, so that even what a failed abort leaves behind is (`OnlyValid`), and that the working copy is, between any two steps, between the plan's source and target (`OnTheWay`). It gives
`FailuresHaveReasons`: with any number of migrators, faults and changes from outside, a migration whose
precondition held is given up only because a call of the backend failed, because renames collide, or because
a plan without steps cannot bring the target's revision. `UndisturbedPlansConverge` is `PlansConverge`, for
any two valid catalogs: it assumes `Undisturbed`, one migrator, no faults and no drift, under which the
property is stated and the run checks it; then the precondition cannot fail either (`Unchanged`). The finding
`migration_swap` is the collision that the theorem excepts.

### PostgreSQL stream (`StreamLemmas`, `PostgresProofs`)

`PostgresDeliversTheResult` is the refinement of `PullStream`, `PostgresLimits` the type invariant with
the limits of batches and buffers, `WorkerIsLoyal` that a worker never leaves a client that still
needs it. The inductive invariant `PInv` has four parts. `Handshake` says who can be where: one pull
is under way at a time, as a command, in the worker's hands or as a response, and only for a client that
waits. `Positions` says that what was seen, is on its way, in preparation, kept and buffered are, in
this order, the prefix of the result that the portal has produced; each response is true of what was
seen when it is received. `Accounts` relates counters and limits: the byte count is the sum over the
batch, rows asked for never exceed the target, and under a byte limit at most one row is waiting.
`StreamLemmas` has the facts about `TotalBytes` (a recursive function, by `Recursion`) and about slices
of a result.

### MongoDB stream and collection (`MongodbProofs`)

`MongodbLimits`, `CursorIsReleased` (`ConnectionIsReleased`, a state property here),
`MongodbDeliversTheResult` and `CollectionsAreExact` (`CollectionIsExact`). Here an error leaves the
stream open and may cost rows, so that the prefix argument ends at the first one: `Whole` is the prefix
argument up to then, `Order` what is left of it after, that rows come in the result's order and none
comes twice. `Places` says where rows may be and when there is a cursor, `Bounds` that counters are
sums within limits. `Collecting` adds that a collection holds the rows since it began, up to
the batch it has just been given, within its limits.

### JSONL source and stream (`JsonlProofs`)

`StreamsReadThePinnedFile`: `SourceIsPinned`, whatever other processes unlink, create, rename and link
between the system calls, any number of times. `SInv` adds `Identity`, that among the nodes which a name or
a handle refers to, one inode is one file, and `Handles`, which handles exist at each step and that
the file examined by its path is the pinned one if its inode is. `Identity` is why pinning is sound: the
handle kept since binding is what keeps the inode from being used again.

`JsonlDeliversTheResult` is the refinement of `PullStream`. The result is what the chain of operators
makes of the whole file as it was opened; the stream computes it one line at a time, with counters it keeps
between lines. That both are the same is `ChainConcat`: a chain applied to some rows and more is the
chain applied to the first, followed by the chain as it stands after those applied to the rest
(`OpConcat` says it of one operator, filters and lists as well as slices in every position of their counters).
`ApplyFacts` connects it with `apply_ops`, which stops at an empty intermediate result and keeps what the
counters have become when a later operator fails. Then the invariant `LInv` goes through: `StreamTypes`,
`Control` (what holds where the stream is) and `Whole`, that until an error the rows given, in the
batch, queued and still to be made of the file are together the result. Appends change the file, but
not what lies below `extent`, which is all that `Whole` speaks of.

`JsonlTypeCorrect` (`TypeOK`) needs what remains true after errors, `FullInv`: `Limited`, that batches
and the queue are within the limits; `Ordered`, that rows given, in the batch and queued follow each
other in file order, those queued from one line, whose list is unnested at most once; and `Quota`, that
what a slice behind the last list still lets pass and what has been given, prepared and queued
is never more than its limit.

### Assumptions

Those of the constants, named in the modules that declare them and evaluated by TLC in the runs: data are
distinct from the failure of an expression, `Fields` is finite, writes are well formed and lowered
(`TableStore`, `MemoryEngine`); keys are numbers, `Initial`, `Targets` and `Drifts` are
valid `CatalogSnapshot`s, as `CatalogSnapshot::try_new` makes them (`SnapshotsAssumption`); a page has at least
one row (`FetchAssumption`); the id of a document stands for its place in the result (`OrderAssumption`);
in the directory as it is found, one inode is one file (`DirectoryAssumption`); files, chains and limits of
a JSONL stream are of their types (`JsonlAssumption`). One assumption restricts the model and not the code:
a chain of a JSONL stream unnests at most one list (`ListsAssumption`), since a row is identified by its
line and its place in one list. `UndisturbedPlansConverge` assumes `Undisturbed`, in its statement.

### Only model-checked

- Liveness, which TLAPS does not reach: `WriteReturns`, `LockIsReleased`, `PullReturns` and
  `PostgresStream!ConnectionIsReleased`.
- Expressions, the memory executor, engine queries and the wire: their operators are recursive over trees
  (`RECURSIVE`), for which the prover has no backend.

## Findings

`migration_swap`: the operations of one bucket are emitted in key order
(`crates/dol-migrate/src/diff/mod.rs:448`), without intermediate names. A plan that
swaps two names, or passes a name on to an entity with a smaller key, meets a
duplicate name at its first rename, and the applier aborts it although nothing
interfered, while `docs/design/migration.md:63` requires that "inspect → diff →
apply → inspect converges to an empty diff". `PlansConverge` in `migration_diff`
shows that this is the only exception in the instance, apart from plans without steps
between snapshots with different revisions; `UndisturbedPlansConverge` proves it of all valid catalogs.

`expression_branches`: `normalize_node` folds the constants in both branches of a
conditional whose condition is not constant, and in the fallback of a `coalesce`
(`crates/dol-core/src/expr/normalize.rs:143` and `:56`). An arithmetic error there makes the
preparation fail, also for records on which the branch is not selected, while
`docs/design/semantics.md:59` says that "the unselected branch is not evaluated".

More disagreements, met while modelling, have no run of their own. Those that a property
would meet are written into it as exceptions.

A set operation over pipelines of several scopes is compiled with no scope at all
(`crates/dol-core/src/pipeline/compile.rs:691`), while its rows keep their records, since
`execute_set` clones them; an expression above it was bound to fewer records than it is given and
fails with `EXPR-EVAL-109`, even a constant filter, although the plan was accepted and
`docs/engines/memory.md:96` lists set operations among what is supported exactly.
`AcceptedPlansEvaluate` holds with this case excepted (`ClosedBySet`); the instance contains it.

`docs/design/semantics.md:126` says that "Null/missing nullable lists produce zero rows"
when unnested, but a missing list fails already when it is selected: projections
require a datum (`engines/memory/src/executor.rs:364`).

The page size of the MongoDB cursor is the row target, at most `MAX_DRIVER_BATCH_ROWS`
(`engines/mongodb/src/runtime.rs:316`), whatever byte limit is configured, while
`docs/engines/mongodb.md:61` says that "A configured logical-byte bound forces conservative driver
paging": in `MongodbStream` the driver holds pages larger than the byte limit (`FetchPage`).

`docs/engines/mongodb.md:29` says that the preflight keeps a filter or a slice from hiding a malformed
document. It does, of documents that are malformed when it runs, but for two kinds that the
decoder would reject: fractional decimals for an unsigned field and binary data of another subtype
(`Escapes` in `ContractIsExact`). A document written between the two aggregations is met only if
the query returns it. PostgreSQL's check of the live table likewise precedes the read transaction.

`supports_node` of the MongoDB engine accepts an order over binary data, which `compile_expr` then
refuses (`OrdersBytes` in `PlacedPlansCompile`); a slice with limit 0 becomes `$limit: 0`, which a
server refuses (`LimitsToNothing` in `LoweringIsExact`). The memory engine fails on a projected
missing value even in a row that a later slice or filter would have dropped; the database engines
answer (`DropsProjected`).

Of the wire: a type with more nodes than `max_nodes` is refused by the encoder with `InvalidValue`,
since `core_error` (`crates/dol-wire/src/validate/mod.rs:360`) tells limits by the wording of a
message and this one names none; and a name that contains "limit" would turn an invalid value into an
exceeded limit. A model whose identity, unique constraints and references together exceed
`max_list_items` is encoded, but not decoded under the same limits (`WithinConstraints`). 0.0 and
-0.0 are equal and have two frames, while `docs/design/wire.md` speaks of "one wire identity for one
supported semantic value" (`SignlessZeros`).

## Not modelled

The text of SQL, quoting and driver options; JSON decoding; lists of lists in a JSONL stream; arithmetic on decimals, floats and times;
floats that are not numbers; scalar types of the database engines beyond integers, truths, decimals,
binary data and instants; vector arithmetic and the gates of `dol-ml`, which keep no state; eager
`DataSet` writes, which are the memory engine's without a store; derive macros, conformance
suites and tools. Of expressions: functions and text. Of sets of models: the
names of types (`validate_type_identities`). Of plans: fingerprints, the cache of prepared plans, the cache
lifetimes of `dol-engine` (key builders without state), record projections (which are
tuples in the order of their names). `same_file` on systems other than Unix. Cloning a memory engine makes an
independent one. Plans built with risks raised by hand are left out; the
planner never makes them. One catalog scope.

## Plan

In order; done so far: 1 to 10 and 12 to 14.

1. `TableStore`, `MemoryEngine`, `AtomicStore`, runs and mutants.
2. `MemoryEngineProofs`: type correctness, the flag, readers, limits.
3. `Catalog`, `MigrationApply`: safety, lock, diff.
4. `PullStream`, `PostgresStream`: refinement, limits, liveness.
5. `JsonlStream`, `MongodbStream` against `PullStream`, with errors that leave the
   stream open.
6. `Expressions`, `PreparedExpression`.
7. `Pipelines`, `MemoryStages`, `MemoryExecutor`: lowering, optimizing and executing plans,
   against relational definitions.
8. `EnginePlacement`, `PostgresCompiler`, `MongodbCompiler`, `EngineQueries`: lowered queries
   against the memory engine's answers.
9. `WireValues`, `WireFormat`, `WireExchange`.
10. `CollectedStream`, `PinnedSource`: streams composed with their consumer and their source.
11. Eager `DataSet` writes agree with `AtomicStore!Effect`.
12. Proofs: `MemoryEngine` implements `AtomicStore`; `PostgresStream` and `MongodbStream`
   implement `PullStream`; `CollectionIsExact`; the safety of `MigrationApply` and the exactness
   of the diff; `SourceIsPinned`.
13. Proofs: `TypeOK` and the refinement of `PullStream` for `JsonlStream`. The operators on rows as
   recursive functions, with the lemma that a plan applied to a file and its continuation is the
   plan applied to the file, followed by the plan as it stands then applied to the rest.
14. Proof: the second half of `PlansConverge`, bucket by bucket.
