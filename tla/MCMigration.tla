----------------------------- MODULE MCMigration -----------------------------
(***************************************************************************)
(* Small catalogs for the migration protocol: two entities whose names can *)
(* pass from one to the other, fields and an index that come, go, change   *)
(* their names and their definitions.                                      *)
(***************************************************************************)
EXTENDS MigrationApply

F(name, type, required) == [name |-> name, type |-> type, required |-> required]
X(name, fields) == [name |-> name, fields |-> fields, unique |-> FALSE]
E(name, fields, indexes) == [name |-> name, fields |-> fields, indexes |-> indexes]
Nothing == [k \in {} |-> k]

Users == E("a", <<F("x", "int", TRUE)>>, Nothing)
People == E("b", <<F("x", "int", TRUE), F("y", "text", FALSE)>>, <<X("y", <<2>>)>>)
Posts == E("b", <<F("x", "int", TRUE)>>, Nothing)

One == Snapshot("r1", <<Users>>)
Two == Snapshot("r2", <<People>>)
Three == Snapshot("r3", <<Users, Posts>>)
Swapped == Snapshot("r4", <<[Users EXCEPT !.name = "b"], [Posts EXCEPT !.name = "a"]>>)
Renamed == Snapshot("r3", <<[Users EXCEPT !.name = "y"]>>)
\* Another catalog under the revision of One.
OneInDisguise == Snapshot("r1", <<[Users EXCEPT !.fields[1].type = "text"]>>)

MCInitial == {One}
MCTargets == {Two}
MCDrifts == {Renamed, OneInDisguise}

Strict == [rewrite |-> FALSE, destructive |-> FALSE, locking |-> TRUE, rebuild |-> FALSE]
Permissive == [rewrite |-> TRUE, destructive |-> TRUE, locking |-> TRUE, rebuild |-> TRUE]
MCPolicies == {Strict, Permissive}

\* Every valid catalog of up to two entities with one field each, or one entity with
\* up to two fields and one index.
FieldSets == {f \in PartialFunctions(FieldKeys, [name : {"a", "b"}, type : {"int", "text"}, required : {TRUE}]) :
                UniqueNames(f)}
IndexSets == {Nothing} \cup {<<X(n, s)>> : n \in {"a", "b"}, s \in {<<1>>, <<1, 2>>, <<2, 1>>}}
Wide == {e \in {E("a", f, x) : f \in FieldSets, x \in IndexSets} : ValidEntity(e)}
WideCatalogs == {Snapshot("r", <<e>>) : e \in Wide}
Narrow == {E(n, <<>>, Nothing) : n \in {"a", "b", "c"}}
NarrowCatalogs ==
  {Snapshot("r", c) : c \in {c \in PartialFunctions({1, 2, 3}, Narrow) : UniqueNames(c)}}
Everything == WideCatalogs \cup NarrowCatalogs
Retarget(snapshots) == {Snapshot("s", s.entities) : s \in snapshots}
EveryTarget == Retarget(Everything)
MCPermissive == {Permissive}
SwapTargets == {Swapped}
SwapInitial == {Three}
=============================================================================
