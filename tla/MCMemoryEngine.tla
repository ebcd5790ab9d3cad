--------------------------- MODULE MCMemoryEngine ---------------------------
(***************************************************************************)
(* Two models for the memory engine: people with an identity, a unique     *)
(* nullable alias and a relation to themselves, and posts that refer to    *)
(* people.  A second definition of people has other semantics.             *)
(***************************************************************************)
EXTENDS MemoryEngine

MCKeys == {"person", "post"}
MCFields == {"id", "alt"}
MCValues == {1, 2}
MCDatumBytes == [d \in MCValues \cup {Null, Missing} |-> IF d \in {Null, Missing} THEN 1 ELSE 8]

Person ==
  [key |-> "person",
   admits |-> [id |-> MCValues, alt |-> MCValues \cup {Null}],
   identity |-> {"id"}, uniques |-> {{"alt"}}, references |-> {},
   relations |-> {[target |-> "person", on |-> [alt |-> "id"], toOne |-> TRUE]}]

OtherPerson == [Person EXCEPT !.uniques = {}]

Post ==
  [key |-> "post",
   admits |-> [id |-> MCValues, alt |-> MCValues \cup {Null}],
   identity |-> {"id"}, uniques |-> {},
   references |-> {[target |-> "person", on |-> [alt |-> "id"]]}, relations |-> {}]

MCDefs == {Person, OtherPerson, Post}

R(i, a) == [id |-> i, alt |-> a]

Insert(def, rows) == [kind |-> "insert", model |-> def, rows |-> rows]
Update(def, cond, assignments) ==
  [kind |-> "update", model |-> def, condition |-> cond, assignments |-> assignments]
Delete(def, cond) == [kind |-> "delete", model |-> def, condition |-> cond]

Always == [r \in Row |-> "True"]
AltIs(v) ==
  [r \in Row |-> IF r["alt"] \in Absent THEN "Unknown" ELSE IF r["alt"] = v THEN "True" ELSE "False"]
AltPresent == [r \in Row |-> IF r["alt"] \in Absent THEN EvalError ELSE "True"]

Swap == [id |-> [r \in Row |-> r["alt"]], alt |-> [r \in Row |-> r["id"]]]
Unlink == [alt |-> [r \in Row |-> IF r["id"] = 2 /\ r["alt"] = 2 THEN EvalError ELSE Null]]

MCWrites ==
  {Insert(Person, <<R(1, Null)>>), Insert(Person, <<R(1, 2), R(2, 1)>>),
   Insert(OtherPerson, <<R(2, Null)>>),
   Insert(Post, <<R(1, 2)>>), Insert(Post, <<R(2, 2)>>),
   Update(Person, Always, Swap), Update(Person, AltPresent, Unlink), Update(Post, AltIs(2), Unlink),
   Delete(Person, AltPresent), Delete(Person, AltIs(1)), Delete(Post, Always)}

Lim(n, c, t) == [affected |-> n, concurrency |-> c, timeout |-> t]
MCLimits == {Lim(1, 1, FALSE), Lim(Unlimited, 1, TRUE), Lim(Unlimited, 0, FALSE)}

MCTxLimits == {[rows |-> 3, bytes |-> 144, writes |-> 2], [rows |-> 2, bytes |-> 1000, writes |-> 0]}

MCLoads == {<<Person, <<R(1, 1), R(2, 2)>>>>, <<Post, <<R(1, 1)>>>>, <<Post, <<R(1, 1), R(1, 2)>>>>}
=============================================================================
