-------------------------- MODULE MCPostgresStream --------------------------
(***************************************************************************)
(* Results of up to four rows of one or two bytes, possibly with a row     *)
(* that cannot be decoded, and limits around them.                         *)
(***************************************************************************)
EXTENDS PostgresStream

Sized(sizes) == [i \in DOMAIN sizes |-> [id |-> i, bytes |-> sizes[i], decodes |-> TRUE]]

MCResults ==
  {Sized(s) : s \in UNION {[1 .. n -> {1, 2}] : n \in 0 .. 4}}
    \cup {[Sized(<<1, 1, 1>>) EXCEPT ![i].decodes = FALSE] : i \in 1 .. 3}

MCOptions ==
  [batchRows : {0, 2, 3}, maxRows : {0, 2, Unlimited}, maxBytes : {1, 3, Unlimited}, timeout : BOOLEAN]
=============================================================================
