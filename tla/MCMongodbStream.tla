--------------------------- MODULE MCMongodbStream ---------------------------
(***************************************************************************)
(* Results of up to five rows of one or two bytes, possibly with a row     *)
(* that cannot be decoded, and limits of the stream and of its collector   *)
(* around them.                                                            *)
(***************************************************************************)
EXTENDS CollectedStream

Sized(sizes) == [i \in DOMAIN sizes |-> [id |-> i, bytes |-> sizes[i], decodes |-> TRUE]]

MCResults ==
  {Sized(s) : s \in UNION {[1 .. n -> {1, 2}] : n \in 0 .. 5}}
    \cup {[Sized(<<1, 1, 1, 1>>) EXCEPT ![i].decodes = FALSE] : i \in 1 .. 4}

MCOptions ==
  [batchRows : {0, 1, 3}, maxRows : {0, 2, Unlimited}, maxBytes : {1, 3, Unlimited}, timeout : BOOLEAN]

MCCollectLimits == {[maxRows |-> 2, maxBytes |-> 9], [maxRows |-> 5, maxBytes |-> 6]}
=============================================================================
