---------------------------- MODULE MCJsonlStream ----------------------------
(***************************************************************************)
(* Files of up to three lines and one more appended, operator chains with  *)
(* slices before, between and behind filter and unnest; the files of two   *)
(* requests are replaced while they are bound and opened.                  *)
(***************************************************************************)
EXTENDS PinnedSource

Good(cond, list, bytes) == [status |-> "ok", cond |-> cond, list |-> list, bytes |-> bytes]
Plain == Good("True", 2, 1)
Wide == Good("True", 1, 2)
Dropped == Good("Unknown", 0, 1)
Faulty == Good(EvalError, EvalError, 1)
Bad == [Plain EXCEPT !.status = "bad"]
Long == [Plain EXCEPT !.status = "long"]

MCLines == {Plain, Wide, Dropped, Faulty, Bad, Long}
MCFiles == {<<>>} \cup {<<a, b, Plain>> : a, b \in MCLines}
MCAppended == {Plain}

Filter == [op |-> "filter"]
Project == [op |-> "project"]
Unnest == [op |-> "unnest"]
Slice(offset, limit) == [op |-> "slice", offset |-> offset, limit |-> limit]

MCPlans ==
  {<<>>,
   <<Slice(1, Unlimited), Filter>>,
   <<Filter, Slice(1, 1), Project>>,
   <<Project, Unnest, Slice(1, 2)>>,
   <<Slice(0, 2), Project, Unnest, Slice(1, 3), Slice(1, 1)>>}

Opts(size, rows, bytes, scan, source, timeout) ==
  [batchRows |-> size, maxRows |-> rows, maxBytes |-> bytes, maxScanned |-> scan,
   maxSource |-> source, timeout |-> timeout]

MCOptions ==
  {Opts(1, Unlimited, Unlimited, 9, 9, FALSE), Opts(2, Unlimited, 2, 9, 9, FALSE),
   Opts(3, 1, Unlimited, 9, 9, FALSE), Opts(3, 0, Unlimited, 9, 9, FALSE),
   Opts(3, 2, 1, 2, 9, FALSE), Opts(3, Unlimited, 3, 9, 9, TRUE), Opts(0, 1, 1, 9, 9, FALSE),
   Opts(1, 1, 1, 9, 2, FALSE)}

MCDirectory ==
  [n \in Names |-> IF n = "other" THEN Nothing
                   ELSE [kind |-> "file", ino |-> IF n = BoundName THEN 1 ELSE 2, gen |-> 0]]

MCDisturbed == {<<<<Plain, Plain, Plain>>, <<>>, o>> : o \in {x \in MCOptions : x.maxSource = 2 \/ x.timeout}}
=============================================================================
