---------------------------- MODULE StreamLemmas ----------------------------
(***************************************************************************)
(* Facts about rows, pages and byte counts that the proofs about the       *)
(* database streams share.                                                 *)
(***************************************************************************)
EXTENDS StreamRows, InductionLemmas

-----------------------------------------------------------------------------
(***************************************************************************)
(* The bytes of a batch.                                                   *)
(***************************************************************************)

\* The rows of a sequence of rows.
LEMMA RowsOfSeq ==
  ASSUME NEW rows \in Seq(ResultRow)
  PROVE  /\ Len(rows) \in Nat
         /\ \A i \in 1 .. Len(rows) : rows[i] \in ResultRow /\ rows[i].bytes \in Nat
<1>1. Len(rows) \in Nat /\ \A i \in 1 .. Len(rows) : rows[i] \in ResultRow
  BY LenProperties, ElementOfSeq
<1>2. \A row \in ResultRow : row.bytes \in Nat
  BY DEF ResultRow
<1>. QED
  BY <1>1, <1>2

\* The prefix sums that TotalBytes computes.
Sums(f, rows) == f = [i \in 0 .. Len(rows) |-> IF i = 0 THEN 0 ELSE f[i - 1] + rows[i].bytes]

\* They exist, and are numbers.
LEMMA SumsExist ==
  ASSUME NEW rows \in Seq(ResultRow)
  PROVE  \E f : Sums(f, rows) /\ \A i \in 0 .. Len(rows) : f[i] \in Nat
<1>. DEFINE n == Len(rows)
            step == [p \in Nat \X Nat |-> IF p[1] + 1 <= n THEN p[2] + rows[p[1] + 1].bytes ELSE p[2]]
<1>1. n \in Nat /\ \A i \in 1 .. n : rows[i].bytes \in Nat
  BY RowsOfSeq
<1>2. IsStep(step, Nat)
  <2>1. ASSUME NEW p \in Nat \X Nat
        PROVE  (IF p[1] + 1 <= n THEN p[2] + rows[p[1] + 1].bytes ELSE p[2]) \in Nat
    <3>1. p[2] \in Nat /\ p[1] \in Nat
      OBVIOUS
    <3>2. p[1] + 1 <= n => rows[p[1] + 1].bytes \in Nat
      BY <1>1, <3>1
    <3>. QED
      BY <3>1, <3>2
  <2>. QED
    BY <2>1 DEF IsStep
<1>. HIDE DEF step
<1>3. PICK g : IsUnfolding(g, Nat, 0, step)
  BY <1>2, Recursion
<1>. DEFINE f == [i \in 0 .. n |-> g[i]]
<1>4. ASSUME NEW i \in 0 .. n
      PROVE  f[i] \in Nat /\ f[i] = IF i = 0 THEN 0 ELSE f[i - 1] + rows[i].bytes
  <2>1. f[i] \in Nat /\ (i = 0 => f[i] = 0)
    BY <1>1, <1>3 DEF IsUnfolding
  <2>2. CASE i # 0
    <3>. DEFINE k == i - 1
    <3>1. k \in Nat /\ k + 1 = i /\ k \in 0 .. n /\ k + 1 <= n
      BY <1>1, <2>2
    <3>2. g[k + 1] = step[<<k, g[k]>>] /\ g[k] \in Nat
      BY <1>3, <3>1 DEF IsUnfolding
    <3>3. step[<<k, g[k]>>] = g[k] + rows[k + 1].bytes
      BY <3>1, <3>2 DEF step
    <3>4. f[i] = g[k + 1] /\ f[i - 1] = g[k]
      BY <3>1
    <3>. HIDE DEF k, f
    <3>. QED
      BY <2>1, <2>2, <3>1, <3>2, <3>3, <3>4
  <2>. QED
    BY <2>1, <2>2
<1>5. f = [i \in 0 .. n |-> f[i]]
  OBVIOUS
<1>. HIDE DEF f
<1>6. Sums(f, rows)
  BY <1>4, <1>5 DEF Sums
<1>. QED
  BY <1>4, <1>6

\* The bytes of no rows, and of one more row.
LEMMA TotalBytesFacts ==
  ASSUME NEW rows \in Seq(ResultRow)
  PROVE  /\ TotalBytes(rows) \in Nat
         /\ rows = <<>> => TotalBytes(rows) = 0
         /\ \A row \in ResultRow : TotalBytes(Append(rows, row)) = TotalBytes(rows) + row.bytes
<1>. DEFINE Sum(r) == CHOOSE f : Sums(f, r)
            n == Len(rows)
<1>1. ASSUME NEW r \in Seq(ResultRow)
      PROVE  /\ \A i \in 0 .. Len(r) : Sum(r)[i] = IF i = 0 THEN 0 ELSE Sum(r)[i - 1] + r[i].bytes
             /\ TotalBytes(r) = Sum(r)[Len(r)]
  <2>1. \E f : Sums(f, r)
    BY SumsExist
  <2>2. Sums(Sum(r), r)
    BY <2>1
  <2>3. TotalBytes(r) = Sum(r)[Len(r)]
    BY DEF TotalBytes, Sums
  <2>. HIDE DEF Sum
  <2>. QED
    BY <2>2, <2>3 DEF Sums
<1>. HIDE DEF Sum
<1>2. ASSUME NEW r \in Seq(ResultRow), NEW q \in Seq(ResultRow), Len(q) <= Len(r),
             \A i \in 1 .. Len(q) : q[i] = r[i]
      PROVE  \A k \in Nat : k <= Len(q) => Sum(q)[k] \in Nat /\ Sum(q)[k] = Sum(r)[k]
  <2>. DEFINE T == {k \in Nat : k <= Len(q) => Sum(q)[k] \in Nat /\ Sum(q)[k] = Sum(r)[k]}
  <2>1. Len(q) \in Nat /\ Len(r) \in Nat /\ \A i \in 1 .. Len(q) : q[i].bytes \in Nat
    BY RowsOfSeq
  <2>2. 0 \in T
    BY <1>1, <2>1
  <2>3. ASSUME NEW k \in Nat, k \in T
        PROVE  k + 1 \in T
    <3>. SUFFICES ASSUME k + 1 <= Len(q) PROVE Sum(q)[k + 1] \in Nat /\ Sum(q)[k + 1] = Sum(r)[k + 1]
      OBVIOUS
    <3>1. Sum(q)[k] \in Nat /\ Sum(q)[k] = Sum(r)[k]
      BY <2>1, <2>3
    <3>2. /\ k + 1 \in 0 .. Len(q) /\ k + 1 \in 0 .. Len(r) /\ k + 1 \in 1 .. Len(q)
          /\ k + 1 # 0 /\ (k + 1) - 1 = k
      BY <1>2, <2>1
    <3>3. Sum(q)[k + 1] = Sum(q)[k] + q[k + 1].bytes /\ Sum(r)[k + 1] = Sum(r)[k] + r[k + 1].bytes
      BY <1>1, <3>2
    <3>4. q[k + 1].bytes \in Nat /\ q[k + 1] = r[k + 1]
      BY <1>2, <2>1, <3>2
    <3>. QED
      BY <3>1, <3>3, <3>4
  <2>. HIDE DEF T
  <2>4. Nat \subseteq T
    BY <2>2, <2>3, NumberInduction
  <2>. QED
    BY <2>4 DEF T
<1>3. n \in Nat
  BY LenProperties
<1>4. TotalBytes(rows) \in Nat
  <2>1. \A k \in Nat : k <= Len(rows) => Sum(rows)[k] \in Nat
    BY <1>2, <1>3
  <2>. QED
    BY <1>1, <1>3, <2>1
<1>5. ASSUME rows = <<>>
      PROVE  TotalBytes(rows) = 0
  <2>1. Len(rows) = 0 /\ 0 \in 0 .. Len(rows)
    BY <1>5
  <2>. QED
    BY <1>1, <2>1
<1>6. ASSUME NEW row \in ResultRow
      PROVE  TotalBytes(Append(rows, row)) = TotalBytes(rows) + row.bytes
  <2>. DEFINE r == Append(rows, row)
  <2>1. r \in Seq(ResultRow) /\ Len(r) = n + 1 /\ (\A i \in 1 .. n : r[i] = rows[i]) /\ r[n + 1] = row
    BY <1>6, AppendProperties
  <2>. HIDE DEF r
  <2>2. Sum(rows)[n] = Sum(r)[n]
    <3>1. \A k \in Nat : k <= Len(rows) => Sum(rows)[k] = Sum(r)[k]
      BY <1>2, <1>3, <2>1
    <3>. QED
      BY <1>3, <3>1
  <2>3. Sum(r)[n + 1] = Sum(r)[n] + row.bytes
    <3>1. n + 1 \in 0 .. Len(r) /\ n + 1 # 0 /\ (n + 1) - 1 = n
      BY <1>3, <2>1
    <3>. QED
      BY <1>1, <2>1, <3>1
  <2>4. TotalBytes(r) = Sum(r)[n + 1] /\ TotalBytes(rows) = Sum(rows)[n]
    BY <1>1, <2>1
  <2>5. TotalBytes(r) = TotalBytes(rows) + row.bytes
    BY <2>2, <2>3, <2>4
  <2>. QED
    BY <2>5 DEF r
<1>. QED
  BY <1>4, <1>5, <1>6

-----------------------------------------------------------------------------
(***************************************************************************)
(* Pieces of a result.                                                     *)
(***************************************************************************)

\* The rows s are those of the result that follow its first `from` rows.
IsSlice(s, rows, from) ==
  /\ from + Len(s) <= Len(rows)
  /\ \A i \in 1 .. Len(s) : s[i] = rows[from + i]

\* No rows, one more row, and the rows after the first.
LEMMA SliceSteps ==
  ASSUME NEW rows \in Seq(ResultRow), NEW from \in 0 .. Len(rows), NEW s \in Seq(ResultRow)
  PROVE  /\ s = <<>> => IsSlice(s, rows, from)
         /\ IsSlice(s, rows, from) /\ s # <<>> =>
              /\ Len(s) > 0 /\ from + 1 \in 1 .. Len(rows) /\ Head(s) = rows[from + 1]
              /\ IsSlice(Tail(s), rows, from + 1)
         /\ IsSlice(s, rows, from) /\ from + Len(s) < Len(rows) =>
              IsSlice(Append(s, rows[from + Len(s) + 1]), rows, from)
<1>1. Len(rows) \in Nat /\ Len(s) \in Nat /\ from \in Nat /\ from <= Len(rows)
  BY LenProperties
<1>2. s = <<>> => IsSlice(s, rows, from)
  BY <1>1 DEF IsSlice
<1>3. ASSUME IsSlice(s, rows, from), s # <<>>
      PROVE  /\ Len(s) > 0 /\ from + 1 \in 1 .. Len(rows) /\ Head(s) = rows[from + 1]
             /\ IsSlice(Tail(s), rows, from + 1)
  <2>1. Len(s) > 0 /\ from + Len(s) <= Len(rows) /\ Head(s) = s[1]
    BY <1>1, <1>3, EmptySeq DEF IsSlice
  <2>2. Head(s) = rows[from + 1] /\ from + 1 \in 1 .. Len(rows)
    BY <1>1, <1>3, <2>1 DEF IsSlice
  <2>3. Len(Tail(s)) = Len(s) - 1 /\ \A i \in 1 .. Len(s) - 1 : Tail(s)[i] = s[i + 1]
    BY <1>3, HeadTailProperties
  <2>4. \A i \in 1 .. Len(s) - 1 : i + 1 \in 1 .. Len(s) /\ from + (i + 1) = (from + 1) + i
    BY <1>1
  <2>. QED
    BY <1>1, <1>3, <2>1, <2>2, <2>3, <2>4 DEF IsSlice
<1>4. ASSUME IsSlice(s, rows, from), from + Len(s) < Len(rows)
      PROVE  IsSlice(Append(s, rows[from + Len(s) + 1]), rows, from)
  <2>. DEFINE x == rows[from + Len(s) + 1]
              a == Append(s, x)
  <2>1. x \in ResultRow
    BY <1>1, <1>4, ElementOfSeq
  <2>. HIDE DEF x
  <2>2. Len(a) = Len(s) + 1 /\ (\A i \in 1 .. Len(s) : a[i] = s[i]) /\ a[Len(s) + 1] = x
    BY <2>1, AppendProperties
  <2>. HIDE DEF a
  <2>3. ASSUME NEW i \in 1 .. Len(a) PROVE a[i] = rows[from + i]
    <3>1. CASE i \in 1 .. Len(s)
      BY <1>4, <2>2, <3>1 DEF IsSlice
    <3>2. CASE i = Len(s) + 1
      BY <1>1, <2>2, <3>2 DEF x
    <3>. QED
      BY <1>1, <2>2, <3>1, <3>2
  <2>4. IsSlice(a, rows, from)
    BY <1>1, <1>4, <2>2, <2>3 DEF IsSlice
  <2>. QED
    BY <2>4 DEF a, x
<1>. QED
  BY <1>2, <1>3, <1>4

\* Adjacent pieces, and a piece that begins at the beginning.
LEMMA SliceJoins ==
  ASSUME NEW rows \in Seq(ResultRow), NEW s \in Seq(ResultRow), IsSlice(s, rows, 0)
  PROVE  /\ Len(s) \in 0 .. Len(rows)
         /\ s = SubSeq(rows, 1, Len(s))
         /\ Len(s) = Len(rows) => s = rows
         /\ \A u \in Seq(ResultRow) : IsSlice(u, rows, Len(s)) => IsSlice(s \o u, rows, 0)
<1>1. Len(rows) \in Nat /\ Len(s) \in Nat /\ Len(s) <= Len(rows)
  BY LenProperties DEF IsSlice
<1>2. \A i \in 1 .. Len(s) : s[i] = rows[i]
  BY <1>1 DEF IsSlice
<1>3. s = SubSeq(rows, 1, Len(s))
  <2>. DEFINE u == SubSeq(rows, 1, Len(s))
  <2>1. \A i \in 1 .. Len(s) : rows[i] \in ResultRow
    BY <1>1, ElementOfSeq
  <2>2. u \in Seq(ResultRow) /\ Len(u) = Len(s) /\ \A i \in 1 .. Len(s) : u[i] = rows[i]
    BY <1>1, <2>1, SubSeqProperties
  <2>. HIDE DEF u
  <2>3. s = u
    BY <1>2, <2>2, SeqEqual
  <2>. QED
    BY <2>3 DEF u
<1>4. Len(s) = Len(rows) => s = rows
  BY <1>2, SeqEqual
<1>5. ASSUME NEW u \in Seq(ResultRow), IsSlice(u, rows, Len(s))
      PROVE  IsSlice(s \o u, rows, 0)
  <2>. DEFINE v == s \o u
  <2>1. Len(v) = Len(s) + Len(u) /\ \A i \in 1 .. Len(s) + Len(u) :
          v[i] = IF i <= Len(s) THEN s[i] ELSE u[i - Len(s)]
    BY ConcatProperties
  <2>2. Len(u) \in Nat
    BY LenProperties
  <2>. HIDE DEF v
  <2>3. ASSUME NEW i \in 1 .. Len(v) PROVE v[i] = rows[i]
    <3>1. CASE i <= Len(s)
      BY <1>1, <1>2, <2>1, <2>2, <3>1
    <3>2. CASE ~ (i <= Len(s))
      <4>1. i - Len(s) \in 1 .. Len(u) /\ Len(s) + (i - Len(s)) = i /\ v[i] = u[i - Len(s)]
        BY <1>1, <2>1, <2>2, <3>2
      <4>2. u[i - Len(s)] = rows[Len(s) + (i - Len(s))]
        BY <1>5, <4>1 DEF IsSlice
      <4>. QED
        BY <4>1, <4>2
    <3>. QED
      BY <3>1, <3>2
  <2>4. Len(s) + Len(u) <= Len(rows)
    BY <1>5 DEF IsSlice
  <2>5. IsSlice(v, rows, 0)
    BY <1>1, <2>1, <2>2, <2>3, <2>4 DEF IsSlice
  <2>. QED
    BY <2>5 DEF v
<1>. QED
  BY <1>1, <1>3, <1>4, <1>5

\* A page is the next piece of the result, no longer than asked for, and empty only at
\* the end.
LEMMA PageFacts ==
  ASSUME NEW rows \in Seq(ResultRow), NEW from \in 0 .. Len(rows), NEW n \in Nat
  PROVE  LET page == NextPage(rows, from, n) IN
         /\ page \in Seq(ResultRow) /\ Len(page) <= n
         /\ IsSlice(page, rows, from)
         /\ from + Len(page) \in 0 .. Len(rows)
         /\ n # 0 => ((page = <<>>) <=> from = Len(rows))
<1>. DEFINE to == IF from + n < Len(rows) THEN from + n ELSE Len(rows)
            page == NextPage(rows, from, n)
<1>1. Len(rows) \in Nat /\ from \in Nat /\ from <= Len(rows)
  BY LenProperties
<1>2. to \in Nat /\ from <= to /\ to <= Len(rows) /\ to <= from + n
  BY <1>1
<1>3. page = SubSeq(rows, from + 1, to)
  BY DEF NextPage
<1>4. n # 0 => (to = from <=> from = Len(rows))
  BY <1>1
<1>. HIDE DEF to, page
<1>5. \A i \in from + 1 .. to : rows[i] \in ResultRow
  BY <1>1, <1>2, ElementOfSeq
<1>6. /\ page \in Seq(ResultRow)
      /\ Len(page) = IF from + 1 <= to THEN to - (from + 1) + 1 ELSE 0
      /\ \A i \in 1 .. to - (from + 1) + 1 : page[i] = rows[(from + 1) + i - 1]
  BY <1>1, <1>2, <1>3, <1>5, SubSeqProperties
<1>7. Len(page) = to - from
  BY <1>1, <1>2, <1>6
<1>8. \A i \in 1 .. Len(page) : page[i] = rows[from + i]
  <2>. TAKE i \in 1 .. Len(page)
  <2>1. i \in 1 .. to - (from + 1) + 1 /\ (from + 1) + i - 1 = from + i
    BY <1>1, <1>2, <1>7
  <2>. QED
    BY <1>6, <2>1
<1>9. (page = <<>>) <=> Len(page) = 0
  BY <1>6, EmptySeq
<1>10. IsSlice(page, rows, from)
  BY <1>1, <1>2, <1>7, <1>8 DEF IsSlice
<1>11. Len(page) <= n /\ from + Len(page) \in 0 .. Len(rows)
  BY <1>1, <1>2, <1>7
<1>12. n # 0 => ((page = <<>>) <=> from = Len(rows))
  BY <1>1, <1>2, <1>4, <1>7, <1>9
<1>. QED
  BY <1>6, <1>10, <1>11, <1>12 DEF page

\* A piece is determined by its place, grows by an adjacent piece, and stays one when the
\* whole grows.
LEMMA SliceFacts ==
  ASSUME NEW rows \in Seq(ResultRow), NEW from \in 0 .. Len(rows), NEW s \in Seq(ResultRow),
         IsSlice(s, rows, from), NEW u \in Seq(ResultRow)
  PROVE  /\ s = SubSeq(rows, from + 1, from + Len(s))
         /\ IsSlice(u, rows, from + Len(s)) => IsSlice(s \o u, rows, from)
         /\ IsSlice(s, rows \o u, from)
<1>1. /\ Len(rows) \in Nat /\ Len(s) \in Nat /\ Len(u) \in Nat /\ from \in Nat
      /\ from + Len(s) <= Len(rows)
  BY LenProperties DEF IsSlice
<1>2. \A i \in 1 .. Len(s) : s[i] = rows[from + i]
  BY DEF IsSlice
<1>3. s = SubSeq(rows, from + 1, from + Len(s))
  <2>. DEFINE to == from + Len(s)
              v == SubSeq(rows, from + 1, to)
  <2>1. to \in Nat /\ \A i \in from + 1 .. to : rows[i] \in ResultRow
    BY <1>1, ElementOfSeq
  <2>. HIDE DEF to
  <2>2. /\ v \in Seq(ResultRow)
        /\ Len(v) = IF from + 1 <= to THEN to - (from + 1) + 1 ELSE 0
        /\ \A i \in 1 .. to - (from + 1) + 1 : v[i] = rows[(from + 1) + i - 1]
    BY <1>1, <2>1, SubSeqProperties
  <2>. HIDE DEF v
  <2>3. Len(v) = Len(s)
    BY <1>1, <2>2 DEF to
  <2>4. \A i \in 1 .. Len(s) : i \in 1 .. to - (from + 1) + 1 /\ (from + 1) + i - 1 = from + i
    BY <1>1 DEF to
  <2>5. \A i \in 1 .. Len(s) : s[i] = v[i]
    BY <1>2, <2>2, <2>4
  <2>6. s = v
    BY <2>2, <2>3, <2>5, SeqEqual
  <2>. QED
    BY <2>6 DEF v, to
<1>4. ASSUME IsSlice(u, rows, from + Len(s))
      PROVE  IsSlice(s \o u, rows, from)
  <2>. DEFINE v == s \o u
  <2>1. Len(v) = Len(s) + Len(u) /\ \A i \in 1 .. Len(s) + Len(u) :
          v[i] = IF i <= Len(s) THEN s[i] ELSE u[i - Len(s)]
    BY ConcatProperties
  <2>. HIDE DEF v
  <2>2. from + Len(s) + Len(u) <= Len(rows) /\ \A i \in 1 .. Len(u) : u[i] = rows[from + Len(s) + i]
    BY <1>4 DEF IsSlice
  <2>3. ASSUME NEW i \in 1 .. Len(v) PROVE v[i] = rows[from + i]
    <3>0. i \in 1 .. Len(s) + Len(u)
      BY <2>1
    <3>1. CASE i <= Len(s)
      <4>1. i \in 1 .. Len(s)
        BY <1>1, <3>0, <3>1
      <4>2. v[i] = s[i]
        BY <2>1, <3>0, <3>1
      <4>. QED
        BY <1>2, <4>1, <4>2
    <3>2. CASE ~ (i <= Len(s))
      <4>1. i - Len(s) \in 1 .. Len(u) /\ from + Len(s) + (i - Len(s)) = from + i /\ v[i] = u[i - Len(s)]
        <5>1. i - Len(s) \in 1 .. Len(u) /\ from + Len(s) + (i - Len(s)) = from + i
          BY <1>1, <3>0, <3>2
        <5>2. v[i] = u[i - Len(s)]
          BY <2>1, <3>0, <3>2
        <5>. QED
          BY <5>1, <5>2
      <4>2. u[i - Len(s)] = rows[from + Len(s) + (i - Len(s))]
        BY <2>2, <4>1
      <4>. QED
        BY <4>1, <4>2
    <3>. QED
      BY <3>1, <3>2
  <2>4. IsSlice(v, rows, from)
    BY <1>1, <2>1, <2>2, <2>3 DEF IsSlice
  <2>. QED
    BY <2>4 DEF v
<1>5. IsSlice(s, rows \o u, from)
  <2>. DEFINE v == rows \o u
  <2>1. Len(v) = Len(rows) + Len(u) /\ \A i \in 1 .. Len(rows) + Len(u) :
          v[i] = IF i <= Len(rows) THEN rows[i] ELSE u[i - Len(rows)]
    BY ConcatProperties
  <2>. HIDE DEF v
  <2>2. \A i \in 1 .. Len(s) : from + i \in 1 .. Len(rows) + Len(u) /\ from + i <= Len(rows)
    BY <1>1
  <2>3. \A i \in 1 .. Len(s) : s[i] = v[from + i]
    BY <1>2, <2>1, <2>2
  <2>4. from + Len(s) <= Len(v)
    BY <1>1, <2>1
  <2>5. IsSlice(s, v, from)
    BY <2>3, <2>4 DEF IsSlice
  <2>. QED
    BY <2>5 DEF v
<1>. QED
  BY <1>3, <1>4, <1>5

\* What is left of the rows behind a place.
LEMMA RestFacts ==
  ASSUME NEW rows \in Seq(ResultRow), NEW from \in 0 .. Len(rows)
  PROVE  LET rest == SubSeq(rows, from + 1, Len(rows)) IN
         /\ rest \in Seq(ResultRow) /\ Len(rest) = Len(rows) - from
         /\ IsSlice(rest, rows, from)
<1>. DEFINE rest == SubSeq(rows, from + 1, Len(rows))
<1>1. Len(rows) \in Nat /\ from \in Nat /\ from <= Len(rows)
  BY LenProperties
<1>2. \A i \in from + 1 .. Len(rows) : rows[i] \in ResultRow
  BY <1>1, ElementOfSeq
<1>3. /\ rest \in Seq(ResultRow)
      /\ Len(rest) = IF from + 1 <= Len(rows) THEN Len(rows) - (from + 1) + 1 ELSE 0
      /\ \A i \in 1 .. Len(rows) - (from + 1) + 1 : rest[i] = rows[(from + 1) + i - 1]
  BY <1>1, <1>2, SubSeqProperties
<1>. HIDE DEF rest
<1>4. Len(rest) = Len(rows) - from
  BY <1>1, <1>3
<1>5. \A i \in 1 .. Len(rest) : i \in 1 .. Len(rows) - (from + 1) + 1 /\ (from + 1) + i - 1 = from + i
  BY <1>1, <1>4
<1>6. \A i \in 1 .. Len(rest) : rest[i] = rows[from + i]
  BY <1>3, <1>5
<1>7. IsSlice(rest, rows, from)
  BY <1>1, <1>4, <1>6 DEF IsSlice
<1>. QED
  BY <1>3, <1>4, <1>7 DEF rest
=============================================================================
