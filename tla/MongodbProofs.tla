---------------------------- MODULE MongodbProofs ----------------------------
(***************************************************************************)
(* Proofs about the MongoDB pull stream and its eager collection, for      *)
(* every result, every limit and every fault.                              *)
(***************************************************************************)
EXTENDS CollectedStream, StreamLemmas

-----------------------------------------------------------------------------
(***************************************************************************)
(* The inductive invariant of the stream.                                  *)
(***************************************************************************)
Types ==
  /\ result \in Seq(ResultRow) /\ options \in ExecutionOptions
  /\ pc \in {"new", "idle", "pulling", "closed"}
  /\ cancelled \in BOOLEAN /\ cursor \in BOOLEAN
  /\ pending \in Seq(ResultRow) /\ Len(pending) <= 1
  /\ fetched \in 0 .. Len(result)
  /\ driver \in Seq(ResultRow) /\ batch \in Seq(ResultRow) /\ seen \in Seq(ResultRow)
  /\ batchBytes \in Nat
  /\ last \in {"new", "opened", "batch", "none", "error"}
  /\ failedAt \in 0 .. Len(seen) \cup {Unlimited}

\* Where rows may be: in the batch only while it is prepared, kept back only in between,
\* and nowhere without a cursor; a cursor only on a stream that is open and not over.
Places ==
  /\ pc # "pulling" => batch = <<>>
  /\ pc = "pulling" => pending = <<>> /\ ~ cancelled
  /\ ~ cursor => pending = <<>> /\ batch = <<>> /\ driver = <<>>
  /\ cursor => pc \in {"idle", "pulling"} /\ ~ cancelled /\ last # "none"
  /\ pc \in {"idle", "pulling"} => Target # 0
  /\ pc = "new" => last = "new" /\ seen = <<>> /\ ~ cancelled /\ ~ Failed

Bounds ==
  /\ pc = "pulling" =>
       Len(batch) <= Target /\ batchBytes = TotalBytes(batch) /\ ~ ExceedsBytes(options, batchBytes)
  /\ ~ ExceedsBytes(options, TotalBytes(pending))

Increasing(rows) == \A i, j \in DOMAIN rows : i < j => rows[i].id < rows[j].id

Precedes(rows, more) == \A i \in DOMAIN rows, j \in DOMAIN more : rows[i].id < more[j].id

\* The documents the stream has consumed.
Consumed == fetched - Len(driver)

\* The rows come before everything that follows the first n of `all`.
Early(rows, all, n) == \A i \in DOMAIN rows, k \in n + 1 .. Len(all) : rows[i].id < all[k].id

\* Errors may have cost rows; the order is kept all the same.
Order ==
  /\ Increasing(result)
  /\ IsSlice(driver, result, Consumed) /\ Consumed \in 0 .. Len(result)
  /\ Increasing(seen) /\ Early(seen, result, Consumed)
  /\ Increasing(batch) /\ Early(batch, result, Consumed) /\ Precedes(seen, batch)
  /\ Early(pending, result, Consumed) /\ Precedes(seen, pending)

\* Without an error nothing is missing: what was seen, the batch and the row kept back are
\* what has been consumed, and the end of the cursor is the end of the result.
Whole ==
  /\ ~ Failed => IsSlice(seen, result, 0)
  /\ ~ Failed /\ ~ cancelled /\ pc # "closed" =>
       /\ IsSlice(batch, result, Len(seen))
       /\ IsSlice(pending, result, Len(seen) + Len(batch))
       /\ Consumed = Len(seen) + Len(batch) + Len(pending)
  /\ ~ Failed /\ ~ cancelled /\ pc \in {"idle", "pulling"} /\ ~ cursor => fetched = Len(result)

MInv == Types /\ Places /\ Bounds /\ Order /\ Whole

-----------------------------------------------------------------------------
(***************************************************************************)
(* The inductive invariant of the collection.                              *)
(***************************************************************************)
CollectPhases == {"off", "running", "done", "failed", "refused"}

\* The collection holds the rows since it began, up to the batch it has been given.
Collecting ==
  /\ collect \in CollectPhases /\ limits \in [maxRows : Nat, maxBytes : Nat]
  /\ asked \in BOOLEAN /\ origin \in 0 .. Len(seen) /\ collected \in Seq(ResultRow)
  /\ WithinLimits(collected)
  /\ collect # "running" => ~ asked
  /\ collect = "off" => collected = <<>>
  /\ collect = "running" =>
       /\ pc \in {"idle", "pulling"} /\ (pc = "pulling" => asked)
       /\ IsSlice(collected, seen, origin)
       /\ ~ (asked /\ pc = "idle" /\ last = "batch") => origin + Len(collected) = Len(seen)


-----------------------------------------------------------------------------
(***************************************************************************)
(* The order of rows.                                                      *)
(***************************************************************************)

\* Rows that are early stay early when more is consumed.
LEMMA EarlyLater ==
  ASSUME NEW rows, NEW all, NEW n \in Nat, NEW m \in Nat, n <= m, Early(rows, all, n), Len(all) \in Nat
  PROVE  Early(rows, all, m)
<1>1. \A k \in m + 1 .. Len(all) : k \in n + 1 .. Len(all)
  OBVIOUS
<1>. QED
  BY <1>1 DEF Early

\* No rows are in any order.
LEMMA EmptyOrder ==
  ASSUME NEW rows, NEW all, NEW n
  PROVE  /\ Increasing(<<>>) /\ Early(<<>>, all, n)
         /\ Precedes(<<>>, rows) /\ Precedes(rows, <<>>)
<1>1. DOMAIN <<>> = {}
  OBVIOUS
<1>. QED
  BY <1>1 DEF Increasing, Early, Precedes

\* Rows that precede others, together with them.
LEMMA ConcatOrder ==
  ASSUME NEW s \in Seq(ResultRow), NEW u \in Seq(ResultRow), Increasing(s), Increasing(u), Precedes(s, u),
         NEW all, NEW n, Early(s, all, n), Early(u, all, n)
  PROVE  Increasing(s \o u) /\ Early(s \o u, all, n)
<1>. DEFINE v == s \o u
<1>1. /\ v \in Seq(ResultRow) /\ Len(v) = Len(s) + Len(u)
      /\ \A i \in 1 .. Len(s) + Len(u) : v[i] = IF i <= Len(s) THEN s[i] ELSE u[i - Len(s)]
  BY ConcatProperties
<1>. HIDE DEF v
<1>2. Len(s) \in Nat /\ Len(u) \in Nat /\ DOMAIN s = 1 .. Len(s) /\ DOMAIN u = 1 .. Len(u)
  BY LenProperties
<1>3. DOMAIN v = 1 .. Len(s) + Len(u)
  BY <1>1, LenProperties
<1>4. ASSUME NEW i \in DOMAIN v
      PROVE  \/ i <= Len(s) /\ i \in DOMAIN s /\ v[i] = s[i]
             \/ ~ (i <= Len(s)) /\ i - Len(s) \in DOMAIN u /\ v[i] = u[i - Len(s)]
  BY <1>1, <1>2, <1>3
<1>5. Increasing(v)
  <2>1. SUFFICES ASSUME NEW i \in DOMAIN v, NEW j \in DOMAIN v, i < j PROVE v[i].id < v[j].id
    BY DEF Increasing
  <2>2. i \in Nat /\ j \in Nat
    BY <1>2, <1>3
  <2>3. CASE j <= Len(s)
    <3>1. i \in DOMAIN s /\ j \in DOMAIN s /\ v[i] = s[i] /\ v[j] = s[j]
      BY <1>2, <1>4, <2>1, <2>2, <2>3
    <3>. QED
      BY <2>1, <3>1 DEF Increasing
  <2>4. CASE i <= Len(s) /\ ~ (j <= Len(s))
    <3>1. i \in DOMAIN s /\ v[i] = s[i] /\ j - Len(s) \in DOMAIN u /\ v[j] = u[j - Len(s)]
      BY <1>4, <2>4
    <3>. QED
      BY <3>1 DEF Precedes
  <2>5. CASE ~ (i <= Len(s))
    <3>1. /\ i - Len(s) \in DOMAIN u /\ v[i] = u[i - Len(s)]
          /\ j - Len(s) \in DOMAIN u /\ v[j] = u[j - Len(s)]
          /\ i - Len(s) < j - Len(s)
      BY <1>2, <1>4, <2>1, <2>2, <2>5
    <3>. QED
      BY <3>1 DEF Increasing
  <2>. QED
    BY <1>2, <2>2, <2>3, <2>4, <2>5
<1>6. Early(v, all, n)
  <2>1. SUFFICES ASSUME NEW i \in DOMAIN v, NEW k \in n + 1 .. Len(all) PROVE v[i].id < all[k].id
    BY DEF Early
  <2>. QED
    BY <1>4 DEF Early
<1>. QED
  BY <1>5, <1>6 DEF v

\* The first row that has not been consumed follows the early ones and precedes the rest.
LEMMA NextInOrder ==
  ASSUME NEW all \in Seq(ResultRow), Increasing(all), NEW n \in Nat, n < Len(all),
         NEW s \in Seq(ResultRow), Early(s, all, n)
  PROVE  LET x == all[n + 1] IN
         /\ Early(<<x>>, all, n + 1) /\ Precedes(s, <<x>>)
         /\ Increasing(s) => Increasing(Append(s, x)) /\ Early(Append(s, x), all, n + 1)
<1>. DEFINE x == all[n + 1]
<1>1. Len(all) \in Nat /\ DOMAIN all = 1 .. Len(all)
  BY LenProperties
<1>2. n + 1 \in n + 1 .. Len(all) /\ n + 1 \in DOMAIN all /\ n + 1 \in Nat /\ n <= n + 1
  BY <1>1
<1>3. x \in ResultRow
  BY <1>1, <1>2, ElementOfSeq
<1>4. <<x>> \in Seq(ResultRow) /\ DOMAIN <<x>> = {1} /\ <<x>>[1] = x
  BY <1>3
<1>5. \A k \in (n + 1) + 1 .. Len(all) : k \in DOMAIN all /\ n + 1 < k
  BY <1>1
<1>6. \A k \in (n + 1) + 1 .. Len(all) : x.id < all[k].id
  BY <1>2, <1>5 DEF Increasing
<1>7. \A i \in DOMAIN s : s[i].id < x.id
  BY <1>2 DEF Early
<1>. HIDE DEF x
<1>8. Early(<<x>>, all, n + 1) /\ Precedes(s, <<x>>)
  BY <1>4, <1>6, <1>7 DEF Early, Precedes
<1>9. Increasing(<<x>>)
  BY <1>4 DEF Increasing
<1>10. Early(s, all, n + 1)
  BY <1>1, <1>2, EarlyLater
<1>11. Append(s, x) = s \o <<x>>
  BY <1>3, AppendIsConcat
<1>12. Increasing(s) => Increasing(s \o <<x>>) /\ Early(s \o <<x>>, all, n + 1)
  BY <1>4, <1>8, <1>9, <1>10, ConcatOrder
<1>. QED
  BY <1>8, <1>11, <1>12 DEF x

\* Rows that precede a batch and its next row precede the longer batch.
LEMMA PrecedesAppend ==
  ASSUME NEW s, NEW u \in Seq(ResultRow), NEW x \in ResultRow, Precedes(s, u), Precedes(s, <<x>>)
  PROVE  Precedes(s, Append(u, x))
<1>. DEFINE v == Append(u, x)
<1>1. v \in Seq(ResultRow) /\ Len(v) = Len(u) + 1 /\ (\A i \in 1 .. Len(u) : v[i] = u[i]) /\ v[Len(u) + 1] = x
  BY AppendProperties
<1>. HIDE DEF v
<1>2. Len(u) \in Nat /\ DOMAIN u = 1 .. Len(u) /\ DOMAIN v = 1 .. Len(u) + 1
  BY <1>1, LenProperties
<1>3. 1 \in DOMAIN <<x>> /\ <<x>>[1] = x
  OBVIOUS
<1>4. ASSUME NEW i \in DOMAIN s, NEW j \in DOMAIN v PROVE s[i].id < v[j].id
  <2>1. CASE j \in DOMAIN u
    BY <1>1, <1>2, <2>1 DEF Precedes
  <2>2. CASE j = Len(u) + 1
    BY <1>1, <1>3, <2>2 DEF Precedes
  <2>. QED
    BY <1>2, <2>1, <2>2
<1>5. Precedes(s, v)
  BY <1>4 DEF Precedes
<1>. QED
  BY <1>5 DEF v

-----------------------------------------------------------------------------
(***************************************************************************)
(* What the invariant says of the lengths and of the row at hand.          *)
(***************************************************************************)

\* All lengths are numbers, and one row kept back counts its own bytes.
LEMMA Lengths ==
  ASSUME MInv
  PROVE  /\ Len(result) \in Nat /\ Len(seen) \in Nat /\ Len(batch) \in Nat /\ Len(pending) \in Nat
         /\ Len(driver) \in Nat /\ fetched \in Nat /\ fetched <= Len(result) /\ Target \in Nat
         /\ Consumed \in Nat /\ Consumed <= Len(result) /\ Consumed + Len(driver) = fetched
         /\ (pending = <<>>) <=> Len(pending) = 0
         /\ (batch = <<>>) <=> Len(batch) = 0
         /\ (driver = <<>>) <=> Len(driver) = 0
<1>1. /\ result \in Seq(ResultRow) /\ seen \in Seq(ResultRow) /\ batch \in Seq(ResultRow)
      /\ pending \in Seq(ResultRow) /\ driver \in Seq(ResultRow) /\ fetched \in 0 .. Len(result)
  BY DEF MInv, Types
<1>2. /\ Len(result) \in Nat /\ Len(seen) \in Nat /\ Len(batch) \in Nat /\ Len(pending) \in Nat
      /\ Len(driver) \in Nat
  BY <1>1, LenProperties
<1>3. Target \in Nat
  BY DEF MInv, Types, Target, RowTarget, ExecutionOptions, Limit
<1>4. fetched \in Nat /\ fetched <= Len(result)
  BY <1>1, <1>2
<1>5. Consumed \in 0 .. Len(result)
  BY DEF MInv, Order
<1>6. Consumed \in Nat /\ Consumed <= Len(result) /\ Consumed + Len(driver) = fetched
  BY <1>2, <1>4, <1>5 DEF Consumed
<1>7. /\ (pending = <<>>) <=> Len(pending) = 0
      /\ (batch = <<>>) <=> Len(batch) = 0
      /\ (driver = <<>>) <=> Len(driver) = 0
  BY <1>1, EmptySeq
<1>. QED
  BY <1>2, <1>3, <1>4, <1>6, <1>7

\* The driver's first document is the first that has not been consumed.
LEMMA HeadFacts ==
  ASSUME MInv, driver # <<>>
  PROVE  /\ Consumed < Len(result) /\ Head(driver) = result[Consumed + 1]
         /\ Head(driver) \in ResultRow /\ Head(driver).bytes \in Nat
         /\ Tail(driver) \in Seq(ResultRow) /\ Len(Tail(driver)) \in Nat
         /\ fetched - Len(Tail(driver)) = Consumed + 1
         /\ IsSlice(Tail(driver), result, Consumed + 1)
<1>1. /\ result \in Seq(ResultRow) /\ driver \in Seq(ResultRow)
      /\ IsSlice(driver, result, Consumed) /\ Consumed \in 0 .. Len(result)
  BY DEF MInv, Types, Order
<1>2. /\ Len(driver) > 0 /\ Consumed + 1 \in 1 .. Len(result) /\ Head(driver) = result[Consumed + 1]
      /\ IsSlice(Tail(driver), result, Consumed + 1)
  BY <1>1, SliceSteps
<1>3. Tail(driver) \in Seq(ResultRow) /\ Len(Tail(driver)) = Len(driver) - 1
  BY <1>1, HeadTailProperties
<1>4. result[Consumed + 1] \in ResultRow /\ result[Consumed + 1].bytes \in Nat
  BY <1>1, <1>2, RowsOfSeq
<1>5. Len(driver) \in Nat /\ Consumed \in Nat /\ Len(result) \in Nat /\ fetched \in Nat /\ Consumed + Len(driver) = fetched
  BY Lengths
<1>6. Consumed < Len(result) /\ Len(Tail(driver)) \in Nat /\ fetched - Len(Tail(driver)) = Consumed + 1
  BY <1>2, <1>3, <1>5
<1>. QED
  BY <1>2, <1>3, <1>4, <1>6

\* The bytes of a single row.
LEMMA SingleRow ==
  ASSUME NEW x \in ResultRow
  PROVE  <<x>> \in Seq(ResultRow) /\ Len(<<x>>) = 1 /\ <<x>> # <<>> /\ TotalBytes(<<x>>) = x.bytes
<1>1. <<>> \in Seq(ResultRow) /\ TotalBytes(<<>>) = 0
  BY TotalBytesFacts, EmptySeq
<1>2. Append(<<>>, x) = <<x>>
  OBVIOUS
<1>3. TotalBytes(Append(<<>>, x)) = TotalBytes(<<>>) + x.bytes
  BY <1>1, TotalBytesFacts
<1>4. x.bytes \in Nat
  BY DEF ResultRow
<1>5. <<x>> \in Seq(ResultRow) /\ Len(<<x>>) = 1 /\ <<x>> # <<>>
  OBVIOUS
<1>. QED
  BY <1>1, <1>2, <1>3, <1>4, <1>5

\* Nothing is within every byte limit.
LEMMA NoBytes ==
  ASSUME options \in ExecutionOptions
  PROVE  TotalBytes(<<>>) = 0 /\ ~ ExceedsBytes(options, 0)
<1>1. TotalBytes(<<>>) = 0
  BY TotalBytesFacts, EmptySeq
<1>. QED
  BY <1>1 DEF ExceedsBytes, ExecutionOptions, Limit

-----------------------------------------------------------------------------
(***************************************************************************)
(* The steps of the stream.                                                *)
(***************************************************************************)

\* What a call's outcome is remembered as; the first error is remembered for good.
LEMMA OutcomeFacts ==
  ASSUME MInv, NEW value \in {"opened", "batch", "none", "error"}, Returned(value)
  PROVE  /\ last' = value
         /\ failedAt' \in 0 .. Len(seen) \cup {Unlimited}
         /\ ~ Failed' => ~ Failed /\ value # "error"
<1>1. failedAt \in 0 .. Len(seen) \cup {Unlimited} /\ Len(seen) \in Nat /\ Len(seen) \in 0 .. Len(seen)
  BY Lengths DEF MInv, Types
<1>2. Len(seen) # Unlimited
  BY <1>1, UnlimitedAssumption
<1>. QED
  BY <1>1, <1>2 DEF Returned, Failed

\* The invariant holds initially.
LEMMA InitInv == Init => MInv
<1>. SUFFICES ASSUME Init PROVE MInv
  OBVIOUS
<1>1. result \in Results /\ result \in Seq(ResultRow) /\ options \in ExecutionOptions
  BY RequestAssumption DEF Init
<1>2. Len(result) \in Nat /\ <<>> \in Seq(ResultRow) /\ Len(<<>>) = 0
  BY <1>1, LenProperties, EmptySeq
<1>3. Types
  <2>1. Len(pending) <= 1 /\ Len(<<>>) \in Nat
    BY <1>2 DEF Init
  <2>2. fetched \in 0 .. Len(result) /\ batchBytes \in Nat
    BY <1>2 DEF Init
  <2>3. /\ pending \in Seq(ResultRow) /\ driver \in Seq(ResultRow) /\ batch \in Seq(ResultRow)
        /\ seen \in Seq(ResultRow)
    BY <1>2 DEF Init
  <2>. QED
    BY <1>1, <2>1, <2>2, <2>3 DEF Init, Types
<1>4. Places
  BY DEF Init, Places, Failed
<1>5. Bounds
  BY <1>1, NoBytes DEF Init, Bounds
<1>6. Consumed = 0
  <2>1. fetched = 0 /\ Len(driver) = 0
    BY <1>2 DEF Init
  <2>. QED
    BY <2>1 DEF Consumed
<1>7. Order
  <2>1. Increasing(result)
    BY <1>1, OrderAssumption DEF Increasing
  <2>2. IsSlice(<<>>, result, 0)
    BY <1>2 DEF IsSlice
  <2>. QED
    BY <1>2, <1>6, <2>1, <2>2, EmptyOrder DEF Init, Order
<1>8. Whole
  <2>1. IsSlice(<<>>, result, 0) /\ IsSlice(<<>>, result, 0 + 0)
    BY <1>2 DEF IsSlice
  <2>. QED
    BY <1>2, <1>6, <2>1 DEF Init, Whole
<1>. QED
  BY <1>3, <1>4, <1>5, <1>7, <1>8 DEF MInv

\* Calls that return at once: nothing moves.
LEMMA AtOnceInv ==
  ASSUME MInv, pc # "pulling",
         UNCHANGED <<result, options, fetched, driver, cancelled, cursor, pending, seen>>, batch' = <<>>,
         batchBytes' \in Nat,
         NEW value \in {"none", "error"}, Returned(value), value = "none" => ~ cursor,
         pc' = IF pc = "new" THEN "closed" ELSE pc
  PROVE  MInv'
<1>1. /\ last' = value /\ failedAt' \in 0 .. Len(seen) \cup {Unlimited}
      /\ ~ Failed' => ~ Failed /\ value # "error"
  BY OutcomeFacts
<1>2. batch = <<>> /\ batch' = batch
  BY DEF MInv, Places
<1>3. Types'
  BY <1>1, <1>2 DEF MInv, Types
<1>4. Places'
  BY <1>1, <1>2 DEF MInv, Places, Types, Target
<1>5. Bounds'
  BY DEF MInv, Bounds, Types
<1>6. Consumed' = Consumed
  BY DEF Consumed
<1>7. Order'
  BY <1>2, <1>6 DEF MInv, Order, Increasing, Early, Precedes
<1>8. Whole'
  BY <1>1, <1>2, <1>6 DEF MInv, Whole, Places
<1>. QED
  BY <1>3, <1>4, <1>5, <1>7, <1>8 DEF MInv

\* Cancelling and dropping let go of everything that has not been handed over.
LEMMA ReleaseInv ==
  ASSUME MInv, Cancel \/ Drop
  PROVE  MInv'
<1>1. /\ pc = "idle" /\ pending' = <<>> /\ driver' = <<>> /\ cursor' = FALSE
      /\ UNCHANGED <<result, options, fetched, batch, batchBytes, last, failedAt, seen>>
      /\ \/ cancelled' = TRUE /\ pc' = "idle"
         \/ cancelled' = cancelled /\ pc' = "closed"
  BY DEF Cancel, Drop, batchVars, callVars
<1>2. batch = <<>>
  BY <1>1 DEF MInv, Places
<1>3. /\ Len(result) \in Nat /\ fetched \in Nat /\ Consumed \in Nat /\ Len(driver) \in Nat
      /\ Consumed + Len(driver) = fetched /\ fetched <= Len(result)
  BY Lengths
<1>4. Types'
  <2>1. <<>> \in Seq(ResultRow) /\ Len(<<>>) <= 1
    OBVIOUS
  <2>2. pending' \in Seq(ResultRow) /\ Len(pending') <= 1 /\ driver' \in Seq(ResultRow)
    BY <1>1, <2>1
  <2>. QED
    BY <1>1, <2>2 DEF MInv, Types
<1>5. Places'
  BY <1>1, <1>2 DEF MInv, Places, Target
<1>6. Bounds'
  BY <1>1, NoBytes DEF MInv, Bounds, Types
<1>7. Consumed' = fetched /\ Consumed <= fetched /\ fetched \in 0 .. Len(result)
  BY <1>1, <1>3 DEF Consumed
<1>8. Order'
  <2>1. Early(seen, result, fetched) /\ Early(batch, result, fetched)
    BY <1>3, <1>7, EarlyLater DEF MInv, Order
  <2>2. IsSlice(<<>>, result, fetched)
    BY <1>7, SliceSteps, EmptySeq DEF MInv, Types
  <2>3. Early(<<>>, result, fetched) /\ Precedes(seen, <<>>)
    BY EmptyOrder
  <2>4. Increasing(result) /\ Increasing(seen) /\ Increasing(batch) /\ Precedes(seen, batch)
    BY DEF MInv, Order
  <2>. QED
    BY <1>1, <1>7, <2>1, <2>2, <2>3, <2>4 DEF Order
<1>9. Whole'
  BY <1>1 DEF MInv, Whole, Failed
<1>. QED
  BY <1>4, <1>5, <1>6, <1>8, <1>9 DEF MInv

\* A page continues the result where the last one ended.
LEMMA PageInv ==
  ASSUME MInv, driver = <<>>, FetchPage, UNCHANGED <<result, options, cancelled, pending, batch, batchBytes, seen>>,
         cursor' = TRUE, ~ cancelled, last' # "none", last' \in {"new", "opened", "batch", "none", "error"},
         failedAt' = failedAt, pc' \in {"idle", "pulling"}, Target # 0,
         pc' = "pulling" => pc = "pulling", pc' = "idle" => pc # "pulling", pc # "closed"
  PROVE  MInv'
<1>. DEFINE page == NextPage(result, fetched, DriverBatchRows)
<1>1. driver' = page /\ fetched' = fetched + Len(page)
  BY DEF FetchPage
<1>2. /\ Len(result) \in Nat /\ fetched \in 0 .. Len(result) /\ Target \in Nat /\ Len(driver) = 0
      /\ result \in Seq(ResultRow) /\ fetched \in Nat
  BY Lengths DEF MInv, Types
<1>3. DriverBatchRows \in Nat
  BY <1>2, FetchAssumption DEF DriverBatchRows
<1>4. page \in Seq(ResultRow) /\ IsSlice(page, result, fetched) /\ fetched + Len(page) \in 0 .. Len(result)
  BY <1>2, <1>3, PageFacts
<1>5. Len(page) \in Nat
  BY <1>4, LenProperties
<1>. HIDE DEF page
<1>6. Consumed = fetched /\ Consumed' = fetched
  BY <1>1, <1>2, <1>5 DEF Consumed
<1>7. Types'
  BY <1>1, <1>4 DEF MInv, Types
<1>8. Places'
  BY DEF MInv, Places, Target
<1>9. Bounds'
  BY DEF MInv, Bounds, Target
<1>10. Order'
  BY <1>1, <1>2, <1>4, <1>6 DEF MInv, Order, Increasing, Early, Precedes
<1>11. Whole'
  BY <1>6 DEF MInv, Whole, Failed
<1>. QED
  BY <1>7, <1>8, <1>9, <1>10, <1>11 DEF MInv

\* Opening a stream, and the driver asking for another page.
LEMMA FetchInv ==
  ASSUME MInv, Open \/ Refill
  PROVE  MInv'
<1>1. CASE Refill
  <2>1. /\ pc = "pulling" /\ cursor /\ driver = <<>> /\ FetchPage
        /\ UNCHANGED <<result, options, pc, cancelled, cursor, pending, batch, batchBytes, last, failedAt, seen>>
    BY <1>1 DEF Refill, NeedsRow, batchVars, callVars
  <2>2. ~ cancelled /\ last # "none" /\ last \in {"new", "opened", "batch", "none", "error"} /\ Target # 0
        /\ cursor = TRUE
    BY <2>1 DEF MInv, Places, Types
  <2>. QED
    BY <2>1, <2>2, PageInv
<1>2. CASE Open
  <2>1. /\ pc = "new" /\ UNCHANGED <<result, options, cancelled, pending, batch, batchBytes, seen>>
        /\ \/ Target # 0 /\ FetchPage /\ pc' = "idle" /\ cursor' = TRUE /\ Returned("opened")
           \/ pc' = "closed" /\ Returned("error") /\ UNCHANGED <<cursor, driver, fetched>>
    BY <1>2 DEF Open, batchVars
  <2>2. /\ ~ cursor /\ driver = <<>> /\ batch = <<>> /\ ~ cancelled /\ ~ Failed /\ batchBytes \in Nat
    BY <2>1 DEF MInv, Places, Types
  <2>3. CASE Returned("error") /\ pc' = "closed" /\ UNCHANGED <<cursor, driver, fetched>>
    BY <2>1, <2>2, <2>3, AtOnceInv
  <2>4. CASE Target # 0 /\ FetchPage /\ pc' = "idle" /\ cursor' = TRUE /\ Returned("opened")
    <3>1. last' = "opened" /\ failedAt' = failedAt
      BY <2>4 DEF Returned
    <3>. QED
      BY <2>1, <2>2, <2>4, <3>1, PageInv
  <2>. QED
    BY <2>1, <2>3, <2>4
<1>. QED
  BY <1>1, <1>2

\* The row kept back opens the batch; it fits, for it was not too large alone.
LEMMA StartPullInv ==
  ASSUME MInv, StartPull
  PROVE  MInv'
<1>1. /\ pc = "idle" /\ ~ cancelled /\ pc' = "pulling" /\ batch' = pending /\ batchBytes' = TotalBytes(pending)
      /\ pending' = <<>>
      /\ UNCHANGED <<result, options, fetched, driver, cancelled, cursor, last, failedAt, seen>>
  BY DEF StartPull, serverVars, callVars
<1>2. batch = <<>> /\ Target # 0
  BY <1>1 DEF MInv, Places
<1>3. /\ Len(pending) <= 1 /\ Len(pending) \in Nat /\ Target \in Nat /\ Len(batch) = 0 /\ Len(seen) \in Nat
      /\ Len(result) \in Nat
  BY <1>2, Lengths DEF MInv, Types
<1>4. pending \in Seq(ResultRow) /\ <<>> \in Seq(ResultRow) /\ Len(<<>>) = 0 /\ result \in Seq(ResultRow)
  BY EmptySeq DEF MInv, Types
<1>5. Types'
  <2>1. TotalBytes(pending) \in Nat
    BY <1>4, TotalBytesFacts
  <2>2. pending' \in Seq(ResultRow) /\ Len(pending') <= 1
    BY <1>1, <1>4
  <2>. QED
    BY <1>1, <1>4, <2>1, <2>2 DEF MInv, Types
<1>6. Places'
  BY <1>1, <1>2 DEF MInv, Places, Target
<1>7. Bounds'
  <2>1. Len(pending) <= Target
    BY <1>2, <1>3
  <2>2. ~ ExceedsBytes(options, TotalBytes(pending)) /\ ~ ExceedsBytes(options, TotalBytes(<<>>))
    BY NoBytes DEF MInv, Bounds, Types
  <2>. QED
    BY <1>1, <2>1, <2>2 DEF Bounds, Target
<1>8. Consumed' = Consumed
  BY <1>1 DEF Consumed
<1>9. Order'
  <2>1. Increasing(pending)
    <3>1. DOMAIN pending = 1 .. Len(pending)
      BY <1>4, LenProperties
    <3>2. \A i, j \in DOMAIN pending : ~ (i < j)
      BY <1>3, <3>1
    <3>. QED
      BY <3>2 DEF Increasing
  <2>2. Early(<<>>, result, Consumed) /\ Precedes(seen, <<>>)
    BY EmptyOrder
  <2>3. /\ Increasing(result) /\ IsSlice(driver, result, Consumed) /\ Consumed \in 0 .. Len(result)
        /\ Increasing(seen) /\ Early(seen, result, Consumed)
        /\ Early(pending, result, Consumed) /\ Precedes(seen, pending)
    BY DEF MInv, Order
  <2>. QED
    BY <1>1, <1>8, <2>1, <2>2, <2>3 DEF Order
<1>10. Whole'
  <2>1. ASSUME ~ Failed
        PROVE  /\ IsSlice(pending, result, Len(seen)) /\ Consumed = Len(seen) + Len(pending) + 0
               /\ IsSlice(<<>>, result, Len(seen) + Len(pending))
    <3>1. /\ IsSlice(pending, result, Len(seen) + Len(batch))
          /\ Consumed = Len(seen) + Len(batch) + Len(pending)
      BY <1>1, <2>1 DEF MInv, Whole
    <3>2. Len(seen) + Len(batch) = Len(seen) /\ Consumed = Len(seen) + Len(pending)
      BY <1>3, <3>1
    <3>3. Len(seen) + Len(pending) \in 0 .. Len(result)
      BY <1>3, <3>1, <3>2 DEF IsSlice
    <3>4. IsSlice(<<>>, result, Len(seen) + Len(pending))
      BY <1>4, <3>3, SliceSteps
    <3>. QED
      BY <1>3, <3>1, <3>2, <3>4
  <2>2. Len(pending') = 0 /\ Failed' = Failed
    BY <1>1, <1>4 DEF Failed
  <2>. QED
    BY <1>1, <1>8, <2>1, <2>2 DEF MInv, Whole
<1>. QED
  BY <1>5, <1>6, <1>7, <1>9, <1>10 DEF MInv

\* An error loses the batch, and may consume documents; the order stays.
LEMMA ErrorInv ==
  ASSUME MInv, pc = "pulling", pc' = "idle", batch' = <<>>, batchBytes' = 0, Returned("error"),
         UNCHANGED <<result, options, cancelled, cursor, pending, seen>>,
         driver' \in Seq(ResultRow), fetched' \in 0 .. Len(result),
         Consumed' \in 0 .. Len(result), Consumed <= Consumed', IsSlice(driver', result, Consumed'),
         ~ cursor => driver' = <<>>
  PROVE  MInv'
<1>1. /\ last' = "error" /\ failedAt' \in 0 .. Len(seen) \cup {Unlimited} /\ Failed'
  BY OutcomeFacts
<1>2. <<>> \in Seq(ResultRow)
  BY EmptySeq
<1>3. Types'
  BY <1>1, <1>2 DEF MInv, Types
<1>4. Places'
  BY <1>1 DEF MInv, Places, Target
<1>5. Bounds'
  BY DEF MInv, Bounds, Target
<1>6. Order'
  <2>1. Consumed \in Nat /\ Consumed' \in Nat /\ Len(result) \in Nat
    BY Lengths
  <2>2. Early(seen, result, Consumed') /\ Early(pending, result, Consumed')
    BY <2>1, EarlyLater DEF MInv, Order
  <2>3. Increasing(<<>>) /\ Early(<<>>, result, Consumed') /\ Precedes(seen, <<>>)
    BY EmptyOrder
  <2>4. Increasing(result) /\ Increasing(seen) /\ Precedes(seen, pending)
    BY DEF MInv, Order
  <2>. QED
    BY <2>2, <2>3, <2>4 DEF Order
<1>7. Whole'
  BY <1>1 DEF Whole
<1>. QED
  BY <1>3, <1>4, <1>5, <1>6, <1>7 DEF MInv

\* A rejected document and a failure of the driver or the clock.
LEMMA FailuresInv ==
  ASSUME MInv, RejectRow \/ PullFails
  PROVE  MInv'
<1>1. CASE RejectRow
  <2>1. /\ pc = "pulling" /\ pc' = "idle" /\ batch' = <<>> /\ batchBytes' = 0 /\ Returned("error") /\ cursor
        /\ driver # <<>> /\ driver' = Tail(driver)
        /\ UNCHANGED <<result, options, fetched, cancelled, cursor, pending, seen>>
    BY <1>1 DEF RejectRow, RowAtHand, NeedsRow, Return
  <2>2. /\ Tail(driver) \in Seq(ResultRow) /\ fetched - Len(Tail(driver)) = Consumed + 1
        /\ IsSlice(Tail(driver), result, Consumed + 1) /\ Consumed < Len(result)
    BY <2>1, HeadFacts
  <2>3. Consumed \in Nat /\ Len(result) \in Nat /\ fetched \in 0 .. Len(result)
    BY Lengths DEF MInv, Types
  <2>4. Consumed' = Consumed + 1
    BY <2>1, <2>2 DEF Consumed
  <2>5. Consumed' \in 0 .. Len(result) /\ Consumed <= Consumed'
    BY <2>2, <2>3, <2>4
  <2>6. fetched' \in 0 .. Len(result) /\ driver' \in Seq(ResultRow) /\ IsSlice(driver', result, Consumed')
    BY <2>1, <2>2, <2>3, <2>4
  <2>. QED
    BY <2>1, <2>5, <2>6, ErrorInv
<1>2. CASE PullFails
  <2>1. /\ pc = "pulling" /\ pc' = "idle" /\ batch' = <<>> /\ batchBytes' = 0 /\ Returned("error")
        /\ UNCHANGED <<result, options, driver, cancelled, cursor, pending, seen>>
        /\ fetched' = fetched \/ (driver = <<>> /\ fetched' = Len(result))
    BY <1>2 DEF PullFails, NeedsRow, Return
  <2>2. /\ Consumed \in Nat /\ Len(result) \in Nat /\ fetched \in Nat /\ fetched <= Len(result)
        /\ Len(driver) \in Nat /\ Consumed + Len(driver) = fetched
        /\ (driver = <<>>) <=> Len(driver) = 0
    BY Lengths
  <2>3. /\ driver \in Seq(ResultRow) /\ IsSlice(driver, result, Consumed) /\ (~ cursor => driver = <<>>)
        /\ Consumed \in 0 .. Len(result) /\ result \in Seq(ResultRow)
    BY DEF MInv, Types, Order, Places
  <2>4. fetched' \in 0 .. Len(result) /\ Consumed' = fetched' - Len(driver)
    BY <2>1, <2>2 DEF Consumed
  <2>5. Consumed' \in 0 .. Len(result) /\ Consumed <= Consumed'
    BY <2>1, <2>2, <2>4
  <2>6. IsSlice(driver', result, Consumed')
    <3>1. CASE fetched' = fetched
      <4>1. Consumed' = Consumed
        BY <2>2, <2>4, <3>1
      <4>. QED
        BY <2>1, <2>3, <4>1
    <3>2. CASE driver = <<>>
      BY <2>1, <2>3, <2>5, <3>2, SliceSteps
    <3>. QED
      BY <2>1, <3>1, <3>2
  <2>. QED
    BY <2>1, <2>3, <2>4, <2>5, <2>6, ErrorInv
<1>. QED
  BY <1>1, <1>2

\* What the consumer has seen once the batch is handed over.
LEMMA HandedOver ==
  ASSUME MInv, pc = "pulling"
  PROVE  /\ seen \o batch \in Seq(ResultRow) /\ Len(seen \o batch) \in Nat
         /\ Len(seen \o batch) = Len(seen) + Len(batch)
         /\ Increasing(seen \o batch) /\ Early(seen \o batch, result, Consumed)
         /\ ~ Failed => /\ IsSlice(seen \o batch, result, 0)
                        /\ Consumed = Len(seen \o batch)
<1>1. seen \in Seq(ResultRow) /\ batch \in Seq(ResultRow) /\ result \in Seq(ResultRow)
  BY DEF MInv, Types
<1>2. Len(seen) \in Nat /\ Len(batch) \in Nat
  BY Lengths
<1>3. seen \o batch \in Seq(ResultRow) /\ Len(seen \o batch) = Len(seen) + Len(batch)
  BY <1>1, ConcatProperties
<1>4. Increasing(seen \o batch) /\ Early(seen \o batch, result, Consumed)
  BY <1>1, ConcatOrder DEF MInv, Order
<1>5. ASSUME ~ Failed
      PROVE  IsSlice(seen \o batch, result, 0) /\ Consumed = Len(seen \o batch)
  <2>1. /\ IsSlice(seen, result, 0) /\ IsSlice(batch, result, Len(seen))
        /\ Consumed = Len(seen) + Len(batch) + Len(pending)
    BY <1>5 DEF MInv, Whole, Places
  <2>2. IsSlice(seen \o batch, result, 0)
    BY <1>1, <2>1, SliceJoins
  <2>3. Len(pending) = 0
    BY Lengths DEF MInv, Places
  <2>. QED
    BY <1>2, <1>3, <2>1, <2>2, <2>3
<1>. QED
  BY <1>2, <1>3, <1>4, <1>5

\* A batch is handed over because it is full or the cursor is at its end.
LEMMA ReturnInv ==
  ASSUME MInv, Exhaust \/ PullExhausted \/ BatchFull
  PROVE  MInv'
<1>1. /\ pc = "pulling" /\ pc' = "idle" /\ batch' = <<>> /\ batchBytes' = 0 /\ seen' = seen \o batch
      /\ UNCHANGED <<result, options, fetched, driver, cancelled, pending>>
      /\ cursor' \in {cursor, FALSE}
  BY DEF Exhaust, PullExhausted, BatchFull, NeedsRow, Return, serverVars
<1>2. ~ cursor' => driver = <<>> /\ (~ Failed => fetched = Len(result))
  BY <1>1 DEF Exhaust, PullExhausted, BatchFull, MInv, Places, Whole
<1>3. PICK value \in {"batch", "none"} : Returned(value) /\ (value = "none" => ~ cursor')
  BY DEF Exhaust, PullExhausted, BatchFull, Return
<1>4. /\ last' = value /\ failedAt' \in 0 .. Len(seen) \cup {Unlimited} /\ (~ Failed' => ~ Failed)
  BY <1>3, OutcomeFacts
<1>5. /\ seen' \in Seq(ResultRow) /\ Len(seen') \in Nat /\ Len(seen') = Len(seen) + Len(batch)
      /\ Increasing(seen') /\ Early(seen', result, Consumed)
      /\ ~ Failed => IsSlice(seen', result, 0) /\ Consumed = Len(seen')
  BY <1>1, HandedOver
<1>6. Len(seen) \in Nat /\ Len(batch) \in Nat /\ Len(result) \in Nat /\ pending = <<>> /\ Len(pending) = 0
  BY <1>1, Lengths DEF MInv, Places
<1>7. Types'
  <2>1. failedAt' \in 0 .. Len(seen') \cup {Unlimited}
    BY <1>4, <1>5, <1>6
  <2>2. batch' \in Seq(ResultRow) /\ batchBytes' \in Nat /\ cursor' \in BOOLEAN
    BY <1>1, EmptySeq DEF MInv, Types
  <2>. QED
    BY <1>1, <1>4, <1>5, <2>1, <2>2 DEF MInv, Types
<1>8. Places'
  BY <1>1, <1>2, <1>3, <1>4, <1>6 DEF MInv, Places, Target
<1>9. Bounds'
  BY <1>1 DEF MInv, Bounds
<1>10. Consumed' = Consumed
  BY <1>1 DEF Consumed
<1>11. Order'
  <2>1. /\ Increasing(<<>>) /\ Early(<<>>, result, Consumed) /\ Precedes(seen', <<>>)
    BY EmptyOrder
  <2>2. Increasing(result) /\ IsSlice(driver, result, Consumed) /\ Consumed \in 0 .. Len(result)
    BY DEF MInv, Order
  <2>. QED
    BY <1>1, <1>5, <1>6, <1>10, <2>1, <2>2 DEF Order
<1>12. Whole'
  <2>1. ASSUME ~ Failed
        PROVE  /\ IsSlice(<<>>, result, Len(seen')) /\ IsSlice(<<>>, result, Len(seen') + 0)
               /\ Consumed = Len(seen') + 0 + 0
    <3>1. Len(seen') \in 0 .. Len(result) /\ Len(seen') + 0 = Len(seen') /\ Consumed = Len(seen') + 0 + 0
      BY <1>5, <2>1, <1>6, Lengths
    <3>2. IsSlice(<<>>, result, Len(seen'))
      BY <3>1, SliceSteps, EmptySeq DEF MInv, Types
    <3>. QED
      BY <3>1, <3>2
  <2>2. Len(batch') = 0 /\ Len(pending') = 0 /\ batch' = <<>> /\ pending' = <<>>
    BY <1>1, <1>6
  <2>. QED
    BY <1>1, <1>2, <1>4, <1>5, <1>10, <2>1, <2>2 DEF Whole
<1>. QED
  BY <1>7, <1>8, <1>9, <1>11, <1>12 DEF MInv

\* The row that does not fit is the next one, and stays so in the consumer's eyes.
LEMMA KeepRowInv ==
  ASSUME MInv, KeepRow
  PROVE  MInv'
<1>. DEFINE x == Head(driver)
<1>1. /\ pc = "pulling" /\ pc' = "idle" /\ cursor /\ driver # <<>> /\ ~ Rejected(x)
      /\ batch' = <<>> /\ batchBytes' = 0 /\ seen' = seen \o batch
      /\ driver' = Tail(driver) /\ pending' = <<x>> /\ Returned("batch")
      /\ UNCHANGED <<result, options, fetched, cancelled, cursor>>
  BY DEF KeepRow, RowAtHand, NeedsRow, Return
<1>2. /\ Consumed < Len(result) /\ x = result[Consumed + 1] /\ x \in ResultRow
      /\ Tail(driver) \in Seq(ResultRow) /\ fetched - Len(Tail(driver)) = Consumed + 1
      /\ IsSlice(Tail(driver), result, Consumed + 1)
  BY <1>1, HeadFacts
<1>. HIDE DEF x
<1>3. /\ last' = "batch" /\ failedAt' \in 0 .. Len(seen) \cup {Unlimited} /\ (~ Failed' => ~ Failed)
  BY <1>1, OutcomeFacts
<1>4. /\ seen' \in Seq(ResultRow) /\ Len(seen') \in Nat /\ Len(seen') = Len(seen) + Len(batch)
      /\ Increasing(seen') /\ Early(seen', result, Consumed)
      /\ ~ Failed => IsSlice(seen', result, 0) /\ Consumed = Len(seen')
  BY <1>1, HandedOver
<1>5. Len(seen) \in Nat /\ Len(batch) \in Nat /\ Len(result) \in Nat /\ Consumed \in Nat
  BY Lengths
<1>6. <<x>> \in Seq(ResultRow) /\ Len(<<x>>) = 1 /\ TotalBytes(<<x>>) = x.bytes /\ <<x>>[1] = x
  BY <1>2, SingleRow
<1>7. result \in Seq(ResultRow) /\ Increasing(result)
  BY DEF MInv, Types, Order
<1>8. Types'
  <2>1. failedAt' \in 0 .. Len(seen') \cup {Unlimited}
    BY <1>3, <1>4, <1>5
  <2>2. /\ batch' \in Seq(ResultRow) /\ batchBytes' \in Nat /\ pending' \in Seq(ResultRow)
        /\ Len(pending') <= 1 /\ driver' \in Seq(ResultRow)
    BY <1>1, <1>2, <1>6, EmptySeq
  <2>. QED
    BY <1>1, <1>3, <1>4, <2>1, <2>2 DEF MInv, Types
<1>9. Places'
  BY <1>1, <1>3 DEF MInv, Places, Target
<1>10. Bounds'
  BY <1>1, <1>6 DEF Bounds, Rejected
<1>11. Consumed' = Consumed + 1 /\ Consumed + 1 \in 0 .. Len(result)
  <2>1. Consumed' = Consumed + 1
    BY <1>1, <1>2 DEF Consumed
  <2>. QED
    BY <1>2, <1>5, <2>1
<1>12. Order'
  <2>1. Early(<<x>>, result, Consumed + 1) /\ Precedes(seen', <<x>>)
    BY <1>2, <1>4, <1>5, <1>7, NextInOrder
  <2>2. Early(seen', result, Consumed + 1)
    BY <1>4, <1>5, EarlyLater
  <2>3. Increasing(<<>>) /\ Early(<<>>, result, Consumed + 1) /\ Precedes(seen', <<>>)
    BY EmptyOrder
  <2>. QED
    BY <1>1, <1>2, <1>4, <1>7, <1>11, <2>1, <2>2, <2>3 DEF Order
<1>13. Whole'
  <2>1. ASSUME ~ Failed
        PROVE  /\ IsSlice(<<>>, result, Len(seen')) /\ IsSlice(<<x>>, result, Len(seen') + 0)
               /\ Consumed + 1 = Len(seen') + 0 + 1
    <3>1. Len(seen') \in 0 .. Len(result) /\ Len(seen') + 0 = Len(seen') /\ Consumed + 1 = Len(seen') + 0 + 1
          /\ Consumed = Len(seen')
      BY <1>2, <1>4, <1>5, <2>1
    <3>2. IsSlice(<<>>, result, Len(seen'))
      BY <1>7, <3>1, SliceSteps, EmptySeq
    <3>3. IsSlice(<<x>>, result, Consumed)
      BY <1>2, <1>5, <1>6 DEF IsSlice
    <3>. QED
      BY <3>1, <3>2, <3>3
  <2>2. Len(batch') = 0 /\ Len(pending') = 1 /\ batch' = <<>> /\ pending' = <<x>>
    BY <1>1, <1>6
  <2>. QED
    BY <1>1, <1>3, <1>4, <1>11, <2>1, <2>2 DEF Whole
<1>. QED
  BY <1>8, <1>9, <1>10, <1>12, <1>13 DEF MInv

\* A row that fits is the next one of the result.
LEMMA PushRowInv ==
  ASSUME MInv, PushRow
  PROVE  MInv'
<1>. DEFINE x == Head(driver)
<1>1. /\ pc = "pulling" /\ cursor /\ driver # <<>> /\ ~ Rejected(x) /\ ~ Overflows(x) /\ Len(batch) < Target
      /\ driver' = Tail(driver) /\ batch' = Append(batch, x) /\ batchBytes' = batchBytes + x.bytes
      /\ UNCHANGED <<result, options, fetched, pc, cancelled, cursor, pending, last, failedAt, seen>>
  BY DEF PushRow, RowAtHand, NeedsRow, callVars
<1>2. /\ Consumed < Len(result) /\ x = result[Consumed + 1] /\ x \in ResultRow /\ x.bytes \in Nat
      /\ Tail(driver) \in Seq(ResultRow) /\ fetched - Len(Tail(driver)) = Consumed + 1
      /\ IsSlice(Tail(driver), result, Consumed + 1)
  BY <1>1, HeadFacts
<1>. HIDE DEF x
<1>3. /\ Len(seen) \in Nat /\ Len(batch) \in Nat /\ Len(result) \in Nat /\ Consumed \in Nat /\ Target \in Nat
      /\ (batch = <<>>) <=> Len(batch) = 0
  BY Lengths
<1>4. /\ result \in Seq(ResultRow) /\ Increasing(result) /\ batch \in Seq(ResultRow) /\ seen \in Seq(ResultRow)
      /\ batchBytes \in Nat /\ batchBytes = TotalBytes(batch) /\ pending = <<>>
  BY <1>1 DEF MInv, Types, Order, Bounds, Places
<1>5. batch' \in Seq(ResultRow) /\ Len(batch') = Len(batch) + 1
  BY <1>1, <1>2, <1>4, AppendProperties
<1>6. batchBytes' = TotalBytes(batch') /\ batchBytes' \in Nat
  <2>1. TotalBytes(Append(batch, x)) = TotalBytes(batch) + x.bytes
    BY <1>2, <1>4, TotalBytesFacts
  <2>. QED
    BY <1>1, <1>2, <1>4, <2>1
<1>7. ~ ExceedsBytes(options, batchBytes')
  <2>1. CASE batch = <<>>
    <3>1. batchBytes = 0
      BY <1>4, <2>1, TotalBytesFacts
    <3>2. batchBytes' = x.bytes
      BY <1>1, <1>2, <3>1
    <3>. QED
      BY <1>1, <3>2 DEF Rejected
  <2>2. CASE batch # <<>>
    BY <1>1, <2>2 DEF Overflows
  <2>. QED
    BY <2>1, <2>2
<1>8. Types'
  BY <1>1, <1>2, <1>5, <1>6 DEF MInv, Types
<1>9. Places'
  BY <1>1 DEF MInv, Places, Target, Failed
<1>10. Bounds'
  <2>1. Len(batch') <= Target
    BY <1>1, <1>3, <1>5
  <2>. QED
    BY <1>1, <1>6, <1>7, <2>1 DEF MInv, Bounds, Target
<1>11. Consumed' = Consumed + 1 /\ Consumed + 1 \in 0 .. Len(result)
  <2>1. Consumed' = Consumed + 1
    BY <1>1, <1>2 DEF Consumed
  <2>. QED
    BY <1>2, <1>3, <2>1
<1>12. Order'
  <2>1. /\ Increasing(seen) /\ Early(seen, result, Consumed) /\ Increasing(batch)
        /\ Early(batch, result, Consumed) /\ Precedes(seen, batch)
    BY DEF MInv, Order
  <2>2. Precedes(seen, <<x>>)
    BY <1>2, <1>3, <1>4, <2>1, NextInOrder
  <2>3. Increasing(batch') /\ Early(batch', result, Consumed + 1)
    BY <1>1, <1>2, <1>3, <1>4, <2>1, NextInOrder
  <2>4. Precedes(seen, batch')
    BY <1>1, <1>2, <1>4, <2>1, <2>2, PrecedesAppend
  <2>5. Early(seen, result, Consumed + 1)
    BY <1>3, <2>1, EarlyLater
  <2>6. Early(<<>>, result, Consumed + 1) /\ Precedes(seen, <<>>)
    BY EmptyOrder
  <2>. QED
    BY <1>1, <1>2, <1>4, <1>11, <2>1, <2>3, <2>4, <2>5, <2>6 DEF Order
<1>13. Whole'
  <2>1. ASSUME ~ Failed
        PROVE  /\ IsSlice(seen, result, 0) /\ IsSlice(batch', result, Len(seen))
               /\ IsSlice(<<>>, result, Len(seen) + Len(batch'))
               /\ Consumed + 1 = Len(seen) + Len(batch') + 0
    <3>1. /\ IsSlice(seen, result, 0) /\ IsSlice(batch, result, Len(seen))
          /\ Consumed = Len(seen) + Len(batch) + Len(pending)
      BY <1>1, <2>1 DEF MInv, Whole, Places
    <3>2. Len(pending) = 0
      BY <1>4
    <3>3. Consumed = Len(seen) + Len(batch)
      BY <1>3, <3>1, <3>2
    <3>4. Len(seen) \in 0 .. Len(result) /\ Len(seen) + Len(batch) < Len(result)
      BY <1>2, <1>3, <3>3
    <3>5. IsSlice(Append(batch, result[Len(seen) + Len(batch) + 1]), result, Len(seen))
      BY <1>4, <3>1, <3>4, SliceSteps
    <3>6. IsSlice(batch', result, Len(seen))
      BY <1>1, <1>2, <3>3, <3>5
    <3>7. Len(seen) + Len(batch') \in 0 .. Len(result) /\ Consumed + 1 = Len(seen) + Len(batch') + 0
      BY <1>3, <1>5, <3>3, <3>4
    <3>8. IsSlice(<<>>, result, Len(seen) + Len(batch'))
      BY <1>4, <3>7, SliceSteps, EmptySeq
    <3>. QED
      BY <3>1, <3>6, <3>7, <3>8
  <2>2. Len(pending') = 0 /\ pending' = <<>> /\ Failed' = Failed
    BY <1>1, <1>4 DEF Failed
  <2>. QED
    BY <1>1, <1>11, <2>1, <2>2 DEF Whole
<1>. QED
  BY <1>8, <1>9, <1>10, <1>12, <1>13 DEF MInv

\* Every step of the stream keeps the invariant.
LEMMA NextInv ==
  ASSUME MInv, [Next]_vars
  PROVE  MInv'
<1>1. CASE UNCHANGED vars
  BY <1>1 DEF vars, serverVars, batchVars, callVars, MInv, Types, Places, Bounds, Order, Whole, Consumed,
              Target, Failed
<1>2. CASE PullCancelled \/ PullTooLate
  <2>1. /\ pc = "idle" /\ pc' = "idle" /\ batch' = <<>> /\ batchBytes' \in Nat
        /\ UNCHANGED <<result, options, fetched, driver, cancelled, cursor, pending, seen>>
        /\ \/ cancelled /\ Returned("none")
           \/ Returned("error")
    BY <1>2 DEF PullCancelled, PullTooLate, Return, serverVars
  <2>2. cancelled => ~ cursor
    BY DEF MInv, Places
  <2>. QED
    BY <2>1, <2>2, AtOnceInv
<1>. QED
  BY <1>1, <1>2, FetchInv, StartPullInv, ReturnInv, FailuresInv, KeepRowInv, PushRowInv, ReleaseInv
     DEF Next, Closed

-----------------------------------------------------------------------------
(***************************************************************************)
(* The promises of the stream.                                             *)
(***************************************************************************)

\* A collection uses the stream in no other way than any consumer may.
LEMMA CollectSteps ==
  ASSUME [CollectNext]_<<vars, collectVars>>
  PROVE  [Next]_vars
BY DEF CollectNext, StartCollect, AskBatch, Pull, TakeBatch, Refuse, EndCollect, UseStream, Next

\* The invariant of the stream, whoever consumes it.
THEOREM MongodbInvariance == CollectSpec => []MInv
<1>1. CollectInit => MInv
  BY InitInv DEF CollectInit
<1>2. MInv /\ [CollectNext]_<<vars, collectVars>> => MInv'
  BY CollectSteps, NextInv
<1>. QED
  BY <1>1, <1>2, PTL DEF CollectSpec

\* Type correctness of the MongoDB stream, with what next_batch promises under every fault:
\* the batch in preparation is within both limits and its bytes are counted right, and no
\* consumer, however often it goes on after an error, is given a row twice or out of order.
THEOREM MongodbLimits == CollectSpec => []TypeOK
<1>1. MInv => TypeOK
  BY DEF MInv, Types, Bounds, Order, Increasing, TypeOK
<1>. QED
  BY <1>1, MongodbInvariance, PTL

\* A stream that announced its end, was cancelled or dropped holds no cursor and no
\* connection, whatever errors came before.
THEOREM CursorIsReleased == CollectSpec => []ConnectionIsReleased
<1>1. MInv => ConnectionIsReleased
  BY DEF MInv, Places, ConnectionIsReleased
<1>. QED
  BY <1>1, MongodbInvariance, PTL

\* What a step of the stream looks like to its consumer.
LEMMA StepKinds ==
  ASSUME MInv, Next
  PROVE  /\ result' = result
         /\ \/ UNCHANGED <<seen, last, failedAt>> /\ (cancelled => cancelled')
            \/ UNCHANGED <<seen, cancelled>> /\ Returned("error")
            \/ /\ UNCHANGED <<seen, cancelled>> /\ Returned("none")
               /\ cancelled \/ Failed \/ Len(seen) = Len(result)
            \/ /\ seen' = seen \o batch /\ cancelled' = cancelled /\ Returned("batch")
               /\ batch # <<>> /\ ~ cancelled /\ last # "none"
            \/ UNCHANGED <<seen, cancelled>> /\ Returned("opened") /\ pc = "new"
<1>1. result' = result
  BY DEF Next, Open, StartPull, PullCancelled, PullTooLate, Refill, Exhaust, PullExhausted, RejectRow,
         KeepRow, PushRow, BatchFull, PullFails, Cancel, Drop, Closed, vars, serverVars
<1>2. CASE Open
  BY <1>1, <1>2 DEF Open
<1>3. CASE StartPull \/ Refill \/ PushRow \/ Cancel \/ Drop \/ Closed
  BY <1>1, <1>3 DEF StartPull, Refill, PushRow, Cancel, Drop, Closed, vars, callVars
<1>4. CASE PullCancelled \/ PullTooLate \/ RejectRow \/ PullFails
  BY <1>1, <1>4 DEF PullCancelled, PullTooLate, RejectRow, PullFails, Return
<1>5. CASE Exhaust \/ PullExhausted \/ BatchFull \/ KeepRow
  <2>1. /\ pc = "pulling" /\ seen' = seen \o batch /\ cancelled' = cancelled
        /\ \/ batch # <<>> /\ cursor /\ Returned("batch")
           \/ batch = <<>> /\ (~ cursor \/ (driver = <<>> /\ fetched = Len(result))) /\ Returned("none")
    <3>1. (batch # <<>> => cursor) /\ (pc = "pulling" => Target # 0)
      BY DEF MInv, Places
    <3>2. Len(batch) = Target /\ Target # 0 => batch # <<>>
      BY Lengths
    <3>. QED
      BY <1>5, <3>1, <3>2 DEF Exhaust, PullExhausted, BatchFull, KeepRow, RowAtHand, Overflows, NeedsRow, Return
  <2>2. ~ cancelled /\ pending = <<>>
    BY <2>1 DEF MInv, Places
  <2>3. CASE batch # <<>>
    <3>1. cursor /\ last # "none"
      BY <2>1, <2>3 DEF MInv, Places
    <3>. QED
      BY <1>1, <2>1, <2>2, <2>3, <3>1
  <2>4. CASE batch = <<>>
    <3>1. seen' = seen
      BY <2>1, <2>4, ConcatEmptySeq DEF MInv, Types
    <3>2. ASSUME ~ Failed PROVE Len(seen) = Len(result)
      <4>1. Consumed = Len(seen) + Len(batch) + Len(pending) /\ (~ cursor => fetched = Len(result))
        BY <2>1, <2>2, <3>2 DEF MInv, Whole
      <4>2. driver = <<>> /\ fetched = Len(result)
        BY <2>1, <2>4, <4>1 DEF MInv, Places
      <4>3. /\ Len(batch) = 0 /\ Len(pending) = 0 /\ Len(driver) = 0 /\ Len(seen) \in Nat
            /\ Consumed + Len(driver) = fetched /\ Consumed \in Nat
        BY <2>2, <2>4, <4>2, Lengths
      <4>. QED
        BY <4>1, <4>2, <4>3
    <3>. QED
      BY <1>1, <2>1, <2>4, <3>1, <3>2
  <2>. QED
    BY <2>3, <2>4
<1>. QED
  BY <1>2, <1>3, <1>4, <1>5 DEF Next

\* The first rows stay the first rows when others are added.
LEMMA FirstRows ==
  ASSUME NEW rows \in Seq(ResultRow), NEW u \in Seq(ResultRow), NEW n \in 0 .. Len(rows)
  PROVE  SubSeq(rows \o u, 1, n) = SubSeq(rows, 1, n)
<1>. DEFINE s == SubSeq(rows, 1, n)
<1>1. Len(rows) \in Nat /\ n \in Nat /\ n <= Len(rows)
  BY LenProperties
<1>2. \A i \in 1 .. n : rows[i] \in ResultRow
  BY <1>1, ElementOfSeq
<1>3. s \in Seq(ResultRow) /\ Len(s) = n /\ \A i \in 1 .. n : s[i] = rows[i]
  BY <1>1, <1>2, SubSeqProperties
<1>. HIDE DEF s
<1>4. IsSlice(s, rows, 0)
  BY <1>1, <1>3 DEF IsSlice
<1>5. 0 \in 0 .. Len(rows) /\ rows \o u \in Seq(ResultRow)
  BY <1>1, ConcatProperties
<1>6. IsSlice(s, rows \o u, 0)
  BY <1>3, <1>4, <1>5, SliceFacts
<1>7. s = SubSeq(rows \o u, 1, Len(s))
  BY <1>3, <1>5, <1>6, SliceJoins
<1>. QED
  BY <1>3, <1>7 DEF s

\* The stream implements the DataStream contract for a consumer that stops at the first
\* error: for every result, limit and fault it is given a prefix of the result, without gaps
\* or repetitions across pages, batches and the row kept back, and learns of the end only
\* after the last row.
THEOREM MongodbDeliversTheResult == CollectSpec => ImplementsPullStream
<1>1. CollectInit => Stream!Init
  BY DEF CollectInit, Init, Stream!Init, Failed
<1>2. MInv /\ MInv' /\ [CollectNext]_<<vars, collectVars>> => [Stream!Next]_(Stream!vars)
  <2>. SUFFICES ASSUME MInv, MInv', [Next]_vars
                PROVE  Stream!Next \/ UNCHANGED Stream!vars
    BY CollectSteps
  <2>1. CASE UNCHANGED vars
    BY <2>1 DEF Stream!vars, vars, serverVars, callVars, Failed
  <2>2. CASE Next
    <3>1. /\ seen \in Seq(ResultRow) /\ batch \in Seq(ResultRow) /\ result \in Seq(ResultRow)
          /\ Len(seen) \in Nat /\ Len(result) \in Nat /\ Len(seen) # Unlimited
      BY Lengths, UnlimitedAssumption DEF MInv, Types
    <3>2. result' = result
      BY <2>2, StepKinds
    <3>3. CASE Failed
      <4>1. failedAt' = failedAt /\ (seen' = seen \/ seen' = seen \o batch)
        BY <2>2, <3>3, StepKinds DEF Returned
      <4>2. failedAt \in 0 .. Len(seen)
        BY <3>3 DEF MInv, Types, Failed
      <4>3. SubSeq(seen', 1, failedAt) = SubSeq(seen, 1, failedAt)
        BY <3>1, <4>1, <4>2, FirstRows
      <4>. QED
        BY <3>2, <3>3, <4>1, <4>3 DEF Stream!vars, Failed
    <3>4. CASE ~ Failed /\ UNCHANGED <<seen, last, failedAt>> /\ (cancelled => cancelled')
      <4>1. cancelled \in BOOLEAN /\ cancelled' \in BOOLEAN
        BY DEF MInv, Types
      <4>. QED
        BY <3>2, <3>4, <4>1 DEF Stream!vars, Stream!Next, Stream!Cancel, Failed
    <3>5. CASE ~ Failed /\ UNCHANGED <<seen, cancelled>> /\ Returned("error")
      <4>1. failedAt' = Len(seen) /\ Failed' /\ last' = "error"
        BY <3>1, <3>5 DEF Returned, Failed
      <4>2. seen = SubSeq(seen, 1, Len(seen))
        <5>1. IsSlice(seen, seen, 0)
          BY <3>1 DEF IsSlice
        <5>. QED
          BY <3>1, <5>1, SliceJoins
      <4>. QED
        BY <3>2, <3>5, <4>1, <4>2 DEF Stream!Next, Stream!Fail, Stream!PullAgain
    <3>6. CASE /\ ~ Failed /\ UNCHANGED <<seen, cancelled>> /\ Returned("none")
               /\ cancelled \/ Failed \/ Len(seen) = Len(result)
      <4>1. failedAt' = failedAt /\ ~ Failed' /\ last' = "none"
        BY <3>6 DEF Returned, Failed
      <4>2. ~ cancelled => seen = result
        BY <3>1, <3>6, SliceJoins DEF MInv, Whole
      <4>. QED
        BY <3>2, <3>6, <4>1, <4>2 DEF Stream!Next, Stream!Complete, Stream!PullAgain
    <3>7. CASE /\ ~ Failed /\ seen' = seen \o batch /\ cancelled' = cancelled /\ Returned("batch")
               /\ batch # <<>> /\ ~ cancelled /\ last # "none"
      <4>1. failedAt' = failedAt /\ ~ Failed' /\ last' = "batch"
        BY <3>7 DEF Returned, Failed
      <4>2. seen' \in Seq(ResultRow) /\ IsSlice(seen', result, 0)
        BY <3>2, <4>1 DEF MInv, Types, Whole
      <4>3. Len(seen') \in 0 .. Len(result) /\ seen' = SubSeq(result, 1, Len(seen'))
        BY <3>1, <4>2, SliceJoins
      <4>4. Len(seen') = Len(seen) + Len(batch) /\ Len(batch) \in Nat /\ Len(batch) # 0
        BY <3>1, <3>7, ConcatProperties, Lengths
      <4>5. Len(seen') \in Len(seen) + 1 .. Len(result)
        BY <3>1, <4>3, <4>4
      <4>6. \E n \in Len(seen) + 1 .. Len(result) : seen' = SubSeq(result, 1, n)
        BY <4>3, <4>5
      <4>. QED
        BY <3>2, <3>7, <4>1, <4>6 DEF Stream!Next, Stream!Deliver
    <3>8. CASE ~ Failed /\ UNCHANGED <<seen, cancelled>> /\ Returned("opened") /\ pc = "new"
      <4>1. failedAt' = failedAt /\ ~ Failed' /\ last' = "opened"
        BY <3>8 DEF Returned, Failed
      <4>2. last = "new" /\ ~ cancelled
        BY <3>8 DEF MInv, Places
      <4>. QED
        BY <3>8, <4>1, <4>2 DEF Stream!Next, Stream!Open
    <3>. QED
      BY <2>2, <3>3, <3>4, <3>5, <3>6, <3>7, <3>8, StepKinds
  <2>. QED
    BY <2>1, <2>2
<1>. QED
  BY <1>1, <1>2, MongodbInvariance, PTL DEF CollectSpec, ImplementsPullStream, Stream!Spec

-----------------------------------------------------------------------------
(***************************************************************************)
(* Eager collection.                                                       *)
(***************************************************************************)

\* Nothing collected is within every limit.
LEMMA NothingCollected ==
  ASSUME NEW l \in [maxRows : Nat, maxBytes : Nat]
  PROVE  Len(<<>>) <= l.maxRows /\ TotalBytes(<<>>) <= l.maxBytes
<1>1. Len(<<>>) = 0 /\ TotalBytes(<<>>) = 0
  BY TotalBytesFacts, EmptySeq
<1>2. l.maxRows \in Nat /\ l.maxBytes \in Nat
  OBVIOUS
<1>. QED
  BY <1>1, <1>2

\* The rows collected and those of the batch just returned are all since the collection began.
LEMMA CollectedRows ==
  ASSUME MInv, Collecting, Answered
  PROVE  /\ collect = "running" /\ pc = "idle"
         /\ collected \o NewRows \in Seq(ResultRow)
         /\ origin + Len(collected \o NewRows) = Len(seen)
         /\ IsSlice(collected \o NewRows, seen, origin)
         /\ collected \o NewRows = SubSeq(seen, origin + 1, Len(seen))
<1>1. /\ collect = "running" /\ pc = "idle" /\ IsSlice(collected, seen, origin)
      /\ collected \in Seq(ResultRow) /\ seen \in Seq(ResultRow) /\ origin \in 0 .. Len(seen)
  BY DEF Answered, Collecting, MInv, Types
<1>2. Len(seen) \in Nat /\ Len(collected) \in Nat /\ origin \in Nat /\ origin + Len(collected) <= Len(seen)
  BY <1>1, LenProperties DEF IsSlice
<1>3. origin + Len(collected) \in 0 .. Len(seen)
  BY <1>2
<1>. DEFINE rows == collected \o NewRows
<1>4. /\ NewRows \in Seq(ResultRow) /\ Len(NewRows) = Len(seen) - (origin + Len(collected))
      /\ IsSlice(NewRows, seen, origin + Len(collected))
  BY <1>1, <1>3, RestFacts DEF NewRows
<1>5. rows \in Seq(ResultRow) /\ Len(rows) = Len(collected) + Len(NewRows)
  BY <1>1, <1>4, ConcatProperties
<1>6. IsSlice(rows, seen, origin)
  BY <1>1, <1>4, SliceFacts
<1>. HIDE DEF rows
<1>7. origin + Len(rows) = Len(seen)
  BY <1>2, <1>4, <1>5
<1>8. rows = SubSeq(seen, origin + 1, origin + Len(rows))
  BY <1>1, <1>5, <1>6, SliceFacts
<1>9. rows = SubSeq(seen, origin + 1, Len(seen))
  BY <1>7, <1>8
<1>. QED
  BY <1>1, <1>5, <1>6, <1>7, <1>9 DEF rows

\* Starting a collection, asking for a batch, and taking it.
LEMMA TakingInv ==
  ASSUME MInv, Collecting, CollectionIsExact, StartCollect \/ AskBatch \/ TakeBatch
  PROVE  Collecting' /\ CollectionIsExact'
<1>1. seen \in Seq(ResultRow) /\ Len(seen) \in Nat /\ Len(seen) \in 0 .. Len(seen)
  BY Lengths DEF MInv, Types
<1>2. CASE StartCollect
  <2>1. /\ pc = "idle" /\ collect = "off" /\ limits' \in [maxRows : Nat, maxBytes : Nat]
        /\ collect' = "running" /\ origin' = Len(seen) /\ asked' = asked /\ collected' = collected
        /\ seen' = seen /\ pc' = pc
    BY <1>2, CollectAssumption DEF StartCollect, vars
  <2>2. ~ asked /\ collected = <<>>
    BY <2>1 DEF Collecting
  <2>3. WithinLimits(collected)'
    BY <2>1, <2>2, NothingCollected DEF WithinLimits
  <2>4. IsSlice(<<>>, seen, Len(seen)) /\ Len(<<>>) = 0 /\ <<>> \in Seq(ResultRow) /\ Len(seen) + 0 = Len(seen)
    <3>1. <<>> \in Seq(ResultRow) /\ Len(<<>>) = 0 /\ Len(seen) + 0 = Len(seen)
      BY <1>1, EmptySeq
    <3>2. IsSlice(<<>>, seen, Len(seen))
      BY <1>1, <3>1, SliceSteps
    <3>. QED
      BY <3>1, <3>2
  <2>5. Collecting'
    BY <1>1, <2>1, <2>2, <2>3, <2>4 DEF Collecting, CollectPhases
  <2>. QED
    BY <2>1, <2>3, <2>5 DEF CollectionIsExact
<1>3. CASE AskBatch
  <2>1. /\ collect = "running" /\ ~ asked /\ asked' = TRUE /\ seen' = seen
        /\ UNCHANGED <<collect, limits, origin, collected>>
        /\ pc' = "pulling" \/ (pc' = "idle" /\ last' \in {"none", "error"})
    BY <1>3 DEF AskBatch, Pull, StartPull, PullCancelled, PullTooLate, Return, Returned
  <2>2. Collecting'
    BY <2>1 DEF Collecting, WithinLimits
  <2>. QED
    BY <2>1, <2>2 DEF Collecting, CollectionIsExact
<1>4. CASE TakeBatch
  <2>1. /\ Answered /\ Admits(collected \o NewRows) /\ collected' = collected \o NewRows /\ asked' = FALSE
        /\ UNCHANGED <<collect, limits, origin, seen, pc, last>>
    BY <1>4 DEF TakeBatch, vars, callVars
  <2>2. /\ collect = "running" /\ pc = "idle"
        /\ collected' \in Seq(ResultRow) /\ origin + Len(collected') = Len(seen)
        /\ IsSlice(collected', seen, origin)
    BY <2>1, CollectedRows
  <2>3. WithinLimits(collected)'
    BY <2>1 DEF Admits, WithinLimits
  <2>4. Collecting'
    BY <2>1, <2>2, <2>3 DEF Collecting
  <2>. QED
    BY <2>1, <2>2, <2>3, <2>4 DEF CollectionIsExact
<1>. QED
  BY <1>2, <1>3, <1>4

\* A refusal, and the end.
LEMMA EndingInv ==
  ASSUME MInv, Collecting, CollectionIsExact, Refuse \/ EndCollect
  PROVE  Collecting' /\ CollectionIsExact'
<1>1. Answered /\ UNCHANGED <<limits, origin, seen, result>> /\ asked' = FALSE
  BY DEF Refuse, EndCollect, Cancel, vars, serverVars
<1>2. /\ collect = "running" /\ pc = "idle" /\ collected \in Seq(ResultRow)
      /\ collected \o NewRows = SubSeq(seen, origin + 1, Len(seen))
  BY <1>1, CollectedRows DEF Collecting
<1>3. <<>> \in Seq(ResultRow) /\ limits \in [maxRows : Nat, maxBytes : Nat] /\ WithinLimits(<<>>)
      /\ WithinLimits(collected)
  BY NothingCollected, EmptySeq DEF Collecting, WithinLimits
<1>4. CASE Refuse
  <2>1. /\ ~ Admits(collected \o NewRows) /\ collect' = "refused" /\ collected' = <<>>
        /\ cancelled' = TRUE /\ cursor' = FALSE /\ pending' = <<>> /\ driver' = <<>>
    BY <1>4 DEF Refuse, Cancel
  <2>2. ~ WithinLimits(SubSeq(seen, origin + 1, Len(seen)))
    BY <1>2, <2>1 DEF Admits, WithinLimits
  <2>3. WithinLimits(collected)'
    BY <1>1, <1>3, <2>1 DEF WithinLimits
  <2>4. Collecting'
    BY <1>1, <1>3, <2>1, <2>3 DEF Collecting, CollectPhases
  <2>5. ~ WithinLimits(SubSeq(seen, origin + 1, Len(seen)))'
    BY <1>1, <2>2 DEF WithinLimits
  <2>. QED
    BY <2>1, <2>3, <2>4, <2>5 DEF CollectionIsExact
<1>5. CASE EndCollect
  <2>1. /\ last \in {"none", "error"} /\ UNCHANGED <<pc, last, cancelled, failedAt>>
        /\ collect' = IF last = "none" THEN "done" ELSE "failed"
        /\ collected' = IF last = "none" THEN collected ELSE <<>>
    BY <1>5 DEF EndCollect, vars, callVars
  <2>2. collected' \in Seq(ResultRow) /\ WithinLimits(collected)'
    BY <1>1, <1>2, <1>3, <2>1 DEF WithinLimits
  <2>3. Collecting'
    BY <1>1, <1>3, <2>1, <2>2 DEF Collecting, CollectPhases
  <2>4. ASSUME last = "none", ~ Failed, ~ cancelled
        PROVE  collected = SubSeq(result, origin + 1, Len(result))
    <3>1. /\ ~ cursor /\ batch = <<>> /\ pending = <<>> /\ driver = <<>>
      BY <1>2, <2>4 DEF MInv, Places
    <3>2. /\ fetched = Len(result) /\ Consumed = Len(seen) + Len(batch) + Len(pending)
          /\ IsSlice(seen, result, 0) /\ seen \in Seq(ResultRow) /\ result \in Seq(ResultRow)
      BY <1>2, <2>4, <3>1 DEF MInv, Whole, Types
    <3>3. /\ Len(batch) = 0 /\ Len(pending) = 0 /\ Len(driver) = 0 /\ Len(seen) \in Nat /\ Consumed \in Nat
          /\ Consumed + Len(driver) = fetched
      BY <3>1, Lengths
    <3>4. Len(seen) = Len(result)
      BY <3>2, <3>3
    <3>5. seen = result
      BY <3>2, <3>4, SliceJoins
    <3>6. /\ IsSlice(collected, seen, origin) /\ origin + Len(collected) = Len(seen) /\ origin \in 0 .. Len(seen)
      BY <1>2, <2>4 DEF Collecting
    <3>7. collected = SubSeq(seen, origin + 1, origin + Len(collected))
      BY <1>2, <3>2, <3>6, SliceFacts
    <3>. QED
      BY <3>5, <3>6, <3>7
  <2>5. Failed' = Failed
    BY <2>1 DEF Failed
  <2>. QED
    BY <1>1, <2>1, <2>2, <2>3, <2>4, <2>5 DEF CollectionIsExact
<1>. QED
  BY <1>4, <1>5

\* The stream moves under a collection, or before or after it.
LEMMA StreamingInv ==
  ASSUME MInv, MInv', Collecting, CollectionIsExact, UseStream
  PROVE  Collecting' /\ CollectionIsExact'
<1>1. Next /\ UNCHANGED <<collect, limits, asked, origin, collected>>
  BY DEF UseStream, collectVars, Next, Pull
<1>2. /\ result' = result
      /\ seen' = seen \/ (seen' = seen \o batch /\ last' = "batch" /\ ~ cancelled)
      /\ (cancelled => cancelled') /\ (Failed => Failed')
  BY <1>1, StepKinds DEF Returned, Failed
<1>3. /\ seen \in Seq(ResultRow) /\ batch \in Seq(ResultRow) /\ Len(seen) \in Nat /\ Len(batch) \in Nat
      /\ origin \in 0 .. Len(seen) /\ collected \in Seq(ResultRow)
  BY Lengths DEF MInv, Types, Collecting
<1>4. Len(seen') \in Nat /\ Len(seen) <= Len(seen')
  <2>1. Len(seen \o batch) = Len(seen) + Len(batch)
    BY <1>3, ConcatProperties
  <2>. QED
    BY <1>2, <1>3, <2>1
<1>5. origin \in 0 .. Len(seen')
  BY <1>3, <1>4
<1>6. WithinLimits(collected)'
  BY <1>1 DEF Collecting, WithinLimits
<1>7. ASSUME collect = "running"
      PROVE  /\ pc' \in {"idle", "pulling"} /\ (pc' = "pulling" => asked)
             /\ IsSlice(collected, seen', origin)
             /\ ~ (asked /\ pc' = "idle" /\ last' = "batch") => origin + Len(collected) = Len(seen')
  <2>1. /\ pc = "pulling"
        /\ \/ pc' = "pulling" /\ seen' = seen
           \/ pc' = "idle"
    BY <1>7 DEF UseStream, Refill, Exhaust, PullExhausted, RejectRow, KeepRow, PushRow, BatchFull, PullFails,
                RowAtHand, NeedsRow, Return
  <2>2. asked /\ IsSlice(collected, seen, origin) /\ origin + Len(collected) = Len(seen)
    BY <1>7, <2>1 DEF Collecting
  <2>3. IsSlice(collected, seen', origin)
    <3>1. IsSlice(collected, seen \o batch, origin)
      BY <1>3, <2>2, SliceFacts
    <3>. QED
      BY <1>2, <2>2, <3>1
  <2>. QED
    BY <1>2, <2>1, <2>2, <2>3
<1>8. Collecting'
  BY <1>1, <1>5, <1>6, <1>7 DEF Collecting
<1>9. ASSUME collect = "done", ~ Failed', ~ cancelled'
      PROVE  collected = SubSeq(result, origin + 1, Len(result))
  BY <1>2, <1>9 DEF CollectionIsExact
<1>10. ASSUME collect = "refused"
       PROVE  /\ cancelled' /\ ~ cursor' /\ pending' = <<>> /\ driver' = <<>> /\ seen' = seen
              /\ ~ WithinLimits(SubSeq(seen, origin + 1, Len(seen)))
  <2>1. cancelled /\ ~ WithinLimits(SubSeq(seen, origin + 1, Len(seen)))
    BY <1>10 DEF CollectionIsExact
  <2>2. cancelled' /\ seen' = seen
    BY <1>2, <2>1
  <2>3. ~ cursor' /\ pending' = <<>> /\ driver' = <<>>
    BY <2>2 DEF MInv, Places
  <2>. QED
    BY <2>1, <2>2, <2>3
<1>11. CollectionIsExact'
  <2>1. collect = "refused" => ~ WithinLimits(SubSeq(seen, origin + 1, Len(seen)))'
    BY <1>1, <1>10 DEF WithinLimits
  <2>. QED
    BY <1>1, <1>2, <1>6, <1>9, <1>10, <2>1 DEF CollectionIsExact
<1>. QED
  BY <1>8, <1>11

\* Eager collection is exact, for every limit and however the stream was used before: what
\* is collected is within the limits over all batches together; a collection that succeeds
\* holds, in order, all that was left of the result, if no error cost the stream rows; one
\* that is refused really met more than its limits and has left the stream cancelled.
THEOREM CollectionsAreExact == CollectSpec => []CollectionIsExact
<1>1. CollectInit => Collecting /\ CollectionIsExact
  <2>. SUFFICES ASSUME CollectInit PROVE Collecting /\ CollectionIsExact
    OBVIOUS
  <2>1. NoLimits \in [maxRows : Nat, maxBytes : Nat]
    BY DEF NoLimits
  <2>2. WithinLimits(collected)
    BY <2>1, NothingCollected DEF CollectInit, WithinLimits
  <2>3. origin \in 0 .. Len(seen) /\ collected \in Seq(ResultRow)
    BY EmptySeq DEF CollectInit, Init
  <2>. QED
    BY <2>1, <2>2, <2>3 DEF CollectInit, Collecting, CollectPhases, CollectionIsExact
<1>2. /\ MInv /\ MInv' /\ Collecting /\ CollectionIsExact /\ [CollectNext]_<<vars, collectVars>>
      => Collecting' /\ CollectionIsExact'
  <2>. SUFFICES ASSUME MInv, MInv', Collecting, CollectionIsExact, [CollectNext]_<<vars, collectVars>>
                PROVE  Collecting' /\ CollectionIsExact'
    OBVIOUS
  <2>1. CASE UNCHANGED <<vars, collectVars>>
    BY <2>1 DEF vars, serverVars, batchVars, callVars, collectVars, Collecting, CollectionIsExact,
                WithinLimits, Failed
  <2>. QED
    BY <2>1, TakingInv, EndingInv, StreamingInv DEF CollectNext
<1>. QED
  BY <1>1, <1>2, MongodbInvariance, PTL DEF CollectSpec
=============================================================================
