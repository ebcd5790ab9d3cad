-------------------------- MODULE InductionLemmas --------------------------
(***************************************************************************)
(* Induction over the natural numbers in a form that needs no operator as  *)
(* parameter: a property is the set of the numbers that have it, and a     *)
(* recursive definition is a step function.  The rules are derived from    *)
(* the existence of minimal elements.                                      *)
(***************************************************************************)
EXTENDS Naturals, Sequences, FiniteSets, FiniteSetTheorems, SequenceTheorems, TLAPS

\* A set of natural numbers with a member has a least one.
LEMMA LeastNumber ==
  ASSUME NEW T \in SUBSET Nat, T # {}
  PROVE  \E x \in T : \A y \in T : x <= y
<1>1. PICK x \in T : \A y \in T : ~ (<<y, x>> \in OpToRel(<, Nat))
  BY WFMin, NatLessThanWellFounded
<1>2. \A y \in T : ~ (y < x)
  BY <1>1 DEF OpToRel
<1>. QED
  BY <1>2

\* Induction: a set that has 0, and with a number its successor, has all of them.
LEMMA NumberInduction ==
  ASSUME NEW T, 0 \in T, \A n \in Nat : n \in T => n + 1 \in T
  PROVE  Nat \subseteq T
<1>. SUFFICES ASSUME ~ (Nat \subseteq T) PROVE FALSE
  OBVIOUS
<1>. DEFINE U == Nat \ T
<1>1. PICK x \in U : \A y \in U : x <= y
  <2>1. U \in SUBSET Nat /\ U # {}
    OBVIOUS
  <2>. HIDE DEF U
  <2>. QED
    BY <2>1, LeastNumber
<1>2. x \in Nat /\ x # 0 /\ x - 1 \in Nat /\ x - 1 \notin U
  BY <1>1
<1>3. x - 1 \in T /\ (x - 1) + 1 = x
  BY <1>2
<1>. QED
  BY <1>1, <1>2, <1>3

-----------------------------------------------------------------------------
(***************************************************************************)
(* Definition by recursion.                                                *)
(***************************************************************************)

\* A step function takes a position and the value there to the next value.
IsStep(step, S) == step \in [Nat \X S -> S]

\* The sequence it produces from a first value.
IsUnfolding(f, S, base, step) ==
  /\ f \in [Nat -> S]
  /\ f[0] = base
  /\ \A n \in Nat : f[n + 1] = step[<<n, f[n]>>]

\* The first values of the sequence that a step function produces.
Unfolds(f, S, base, step, n) ==
  /\ f \in [0 .. n -> S]
  /\ f[0] = base
  /\ \A k \in 0 .. n - 1 : f[k + 1] = step[<<k, f[k]>>]

\* They can be computed as far as one likes.
LEMMA UnfoldingsExist ==
  ASSUME NEW S, NEW base \in S, NEW step, IsStep(step, S), NEW n \in Nat
  PROVE  \E f : Unfolds(f, S, base, step, n)
<1>. DEFINE T == {m \in Nat : \E f : Unfolds(f, S, base, step, m)}
<1>1. 0 \in T
  <2>1. Unfolds([i \in 0 .. 0 |-> base], S, base, step, 0)
    BY DEF Unfolds
  <2>. QED
    BY <2>1
<1>2. ASSUME NEW m \in Nat, m \in T
      PROVE  m + 1 \in T
  <2>1. PICK f : Unfolds(f, S, base, step, m)
    BY <1>2
  <2>. DEFINE g == [i \in 0 .. m + 1 |-> IF i = m + 1 THEN step[<<m, f[m]>>] ELSE f[i]]
  <2>2. g \in [0 .. m + 1 -> S]
    <3>1. f \in [0 .. m -> S] /\ f[m] \in S
      BY <2>1 DEF Unfolds
    <3>. QED
      BY <3>1 DEF IsStep
  <2>3. g[0] = base
    BY <2>1 DEF Unfolds
  <2>4. ASSUME NEW k \in 0 .. m
        PROVE  g[k + 1] = step[<<k, g[k]>>]
    <3>1. CASE k = m
      <4>1. g[m + 1] = step[<<m, f[m]>>] /\ g[m] = f[m]
        OBVIOUS
      <4>. HIDE DEF g
      <4>. QED
        BY <3>1, <4>1
    <3>2. CASE k # m
      <4>1. k \in 0 .. m - 1 /\ k + 1 \in 0 .. m + 1 /\ k + 1 # m + 1
        BY <3>2
      <4>. QED
        BY <2>1, <3>2, <4>1 DEF Unfolds
    <3>. QED
      BY <3>1, <3>2
  <2>. HIDE DEF g
  <2>5. Unfolds(g, S, base, step, m + 1)
    BY <2>2, <2>3, <2>4 DEF Unfolds
  <2>. QED
    BY <2>5
<1>. HIDE DEF T
<1>3. Nat \subseteq T
  BY <1>1, <1>2, NumberInduction
<1>. QED
  BY <1>3 DEF T

\* Two computations agree as far as both go.
LEMMA UnfoldingsAgree ==
  ASSUME NEW S, NEW base, NEW step,
         NEW n \in Nat, NEW f, Unfolds(f, S, base, step, n),
         NEW m \in Nat, NEW g, Unfolds(g, S, base, step, m)
  PROVE  \A k \in Nat : k <= n /\ k <= m => f[k] = g[k]
<1>. DEFINE T == {k \in Nat : k <= n /\ k <= m => f[k] = g[k]}
<1>1. 0 \in T
  BY DEF Unfolds
<1>2. ASSUME NEW k \in Nat, k \in T
      PROVE  k + 1 \in T
  <2>. SUFFICES ASSUME k + 1 <= n, k + 1 <= m PROVE f[k + 1] = g[k + 1]
    OBVIOUS
  <2>1. k \in 0 .. n - 1 /\ k \in 0 .. m - 1 /\ f[k] = g[k]
    BY <1>2
  <2>. QED
    BY <2>1 DEF Unfolds
<1>. HIDE DEF T
<1>3. Nat \subseteq T
  BY <1>1, <1>2, NumberInduction
<1>. QED
  BY <1>3 DEF T

\* The recursion theorem: a step function defines a sequence.
LEMMA Recursion ==
  ASSUME NEW S, NEW base \in S, NEW step, IsStep(step, S)
  PROVE  \E f : IsUnfolding(f, S, base, step)
<1>. DEFINE upto == [n \in Nat |-> CHOOSE f : Unfolds(f, S, base, step, n)]
            F == [n \in Nat |-> upto[n][n]]
<1>1. \A n \in Nat : Unfolds(upto[n], S, base, step, n)
  <2>. TAKE n \in Nat
  <2>1. \E f : Unfolds(f, S, base, step, n)
    BY UnfoldingsExist
  <2>. QED
    BY <2>1
<1>. HIDE DEF upto
<1>2. F \in [Nat -> S]
  BY <1>1 DEF Unfolds
<1>3. F[0] = base
  BY <1>1 DEF Unfolds
<1>4. ASSUME NEW n \in Nat
      PROVE  F[n + 1] = step[<<n, F[n]>>]
  <2>. DEFINE a == upto[n]
              b == upto[n + 1]
  <2>1. /\ n + 1 \in Nat /\ n <= n /\ n <= n + 1
        /\ Unfolds(a, S, base, step, n)
        /\ Unfolds(b, S, base, step, n + 1)
    BY <1>1
  <2>. HIDE DEF a, b
  <2>2. a[n] = b[n]
    <3>1. \A k \in Nat : k <= n /\ k <= n + 1 => a[k] = b[k]
      BY <2>1, UnfoldingsAgree
    <3>. QED
      BY <2>1, <3>1
  <2>3. b[n + 1] = step[<<n, b[n]>>]
    BY <2>1 DEF Unfolds
  <2>. QED
    BY <2>1, <2>2, <2>3 DEF a, b
<1>. HIDE DEF F
<1>. QED
  BY <1>2, <1>3, <1>4 DEF IsUnfolding

-----------------------------------------------------------------------------
(***************************************************************************)
(* Enumerating a finite set in order.                                      *)
(***************************************************************************)

\* A strict total order on a set.
IsOrder(R, S) ==
  /\ \A x \in S : <<x, x>> \notin R
  /\ \A x, y \in S : x = y \/ <<x, y>> \in R \/ <<y, x>> \in R
  /\ \A x, y, z \in S : <<x, y>> \in R /\ <<y, z>> \in R => <<x, z>> \in R

Below(R, S, x) == {y \in S : <<y, x>> \in R}

\* Every rank below the size of the set is the rank of one of its elements.
LEMMA RanksExist ==
  ASSUME NEW S, IsFiniteSet(S), NEW R, IsOrder(R, S)
  PROVE  /\ \A i \in 1 .. Cardinality(S) : \E x \in S : Cardinality(Below(R, S, x)) = i - 1
         /\ \A x, y \in S : Cardinality(Below(R, S, x)) = Cardinality(Below(R, S, y)) => x = y
<1>. DEFINE n == Cardinality(S)
            rank == [x \in S |-> Cardinality(Below(R, S, x)) + 1]
<1>1. n \in Nat
  BY FS_CardinalityType
<1>2. \A x \in S : IsFiniteSet(Below(R, S, x)) /\ Cardinality(Below(R, S, x)) \in 0 .. n - 1
  <2>. TAKE x \in S
  <2>. DEFINE B == Below(R, S, x)
  <2>1. B \in SUBSET (S \ {x})
    BY DEF Below, IsOrder
  <2>2. IsFiniteSet(S \ {x}) /\ Cardinality(S \ {x}) = n - 1
    BY FS_RemoveElement
  <2>. HIDE DEF B, n
  <2>3. IsFiniteSet(B) /\ Cardinality(B) <= n - 1
    BY <2>1, <2>2, FS_Subset
  <2>4. Cardinality(B) \in Nat
    BY <2>3, FS_CardinalityType
  <2>. QED
    BY <1>1, <2>3, <2>4 DEF B
<1>3. \A x, y \in S : <<x, y>> \in R => Cardinality(Below(R, S, x)) < Cardinality(Below(R, S, y))
  <2>. SUFFICES ASSUME NEW x \in S, NEW y \in S, <<x, y>> \in R
                PROVE  Cardinality(Below(R, S, x)) < Cardinality(Below(R, S, y))
    OBVIOUS
  <2>. DEFINE B == Below(R, S, x)
              C == Below(R, S, y)
  <2>1. B \in SUBSET C /\ x \in C /\ x \notin B
    BY DEF Below, IsOrder
  <2>2. IsFiniteSet(C) /\ Cardinality(B) \in Nat /\ Cardinality(C) \in Nat
    BY <1>2
  <2>. HIDE DEF B, C
  <2>3. Cardinality(B) <= Cardinality(C) /\ (Cardinality(C) = Cardinality(B) => C = B)
    BY <2>1, <2>2, FS_Subset
  <2>4. Cardinality(B) < Cardinality(C)
    BY <2>1, <2>2, <2>3
  <2>. QED
    BY <2>4 DEF B, C
<1>4. \A x, y \in S : Cardinality(Below(R, S, x)) = Cardinality(Below(R, S, y)) => x = y
  <2>. TAKE x, y \in S
  <2>1. x = y \/ <<x, y>> \in R \/ <<y, x>> \in R
    BY DEF IsOrder
  <2>2. Cardinality(Below(R, S, x)) \in Nat /\ Cardinality(Below(R, S, y)) \in Nat
    BY <1>1, <1>2
  <2>. QED
    BY <1>3, <2>1, <2>2
<1>5. rank \in [S -> 1 .. n]
  BY <1>1, <1>2
<1>6. \A x, y \in S : rank[x] = rank[y] => x = y
  BY <1>1, <1>2, <1>4
<1>7. rank \in Injection(S, 1 .. n)
  BY <1>5, <1>6 DEF Injection, IsInjective
<1>8. IsFiniteSet(1 .. n) /\ Cardinality(1 .. n) = n
  BY <1>1, FS_Interval
<1>. HIDE DEF rank, n
<1>9. rank \in Surjection(S, 1 .. n)
  BY <1>7, <1>8, FS_Injection DEF n
<1>10. \A i \in 1 .. n : \E x \in S : rank[x] = i
  BY <1>9 DEF Surjection
<1>11. \A i \in 1 .. n : \E x \in S : Cardinality(Below(R, S, x)) = i - 1
  <2>. TAKE i \in 1 .. n
  <2>1. PICK x \in S : rank[x] = i
    BY <1>10
  <2>2. Cardinality(Below(R, S, x)) \in Nat
    BY <1>1, <1>2
  <2>. QED
    BY <1>1, <2>1, <2>2 DEF rank
<1>. QED
  BY <1>4, <1>11 DEF n
-----------------------------------------------------------------------------
(***************************************************************************)
(* Loops over a sequence.                                                  *)
(***************************************************************************)

AreTurns(turn, S, n) == turn \in [(1 .. n) \X S -> S]

IsLoop(f, S, base, turn, n) ==
  /\ f \in [0 .. n -> S]
  /\ f[0] = base
  /\ \A i \in 1 .. n : f[i] = turn[<<i, f[i - 1]>>]

\* A loop of n turns reaches a state after each of them.
LEMMA Loops ==
  ASSUME NEW S, NEW base \in S, NEW n \in Nat, NEW turn, AreTurns(turn, S, n)
  PROVE  \E f : IsLoop(f, S, base, turn, n)
<1>. DEFINE next == [p \in Nat \X S |-> IF p[1] + 1 <= n THEN turn[<<p[1] + 1, p[2]>>] ELSE p[2]]
<1>0. turn \in [(1 .. n) \X S -> S]
  BY DEF AreTurns
<1>1. IsStep(next, S)
  <2>1. ASSUME NEW p \in Nat \X S
        PROVE  (IF p[1] + 1 <= n THEN turn[<<p[1] + 1, p[2]>>] ELSE p[2]) \in S
    <3>1. p[1] \in Nat /\ p[2] \in S
      OBVIOUS
    <3>2. CASE p[1] + 1 <= n
      <4>1. p[1] + 1 \in 1 .. n
        BY <3>1, <3>2
      <4>. QED
        BY <1>0, <3>1, <3>2, <4>1
    <3>. QED
      BY <3>1, <3>2
  <2>. QED
    BY <2>1 DEF IsStep
<1>2. \A k \in Nat, x \in S : k + 1 <= n => next[<<k, x>>] = turn[<<k + 1, x>>]
  OBVIOUS
<1>. HIDE DEF next
<1>3. PICK g : IsUnfolding(g, S, base, next)
  BY <1>1, Recursion
<1>. DEFINE f == [i \in 0 .. n |-> g[i]]
<1>4. f \in [0 .. n -> S] /\ f[0] = base
  BY <1>3 DEF IsUnfolding
<1>5. ASSUME NEW i \in 1 .. n
      PROVE  f[i] = turn[<<i, f[i - 1]>>]
  <2>. DEFINE k == i - 1
  <2>1. k \in Nat /\ k + 1 = i /\ k \in 0 .. n /\ k + 1 <= n
    OBVIOUS
  <2>2. g[k + 1] = next[<<k, g[k]>>] /\ g[k] \in S
    BY <1>3, <2>1 DEF IsUnfolding
  <2>3. next[<<k, g[k]>>] = turn[<<k + 1, g[k]>>]
    BY <1>2, <2>1, <2>2
  <2>4. f[i] = g[k + 1] /\ f[i - 1] = g[k]
    BY <2>1
  <2>. HIDE DEF k, f
  <2>. QED
    BY <2>1, <2>2, <2>3, <2>4
<1>. HIDE DEF f
<1>6. IsLoop(f, S, base, turn, n)
  BY <1>4, <1>5 DEF IsLoop
<1>. QED
  BY <1>6

-----------------------------------------------------------------------------
(***************************************************************************)
(* Sequences from their end.                                               *)
(***************************************************************************)
\* The empty sequence is the one without a length.
LEMMA EmptyLength ==
  ASSUME NEW S, NEW s \in Seq(S)
  PROVE  Len(s) \in Nat /\ (s = <<>> <=> Len(s) = 0)
BY EmptySeq, LenProperties

\* A sequence with members is the sequence of all but one of them and that one.
LEMMA LastMember ==
  ASSUME NEW S, NEW s \in Seq(S), NEW n \in Nat, Len(s) = n + 1
  PROVE  \E t \in Seq(S), x \in S : s = Append(t, x) /\ Len(t) = n
<1>1. s # <<>>
  BY EmptyLength
<1>2. PICK t \in Seq(S), x \in S : s = Append(t, x)
  BY <1>1, SequenceEmptyOrAppend
<1>3. Len(s) = Len(t) + 1 /\ Len(t) \in Nat
  BY <1>2, AppendProperties, LenProperties
<1>. QED
  BY <1>2, <1>3

\* A sequence of one member.
LEMMA OneMember ==
  ASSUME NEW S, NEW s \in Seq(S), Len(s) = 1
  PROVE  \E x \in S : s = Append(<<>>, x) /\ s[1] = x
<1>. DEFINE z == 0
<1>1. Len(s) = z + 1 /\ z \in Nat
  OBVIOUS
<1>. HIDE DEF z
<1>2. PICK t \in Seq(S), x \in S : s = Append(t, x) /\ Len(t) = z
  BY <1>1, LastMember
<1>3. t = <<>>
  BY <1>2, EmptyLength DEF z
<1>4. s[1] = x
  BY <1>2, AppendProperties DEF z
<1>. QED
  BY <1>2, <1>3, <1>4

-----------------------------------------------------------------------------
(***************************************************************************)
(* Joining the members of a sequence of sequences.                         *)
(***************************************************************************)
IsJoining(f, ss) == f = [i \in 1 .. Len(ss) |-> IF i = 1 THEN ss[i] ELSE f[i - 1] \o ss[i]]

Joining(ss) == CHOOSE f : IsJoining(f, ss)

\* The joins of a sequence of sequences exist, position by position.
LEMMA JoinsExist ==
  ASSUME NEW S, NEW ss \in Seq(Seq(S)), ss # <<>>
  PROVE  \E f : IsJoining(f, ss)
<1>. DEFINE n == Len(ss)
            step == [p \in Nat \X Seq(S) |-> IF p[1] + 2 <= n THEN p[2] \o ss[p[1] + 2] ELSE p[2]]
<1>1. n \in Nat /\ n >= 1 /\ \A i \in 1 .. n : ss[i] \in Seq(S)
  BY EmptySeq, LenProperties, ElementOfSeq
<1>2. IsStep(step, Seq(S))
  <2>1. ASSUME NEW p \in Nat \X Seq(S)
        PROVE  (IF p[1] + 2 <= n THEN p[2] \o ss[p[1] + 2] ELSE p[2]) \in Seq(S)
    <3>1. p[2] \in Seq(S) /\ p[1] \in Nat
      OBVIOUS
    <3>2. p[1] + 2 <= n => ss[p[1] + 2] \in Seq(S)
      BY <1>1, <3>1
    <3>. QED
      BY <3>1, <3>2, ConcatProperties
  <2>. QED
    BY <2>1 DEF IsStep
<1>. HIDE DEF step
<1>3. PICK g : IsUnfolding(g, Seq(S), ss[1], step)
  <2>1. ss[1] \in Seq(S)
    BY <1>1
  <2>. QED
    BY <1>2, <2>1, Recursion
<1>. DEFINE f == [i \in 1 .. n |-> g[i - 1]]
<1>4. ASSUME NEW i \in 1 .. n
      PROVE  f[i] = IF i = 1 THEN ss[i] ELSE f[i - 1] \o ss[i]
  <2>1. CASE i = 1
    BY <1>1, <1>3, <2>1 DEF IsUnfolding
  <2>2. CASE i # 1
    <3>. DEFINE k == i - 2
    <3>1. k \in Nat /\ k + 1 = i - 1 /\ k + 2 = i /\ i - 1 \in 1 .. n /\ k + 2 <= n /\ (i - 1) - 1 = k
      BY <1>1, <2>2
    <3>2. g[k + 1] = step[<<k, g[k]>>] /\ g[k] \in Seq(S)
      BY <1>3, <3>1 DEF IsUnfolding
    <3>3. step[<<k, g[k]>>] = g[k] \o ss[k + 2]
      BY <3>1, <3>2 DEF step
    <3>4. f[i] = g[k + 1] /\ f[i - 1] = g[k]
      BY <3>1
    <3>. HIDE DEF k, f
    <3>. QED
      BY <2>2, <3>1, <3>2, <3>3, <3>4
  <2>. QED
    BY <2>1, <2>2
<1>5. f = [i \in 1 .. n |-> f[i]]
  OBVIOUS
<1>. HIDE DEF f
<1>6. f = [i \in 1 .. n |-> IF i = 1 THEN ss[i] ELSE f[i - 1] \o ss[i]]
  BY <1>4, <1>5
<1>. QED
  BY <1>6 DEF IsJoining

\* The join of all, and of one more.
LEMMA JoiningFacts ==
  ASSUME NEW S, NEW ss \in Seq(Seq(S)), NEW s \in Seq(S)
  PROVE  /\ ss # <<>> => Joining(ss)[Len(ss)] \in Seq(S)
         /\ Joining(Append(ss, s))[Len(ss) + 1]
              = IF ss = <<>> THEN s ELSE Joining(ss)[Len(ss)] \o s
<1>. DEFINE n == Len(ss)
            tt == Append(ss, s)
            f == Joining(ss)
            g == Joining(tt)
<1>1. /\ n \in Nat /\ (ss = <<>> <=> n = 0)
      /\ \A i \in 1 .. n : ss[i] \in Seq(S)
  BY EmptySeq, LenProperties, ElementOfSeq
<1>2. /\ tt \in Seq(Seq(S)) /\ tt # <<>> /\ Len(tt) = n + 1
      /\ \A i \in 1 .. n : tt[i] = ss[i]
      /\ tt[n + 1] = s
  BY AppendProperties
<1>3. \A q \in Seq(Seq(S)) : q # <<>> =>
        \A i \in 1 .. Len(q) : Joining(q)[i] = IF i = 1 THEN q[i] ELSE Joining(q)[i - 1] \o q[i]
  <2>. SUFFICES ASSUME NEW q \in Seq(Seq(S)), q # <<>>
                PROVE  \A i \in 1 .. Len(q) :
                         Joining(q)[i] = IF i = 1 THEN q[i] ELSE Joining(q)[i - 1] \o q[i]
    OBVIOUS
  <2>1. IsJoining(Joining(q), q)
    <3>1. \E h : IsJoining(h, q)
      BY JoinsExist
    <3>. QED
      BY <3>1 DEF Joining
  <2>. QED
    BY <2>1 DEF IsJoining
<1>. HIDE DEF n, tt
<1>4. /\ n # 0 => \A i \in 1 .. n : f[i] = IF i = 1 THEN ss[i] ELSE f[i - 1] \o ss[i]
      /\ \A i \in 1 .. n + 1 : g[i] = IF i = 1 THEN tt[i] ELSE g[i - 1] \o tt[i]
  BY <1>1, <1>2, <1>3 DEF n
<1>. HIDE DEF f, g
<1>. DEFINE T == {k \in Nat : k + 1 <= n => f[k + 1] \in Seq(S) /\ g[k + 1] = f[k + 1]}
<1>5. 0 \in T
  <2>. SUFFICES ASSUME n >= 1 PROVE f[1] \in Seq(S) /\ g[1] = f[1]
    OBVIOUS
  <2>1. 1 \in 1 .. n /\ 1 \in 1 .. n + 1 /\ n # 0
    BY <1>1
  <2>. QED
    BY <1>1, <1>2, <1>4, <2>1
<1>6. ASSUME NEW k \in Nat, k \in T
      PROVE  k + 1 \in T
  <2>. DEFINE m == k + 2
  <2>1. m = (k + 1) + 1 /\ m \in Nat /\ m # 1 /\ m - 1 = k + 1
    OBVIOUS
  <2>. SUFFICES ASSUME m <= n PROVE f[m] \in Seq(S) /\ g[m] = f[m]
    BY <2>1
  <2>2. m \in 1 .. n /\ m \in 1 .. n + 1 /\ n # 0 /\ k + 1 <= n
    BY <1>1, <2>1
  <2>3. f[m - 1] \in Seq(S) /\ g[m - 1] = f[m - 1]
    BY <1>6, <2>1, <2>2
  <2>. HIDE DEF m
  <2>4. f[m] = f[m - 1] \o ss[m] /\ g[m] = g[m - 1] \o tt[m] /\ ss[m] \in Seq(S) /\ tt[m] = ss[m]
    BY <1>1, <1>2, <1>4, <2>1, <2>2
  <2>. QED
    BY <2>3, <2>4, ConcatProperties
<1>. HIDE DEF T
<1>7. Nat \subseteq T
  BY <1>5, <1>6, NumberInduction
<1>8. n # 0 => f[n] \in Seq(S) /\ g[n] = f[n]
  <2>. SUFFICES ASSUME n # 0 PROVE f[n] \in Seq(S) /\ g[n] = f[n]
    OBVIOUS
  <2>. DEFINE k == n - 1
  <2>1. k \in Nat /\ k + 1 = n
    BY <1>1
  <2>. HIDE DEF k
  <2>2. k \in T
    BY <1>7, <2>1
  <2>. QED
    BY <1>1, <2>1, <2>2 DEF T
<1>9. g[n + 1] = IF n = 0 THEN s ELSE f[n] \o s
  <2>1. n + 1 \in 1 .. n + 1 /\ (n + 1) - 1 = n /\ (n + 1 = 1 <=> n = 0)
    BY <1>1
  <2>2. g[n + 1] = IF n + 1 = 1 THEN tt[n + 1] ELSE g[n] \o tt[n + 1]
    BY <1>4, <2>1
  <2>. QED
    BY <1>2, <1>8, <2>1, <2>2
<1>. QED
  BY <1>1, <1>8, <1>9 DEF n, tt, f, g

-----------------------------------------------------------------------------
(***************************************************************************)
(* Concatenation.                                                          *)
(***************************************************************************)
\* Names for the groupings: the provers look into `\o` when they see it.
Associates(s, t, u) == (s \o t) \o u = s \o (t \o u)

Regroups(b, h, t, d) == b \o ((h \o t) \o d) = (b \o h) \o (t \o d)

\* Three sequences in another grouping.
LEMMA Grouping ==
  ASSUME NEW S, NEW s \in Seq(S), NEW t \in Seq(S), NEW u \in Seq(S)
  PROVE  Associates(s, t, u)
  BY ConcatAssociative DEF Associates

\* Four sequences in another grouping.
LEMMA Regrouping ==
  ASSUME NEW S, NEW b \in Seq(S), NEW h \in Seq(S), NEW t \in Seq(S), NEW d \in Seq(S)
  PROVE  Regroups(b, h, t, d)
<1>. DEFINE z == t \o d
<1>1. z \in Seq(S)
  BY ConcatProperties
<1>2. Associates(h, t, d)
  BY Grouping
<1>. HIDE DEF z
<1>3. Associates(b, h, z)
  BY <1>1, Grouping
<1>. QED
  BY <1>2, <1>3, Zenon DEF z, Associates, Regroups

IsConcat(all, s, t) == all = s \o t

\* What has been given, is prepared, is queued and is still to come, in this order.
Together(a, b, c, d) == a \o (b \o (c \o d))

\* The ways in which it moves along.
LEMMA TogetherFacts ==
  ASSUME NEW S, NEW a \in Seq(S), NEW b \in Seq(S), NEW c \in Seq(S), NEW d \in Seq(S)
  PROVE  /\ Together(a, b, c, d) = Together(a \o b, <<>>, c, d)
         /\ c # <<>> => Together(a, b, c, d) = Together(a, Append(b, Head(c)), Tail(c), d)
         /\ Together(<<>>, <<>>, <<>>, d) = d
         /\ \A q, t \in Seq(S) : IsConcat(d, q, t) => Together(a, b, <<>>, d) = Together(a, b, q, t)
<1>. DEFINE z == c \o d
<1>1. z \in Seq(S)
  BY ConcatProperties
<1>. HIDE DEF z
<1>2. Associates(a, b, z)
  BY <1>1, Grouping
<1>3. <<>> \o z = z
  BY <1>1, ConcatEmptySeq
<1>4. ASSUME c # <<>>
      PROVE  b \o (c \o d) = Append(b, Head(c)) \o (Tail(c) \o d)
  <2>. DEFINE h == <<Head(c)>>
              t == Tail(c)
  <2>1. Head(c) \in S /\ t \in Seq(S) /\ h \in Seq(S)
    BY <1>4, HeadTailProperties
  <2>2. c = h \o t
    <3>1. h \o t \in Seq(S) /\ Len(h \o t) = 1 + Len(t) /\ Len(t) = Len(c) - 1 /\ Len(c) \in Nat
      BY <1>4, <2>1, ConcatProperties, HeadTailProperties, LenProperties
    <3>2. \A i \in 1 .. Len(c) : c[i] = (h \o t)[i]
      BY <1>4, <2>1, <3>1, ConcatProperties, HeadTailProperties, LenProperties
    <3>. QED
      BY <3>1, <3>2, SeqEqual
  <2>3. Append(b, Head(c)) = b \o h
    BY <2>1, AppendIsConcat
  <2>. HIDE DEF h, t
  <2>4. Regroups(b, h, t, d)
    BY <2>1, Regrouping
  <2>. QED
    BY <2>2, <2>3, <2>4, Zenon DEF t, Regroups
<1>5. Together(a, b, c, d) = Together(a \o b, <<>>, c, d)
  BY <1>2, <1>3, Zenon DEF Associates, Together, z
<1>6. c # <<>> => Together(a, b, c, d) = Together(a, Append(b, Head(c)), Tail(c), d)
  BY <1>4, Zenon DEF Together
<1>7. <<>> \o d = d
  BY ConcatEmptySeq
<1>8. Together(<<>>, <<>>, <<>>, d) = d
  BY <1>7, Zenon DEF Together
<1>9. ASSUME NEW q \in Seq(S), NEW t \in Seq(S), IsConcat(d, q, t)
      PROVE  Together(a, b, <<>>, d) = Together(a, b, q, t)
  BY <1>7, <1>9, Zenon DEF Together, IsConcat
<1>. QED
  BY <1>5, <1>6, <1>8, <1>9

\* The first part of a sequence.
LEMMA FirstPart ==
  ASSUME NEW S, NEW s \in Seq(S), NEW t \in Seq(S), NEW all, IsConcat(all, s, t)
  PROVE  /\ Len(all) = Len(s) + Len(t)
         /\ SubSeq(all, 1, Len(s)) = s
<1>1. all = s \o t /\ Len(s) \in Nat
  BY LenProperties DEF IsConcat
<1>2. Len(s \o t) = Len(s) + Len(t)
  BY ConcatProperties
<1>3. CASE s = <<>>
  <2>1. Len(s) = 0
    BY <1>3, EmptyLength
  <2>2. SubSeq(all, 1, 0) = <<>>
    BY SubSeqEmpty
  <2>. QED
    BY <1>1, <1>2, <1>3, <2>1, <2>2, Zenon
<1>4. CASE s # <<>>
  <2>1. Len(s) # 0
    BY <1>4, EmptyLength
  <2>2. 1 \in 1 .. Len(s) /\ Len(s) \in 1 .. Len(s)
    BY <1>1, <2>1
  <2>3. SubSeq(s \o t, 1, Len(s)) = SubSeq(s, 1, Len(s))
    BY <2>2, SubSeqOfConcat1
  <2>4. SubSeq(s, 1, Len(s)) = s
    BY SubSeqFull
  <2>. QED
    BY <1>1, <1>2, <2>3, <2>4, Zenon
<1>. QED
  BY <1>3, <1>4
=============================================================================
