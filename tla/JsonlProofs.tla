----------------------------- MODULE JsonlProofs -----------------------------
(***************************************************************************)
(* Proofs about a JSONL stream and its source, for every directory and     *)
(* whatever other processes do to it, and for every file, chain of         *)
(* operators and limits.                                                   *)
(***************************************************************************)
EXTENDS PinnedSource, InductionLemmas

-----------------------------------------------------------------------------
(***************************************************************************)
(* The inductive invariant of the source.                                  *)
(***************************************************************************)
Binding == {"unbound", "resolved", "inspected", "pinning"}

Bound == {"bound", "canonical", "examined", "reopened", "reading"}

\* What names and handles refer to.
Nodes == Held \cup {entries[m] : m \in Names}

\* As long as a name or a handle keeps it, an inode stands for one file.
Identity == \A a, b \in Nodes : a \in FileNode /\ b \in FileNode /\ a.ino = b.ino => a = b

PinTypes ==
  /\ entries \in [Names -> Entry] /\ born \in Nat
  /\ path \in Names /\ canonical \in Names
  /\ step \in Binding \cup Bound
  /\ pinned \in FileNode \cup {Nothing} /\ reader \in FileNode \cup {Nothing}

\* The handles there are at each step; the file examined by its path was the pinned one if
\* its inode was.
Handles ==
  /\ step \in {"pinning", "reopened", "reading"} => reader \in FileNode
  /\ step \in Bound => pinned \in FileNode
  /\ step \in {"examined", "reopened"} =>
       metadata.kind = "file" /\ (metadata.ino = pinned.ino => metadata = pinned)

SInv == PinTypes /\ Identity /\ Handles /\ SourceIsPinned

-----------------------------------------------------------------------------
(***************************************************************************)
(* The steps.                                                              *)
(***************************************************************************)

\* A record is one kind of entry by its kind.
LEMMA EntryKinds ==
  ASSUME NEW e \in Entry
  PROVE  /\ e.kind \in {"file", "dir"} <=> e \in FileNode
         /\ e.kind = "link" => e.to \in Names
         /\ Nothing \notin FileNode
BY DEF Entry, FileNode, Nothing

\* What a path leads to.
LEMMA NodeFacts ==
  ASSUME SInv, NEW name \in Names
  PROVE  /\ Target(name) \in Names /\ Node(name) \in Entry /\ Node(name) \in Nodes
         /\ Exists(name) <=> Node(name) \in FileNode
         /\ Node(name).kind = "file" => Node(name) \in FileNode
<1>1. entries \in [Names -> Entry] /\ entries[name] \in Entry
  BY DEF SInv, PinTypes
<1>2. Target(name) \in Names
  BY <1>1, EntryKinds DEF Target
<1>3. Node(name) \in Entry /\ Node(name) \in Nodes
  BY <1>1, <1>2 DEF Node, Nodes
<1>. QED
  BY <1>2, <1>3, EntryKinds DEF Exists

\* Steps that only bring to an end what is known keep inodes unambiguous.
LEMMA FewerNodes ==
  ASSUME Identity, \A n \in Nodes' : n \in FileNode => n \in Nodes
  PROVE  Identity'
BY DEF Identity

\* Other processes may do anything but use an inode that is in use.
LEMMA InterfereInv ==
  ASSUME SInv, NEW changed, DOMAIN changed \subseteq Names, Interfere(changed),
         \A n \in DOMAIN changed : changed[n] \in Entry,
         \/ \A n \in DOMAIN changed : changed[n] \in FileNode => changed[n] \in Nodes
         \/ \E n \in Names, ino \in Inodes :
              DOMAIN changed = {n} /\ changed[n].ino = ino /\ ino \notin InUse,
         born' \in Nat
  PROVE  SInv'
<1>1. /\ entries' = [n \in Names |-> IF n \in DOMAIN changed THEN changed[n] ELSE entries[n]]
      /\ UNCHANGED <<step, path, canonical, metadata, pinned, reader>>
  BY DEF Interfere, pinVars
<1>2. entries \in [Names -> Entry]
  BY DEF SInv, PinTypes
<1>3. entries' \in [Names -> Entry]
  BY <1>1, <1>2
<1>4. PinTypes'
  BY <1>1, <1>3 DEF SInv, PinTypes
<1>5. Handles' /\ SourceIsPinned'
  BY <1>1 DEF SInv, Handles, SourceIsPinned
<1>6. ASSUME NEW a \in Nodes' PROVE a \in Nodes \/ \E n \in DOMAIN changed : a = changed[n]
  <2>1. CASE a \in {pinned, reader}
    BY <2>1 DEF Nodes, Held
  <2>2. CASE a \notin {pinned, reader}
    <3>1. PICK m \in Names : a = entries'[m]
      BY <1>1, <2>2 DEF Nodes, Held
    <3>2. a = IF m \in DOMAIN changed THEN changed[m] ELSE entries[m]
      BY <1>1, <3>1
    <3>. QED
      BY <3>2 DEF Nodes
  <2>. QED
    BY <2>1, <2>2
<1>7. Identity'
  <2>1. CASE \A n \in DOMAIN changed : changed[n] \in FileNode => changed[n] \in Nodes
    BY <1>6, <2>1, FewerNodes DEF SInv
  <2>2. CASE \E n \in Names, ino \in Inodes :
               DOMAIN changed = {n} /\ changed[n].ino = ino /\ ino \notin InUse
    <3>1. PICK n \in Names : DOMAIN changed = {n} /\ changed[n].ino \notin InUse
      BY <2>2
    <3>2. ASSUME NEW a \in Nodes, a \in FileNode PROVE a.ino \in InUse
      <4>1. a.kind \in {"file", "dir"}
        BY <3>2 DEF FileNode
      <4>. QED
        BY <3>2, <4>1 DEF InUse, Nodes
    <3>3. SUFFICES ASSUME NEW a \in Nodes', NEW b \in Nodes', a \in FileNode, b \in FileNode, a.ino = b.ino
                   PROVE  a = b
      BY DEF Identity
    <3>4. (a \in Nodes \/ a = changed[n]) /\ (b \in Nodes \/ b = changed[n])
      BY <1>6, <3>1
    <3>5. CASE a \in Nodes /\ b \in Nodes
      BY <3>3, <3>5 DEF SInv, Identity
    <3>. QED
      BY <3>1, <3>2, <3>3, <3>4, <3>5
  <2>. QED
    BY <2>1, <2>2
<1>. QED
  BY <1>4, <1>5, <1>7 DEF SInv

\* Removing a file.
LEMMA UnlinkInv ==
  ASSUME SInv, NEW n \in Names, Unlink(n)
  PROVE  SInv'
<1>1. born \in Nat
  BY DEF SInv, PinTypes
<1>2. Nothing \in Entry /\ Nothing \notin FileNode
  BY EntryKinds DEF Entry
<1>. DEFINE changed == [m \in {n} |-> Nothing]
<1>3. Interfere(changed) /\ born' = born
  BY DEF Unlink
<1>4. DOMAIN changed \subseteq Names /\ \A m \in DOMAIN changed : changed[m] = Nothing
  OBVIOUS
<1>. HIDE DEF changed
<1>. QED
  BY <1>1, <1>2, <1>3, <1>4, InterfereInv

\* A new file has an inode that nothing keeps.
LEMMA CreateInv ==
  ASSUME SInv, NEW n \in Names, NEW kind \in {"file", "dir"}, NEW ino \in Inodes, Create(n, kind, ino)
  PROVE  SInv'
<1>1. born \in Nat
  BY DEF SInv, PinTypes
<1>. DEFINE new == [kind |-> kind, ino |-> ino, gen |-> born']
            changed == [m \in {n} |-> new]
<1>2. Interfere(changed) /\ born' = born + 1 /\ ino \notin InUse
  BY DEF Create
<1>3. born' \in Nat
  BY <1>1, <1>2
<1>4. new \in FileNode /\ new.ino = ino
  BY <1>3 DEF FileNode
<1>. HIDE DEF new
<1>5. DOMAIN changed = {n} /\ changed[n] = new /\ DOMAIN changed \subseteq Names
  OBVIOUS
<1>. HIDE DEF changed
<1>6. \A m \in DOMAIN changed : changed[m] \in Entry
  BY <1>4, <1>5 DEF Entry
<1>. QED
  BY <1>2, <1>3, <1>4, <1>5, <1>6, InterfereInv

\* Renaming moves an entry as it is.
LEMMA RenameInv ==
  ASSUME SInv, NEW n \in Names, NEW to \in Names, Rename(n, to)
  PROVE  SInv'
<1>1. entries[n] \in Entry /\ entries[n] \in Nodes /\ born \in Nat
  BY DEF SInv, PinTypes, Nodes
<1>2. Nothing \in Entry /\ Nothing \notin FileNode
  BY EntryKinds DEF Entry
<1>. DEFINE changed == [m \in {n, to} |-> IF m = to THEN entries[n] ELSE Nothing]
<1>3. Interfere(changed) /\ born' = born
  BY DEF Rename
<1>4. DOMAIN changed \subseteq Names /\ \A m \in DOMAIN changed : changed[m] \in {Nothing, entries[n]}
  OBVIOUS
<1>. HIDE DEF changed
<1>. QED
  BY <1>1, <1>2, <1>3, <1>4, InterfereInv

\* A link has no inode of its own.
LEMMA MakeLinkInv ==
  ASSUME SInv, NEW n \in Names, NEW to \in Names, MakeLink(n, to)
  PROVE  SInv'
<1>1. born \in Nat
  BY DEF SInv, PinTypes
<1>. DEFINE link == [kind |-> "link", to |-> to]
            changed == [m \in {n} |-> link]
<1>2. Interfere(changed) /\ born' = born
  BY DEF MakeLink
<1>3. link \in Entry /\ link.kind = "link"
  BY DEF Entry
<1>4. link \notin FileNode
  BY <1>3, EntryKinds
<1>. HIDE DEF link
<1>5. DOMAIN changed \subseteq Names /\ \A m \in DOMAIN changed : changed[m] = link
  OBVIOUS
<1>. HIDE DEF changed
<1>. QED
  BY <1>1, <1>2, <1>3, <1>4, <1>5, InterfereInv

\* Binding: the handle that is pinned is one that was opened.
LEMMA BindInv ==
  ASSUME SInv, ResolvePath \/ InspectPath \/ OpenPath \/ PinFile
  PROVE  SInv'
<1>1. entries' = entries /\ born' = born /\ canonical' = canonical
  BY DEF ResolvePath, InspectPath, OpenPath, PinFile, nameVars
<1>2. path \in Names /\ BoundName \in Names
  BY SourceAssumption DEF SInv, PinTypes
<1>3. /\ Target(BoundName) \in Names /\ Node(path) \in Nodes
      /\ Exists(path) <=> Node(path) \in FileNode
  BY <1>2, NodeFacts
<1>4. /\ step \in Binding /\ step' \in Binding \cup {"bound"} /\ path' \in Names
      /\ pinned' \in {pinned, reader, Nothing} /\ reader' \in {reader, Nothing, Node(path)}
      /\ step' = "pinning" => reader' = Node(path) /\ Node(path) \in FileNode
      /\ step' = "bound" => step = "pinning" /\ pinned' = reader
  BY <1>2, <1>3 DEF ResolvePath, InspectPath, OpenPath, PinFile, Advance, Binding
<1>5. reader' \in FileNode \cup {Nothing} /\ pinned' \in FileNode \cup {Nothing}
  BY <1>3, <1>4 DEF SInv, PinTypes, OpenPath, PinFile, ResolvePath, InspectPath
<1>6. PinTypes'
  BY <1>1, <1>4, <1>5 DEF SInv, PinTypes, Bound
<1>7. Nothing \notin FileNode
  BY EntryKinds DEF Entry
<1>8. \A a \in Nodes' : a \in FileNode => a \in Nodes
  BY <1>1, <1>3, <1>4, <1>7 DEF Nodes, Held
<1>9. Identity'
  BY <1>8, FewerNodes DEF SInv
<1>10. Handles' /\ SourceIsPinned'
  BY <1>4 DEF SInv, Handles, SourceIsPinned, Binding, Bound
<1>. QED
  BY <1>6, <1>9, <1>10 DEF SInv

\* Opening: the handle that is read has the inode of the pinned one while both are held, and
\* so did the file that was examined.
LEMMA OpenInv ==
  ASSUME SInv, Canonicalize \/ Examine \/ Reopen \/ OpenPinned \/ OpenReplaced
  PROVE  SInv'
<1>1. UNCHANGED <<entries, born, path, pinned>>
  BY DEF Canonicalize, Examine, Reopen, OpenPinned, OpenReplaced, nameVars
<1>2. path \in Names /\ canonical \in Names
  BY DEF SInv, PinTypes
<1>3. /\ Target(path) \in Names /\ Node(canonical) \in Nodes
      /\ Exists(canonical) <=> Node(canonical) \in FileNode
      /\ Node(canonical).kind = "file" => Node(canonical) \in FileNode
  BY <1>2, NodeFacts
<1>4. /\ step \in Bound /\ step' \in Bound /\ canonical' \in Names
      /\ reader' \in {reader, Nothing, Node(canonical)}
      /\ reader' \in FileNode \cup {Nothing}
  BY <1>2, <1>3 DEF Canonicalize, Examine, Reopen, OpenPinned, OpenReplaced, Advance, Bound, SInv, PinTypes
<1>5. PinTypes'
  BY <1>1, <1>4 DEF SInv, PinTypes
<1>6. Nothing \notin FileNode
  BY EntryKinds DEF Entry
<1>7. \A a \in Nodes' : a \in FileNode => a \in Nodes
  BY <1>1, <1>3, <1>4, <1>6 DEF Nodes, Held
<1>8. Identity'
  BY <1>7, FewerNodes DEF SInv
<1>9. pinned \in FileNode /\ pinned \in Nodes /\ reader \in Nodes
  BY <1>4 DEF SInv, Handles, Nodes, Held
<1>10. Handles'
  <2>1. CASE Canonicalize \/ OpenReplaced \/ OpenPinned
    BY <1>1, <1>9, <2>1 DEF Canonicalize, OpenReplaced, OpenPinned, SInv, Handles
  <2>2. CASE Examine
    <3>1. Node(canonical).kind = "file" /\ Node(canonical).ino = pinned.ino => Node(canonical) = pinned
      BY <1>3, <1>9 DEF SInv, Identity
    <3>. QED
      BY <1>1, <1>9, <2>2, <3>1 DEF Examine, Advance, Handles
  <2>3. CASE Reopen
    BY <1>1, <1>3, <1>9, <2>3 DEF Reopen, Advance, SInv, Handles
  <2>. QED
    BY <2>1, <2>2, <2>3
<1>11. SourceIsPinned'
  <2>1. CASE OpenPinned
    <3>1. reader \in FileNode /\ metadata.kind = "file" /\ (metadata.ino = pinned.ino => metadata = pinned)
      BY <2>1 DEF OpenPinned, SInv, Handles
    <3>2. pinned = metadata /\ reader = pinned
      BY <1>9, <2>1, <3>1 DEF OpenPinned, StillPinned, SameFile, SInv, Identity
    <3>. QED
      BY <2>1, <3>1, <3>2 DEF OpenPinned, SourceIsPinned
  <2>2. CASE ~ OpenPinned
    BY <2>2 DEF Canonicalize, Examine, Reopen, OpenReplaced, Advance, SourceIsPinned
  <2>. QED
    BY <2>1, <2>2
<1>. QED
  BY <1>5, <1>8, <1>10, <1>11 DEF SInv

\* A stream reads the very file that was pinned when its model was bound, and a regular one,
\* for every directory and every number of replacements, wherever they fall between the
\* system calls of binding and opening: an inode is not used again while a handle keeps it.
THEOREM StreamsReadThePinnedFile == SourceSpec => []SourceIsPinned
<1>1. SourceInit => SInv
  <2>. SUFFICES ASSUME SourceInit PROVE SInv
    OBVIOUS
  <2>1. /\ entries = Directory /\ born = 0 /\ step = "unbound" /\ path = BoundName /\ canonical = BoundName
        /\ pinned = Nothing /\ reader = Nothing
    BY DEF SourceInit
  <2>2. PinTypes
    BY <2>1, SourceAssumption, DirectoryAssumption DEF PinTypes, Binding
  <2>3. Nothing \notin FileNode
    BY EntryKinds DEF Entry
  <2>4. Identity
    BY <2>1, <2>3, DirectoryAssumption DEF Identity, Nodes, Held
  <2>5. Handles /\ SourceIsPinned
    BY <2>1 DEF Handles, SourceIsPinned, Bound
  <2>. QED
    BY <2>2, <2>4, <2>5 DEF SInv
<1>2. SInv /\ [SourceNext]_<<vars, nameVars, pinVars>> => SInv'
  <2>. SUFFICES ASSUME SInv, [SourceNext]_<<vars, nameVars, pinVars>> PROVE SInv'
    OBVIOUS
  <2>1. CASE UNCHANGED <<nameVars, pinVars>>
    BY <2>1 DEF nameVars, pinVars, SInv, PinTypes, Identity, Nodes, Held, Handles, SourceIsPinned
  <2>2. OpenRefused \/ Unresolved \/ UseStream => UNCHANGED <<nameVars, pinVars>>
    BY DEF OpenRefused, Unresolved, UseStream
  <2>. QED
    BY <2>1, <2>2, UnlinkInv, CreateInv, RenameInv, MakeLinkInv, BindInv, OpenInv DEF SourceNext
<1>. QED
  BY <1>1, <1>2, PTL DEF SourceSpec, SInv

-----------------------------------------------------------------------------
(***************************************************************************)
(* Sums.                                                                   *)
(***************************************************************************)
IsSum(f, ns) == f = [i \in 0 .. Len(ns) |-> IF i = 0 THEN 0 ELSE f[i - 1] + ns[i]]

Sums(ns) == CHOOSE f : IsSum(f, ns)

\* The partial sums of numbers.
LEMMA SumsOf ==
  ASSUME NEW ns \in Seq(Nat)
  PROVE  /\ Sum(ns) = Sums(ns)[Len(ns)]
         /\ Sums(ns)[0] = 0
         /\ \A i \in 1 .. Len(ns) : Sums(ns)[i] = Sums(ns)[i - 1] + ns[i]
         /\ \A i \in 0 .. Len(ns) : Sums(ns)[i] \in Nat
<1>. DEFINE n == Len(ns)
            turn == [p \in (1 .. n) \X Nat |-> p[2] + ns[p[1]]]
<1>1. n \in Nat /\ \A i \in 1 .. n : ns[i] \in Nat
  BY LenProperties, ElementOfSeq
<1>2. turn \in [(1 .. n) \X Nat -> Nat] /\ \A i \in 1 .. n, x \in Nat : turn[<<i, x>>] = x + ns[i]
  BY <1>1
<1>. HIDE DEF turn, n
<1>3. PICK f : IsLoop(f, Nat, 0, turn, n)
  <2>1. AreTurns(turn, Nat, n)
    BY <1>2 DEF AreTurns
  <2>. QED
    BY <1>1, <2>1, Loops
<1>4. ASSUME NEW i \in 0 .. n
      PROVE  f[i] = IF i = 0 THEN 0 ELSE f[i - 1] + ns[i]
  <2>1. CASE i # 0
    <3>1. i \in 1 .. n /\ i - 1 \in 0 .. n
      BY <1>1, <2>1
    <3>2. f[i - 1] \in Nat
      BY <1>3, <3>1 DEF IsLoop
    <3>3. f[i] = turn[<<i, f[i - 1]>>]
      BY <1>3, <3>1 DEF IsLoop
    <3>. QED
      BY <1>2, <2>1, <3>1, <3>2, <3>3
  <2>. QED
    BY <1>3, <2>1 DEF IsLoop
<1>5. f = [i \in 0 .. n |-> IF i = 0 THEN 0 ELSE f[i - 1] + ns[i]]
  <2>1. f = [i \in 0 .. n |-> f[i]]
    BY <1>3 DEF IsLoop
  <2>. QED
    BY <1>4, <2>1
<1>6. IsSum(Sums(ns), ns)
  <2>1. IsSum(f, ns)
    BY <1>5 DEF IsSum, n
  <2>. QED
    BY <2>1 DEF Sums
<1>. DEFINE g == Sums(ns)
<1>7. \A i \in 0 .. n : g[i] = IF i = 0 THEN 0 ELSE g[i - 1] + ns[i]
  BY <1>6 DEF IsSum, n
<1>8. Sum(ns) = g[n]
  BY DEF Sum, Sums, IsSum, n
<1>. HIDE DEF g
<1>9. g[0] = 0 /\ \A i \in 1 .. n : g[i] = g[i - 1] + ns[i]
  BY <1>1, <1>7
<1>. DEFINE T == {k \in Nat : k <= n => g[k] \in Nat}
<1>10. 0 \in T
  BY <1>9
<1>11. ASSUME NEW k \in Nat, k \in T
       PROVE  k + 1 \in T
  <2>. SUFFICES ASSUME k + 1 <= n PROVE g[k + 1] \in Nat
    OBVIOUS
  <2>1. k + 1 \in 1 .. n /\ (k + 1) - 1 = k /\ g[k] \in Nat
    BY <1>1, <1>11
  <2>2. g[k + 1] = g[k] + ns[k + 1] /\ ns[k + 1] \in Nat
    BY <1>1, <1>9, <2>1
  <2>. QED
    BY <2>1, <2>2
<1>. HIDE DEF T
<1>12. Nat \subseteq T
  BY <1>10, <1>11, NumberInduction
<1>13. \A i \in 0 .. n : g[i] \in Nat
  BY <1>1, <1>12 DEF T
<1>. QED
  BY <1>8, <1>9, <1>13 DEF n, g

\* The sum of no numbers, and of one more.
LEMMA SumAppend ==
  ASSUME NEW ns \in Seq(Nat)
  PROVE  /\ Sum(ns) \in Nat
         /\ ns = <<>> => Sum(ns) = 0
         /\ \A x \in Nat : Sum(Append(ns, x)) = Sum(ns) + x
<1>1. Len(ns) \in Nat /\ Len(ns) \in 0 .. Len(ns)
  BY LenProperties
<1>2. Sum(ns) \in Nat
  BY <1>1, SumsOf
<1>3. ns = <<>> => Sum(ns) = 0
  BY SumsOf
<1>4. ASSUME NEW x \in Nat
      PROVE  Sum(Append(ns, x)) = Sum(ns) + x
  <2>. DEFINE n == Len(ns)
              ms == Append(ns, x)
              f == Sums(ns)
              g == Sums(ms)
              T == {k \in Nat : k <= n => g[k] = f[k]}
  <2>1. ms \in Seq(Nat) /\ Len(ms) = n + 1 /\ (\A i \in 1 .. n : ms[i] = ns[i]) /\ ms[n + 1] = x
    BY AppendProperties
  <2>. HIDE DEF ms
  <2>2. /\ f[0] = 0 /\ \A i \in 1 .. n : f[i] = f[i - 1] + ns[i]
        /\ g[0] = 0 /\ \A i \in 1 .. n + 1 : g[i] = g[i - 1] + ms[i]
    BY <2>1, SumsOf
  <2>3. Sum(ns) = f[n] /\ Sum(ms) = g[n + 1]
    BY <2>1, SumsOf
  <2>4. n \in Nat
    BY <1>1
  <2>. HIDE DEF n, f, g
  <2>5. 0 \in T
    BY <2>2
  <2>6. ASSUME NEW k \in Nat, k \in T
        PROVE  k + 1 \in T
    <3>. SUFFICES ASSUME k + 1 <= n PROVE g[k + 1] = f[k + 1]
      OBVIOUS
    <3>1. k + 1 \in 1 .. n /\ k + 1 \in 1 .. n + 1 /\ (k + 1) - 1 = k /\ g[k] = f[k]
      BY <2>4, <2>6
    <3>. QED
      BY <2>1, <2>2, <3>1
  <2>. HIDE DEF T
  <2>7. Nat \subseteq T
    BY <2>5, <2>6, NumberInduction
  <2>8. g[n] = f[n]
    BY <2>4, <2>7 DEF T
  <2>9. g[n + 1] = g[n] + x
    <3>1. n + 1 \in 1 .. n + 1 /\ (n + 1) - 1 = n
      BY <2>4
    <3>. QED
      BY <2>1, <2>2, <3>1
  <2>. QED
    BY <2>3, <2>8, <2>9 DEF ms
<1>. QED
  BY <1>2, <1>3, <1>4

\* The sum from the other end.
LEMMA SumHead ==
  ASSUME NEW ns \in Seq(Nat), ns # <<>>
  PROVE  Sum(ns) = Head(ns) + Sum(Tail(ns))
<1>. DEFINE T == {n \in Nat : \A s \in Seq(Nat) : Len(s) = n + 1 => Sum(s) = Head(s) + Sum(Tail(s))}
<1>1. 0 \in T
  <2>. SUFFICES ASSUME NEW s \in Seq(Nat), Len(s) = 1
                PROVE  Sum(s) = Head(s) + Sum(Tail(s))
    OBVIOUS
  <2>. HIDE DEF T
  <2>1. PICK x \in Nat : s = Append(<<>>, x)
    BY OneMember
  <2>2. <<>> \in Seq(Nat)
    BY EmptySeq
  <2>3. Head(s) = x /\ Tail(s) = <<>>
    BY <2>1, <2>2, HeadTailAppend
  <2>4. Sum(<<>>) = 0
    BY <2>2, SumAppend
  <2>5. Sum(s) = 0 + x /\ Sum(Tail(s)) = 0
    BY <2>1, <2>2, <2>3, <2>4, SumAppend
  <2>. QED
    BY <2>3, <2>5
<1>2. ASSUME NEW n \in Nat, n \in T
      PROVE  n + 1 \in T
  <2>. SUFFICES ASSUME NEW s \in Seq(Nat), Len(s) = n + 2
                PROVE  Sum(s) = Head(s) + Sum(Tail(s))
    OBVIOUS
  <2>. HIDE DEF T
  <2>2. PICK m \in Seq(Nat), x \in Nat : s = Append(m, x) /\ Len(m) = n + 1
    <3>1. Len(s) = (n + 1) + 1 /\ n + 1 \in Nat /\ s \in Seq(Nat)
      OBVIOUS
    <3>. QED
      BY <3>1, LastMember, Zenon
  <2>3. m # <<>>
    BY <2>2, EmptyLength
  <2>4. Sum(m) = Head(m) + Sum(Tail(m))
    BY <1>2, <2>2 DEF T
  <2>5. Head(s) = Head(m) /\ Tail(s) = Append(Tail(m), x)
    BY <2>2, <2>3, HeadTailAppend
  <2>6. Tail(m) \in Seq(Nat) /\ Head(m) \in Nat
    BY <2>3, HeadTailProperties
  <2>7. Sum(s) = Sum(m) + x
    BY <2>2, SumAppend
  <2>8. Sum(Tail(m)) \in Nat /\ Sum(Tail(s)) = Sum(Tail(m)) + x
    <3>. DEFINE t == Tail(m)
    <3>. HIDE DEF t
    <3>1. Sum(t) \in Nat /\ Sum(Append(t, x)) = Sum(t) + x
      BY <2>6, SumAppend DEF t
    <3>. QED
      BY <2>5, <3>1, Zenon DEF t
  <2>. QED
    BY <2>4, <2>5, <2>6, <2>7, <2>8
<1>. HIDE DEF T
<1>3. Nat \subseteq T
  BY <1>1, <1>2, NumberInduction
<1>. DEFINE k == Len(ns) - 1
<1>4. k \in Nat /\ Len(ns) = k + 1
  BY EmptySeq
<1>. HIDE DEF k
<1>5. k \in T
  BY <1>3, <1>4
<1>. QED
  BY <1>4, <1>5 DEF T

-----------------------------------------------------------------------------
(***************************************************************************)
(* The operators over sequences of rows.                                   *)
(***************************************************************************)

\* Joining sequences, one more at a time.
LEMMA Flattened ==
  ASSUME NEW S, NEW ss \in Seq(Seq(S))
  PROVE  /\ FlattenSeq(ss) \in Seq(S)
         /\ ss = <<>> => FlattenSeq(ss) = <<>>
         /\ \A s \in Seq(S) : FlattenSeq(Append(ss, s)) = FlattenSeq(ss) \o s
<1>1. \A q \in Seq(Seq(S)) : FlattenSeq(q) = IF q = <<>> THEN <<>> ELSE Joining(q)[Len(q)]
  <2>. SUFFICES ASSUME NEW q \in Seq(Seq(S))
                PROVE  FlattenSeq(q) = IF q = <<>> THEN <<>> ELSE Joining(q)[Len(q)]
    OBVIOUS
  <2>1. q = <<>> <=> Len(q) = 0
    BY EmptyLength
  <2>2. Len(q) # 0 => FlattenSeq(q) = Joining(q)[Len(q)]
    BY DEF FlattenSeq, Joining, IsJoining
  <2>3. Len(q) = 0 => FlattenSeq(q) = q
    BY DEF FlattenSeq
  <2>. QED
    BY <2>1, <2>2, <2>3
<1>2. <<>> \in Seq(S)
  BY EmptySeq
<1>3. ss # <<>> => Joining(ss)[Len(ss)] \in Seq(S)
  BY <1>2, JoiningFacts
<1>4. ASSUME NEW s \in Seq(S)
      PROVE  FlattenSeq(Append(ss, s)) = FlattenSeq(ss) \o s
  <2>1. /\ Append(ss, s) \in Seq(Seq(S)) /\ Append(ss, s) # <<>>
        /\ Len(Append(ss, s)) = Len(ss) + 1
    BY AppendProperties
  <2>2. FlattenSeq(Append(ss, s)) = Joining(Append(ss, s))[Len(ss) + 1]
    BY <1>1, <2>1
  <2>3. Joining(Append(ss, s))[Len(ss) + 1] = IF ss = <<>> THEN s ELSE Joining(ss)[Len(ss)] \o s
    BY JoiningFacts
  <2>4. <<>> \o s = s
    BY ConcatEmptySeq
  <2>. QED
    BY <1>1, <2>2, <2>3, <2>4
<1>. QED
  BY <1>1, <1>2, <1>3, <1>4

\* Rows of these lines.
RowsOf(lines) == [line : 1 .. Len(lines), item : Nat]

\* What the rows become, one by one.
Pieces(lines, op, rows) == [i \in 1 .. Len(rows) |-> Produced(lines, op, rows[i])]

\* What a line of a file comes to.
LEMMA LineTypes ==
  ASSUME NEW lines \in Seq(Line), NEW n \in 1 .. Len(lines)
  PROVE  lines[n].list \in Nat \cup {EvalError} /\ lines[n].bytes \in Nat
<1>1. lines[n] \in Line
  BY ElementOfSeq
<1>. QED
  BY <1>1 DEF Line

\* Operators other than slices make rows of the file from a row of the file.
LEMMA ProducedType ==
  ASSUME NEW lines \in Seq(Line), NEW op \in StreamOp, op.op # "slice", NEW row \in RowsOf(lines)
  PROVE  Produced(lines, op, row) \in Seq(RowsOf(lines))
<1>. DEFINE R == RowsOf(lines)
<1>1. op.op \in {"filter", "project", "unnest"}
  BY DEF StreamOp
<1>2. <<>> \in Seq(R) /\ <<row>> \in Seq(R)
  BY EmptySeq
<1>3. Elements(lines, row) \in Seq(R)
  <2>. DEFINE list == lines[row.line].list
              es == [k \in 1 .. list |-> Row(row.line, k)]
  <2>1. row.line \in 1 .. Len(lines)
    BY DEF RowsOf
  <2>2. list \in Nat \cup {EvalError}
    BY <2>1, LineTypes
  <2>3. CASE list = EvalError
    BY <1>2, <2>3 DEF Elements
  <2>4. CASE list # EvalError
    <3>1. list \in Nat
      BY <2>2, <2>4
    <3>2. \A k \in 1 .. list : Row(row.line, k) \in R
      BY <2>1, <3>1 DEF Row, RowsOf
    <3>3. Elements(lines, row) = es
      BY <2>4 DEF Elements
    <3>. HIDE DEF R, list
    <3>4. es \in Seq(R)
      BY <3>1, <3>2
    <3>. QED
      BY <3>3, <3>4
  <2>. QED
    BY <2>3, <2>4
<1>. QED
  BY <1>1, <1>2, <1>3 DEF Produced

\* Every operator but a slice treats the rows one by one.
LEMMA OneByOne ==
  ASSUME NEW lines \in Seq(Line), NEW op \in StreamOp, op.op # "slice",
         NEW rows \in Seq(RowsOf(lines))
  PROVE  /\ OpRows(lines, op, rows) \in Seq(RowsOf(lines))
         /\ rows = <<>> => OpRows(lines, op, rows) = <<>>
         /\ \A row \in RowsOf(lines) :
              OpRows(lines, op, Append(rows, row)) = OpRows(lines, op, rows) \o Produced(lines, op, row)
<1>. DEFINE R == RowsOf(lines)
            P(rs) == Pieces(lines, op, rs)
<1>0. rows \in Seq(R)
  OBVIOUS
<1>1. ASSUME NEW rs \in Seq(R)
      PROVE  /\ P(rs) \in Seq(Seq(R)) /\ Len(P(rs)) = Len(rs)
             /\ \A i \in 1 .. Len(rs) : P(rs)[i] = Produced(lines, op, rs[i])
             /\ OpRows(lines, op, rs) = FlattenSeq(P(rs))
  <2>1. Len(rs) \in Nat /\ \A i \in 1 .. Len(rs) : rs[i] \in R
    BY LenProperties, ElementOfSeq
  <2>2. \A i \in 1 .. Len(rs) : Produced(lines, op, rs[i]) \in Seq(R)
    BY <2>1, ProducedType
  <2>3. OpRows(lines, op, rs) = FlattenSeq(P(rs))
    BY DEF OpRows, Pieces
  <2>. HIDE DEF R
  <2>. QED
    BY <2>1, <2>2, <2>3 DEF Pieces
<1>. HIDE DEF P
<1>2. rows = <<>> => OpRows(lines, op, rows) = <<>>
  <2>. SUFFICES ASSUME rows = <<>> PROVE OpRows(lines, op, rows) = <<>>
    OBVIOUS
  <2>1. Len(P(rows)) = 0
    BY <1>1, EmptyLength
  <2>2. P(rows) = <<>>
    BY <1>1, <2>1, EmptyLength
  <2>. QED
    BY <1>1, <2>2, Flattened
<1>3. OpRows(lines, op, rows) \in Seq(R)
  BY <1>1, Flattened
<1>4. ASSUME NEW row \in R
      PROVE  OpRows(lines, op, Append(rows, row)) = OpRows(lines, op, rows) \o Produced(lines, op, row)
  <2>. DEFINE more == Append(rows, row)
              p == Produced(lines, op, row)
  <2>1. /\ more \in Seq(R) /\ Len(more) = Len(rows) + 1 /\ Len(rows) \in Nat
        /\ \A i \in 1 .. Len(rows) : more[i] = rows[i]
        /\ more[Len(rows) + 1] = row
    BY AppendProperties, LenProperties
  <2>2. p \in Seq(R)
    BY ProducedType
  <2>. HIDE DEF more, p, R
  <2>3. /\ Append(P(rows), p) \in Seq(Seq(R)) /\ Len(Append(P(rows), p)) = Len(rows) + 1
        /\ \A i \in 1 .. Len(rows) : Append(P(rows), p)[i] = P(rows)[i]
        /\ Append(P(rows), p)[Len(rows) + 1] = p
    <3>. DEFINE q == P(rows)
    <3>1. q \in Seq(Seq(R)) /\ Len(q) = Len(rows)
      BY <1>0, <1>1
    <3>. HIDE DEF q
    <3>2. /\ Append(q, p) \in Seq(Seq(R)) /\ Len(Append(q, p)) = Len(q) + 1
          /\ \A i \in 1 .. Len(q) : Append(q, p)[i] = q[i]
          /\ Append(q, p)[Len(q) + 1] = p
      BY <2>2, <3>1, AppendProperties
    <3>. QED
      BY <3>1, <3>2 DEF q
  <2>4. \A i \in 1 .. Len(rows) + 1 : P(more)[i] = Append(P(rows), p)[i]
    <3>. SUFFICES ASSUME NEW i \in 1 .. Len(rows) + 1 PROVE P(more)[i] = Append(P(rows), p)[i]
      OBVIOUS
    <3>1. P(more)[i] = Produced(lines, op, more[i])
      BY <1>1, <2>1
    <3>2. CASE i = Len(rows) + 1
      BY <2>1, <2>3, <3>1, <3>2 DEF p
    <3>3. CASE i # Len(rows) + 1
      <4>1. i \in 1 .. Len(rows)
        BY <2>1, <3>3
      <4>. QED
        BY <1>0, <1>1, <2>1, <2>3, <3>1, <4>1
    <3>. QED
      BY <3>2, <3>3
  <2>5. P(more) = Append(P(rows), p)
    <3>1. P(more) \in Seq(Seq(R)) /\ Len(P(more)) = Len(rows) + 1
      BY <1>1, <2>1
    <3>. QED
      BY <2>3, <2>4, <3>1, SeqEqual
  <2>6. FlattenSeq(Append(P(rows), p)) = FlattenSeq(P(rows)) \o p
    BY <1>0, <1>1, <2>2, Flattened
  <2>7. OpRows(lines, op, more) = FlattenSeq(P(more)) /\ OpRows(lines, op, rows) = FlattenSeq(P(rows))
    BY <1>0, <1>1, <2>1
  <2>. QED
    BY <2>5, <2>6, <2>7 DEF more, p
<1>. QED
  BY <1>2, <1>3, <1>4

\* What they make of rows and more rows is what they make of each, joined.
LEMMA OneByOneConcat ==
  ASSUME NEW lines \in Seq(Line), NEW op \in StreamOp, op.op # "slice",
         NEW a \in Seq(RowsOf(lines)), NEW b \in Seq(RowsOf(lines))
  PROVE  OpRows(lines, op, a \o b) = OpRows(lines, op, a) \o OpRows(lines, op, b)
<1>. DEFINE R == RowsOf(lines)
            F(rows) == OpRows(lines, op, rows)
            T == {n \in Nat : \A c \in Seq(R) : Len(c) = n => F(a \o c) = F(a) \o F(c)}
<1>0. a \in Seq(R) /\ b \in Seq(R)
  OBVIOUS
<1>1. \A rows \in Seq(R) :
        /\ F(rows) \in Seq(R)
        /\ rows = <<>> => F(rows) = <<>>
        /\ \A row \in R : F(Append(rows, row)) = F(rows) \o Produced(lines, op, row)
  BY OneByOne
<1>2. \A row \in R : Produced(lines, op, row) \in Seq(R)
  BY ProducedType
<1>. HIDE DEF R, F
<1>3. 0 \in T
  <2>. SUFFICES ASSUME NEW c \in Seq(R), Len(c) = 0
                PROVE  F(a \o c) = F(a) \o F(c)
    OBVIOUS
  <2>1. c = <<>>
    BY EmptyLength
  <2>2. a \o <<>> = a /\ F(c) = <<>> /\ F(a) \o <<>> = F(a)
    BY <1>0, <1>1, <2>1, ConcatEmptySeq
  <2>. QED
    BY <2>1, <2>2
<1>4. ASSUME NEW n \in Nat, n \in T
      PROVE  n + 1 \in T
  <2>. SUFFICES ASSUME NEW c \in Seq(R), Len(c) = n + 1
                PROVE  F(a \o c) = F(a) \o F(c)
    OBVIOUS
  <2>1. PICK d \in Seq(R), x \in R : c = Append(d, x) /\ Len(d) = n
    BY LastMember
  <2>2. F(a \o d) = F(a) \o F(d)
    BY <1>4, <2>1
  <2>. HIDE DEF T
  <2>. DEFINE p == Produced(lines, op, x)
  <2>3. p \in Seq(R)
    BY <1>2
  <2>4. a \o c = Append(a \o d, x)
    <3>1. c = d \o <<x>> /\ <<x>> \in Seq(R)
      BY <2>1, AppendIsConcat
    <3>2. a \o (d \o <<x>>) = (a \o d) \o <<x>>
      BY <1>0, <3>1, ConcatAssociative
    <3>3. a \o d \in Seq(R)
      BY <1>0, ConcatProperties
    <3>. QED
      BY <3>1, <3>2, <3>3, AppendIsConcat
  <2>5. F(Append(a \o d, x)) = F(a \o d) \o p /\ F(c) = F(d) \o p
    <3>1. a \o d \in Seq(R)
      BY <1>0, ConcatProperties
    <3>. QED
      BY <1>1, <2>1, <3>1
  <2>. HIDE DEF p
  <2>6. F(a) \in Seq(R) /\ F(d) \in Seq(R)
    BY <1>0, <1>1
  <2>7. (F(a) \o F(d)) \o p = F(a) \o (F(d) \o p)
    <3>1. Associates(F(a), F(d), p)
      BY <2>3, <2>6, Grouping
    <3>. QED
      BY <3>1, Zenon DEF Associates
  <2>. QED
    BY <2>2, <2>4, <2>5, <2>7
<1>. HIDE DEF T
<1>5. Nat \subseteq T
  BY <1>3, <1>4, NumberInduction
<1>6. Len(b) \in T
  BY <1>0, <1>5, LenProperties
<1>. QED
  BY <1>0, <1>6 DEF T, F

-----------------------------------------------------------------------------
(***************************************************************************)
(* Slices.                                                                 *)
(***************************************************************************)
\* The counters of a slice.
LEMMA SliceTypes ==
  ASSUME NEW op \in StreamOp, op.op = "slice"
  PROVE  op.offset \in Nat /\ op.limit \in Nat \cup {Unlimited}
<1>1. op \in [op : {"slice"}, offset : Nat, limit : Limit]
  BY DEF StreamOp
<1>. QED
  BY <1>1 DEF Limit

\* How many rows of n a slice skips and passes.
LEMMA SliceCounts ==
  ASSUME NEW op \in StreamOp, op.op = "slice", NEW n \in Nat
  PROVE  /\ Skipped(op, n) \in 0 .. n /\ Skipped(op, n) <= op.offset
         /\ Passed(op, n) \in 0 .. n - Skipped(op, n)
         /\ op.limit # Unlimited => Passed(op, n) <= op.limit
<1>1. op.offset \in Nat /\ op.limit \in Nat \cup {Unlimited}
  BY SliceTypes
<1>2. Skipped(op, n) \in 0 .. n /\ Skipped(op, n) <= op.offset
  BY <1>1 DEF Skipped, Min2
<1>. QED
  BY <1>1, <1>2 DEF Passed, Min2

\* What is left of an operator after n rows.
LEMMA OpAfterType ==
  ASSUME NEW op \in StreamOp, NEW n \in Nat
  PROVE  /\ OpAfter(op, n) \in StreamOp /\ OpAfter(op, n).op = op.op
         /\ op.op = "slice" =>
              /\ OpAfter(op, n).offset = op.offset - Skipped(op, n)
              /\ OpAfter(op, n).limit = IF op.limit = Unlimited THEN Unlimited ELSE op.limit - Passed(op, n)
              /\ OpAfter(op, n).offset <= op.offset
         /\ op.op # "slice" => OpAfter(op, n) = op
<1>1. op.op # "slice" => OpAfter(op, n) = op
  BY DEF OpAfter
<1>2. CASE op.op = "slice"
  <2>. DEFINE o == op.offset - Skipped(op, n)
              l == IF op.limit = Unlimited THEN Unlimited ELSE op.limit - Passed(op, n)
  <2>1. op.offset \in Nat /\ op.limit \in Nat \cup {Unlimited}
    BY <1>2, SliceTypes
  <2>2. o \in Nat /\ o <= op.offset /\ l \in Nat \cup {Unlimited}
    BY <1>2, <2>1, SliceCounts
  <2>. DEFINE half == [op EXCEPT !.offset = o]
              next == OpAfter(op, n)
  <2>3. op \in [op : {"slice"}, offset : Nat, limit : Limit]
    BY <1>2 DEF StreamOp
  <2>4. next = [half EXCEPT !.limit = l]
    BY <1>2 DEF OpAfter
  <2>5. half \in [op : {"slice"}, offset : Nat, limit : Limit] /\ half.offset = o
    BY <2>2, <2>3
  <2>. HIDE DEF o, l, half, next
  <2>6. next \in [op : {"slice"}, offset : Nat, limit : Limit] /\ next.offset = o /\ next.limit = l
    BY <2>2, <2>4, <2>5 DEF Limit
  <2>7. next \in StreamOp /\ next.op = "slice"
    BY <2>6 DEF StreamOp
  <2>. QED
    BY <1>2, <2>2, <2>6, <2>7 DEF o, l, next
<1>. QED
  BY <1>1, <1>2

IsPiece(out, rows, from, n) == Len(out) = n /\ \A i \in 1 .. n : out[i] = rows[from + i]

\* Where a slice takes its rows from.
LEMMA SliceRows ==
  ASSUME NEW lines, NEW S, NEW op \in StreamOp, op.op = "slice", NEW rows \in Seq(S)
  PROVE  /\ OpRows(lines, op, rows) \in Seq(S)
         /\ IsPiece(OpRows(lines, op, rows), rows, Skipped(op, Len(rows)), Passed(op, Len(rows)))
<1>. DEFINE n == Len(rows)
            s == Skipped(op, n)
            p == Passed(op, n)
            out == OpRows(lines, op, rows)
<1>1. n \in Nat /\ s \in 0 .. n /\ p \in 0 .. n - s
  BY SliceCounts, LenProperties
<1>2. out = SubSeq(rows, s + 1, s + p)
  BY DEF OpRows
<1>3. \A i \in 1 .. n : rows[i] \in S
  BY ElementOfSeq
<1>. HIDE DEF n, s, p, out
<1>4. \A i \in s + 1 .. s + p : rows[i] \in S
  BY <1>1, <1>3
<1>5. s + 1 \in Int /\ s + p \in Int
  BY <1>1
<1>6. /\ out \in Seq(S)
      /\ Len(out) = IF s + 1 <= s + p THEN (s + p) - (s + 1) + 1 ELSE 0
      /\ \A i \in 1 .. (s + p) - (s + 1) + 1 : out[i] = rows[(s + 1) + i - 1]
  BY <1>2, <1>4, <1>5, SubSeqProperties
<1>7. Len(out) = p
  BY <1>1, <1>6
<1>8. \A i \in 1 .. p : out[i] = rows[s + i]
  <2>. TAKE i \in 1 .. p
  <2>1. i \in 1 .. (s + p) - (s + 1) + 1 /\ (s + 1) + i - 1 = s + i
    BY <1>1
  <2>. QED
    BY <1>6, <2>1
<1>. QED
  BY <1>6, <1>7, <1>8 DEF n, s, p, out, IsPiece

\* A slice that has seen m rows goes on where it would be.
LEMMA SliceGoesOn ==
  ASSUME NEW op \in StreamOp, op.op = "slice", NEW m \in Nat, NEW n \in Nat,
         NEW next, next = OpAfter(op, m)
  PROVE  /\ Skipped(op, m + n) = Skipped(op, m) + Skipped(next, n)
         /\ Passed(op, m + n) = Passed(op, m) + Passed(next, n)
         /\ Passed(op, m) # 0 => Skipped(next, n) = 0
         /\ Passed(next, n) # 0 => Passed(op, m) = m - Skipped(op, m)
<1>1. op.offset \in Nat /\ op.limit \in Nat \cup {Unlimited} /\ Unlimited \notin Nat
  BY SliceTypes, JsonlAssumption
<1>2. /\ next.offset = op.offset - Skipped(op, m)
      /\ next.limit = IF op.limit = Unlimited THEN Unlimited ELSE op.limit - Passed(op, m)
  BY OpAfterType
<1>. DEFINE o == op.offset
            l == op.limit
            s == Skipped(op, m)
            p == Passed(op, m)
            s2 == Skipped(next, n)
            p2 == Passed(next, n)
            s3 == Skipped(op, m + n)
            p3 == Passed(op, m + n)
<1>3. /\ s = IF o < m THEN o ELSE m
      /\ s3 = IF o < m + n THEN o ELSE m + n
      /\ s2 = IF o - s < n THEN o - s ELSE n
  BY <1>2 DEF Skipped, Min2
<1>4. /\ p = IF l = Unlimited THEN m - s ELSE IF l < m - s THEN l ELSE m - s
      /\ p3 = IF l = Unlimited THEN (m + n) - s3 ELSE IF l < (m + n) - s3 THEN l ELSE (m + n) - s3
  <2>1. p = IF l = Unlimited THEN m - s ELSE IF l < m - s THEN l ELSE m - s
    BY Zenon DEF Passed, Min2
  <2>2. p3 = IF l = Unlimited THEN (m + n) - s3 ELSE IF l < (m + n) - s3 THEN l ELSE (m + n) - s3
    BY Zenon DEF Passed, Min2
  <2>. QED
    BY <2>1, <2>2, Zenon
<1>5. l = Unlimited => p2 = n - s2
  BY <1>2 DEF Passed
<1>6. l # Unlimited => p2 = IF l - p < n - s2 THEN l - p ELSE n - s2
  <2>. SUFFICES ASSUME l # Unlimited PROVE p2 = IF l - p < n - s2 THEN l - p ELSE n - s2
    OBVIOUS
  <2>1. l \in Nat /\ p \in Nat /\ p <= l
    BY <1>1, SliceCounts
  <2>2. next.limit = l - p /\ next.limit # Unlimited
    BY <1>1, <1>2, <2>1
  <2>. QED
    BY <2>2 DEF Passed, Min2
<1>. HIDE DEF o, l, s, p, s2, p2, s3, p3
<1>7. o \in Nat /\ (l # Unlimited => l \in Nat)
  BY <1>1 DEF o, l
<1>8. s \in Nat /\ s2 \in Nat /\ s3 \in Nat /\ s3 = s + s2 /\ s <= m /\ s2 <= n /\ (s < m => s2 = 0)
  BY <1>3, <1>7
<1>9. CASE l = Unlimited
  <2>1. p = m - s /\ p2 = n - s2 /\ p3 = (m + n) - s3
    BY <1>4, <1>5, <1>9
  <2>. QED
    BY <1>8, <2>1 DEF s, s2, s3, p, p2, p3
<1>10. CASE l # Unlimited
  <2>1. /\ p = IF l < m - s THEN l ELSE m - s
        /\ p3 = IF l < (m + n) - s3 THEN l ELSE (m + n) - s3
        /\ p2 = IF l - p < n - s2 THEN l - p ELSE n - s2
        /\ l \in Nat
    BY <1>4, <1>6, <1>7, <1>10
  <2>2. p3 = p + p2 /\ (p # 0 => s2 = 0) /\ (p2 # 0 => p = m - s)
    BY <1>8, <2>1
  <2>. QED
    BY <1>8, <2>2 DEF s, s2, s3, p, p2, p3
<1>. QED
  BY <1>9, <1>10

GoesOn(lines, op, a, b) ==
  OpRows(lines, op, a \o b) = OpRows(lines, op, a) \o OpRows(lines, OpAfter(op, Len(a)), b)

\* A slice that has seen some rows goes on where it was, wherever its counters stood.
LEMMA SliceConcat ==
  ASSUME NEW lines, NEW R, NEW op \in StreamOp, op.op = "slice", NEW a \in Seq(R), NEW b \in Seq(R)
  PROVE  GoesOn(lines, op, a, b)
<1>2. op.op = "slice"
  OBVIOUS
<1>. QED
  <2>. DEFINE m == Len(a)
              n == Len(b)
              next == OpAfter(op, m)
              x == OpRows(lines, op, a)
              y == OpRows(lines, next, b)
              z == OpRows(lines, op, a \o b)
              s == Skipped(op, m)
              p == Passed(op, m)
              s2 == Skipped(next, n)
              p2 == Passed(next, n)
  <2>1. m \in Nat /\ n \in Nat
    BY LenProperties
  <2>2. next \in StreamOp /\ next.op = "slice"
    BY <1>2, <2>1, OpAfterType
  <2>3. /\ s \in 0 .. m /\ p \in 0 .. m - s
        /\ s2 \in 0 .. n /\ p2 \in 0 .. n - s2
    BY <1>2, <2>1, <2>2, SliceCounts
  <2>4. /\ Skipped(op, m + n) = s + s2 /\ Passed(op, m + n) = p + p2
        /\ p # 0 => s2 = 0
        /\ p2 # 0 => p = m - s
    BY <1>2, <2>1, SliceGoesOn
  <2>5. /\ a \o b \in Seq(R) /\ Len(a \o b) = m + n
        /\ \A i \in 1 .. m + n : (a \o b)[i] = IF i <= m THEN a[i] ELSE b[i - m]
    BY ConcatProperties
  <2>6. x \in Seq(R) /\ IsPiece(x, a, s, p)
    BY <1>2, SliceRows
  <2>7. y \in Seq(R) /\ IsPiece(y, b, s2, p2)
    BY <2>2, SliceRows
  <2>8. z \in Seq(R) /\ IsPiece(z, a \o b, s + s2, p + p2)
    <3>1. z \in Seq(R) /\ IsPiece(z, a \o b, Skipped(op, Len(a \o b)), Passed(op, Len(a \o b)))
      BY <1>2, <2>5, SliceRows
    <3>. QED
      BY <2>4, <2>5, <3>1
  <2>. DEFINE ab == a \o b
  <2>. HIDE DEF m, n, next, x, y, z, s, p, s2, p2, ab
  <2>12. /\ Len(x) = p /\ (\A i \in 1 .. p : x[i] = a[s + i])
         /\ Len(y) = p2 /\ (\A i \in 1 .. p2 : y[i] = b[s2 + i])
         /\ Len(z) = p + p2 /\ (\A i \in 1 .. p + p2 : z[i] = ab[s + s2 + i])
         /\ (\A i \in 1 .. m + n : ab[i] = IF i <= m THEN a[i] ELSE b[i - m])
    BY <2>5, <2>6, <2>7, <2>8 DEF IsPiece, ab
  <2>9. /\ x \o y \in Seq(R) /\ Len(x \o y) = p + p2
        /\ \A i \in 1 .. p + p2 : (x \o y)[i] = IF i <= p THEN x[i] ELSE y[i - p]
    BY <2>6, <2>7, <2>12, ConcatProperties
  <2>10. ASSUME NEW i \in 1 .. p + p2
         PROVE  z[i] = (x \o y)[i]
    <3>1. z[i] = ab[s + s2 + i]
      BY <2>12
    <3>2. CASE i <= p
      <4>1. s2 = 0 /\ i \in 1 .. p /\ s + s2 + i = s + i /\ s + i \in 1 .. m + n /\ s + i <= m
        BY <2>1, <2>3, <2>4, <3>2
      <4>2. ab[s + i] = a[s + i]
        BY <2>12, <4>1
      <4>. QED
        BY <2>9, <2>12, <3>1, <3>2, <4>1, <4>2
    <3>3. CASE ~ (i <= p)
      <4>1. p2 # 0
        BY <2>3, <3>3
      <4>2. p = m - s
        BY <2>4, <4>1
      <4>3. /\ i - p \in 1 .. p2 /\ s + s2 + i \in 1 .. m + n /\ ~ (s + s2 + i <= m)
            /\ s + s2 + i - m = s2 + (i - p)
        BY <2>1, <2>3, <3>3, <4>2
      <4>4. ab[s + s2 + i] = b[s2 + (i - p)]
        <5>. DEFINE j == s + s2 + i
        <5>1. j \in 1 .. m + n /\ ~ (j <= m) /\ j - m = s2 + (i - p)
          BY <2>1, <2>3, <4>2, <4>3
        <5>. HIDE DEF j
        <5>2. ab[j] = b[j - m]
          BY <2>12, <5>1
        <5>. QED
          BY <5>1, <5>2 DEF j
      <4>5. y[i - p] = b[s2 + (i - p)]
        BY <2>12, <4>3
      <4>6. (x \o y)[i] = y[i - p]
        BY <2>9, <3>3
      <4>. QED
        BY <3>1, <4>4, <4>5, <4>6
    <3>. QED
      BY <3>2, <3>3
  <2>11. z = x \o y
    BY <2>8, <2>9, <2>10, <2>12, SeqEqual
  <2>. QED
    BY <2>11 DEF z, x, y, next, m, GoesOn

\* An operator that has seen some rows makes of the next ones what it would have made of
\* them after those.
LEMMA OpConcat ==
  ASSUME NEW lines \in Seq(Line), NEW op \in StreamOp,
         NEW a \in Seq(RowsOf(lines)), NEW b \in Seq(RowsOf(lines))
  PROVE  GoesOn(lines, op, a, b)
<1>1. CASE op.op # "slice"
  <2>1. OpAfter(op, Len(a)) = op
    BY <1>1 DEF OpAfter
  <2>. QED
    BY <1>1, <2>1, OneByOneConcat DEF GoesOn
<1>2. CASE op.op = "slice"
  BY <1>2, SliceConcat
<1>. QED
  BY <1>1, <1>2

\* The types, and what becomes of no rows.
LEMMA OpTypes ==
  ASSUME NEW lines \in Seq(Line), NEW op \in StreamOp, NEW rows \in Seq(RowsOf(lines))
  PROVE  /\ OpRows(lines, op, rows) \in Seq(RowsOf(lines))
         /\ rows = <<>> => OpRows(lines, op, rows) = <<>>
         /\ op.op = "slice" /\ op.limit = 0 => OpRows(lines, op, rows) = <<>>
<1>1. CASE op.op # "slice"
  BY <1>1, OneByOne
<1>2. CASE op.op = "slice"
  <2>. DEFINE n == Len(rows)
              out == OpRows(lines, op, rows)
              R == RowsOf(lines)
  <2>1. n \in Nat
    BY LenProperties
  <2>2. out \in Seq(R) /\ Len(out) = Passed(op, n)
    BY <1>2, SliceRows DEF IsPiece
  <2>3. Skipped(op, n) \in 0 .. n /\ Passed(op, n) \in 0 .. n - Skipped(op, n)
    BY <1>2, <2>1, SliceCounts
  <2>4. op.limit = 0 => Passed(op, n) = 0
    <3>1. op.limit # Unlimited => Passed(op, n) <= op.limit
      BY <1>2, <2>1, SliceCounts
    <3>2. 0 # Unlimited
      BY JsonlAssumption
    <3>. QED
      BY <2>1, <2>3, <3>1, <3>2
  <2>5. rows = <<>> => n = 0
    BY EmptyLength
  <2>. HIDE DEF n, out, R
  <2>6. n = 0 => Len(out) = 0
    BY <2>2, <2>3
  <2>7. Len(out) = 0 => out = <<>>
    BY <2>2, EmptyLength
  <2>. QED
    BY <2>2, <2>4, <2>5, <2>6, <2>7 DEF out, R
<1>. QED
  BY <1>1, <1>2

-----------------------------------------------------------------------------
(***************************************************************************)
(* Chains of operators.                                                    *)
(***************************************************************************)
IsChain(f, lines, chain, rows) ==
  f = [i \in 0 .. Len(chain) |-> IF i = 0 THEN rows ELSE OpRows(lines, chain[i], f[i - 1])]

\* The rows behind each of the operators.
Out(lines, chain, rows) == CHOOSE f : IsChain(f, lines, chain, rows)

\* f gives the rows behind each of the operators.
Chains(f, lines, chain, rows) ==
  /\ f[0] = rows
  /\ \A i \in 1 .. Len(chain) : f[i] = OpRows(lines, chain[i], f[i - 1])
  /\ \A i \in 0 .. Len(chain) : f[i] \in Seq(RowsOf(lines))

\* The rows of a chain are those of its operators, one after the other.
LEMMA ChainSteps ==
  ASSUME NEW lines \in Seq(Line), NEW chain \in Seq(StreamOp), NEW rows \in Seq(RowsOf(lines))
  PROVE  /\ ChainRows(lines, chain, rows) = Out(lines, chain, rows)[Len(chain)]
         /\ Chains(Out(lines, chain, rows), lines, chain, rows)
<1>. DEFINE n == Len(chain)
            S == Seq(RowsOf(lines))
            turn == [p \in (1 .. n) \X S |-> OpRows(lines, chain[p[1]], p[2])]
<1>0. rows \in S
  OBVIOUS
<1>1. n \in Nat /\ \A i \in 1 .. n : chain[i] \in StreamOp
  BY LenProperties, ElementOfSeq
<1>2. \A i \in 1 .. n, r \in S : OpRows(lines, chain[i], r) \in S
  BY <1>1, OpTypes
<1>. HIDE DEF n, S
<1>3. turn \in [(1 .. n) \X S -> S] /\ \A i \in 1 .. n, r \in S : turn[<<i, r>>] = OpRows(lines, chain[i], r)
  BY <1>2
<1>. HIDE DEF turn
<1>4. PICK f : IsLoop(f, S, rows, turn, n)
  <2>1. AreTurns(turn, S, n)
    BY <1>3 DEF AreTurns
  <2>. QED
    BY <1>0, <1>1, <2>1, Loops
<1>5. ASSUME NEW i \in 0 .. n
      PROVE  f[i] = IF i = 0 THEN rows ELSE OpRows(lines, chain[i], f[i - 1])
  <2>1. CASE i # 0
    <3>1. i \in 1 .. n /\ i - 1 \in 0 .. n
      BY <1>1, <2>1
    <3>2. f[i - 1] \in S
      BY <1>4, <3>1 DEF IsLoop
    <3>3. f[i] = turn[<<i, f[i - 1]>>]
      BY <1>4, <3>1 DEF IsLoop
    <3>. QED
      BY <1>3, <2>1, <3>1, <3>2, <3>3
  <2>. QED
    BY <1>4, <2>1 DEF IsLoop
<1>6. f = [i \in 0 .. n |-> IF i = 0 THEN rows ELSE OpRows(lines, chain[i], f[i - 1])]
  <2>1. f = [i \in 0 .. n |-> f[i]]
    BY <1>4 DEF IsLoop
  <2>. QED
    BY <1>5, <2>1
<1>. DEFINE g == Out(lines, chain, rows)
<1>7. IsChain(g, lines, chain, rows)
  <2>1. IsChain(f, lines, chain, rows)
    BY <1>6 DEF IsChain, n
  <2>. QED
    BY <2>1 DEF Out
<1>8. ChainRows(lines, chain, rows) = g[n]
  BY DEF ChainRows, Out, IsChain, n
<1>. HIDE DEF g
<1>9. \A i \in 0 .. n : g[i] = IF i = 0 THEN rows ELSE OpRows(lines, chain[i], g[i - 1])
  BY <1>7 DEF IsChain, n
<1>10. g[0] = rows /\ \A i \in 1 .. n : g[i] = OpRows(lines, chain[i], g[i - 1])
  BY <1>1, <1>9
<1>. DEFINE T == {k \in Nat : k <= n => g[k] \in S}
<1>11. 0 \in T
  BY <1>0, <1>10
<1>12. ASSUME NEW k \in Nat, k \in T
       PROVE  k + 1 \in T
  <2>. SUFFICES ASSUME k + 1 <= n PROVE g[k + 1] \in S
    OBVIOUS
  <2>1. k + 1 \in 1 .. n /\ (k + 1) - 1 = k /\ g[k] \in S
    BY <1>1, <1>12
  <2>2. g[k + 1] = OpRows(lines, chain[k + 1], g[k])
    BY <1>10, <2>1
  <2>. QED
    BY <1>2, <2>1, <2>2
<1>. HIDE DEF T
<1>13. Nat \subseteq T
  BY <1>11, <1>12, NumberInduction
<1>14. \A i \in 0 .. n : g[i] \in S
  BY <1>1, <1>13 DEF T
<1>. QED
  BY <1>8, <1>10, <1>14 DEF n, g, S, Chains

\* A chain makes rows of the file from rows of the file.
LEMMA ChainType ==
  ASSUME NEW lines \in Seq(Line), NEW chain \in Seq(StreamOp), NEW rows \in Seq(RowsOf(lines))
  PROVE  ChainRows(lines, chain, rows) \in Seq(RowsOf(lines))
<1>. DEFINE f == Out(lines, chain, rows)
<1>1. ChainRows(lines, chain, rows) = f[Len(chain)] /\ Chains(f, lines, chain, rows)
  BY ChainSteps
<1>2. Len(chain) \in 0 .. Len(chain)
  BY LenProperties
<1>. HIDE DEF f
<1>. QED
  BY <1>1, <1>2 DEF Chains

\* The operators after these rows.
After(lines, chain, rows) ==
  [i \in 1 .. Len(chain) |-> OpAfter(chain[i], Len(Out(lines, chain, rows)[i - 1]))]

\* A chain that has seen rows is a chain of the same length.
LEMMA AfterType ==
  ASSUME NEW lines \in Seq(Line), NEW chain \in Seq(StreamOp), NEW rows \in Seq(RowsOf(lines))
  PROVE  /\ After(lines, chain, rows) \in Seq(StreamOp)
         /\ Len(After(lines, chain, rows)) = Len(chain)
<1>. DEFINE n == Len(chain)
            f == Out(lines, chain, rows)
            after == [i \in 1 .. n |-> OpAfter(chain[i], Len(f[i - 1]))]
<1>1. n \in Nat /\ \A i \in 1 .. n : chain[i] \in StreamOp
  BY LenProperties, ElementOfSeq
<1>2. \A i \in 0 .. n : f[i] \in Seq(RowsOf(lines))
  BY ChainSteps DEF Chains
<1>3. After(lines, chain, rows) = after
  BY DEF After
<1>. HIDE DEF n, f
<1>4. ASSUME NEW i \in 1 .. n
      PROVE  OpAfter(chain[i], Len(f[i - 1])) \in StreamOp
  <2>1. i - 1 \in 0 .. n
    BY <1>1
  <2>2. f[i - 1] \in Seq(RowsOf(lines))
    BY <1>2, <2>1
  <2>3. Len(f[i - 1]) \in Nat
    BY <2>2, LenProperties
  <2>. QED
    BY <1>1, <2>3, OpAfterType
<1>5. after \in Seq(StreamOp) /\ Len(after) = n
  BY <1>1, <1>4
<1>. QED
  BY <1>3, <1>5 DEF n

Joins(f, g, h, k) == h[k] = f[k] \o g[k]

\* A chain makes of the next rows what it would have made of them after the first ones.
LEMMA ChainConcat ==
  ASSUME NEW lines \in Seq(Line), NEW chain \in Seq(StreamOp),
         NEW a \in Seq(RowsOf(lines)), NEW b \in Seq(RowsOf(lines))
  PROVE  ChainRows(lines, chain, a \o b)
           = ChainRows(lines, chain, a) \o ChainRows(lines, After(lines, chain, a), b)
<1>. DEFINE R == RowsOf(lines)
            n == Len(chain)
            next == After(lines, chain, a)
            ab == a \o b
            f == Out(lines, chain, a)
            g == Out(lines, next, b)
            h == Out(lines, chain, ab)
            T == {k \in Nat : k <= n => Joins(f, g, h, k)}
<1>1. n \in Nat /\ \A i \in 1 .. n : chain[i] \in StreamOp
  BY LenProperties, ElementOfSeq
<1>2. next \in Seq(StreamOp) /\ Len(next) = n
  BY AfterType
<1>3. \A i \in 1 .. n : next[i] = OpAfter(chain[i], Len(f[i - 1]))
  BY DEF After
<1>4. ab \in Seq(R)
  BY ConcatProperties
<1>5. ChainRows(lines, chain, a) = f[n] /\ Chains(f, lines, chain, a)
  BY ChainSteps
<1>6. ChainRows(lines, next, b) = g[n] /\ Chains(g, lines, next, b)
  BY <1>2, ChainSteps
<1>7. ChainRows(lines, chain, ab) = h[n] /\ Chains(h, lines, chain, ab)
  BY <1>4, ChainSteps
<1>. HIDE DEF f, g, h, next
<1>8. 0 \in T
  <2>1. f[0] = a /\ g[0] = b /\ h[0] = ab
    BY <1>5, <1>6, <1>7 DEF Chains
  <2>2. Joins(f, g, h, 0)
    BY <2>1 DEF Joins
  <2>. QED
    BY <2>2
<1>9. ASSUME NEW k \in Nat, k \in T
      PROVE  k + 1 \in T
  <2>. SUFFICES ASSUME k + 1 <= n PROVE Joins(f, g, h, k + 1)
    OBVIOUS
  <2>1. k + 1 \in 1 .. n /\ (k + 1) - 1 = k /\ k \in 0 .. n /\ Joins(f, g, h, k)
    BY <1>1, <1>9
  <2>. HIDE DEF T, ab, n
  <2>. DEFINE i == k + 1
              op == chain[i]
              x == f[k]
              y == g[k]
  <2>2. /\ f[i] = OpRows(lines, op, x) /\ x \in Seq(RowsOf(lines))
        /\ h[i] = OpRows(lines, op, h[k])
    BY <1>5, <1>7, <2>1 DEF Chains, n
  <2>3. g[i] = OpRows(lines, next[i], y) /\ y \in Seq(RowsOf(lines))
    BY <1>2, <1>6, <2>1 DEF Chains
  <2>4. next[i] = OpAfter(op, Len(x)) /\ op \in StreamOp
    BY <1>1, <1>3, <2>1
  <2>. HIDE DEF i, op, x, y
  <2>5. GoesOn(lines, op, x, y)
    BY <2>2, <2>3, <2>4, OpConcat
  <2>6. h[i] = OpRows(lines, op, x \o y)
    BY <2>1, <2>2 DEF x, y, Joins
  <2>7. h[i] = f[i] \o g[i]
    BY <2>2, <2>3, <2>4, <2>5, <2>6 DEF GoesOn
  <2>. QED
    BY <2>7 DEF i, Joins
<1>. HIDE DEF T
<1>10. Nat \subseteq T
  BY <1>8, <1>9, NumberInduction
<1>11. h[n] = f[n] \o g[n]
  <2>1. Joins(f, g, h, n)
    BY <1>1, <1>10 DEF T
  <2>. QED
    BY <2>1 DEF Joins
<1>. QED
  BY <1>5, <1>6, <1>7, <1>11 DEF next, ab

\* The same, with names for the sequences.
LEMMA ChainSplit ==
  ASSUME NEW lines \in Seq(Line), NEW chain \in Seq(StreamOp),
         NEW a \in Seq(RowsOf(lines)), NEW b \in Seq(RowsOf(lines)), NEW rows, IsConcat(rows, a, b)
  PROVE  IsConcat(ChainRows(lines, chain, rows), ChainRows(lines, chain, a),
                  ChainRows(lines, After(lines, chain, a), b))
  BY ChainConcat, Zenon DEF IsConcat

\* Nothing comes out of nothing, nor out of a chain with a slice that is used up.
LEMMA ChainEmpty ==
  ASSUME NEW lines \in Seq(Line), NEW chain \in Seq(StreamOp), NEW rows \in Seq(RowsOf(lines)),
         rows = <<>> \/ \E j \in 1 .. Len(chain) : chain[j].op = "slice" /\ chain[j].limit = 0
  PROVE  ChainRows(lines, chain, rows) = <<>>
<1>. DEFINE n == Len(chain)
            f == Out(lines, chain, rows)
<1>1. n \in Nat /\ \A i \in 1 .. n : chain[i] \in StreamOp
  BY LenProperties, ElementOfSeq
<1>2. ChainRows(lines, chain, rows) = f[n] /\ Chains(f, lines, chain, rows)
  BY ChainSteps
<1>. HIDE DEF f
<1>3. ASSUME NEW i \in 1 .. n
      PROVE  /\ f[i - 1] = <<>> => f[i] = <<>>
             /\ chain[i].op = "slice" /\ chain[i].limit = 0 => f[i] = <<>>
  <2>. DEFINE x == f[i - 1]
              op == chain[i]
  <2>1. i - 1 \in 0 .. n /\ op \in StreamOp
    BY <1>1
  <2>2. f[i] = OpRows(lines, op, x) /\ x \in Seq(RowsOf(lines))
    BY <1>2, <2>1 DEF Chains
  <2>. HIDE DEF x, op
  <2>3. /\ x = <<>> => f[i] = <<>>
        /\ op.op = "slice" /\ op.limit = 0 => f[i] = <<>>
    BY <2>1, <2>2, OpTypes
  <2>. QED
    BY <2>3 DEF x, op
<1>4. PICK j \in 0 .. n : f[j] = <<>>
  <2>1. CASE rows = <<>>
    <3>1. f[0] = <<>> /\ 0 \in 0 .. n
      BY <1>1, <1>2, <2>1 DEF Chains
    <3>. QED
      BY <3>1
  <2>2. CASE \E j \in 1 .. n : chain[j].op = "slice" /\ chain[j].limit = 0
    <3>1. PICK j \in 1 .. n : chain[j].op = "slice" /\ chain[j].limit = 0
      BY <2>2
    <3>2. f[j] = <<>> /\ j \in 0 .. n
      BY <1>1, <1>3, <3>1
    <3>. QED
      BY <3>2
  <2>. QED
    BY <2>1, <2>2
<1>. DEFINE T == {k \in Nat : k >= j /\ k <= n => f[k] = <<>>}
<1>. HIDE DEF n
<1>5. 0 \in T
  <2>1. 0 >= j => j = 0
    BY <1>1
  <2>. QED
    BY <1>4, <2>1
<1>6. ASSUME NEW k \in Nat, k \in T
      PROVE  k + 1 \in T
  <2>. SUFFICES ASSUME k + 1 >= j, k + 1 <= n PROVE f[k + 1] = <<>>
    OBVIOUS
  <2>1. CASE k + 1 = j
    BY <1>4, <2>1
  <2>2. CASE k >= j
    <3>1. k + 1 \in 1 .. n /\ (k + 1) - 1 = k /\ f[k] = <<>>
      BY <1>1, <1>6, <2>2
    <3>. QED
      BY <1>3, <3>1
  <2>. QED
    BY <1>1, <2>1, <2>2
<1>. HIDE DEF T
<1>7. n \in T
  BY <1>1, <1>5, <1>6, NumberInduction
<1>. QED
  BY <1>1, <1>2, <1>7 DEF T, n

\* What is read of a file does not depend on the lines behind it.
LEMMA RowsOfMore ==
  ASSUME NEW lines \in Seq(Line), NEW l \in Line
  PROVE  /\ Append(lines, l) \in Seq(Line) /\ Len(Append(lines, l)) = Len(lines) + 1
         /\ \A i \in 1 .. Len(lines) : Append(lines, l)[i] = lines[i]
         /\ RowsOf(lines) \subseteq RowsOf(Append(lines, l))
         /\ \A rows \in Seq(RowsOf(lines)) : rows \in Seq(RowsOf(Append(lines, l)))
<1>1. /\ Append(lines, l) \in Seq(Line) /\ Len(Append(lines, l)) = Len(lines) + 1
      /\ \A i \in 1 .. Len(lines) : Append(lines, l)[i] = lines[i]
      /\ Len(lines) \in Nat
  BY AppendProperties, LenProperties
<1>2. RowsOf(lines) \subseteq RowsOf(Append(lines, l))
  BY <1>1 DEF RowsOf
<1>3. \A rows \in Seq(RowsOf(lines)) : rows \in Seq(RowsOf(Append(lines, l)))
  BY <1>2, SeqMonotonic
<1>. QED
  BY <1>1, <1>2, <1>3

\* A line more in the file changes nothing for an operator on rows of the lines before.
LEMMA OpOfMore ==
  ASSUME NEW lines \in Seq(Line), NEW l \in Line, NEW op \in StreamOp, NEW rows \in Seq(RowsOf(lines))
  PROVE  OpRows(Append(lines, l), op, rows) = OpRows(lines, op, rows)
<1>. DEFINE more == Append(lines, l)
<1>1. CASE op.op = "slice"
  BY <1>1 DEF OpRows
<1>2. CASE op.op # "slice"
  <2>1. \A i \in 1 .. Len(lines) : more[i] = lines[i]
    BY RowsOfMore
  <2>. HIDE DEF more
  <2>2. ASSUME NEW i \in 1 .. Len(rows)
        PROVE  Produced(more, op, rows[i]) = Produced(lines, op, rows[i])
    <3>. DEFINE row == rows[i]
    <3>1. row \in RowsOf(lines)
      BY ElementOfSeq
    <3>. HIDE DEF row
    <3>2. row.line \in 1 .. Len(lines)
      BY <3>1 DEF RowsOf
    <3>3. more[row.line] = lines[row.line]
      BY <2>1, <3>2
    <3>4. Elements(more, row) = Elements(lines, row)
      BY <3>3 DEF Elements
    <3>5. Produced(more, op, row) = Produced(lines, op, row)
      BY <3>3, <3>4, Zenon DEF Produced
    <3>. QED
      BY <3>5 DEF row
  <2>3. Pieces(more, op, rows) = Pieces(lines, op, rows)
    BY <2>2 DEF Pieces
  <2>4. OpRows(more, op, rows) = FlattenSeq(Pieces(more, op, rows))
    BY <1>2 DEF OpRows, Pieces
  <2>5. OpRows(lines, op, rows) = FlattenSeq(Pieces(lines, op, rows))
    BY <1>2 DEF OpRows, Pieces
  <2>. QED
    BY <2>3, <2>4, <2>5 DEF more
<1>. QED
  BY <1>1, <1>2

\* A line more in the file changes nothing for a chain on rows of the lines before.
LEMMA ChainOfMore ==
  ASSUME NEW lines \in Seq(Line), NEW l \in Line, NEW chain \in Seq(StreamOp),
         NEW rows \in Seq(RowsOf(lines))
  PROVE  ChainRows(Append(lines, l), chain, rows) = ChainRows(lines, chain, rows)
<1>. DEFINE n == Len(chain)
            more == Append(lines, l)
            f == Out(lines, chain, rows)
            g == Out(more, chain, rows)
            T == {k \in Nat : k <= n => g[k] = f[k]}
<1>1. n \in Nat /\ \A i \in 1 .. n : chain[i] \in StreamOp
  BY LenProperties, ElementOfSeq
<1>2. ChainRows(lines, chain, rows) = f[n] /\ Chains(f, lines, chain, rows)
  BY ChainSteps
<1>3. more \in Seq(Line) /\ rows \in Seq(RowsOf(more))
  BY RowsOfMore
<1>4. ChainRows(more, chain, rows) = g[n] /\ Chains(g, more, chain, rows)
  BY <1>3, ChainSteps
<1>. HIDE DEF f, g
<1>5. 0 \in T
  BY <1>2, <1>4 DEF Chains
<1>6. ASSUME NEW k \in Nat, k \in T
      PROVE  k + 1 \in T
  <2>. SUFFICES ASSUME k + 1 <= n PROVE g[k + 1] = f[k + 1]
    OBVIOUS
  <2>. DEFINE i == k + 1
              x == f[k]
              op == chain[i]
  <2>1. i \in 1 .. n /\ i - 1 = k /\ k \in 0 .. n /\ g[k] = x /\ op \in StreamOp
    BY <1>1, <1>6
  <2>. HIDE DEF T, i, x
  <2>2. f[i] = OpRows(lines, op, x) /\ x \in Seq(RowsOf(lines))
    BY <1>2, <2>1 DEF Chains, x
  <2>3. g[i] = OpRows(more, op, x)
    BY <1>4, <2>1 DEF Chains
  <2>. HIDE DEF op
  <2>4. OpRows(more, op, x) = OpRows(lines, op, x)
    BY <2>1, <2>2, OpOfMore
  <2>. QED
    BY <2>2, <2>3, <2>4 DEF i
<1>. HIDE DEF T
<1>7. n \in T
  BY <1>1, <1>5, <1>6, NumberInduction
<1>. HIDE DEF n, more
<1>8. g[n] = f[n]
  BY <1>1, <1>7 DEF T
<1>. QED
  BY <1>2, <1>4, <1>8 DEF n, more

-----------------------------------------------------------------------------
(***************************************************************************)
(* One row through the operators (apply_ops).                              *)
(***************************************************************************)

\* The counters of an operator have not gone up.
CountsDown(next, op) ==
  /\ next \in StreamOp /\ next.op = op.op
  /\ op.op = "slice" =>
       /\ next.offset <= op.offset
       /\ op.limit = Unlimited <=> next.limit = Unlimited
       /\ op.limit # Unlimited => next.limit <= op.limit

\* An operator that has seen rows counts down.
LEMMA AfterCountsDown ==
  ASSUME NEW op \in StreamOp, NEW n \in Nat
  PROVE  CountsDown(op, op) /\ CountsDown(OpAfter(op, n), op)
<1>1. op.op = "slice" => op.offset \in Nat /\ op.limit \in Nat \cup {Unlimited}
  BY SliceTypes
<1>2. CountsDown(op, op)
  BY <1>1 DEF CountsDown
<1>3. CASE op.op # "slice"
  BY <1>2, <1>3, OpAfterType
<1>4. CASE op.op = "slice"
  <2>. DEFINE next == OpAfter(op, n)
  <2>1. /\ next \in StreamOp /\ next.op = op.op
        /\ next.offset <= op.offset
        /\ next.limit = IF op.limit = Unlimited THEN Unlimited ELSE op.limit - Passed(op, n)
    BY <1>4, OpAfterType
  <2>2. Passed(op, n) \in Nat /\ (op.limit # Unlimited => Passed(op, n) <= op.limit)
    BY <1>4, SliceCounts
  <2>. HIDE DEF next
  <2>3. op.limit # Unlimited => next.limit \in Nat /\ next.limit <= op.limit
    BY <1>1, <1>4, <2>1, <2>2
  <2>4. Unlimited \notin Nat
    BY JsonlAssumption
  <2>5. op.limit = Unlimited <=> next.limit = Unlimited
    BY <1>1, <1>4, <2>1, <2>3, <2>4
  <2>. QED
    BY <1>2, <1>4, <2>1, <2>3, <2>5 DEF CountsDown, next
<1>. QED
  BY <1>3, <1>4

\* What is known between two operators.
ApplyStates ==
  [rows : Seq(RowsOf(file)), ops : {c \in Seq(StreamOp) : Len(c) = Len(ops)}, failed : BOOLEAN]

IsApply(f, row) ==
  f = [i \in 0 .. Len(ops) |->
         IF i = 0 THEN [rows |-> <<row>>, ops |-> ops, failed |-> ~ WithinLimits(<<row>>)]
         ELSE ApplyOp(f[i - 1], i)]

ApplyStart(row) == [rows |-> <<row>>, ops |-> ops, failed |-> ~ WithinLimits(<<row>>)]

Applies(row) == CHOOSE f : IsApply(f, row)

\* The fields after an operator.
LEMMA ApplyOpFacts ==
  ASSUME file \in Seq(Line), ops \in Seq(StreamOp), NEW st \in ApplyStates, NEW i \in 1 .. Len(ops)
  PROVE  /\ ApplyOp(st, i) \in ApplyStates
         /\ \/ ApplyOp(st, i).failed /\ ApplyOp(st, i).ops = st.ops
            \/ /\ ~ st.failed
               /\ ApplyOp(st, i).rows = OpRows(file, st.ops[i], st.rows)
               /\ ApplyOp(st, i).failed = ~ WithinLimits(ApplyOp(st, i).rows)
               /\ ApplyOp(st, i).ops = [st.ops EXCEPT ![i] = OpAfter(st.ops[i], Len(st.rows))]
<1>. DEFINE R == RowsOf(file)
            C == {c \in Seq(StreamOp) : Len(c) = Len(ops)}
            next == ApplyOp(st, i)
            out == OpRows(file, st.ops[i], st.rows)
            changed == [st.ops EXCEPT ![i] = OpAfter(st.ops[i], Len(st.rows))]
<1>1. st \in [rows : Seq(R), ops : C, failed : BOOLEAN]
  BY DEF ApplyStates
<1>2. st.rows \in Seq(R) /\ st.ops \in Seq(StreamOp) /\ Len(st.ops) = Len(ops) /\ st.failed \in BOOLEAN
  BY <1>1
<1>3. CASE st.failed
  <2>1. next = st
    BY <1>3 DEF ApplyOp
  <2>. QED
    BY <1>3, <2>1
<1>4. CASE ~ st.failed /\ OpFails(st.ops[i], st.rows)
  <2>1. next = [st EXCEPT !.failed = TRUE]
    BY <1>4 DEF ApplyOp
  <2>. HIDE DEF next, R, C
  <2>2. next \in [rows : Seq(R), ops : C, failed : BOOLEAN] /\ next.failed /\ next.ops = st.ops
    BY <1>1, <2>1
  <2>. QED
    BY <2>2 DEF ApplyStates, next, R, C
<1>5. CASE ~ st.failed /\ ~ OpFails(st.ops[i], st.rows)
  <2>1. st.ops[i] \in StreamOp /\ Len(st.rows) \in Nat
    BY <1>2, ElementOfSeq, LenProperties
  <2>2. out \in Seq(R)
    BY <1>2, <2>1, OpTypes
  <2>3. OpAfter(st.ops[i], Len(st.rows)) \in StreamOp
    BY <2>1, OpAfterType
  <2>4. changed \in Seq(StreamOp) /\ Len(changed) = Len(ops)
    BY <1>2, <2>3, ExceptSeq
  <2>5. next = [rows |-> out, failed |-> ~ WithinLimits(out), ops |-> changed]
    BY <1>5 DEF ApplyOp
  <2>. HIDE DEF next, R, out, changed
  <2>6. next.rows = out /\ next.failed = (~ WithinLimits(out)) /\ next.ops = changed
    BY <2>5
  <2>7. next \in [rows : Seq(R), ops : C, failed : BOOLEAN]
    BY <2>2, <2>4, <2>5
  <2>. QED
    BY <1>5, <2>6, <2>7 DEF ApplyStates, next, R, out, changed
<1>. QED
  BY <1>2, <1>3, <1>4, <1>5

\* apply_ops goes from operator to operator.
LEMMA ApplySteps ==
  ASSUME file \in Seq(Line), ops \in Seq(StreamOp), NEW row \in RowsOf(file)
  PROVE  /\ ApplyOps(row) = Applies(row)[Len(ops)]
         /\ Applies(row)[0] = ApplyStart(row)
         /\ \A i \in 1 .. Len(ops) : Applies(row)[i] = ApplyOp(Applies(row)[i - 1], i)
         /\ \A i \in 0 .. Len(ops) : Applies(row)[i] \in ApplyStates
<1>. DEFINE n == Len(ops)
            S == ApplyStates
            turn == [p \in (1 .. n) \X S |-> ApplyOp(p[2], p[1])]
<1>0. ApplyStart(row) \in S
  <2>1. <<row>> \in Seq(RowsOf(file))
    OBVIOUS
  <2>. QED
    BY <2>1 DEF ApplyStart, ApplyStates
<1>1. n \in Nat
  BY LenProperties
<1>2. \A i \in 1 .. n, st \in S : ApplyOp(st, i) \in S
  BY ApplyOpFacts
<1>. HIDE DEF n, S
<1>3. turn \in [(1 .. n) \X S -> S] /\ \A i \in 1 .. n, st \in S : turn[<<i, st>>] = ApplyOp(st, i)
  BY <1>2
<1>. HIDE DEF turn
<1>4. PICK f : IsLoop(f, S, ApplyStart(row), turn, n)
  <2>1. AreTurns(turn, S, n)
    BY <1>3 DEF AreTurns
  <2>. QED
    BY <1>0, <1>1, <2>1, Loops
<1>5. ASSUME NEW i \in 0 .. n
      PROVE  f[i] = IF i = 0 THEN ApplyStart(row) ELSE ApplyOp(f[i - 1], i)
  <2>1. CASE i # 0
    <3>1. i \in 1 .. n /\ i - 1 \in 0 .. n
      BY <1>1, <2>1
    <3>2. f[i - 1] \in S
      BY <1>4, <3>1 DEF IsLoop
    <3>3. f[i] = turn[<<i, f[i - 1]>>]
      BY <1>4, <3>1 DEF IsLoop
    <3>. QED
      BY <1>3, <2>1, <3>1, <3>2, <3>3
  <2>. QED
    BY <1>4, <2>1 DEF IsLoop
<1>6. f = [i \in 0 .. n |-> IF i = 0 THEN ApplyStart(row) ELSE ApplyOp(f[i - 1], i)]
  <2>1. f = [i \in 0 .. n |-> f[i]]
    BY <1>4 DEF IsLoop
  <2>. QED
    BY <1>5, <2>1
<1>. DEFINE g == Applies(row)
<1>7. IsApply(g, row)
  <2>1. IsApply(f, row)
    BY <1>6, Zenon DEF IsApply, n, ApplyStart
  <2>. QED
    BY <2>1 DEF Applies
<1>8. ApplyOps(row) = g[n]
  BY Zenon DEF ApplyOps, Applies, IsApply, n
<1>. HIDE DEF g
<1>9. \A i \in 0 .. n : g[i] = IF i = 0 THEN ApplyStart(row) ELSE ApplyOp(g[i - 1], i)
  BY <1>7 DEF IsApply, n, ApplyStart
<1>10. g[0] = ApplyStart(row) /\ \A i \in 1 .. n : g[i] = ApplyOp(g[i - 1], i)
  BY <1>1, <1>9
<1>. DEFINE T == {k \in Nat : k <= n => g[k] \in S}
<1>11. 0 \in T
  BY <1>0, <1>10
<1>12. ASSUME NEW k \in Nat, k \in T
       PROVE  k + 1 \in T
  <2>. SUFFICES ASSUME k + 1 <= n PROVE g[k + 1] \in S
    OBVIOUS
  <2>1. k + 1 \in 1 .. n /\ (k + 1) - 1 = k /\ g[k] \in S
    BY <1>1, <1>12
  <2>2. g[k + 1] = ApplyOp(g[k], k + 1)
    BY <1>10, <2>1
  <2>. QED
    BY <1>2, <2>1, <2>2
<1>. HIDE DEF T
<1>13. Nat \subseteq T
  BY <1>11, <1>12, NumberInduction
<1>14. \A i \in 0 .. n : g[i] \in S
  BY <1>1, <1>13 DEF T
<1>. QED
  BY <1>8, <1>10, <1>14 DEF n, g, S

\* After the first k operators: they have counted the rows that reached them, the others
\* none, and as long as none has failed the rows are the ones behind the k-th.
AppliedUpTo(st, f, k) ==
  /\ \A j \in 1 .. Len(ops) : CountsDown(st.ops[j], ops[j]) /\ (j > k => st.ops[j] = ops[j])
  /\ ~ st.failed =>
       /\ st.rows = f[k] /\ WithinLimits(st.rows)
       /\ \A j \in 1 .. Len(ops) : j <= k => st.ops[j] = OpAfter(ops[j], Len(f[j - 1]))

\* One more operator.
LEMMA ApplyOneMore ==
  ASSUME file \in Seq(Line), ops \in Seq(StreamOp), NEW row \in RowsOf(file),
         NEW f, Chains(f, file, ops, <<row>>),
         NEW i \in 1 .. Len(ops), NEW st \in ApplyStates, AppliedUpTo(st, f, i - 1)
  PROVE  AppliedUpTo(ApplyOp(st, i), f, i)
<1>. DEFINE n == Len(ops)
            next == ApplyOp(st, i)
            given == st.ops
            op == ops[i]
            x == st.rows
            used == OpAfter(op, Len(x))
<1>1. n \in Nat /\ i \in 1 .. n /\ i - 1 \in 0 .. n /\ op \in StreamOp
  BY LenProperties, ElementOfSeq
<1>2. /\ given \in Seq(StreamOp) /\ Len(given) = n /\ x \in Seq(RowsOf(file))
      /\ given[i] = op
      /\ \A j \in 1 .. n : CountsDown(given[j], ops[j]) /\ (j > i - 1 => given[j] = ops[j])
  <2>1. st.rows \in Seq(RowsOf(file)) /\ st.ops \in Seq(StreamOp) /\ Len(st.ops) = Len(ops)
    BY DEF ApplyStates
  <2>2. \A j \in 1 .. n : CountsDown(given[j], ops[j]) /\ (j > i - 1 => given[j] = ops[j])
    BY DEF AppliedUpTo
  <2>3. i > i - 1
    BY <1>1
  <2>. QED
    BY <1>1, <2>1, <2>2, <2>3
<1>3. \/ next.failed /\ next.ops = given
      \/ /\ ~ st.failed
         /\ next.rows = OpRows(file, op, x)
         /\ next.failed = ~ WithinLimits(next.rows)
         /\ next.ops = [given EXCEPT ![i] = used]
  <2>1. \/ next.failed /\ next.ops = given
        \/ /\ ~ st.failed
           /\ next.rows = OpRows(file, given[i], x)
           /\ next.failed = ~ WithinLimits(next.rows)
           /\ next.ops = [given EXCEPT ![i] = OpAfter(given[i], Len(x))]
    BY ApplyOpFacts
  <2>2. given[i] = op
    BY <1>2
  <2>. HIDE DEF next, given, x, op
  <2>. QED
    BY <2>1, <2>2, Zenon
<1>4. used \in StreamOp /\ CountsDown(used, op)
  <2>1. Len(x) \in Nat
    BY <1>2, LenProperties
  <2>. HIDE DEF x, op
  <2>. QED
    BY <1>1, <2>1, OpAfterType, AfterCountsDown
<1>5. CASE next.failed /\ next.ops = given
  <2>1. \A j \in 1 .. n : j > i => j > i - 1
    BY <1>1
  <2>. HIDE DEF n, next, given
  <2>2. \A j \in 1 .. n : CountsDown(next.ops[j], ops[j]) /\ (j > i => next.ops[j] = ops[j])
    BY <1>2, <1>5, <2>1
  <2>. QED
    BY <1>5, <2>2 DEF AppliedUpTo, n, next
<1>6. CASE /\ ~ st.failed
           /\ next.rows = OpRows(file, op, x)
           /\ next.failed = ~ WithinLimits(next.rows)
           /\ next.ops = [given EXCEPT ![i] = used]
  <2>1. x = f[i - 1] /\ \A j \in 1 .. n : j <= i - 1 => given[j] = OpAfter(ops[j], Len(f[j - 1]))
    BY <1>6 DEF AppliedUpTo
  <2>2. f[i] = OpRows(file, op, f[i - 1])
    BY <1>1 DEF Chains
  <2>. HIDE DEF n, next, given, x, used, op
  <2>3. next.ops[i] = used /\ \A j \in 1 .. n : j # i => next.ops[j] = given[j]
    BY <1>1, <1>2, <1>4, <1>6, ExceptSeq
  <2>4. used = OpAfter(ops[i], Len(f[i - 1]))
    BY <2>1 DEF used, op
  <2>5. ASSUME NEW j \in 1 .. n
        PROVE  /\ CountsDown(next.ops[j], ops[j])
               /\ j > i => next.ops[j] = ops[j]
               /\ j <= i => next.ops[j] = OpAfter(ops[j], Len(f[j - 1]))
    <3>1. CASE j = i
      <4>1. CountsDown(next.ops[i], ops[i])
        BY <1>4, <2>3 DEF op
      <4>2. ~ (i > i)
        BY <1>1
      <4>. QED
        BY <2>3, <2>4, <3>1, <4>1, <4>2
    <3>2. CASE j # i
      <4>1. next.ops[j] = given[j] /\ (j > i => j > i - 1) /\ (j <= i => j <= i - 1)
        BY <1>1, <2>3, <3>2
      <4>. QED
        BY <1>2, <2>1, <4>1
    <3>. QED
      BY <3>1, <3>2
  <2>6. ~ next.failed => next.rows = f[i] /\ WithinLimits(next.rows)
    BY <1>6, <2>1, <2>2
  <2>. QED
    BY <2>5, <2>6 DEF AppliedUpTo, n, next
<1>. QED
  BY <1>3, <1>5, <1>6

\* What apply_ops does: it makes of the row what the chain makes of it, counts in every
\* operator, and sets no counter back when it fails.
LEMMA ApplyFacts ==
  ASSUME file \in Seq(Line), ops \in Seq(StreamOp), NEW row \in RowsOf(file)
  PROVE  /\ ApplyOps(row) \in ApplyStates
         /\ \A j \in 1 .. Len(ops) : CountsDown(ApplyOps(row).ops[j], ops[j])
         /\ ~ ApplyOps(row).failed =>
              /\ ApplyOps(row).rows = ChainRows(file, ops, <<row>>)
              /\ ApplyOps(row).ops = After(file, ops, <<row>>)
              /\ WithinLimits(ApplyOps(row).rows)
<1>. DEFINE n == Len(ops)
            f == Out(file, ops, <<row>>)
            g == Applies(row)
            T == {k \in Nat : k <= n => AppliedUpTo(g[k], f, k)}
<1>1. n \in Nat /\ \A j \in 1 .. n : ops[j] \in StreamOp
  BY LenProperties, ElementOfSeq
<1>2. <<row>> \in Seq(RowsOf(file))
  OBVIOUS
<1>3. ChainRows(file, ops, <<row>>) = f[n] /\ Chains(f, file, ops, <<row>>)
  BY <1>2, ChainSteps
<1>4. /\ ApplyOps(row) = g[n]
      /\ g[0] = ApplyStart(row)
      /\ \A i \in 1 .. n : g[i] = ApplyOp(g[i - 1], i)
      /\ \A i \in 0 .. n : g[i] \in ApplyStates
  BY ApplySteps
<1>5. After(file, ops, <<row>>) = [j \in 1 .. n |-> OpAfter(ops[j], Len(f[j - 1]))]
  BY DEF After
<1>. HIDE DEF f, g
<1>6. 0 \in T
  <2>. DEFINE st == g[0]
  <2>1. st.rows = <<row>> /\ st.ops = ops /\ st.failed = ~ WithinLimits(<<row>>)
    BY <1>4 DEF ApplyStart
  <2>2. f[0] = <<row>>
    BY <1>3 DEF Chains
  <2>3. \A j \in 1 .. n : CountsDown(ops[j], ops[j]) /\ ~ (j <= 0)
    BY <1>1, AfterCountsDown
  <2>. HIDE DEF st
  <2>4. AppliedUpTo(st, f, 0)
    BY <2>1, <2>2, <2>3 DEF AppliedUpTo
  <2>. QED
    BY <2>4 DEF st
<1>7. ASSUME NEW k \in Nat, k \in T
      PROVE  k + 1 \in T
  <2>. SUFFICES ASSUME k + 1 <= n PROVE AppliedUpTo(g[k + 1], f, k + 1)
    OBVIOUS
  <2>. DEFINE i == k + 1
              st == g[k]
  <2>1. i \in 1 .. n /\ i - 1 = k /\ k \in 0 .. n /\ AppliedUpTo(st, f, i - 1)
    BY <1>1, <1>7
  <2>2. st \in ApplyStates /\ g[i] = ApplyOp(st, i)
    BY <1>4, <2>1
  <2>. HIDE DEF T, i, st
  <2>3. AppliedUpTo(ApplyOp(st, i), f, i)
    BY <1>3, <2>1, <2>2, ApplyOneMore
  <2>. QED
    BY <2>2, <2>3 DEF i
<1>. HIDE DEF T
<1>8. n \in T
  BY <1>1, <1>6, <1>7, NumberInduction
<1>. DEFINE st == g[n]
<1>9. AppliedUpTo(st, f, n) /\ st \in ApplyStates
  BY <1>1, <1>4, <1>8 DEF T
<1>10. ApplyOps(row) = st
  BY <1>4
<1>. HIDE DEF st, n
<1>11. /\ \A j \in 1 .. n : CountsDown(st.ops[j], ops[j])
       /\ ~ st.failed =>
            /\ st.rows = f[n] /\ WithinLimits(st.rows)
            /\ \A j \in 1 .. n : st.ops[j] = OpAfter(ops[j], Len(f[j - 1]))
  BY <1>1, <1>9 DEF AppliedUpTo, n
<1>12. ASSUME ~ st.failed
       PROVE  st.ops = After(file, ops, <<row>>)
  <2>. DEFINE after == After(file, ops, <<row>>)
              now == st.ops
  <2>1. after \in Seq(StreamOp) /\ Len(after) = n
    BY <1>2, AfterType DEF n
  <2>2. now \in Seq(StreamOp) /\ Len(now) = n
    BY <1>9 DEF ApplyStates, n
  <2>3. \A j \in 1 .. n : after[j] = OpAfter(ops[j], Len(f[j - 1])) /\ now[j] = OpAfter(ops[j], Len(f[j - 1]))
    BY <1>5, <1>11, <1>12
  <2>. HIDE DEF after, now
  <2>4. \A j \in 1 .. Len(now) : now[j] = after[j]
    BY <2>2, <2>3
  <2>5. now = after
    BY <2>1, <2>2, <2>4, SeqEqual
  <2>. QED
    BY <2>5 DEF now, after
<1>. QED
  BY <1>3, <1>9, <1>10, <1>11, <1>12 DEF n

-----------------------------------------------------------------------------
(***************************************************************************)
(* The inductive invariant of the stream.                                  *)
(***************************************************************************)
StreamTypes ==
  /\ file \in Seq(Line) /\ plan \in Seq(StreamOp) /\ options \in StreamOptions
  /\ pc \in {"new", "idle", "pulling", "closed"}
  /\ extent \in 0 .. Len(file) /\ line \in 0 .. extent /\ torn \in BOOLEAN /\ scanned \in 0 .. line
  /\ ops \in Seq(StreamOp) /\ Len(ops) = Len(plan)
  /\ \A i \in 1 .. Len(plan) : CountsDown(ops[i], plan[i])
  /\ pending \in Seq(RowsOf(file)) /\ batch \in Seq(RowsOf(file)) /\ seen \in Seq(RowsOf(file))
  /\ result \in Seq(RowsOf(file))
  /\ done \in BOOLEAN /\ cancelled \in BOOLEAN
  /\ last \in {"new", "opened", "batch", "none", "error"}
  /\ failedAt \in 0 .. Len(seen) \cup {Unlimited}

\* A stream that was not opened has done nothing; an open one can fill batches; a line is
\* torn by an error only; the end is announced when everything has been given.
Control ==
  /\ pc = "new" =>
       /\ ~ Failed /\ ~ cancelled /\ ~ done /\ ~ torn /\ last = "new"
       /\ line = 0 /\ extent = 0 /\ ops = plan /\ pending = <<>> /\ batch = <<>> /\ seen = <<>>
  /\ pc \in {"idle", "pulling"} => options.batchRows # 0
  /\ pc = "pulling" => ~ cancelled
  /\ pc # "pulling" => batch = <<>>
  /\ torn => Failed
  /\ last = "none" /\ ~ Failed /\ ~ cancelled => done /\ pending = <<>> /\ pc # "pulling"

\* The rows of the lines from one to another.
SourceRows(from, to) == [i \in 1 .. to - from |-> Row(from + i, 0)]

\* What the stream will still make of the file.
Rest == IF done THEN <<>> ELSE ChainRows(file, ops, SourceRows(line, extent))

\* Unless it has failed or been cancelled, what an open stream has given, what it holds
\* and what it will still make of the file is the result.
Whole ==
  ~ Failed /\ ~ cancelled /\ pc \in {"idle", "pulling"} => result = seen \o (batch \o (pending \o Rest))

LInv == StreamTypes /\ Control /\ Whole

-----------------------------------------------------------------------------
(***************************************************************************)
(* What the steps have in common.                                          *)
(***************************************************************************)
\* What has counted down and counts down further has counted down.
LEMMA CountsDownFurther ==
  ASSUME NEW a, NEW b, NEW op \in StreamOp, CountsDown(a, b), CountsDown(b, op)
  PROVE  CountsDown(a, op)
<1>1. a \in StreamOp /\ b \in StreamOp /\ a.op = op.op /\ b.op = op.op
  BY DEF CountsDown
<1>2. CASE op.op # "slice"
  BY <1>1, <1>2 DEF CountsDown
<1>3. CASE op.op = "slice"
  <2>1. /\ a.offset \in Nat /\ b.offset \in Nat /\ op.offset \in Nat
        /\ a.limit \in Nat \cup {Unlimited} /\ b.limit \in Nat \cup {Unlimited}
        /\ op.limit \in Nat \cup {Unlimited}
    BY <1>1, <1>3, SliceTypes
  <2>2. /\ a.offset <= b.offset /\ b.offset <= op.offset
        /\ b.limit = Unlimited <=> a.limit = Unlimited
        /\ op.limit = Unlimited <=> b.limit = Unlimited
        /\ b.limit # Unlimited => a.limit <= b.limit
        /\ op.limit # Unlimited => b.limit <= op.limit
    BY <1>1, <1>3 DEF CountsDown
  <2>3. op.limit # Unlimited => a.limit <= op.limit
    BY <2>1, <2>2
  <2>4. a.offset <= op.offset
    BY <2>1, <2>2
  <2>. QED
    BY <1>1, <2>2, <2>3, <2>4 DEF CountsDown
<1>. QED
  BY <1>2, <1>3

\* What a call that returns leaves: its value, and the first error once there is one.
LEMMA ReturnedFacts ==
  ASSUME StreamTypes, NEW value \in {"opened", "batch", "none", "error"}, Returned(value)
  PROVE  /\ last' = value
         /\ failedAt' \in 0 .. Len(seen) \cup {Unlimited}
         /\ failedAt' = IF value = "error" /\ failedAt = Unlimited THEN Len(seen) ELSE failedAt
         /\ value = "error" => failedAt' # Unlimited
<1>1. Len(seen) \in Nat /\ Unlimited \notin Nat
  BY LenProperties, JsonlAssumption DEF StreamTypes
<1>2. Len(seen) \in 0 .. Len(seen) /\ Len(seen) # Unlimited
  BY <1>1
<1>. QED
  BY <1>2 DEF Returned, Failed, StreamTypes

\* The rows of the lines from one to another are rows of the file, a row for each line.
LEMMA SourceRowsType ==
  ASSUME NEW lines \in Seq(Line), NEW to \in 0 .. Len(lines), NEW from \in 0 .. to
  PROVE  /\ SourceRows(from, to) \in Seq(RowsOf(lines))
         /\ Len(SourceRows(from, to)) = to - from
         /\ \A i \in 1 .. to - from : SourceRows(from, to)[i] = Row(from + i, 0)
<1>. DEFINE R == RowsOf(lines)
<1>1. Len(lines) \in Nat /\ to - from \in Nat
  BY LenProperties
<1>2. \A i \in 1 .. to - from : Row(from + i, 0) \in R
  <2>. TAKE i \in 1 .. to - from
  <2>1. from + i \in 1 .. Len(lines)
    BY <1>1
  <2>. QED
    BY <2>1 DEF Row, RowsOf
<1>. HIDE DEF R
<1>3. /\ SourceRows(from, to) \in Seq(R)
      /\ Len(SourceRows(from, to)) = to - from
  BY <1>1, <1>2 DEF SourceRows
<1>. QED
  BY <1>3 DEF SourceRows, R

\* The next line, and what is made of it.
LEMMA NextLine ==
  ASSUME StreamTypes, LineAtHand
  PROVE  /\ line + 1 \in 1 .. extent /\ extent \in 1 .. Len(file)
         /\ Row(line + 1, 0) \in RowsOf(file) /\ <<Row(line + 1, 0)>> \in Seq(RowsOf(file))
         /\ ~ done /\ pc = "pulling" /\ pending = <<>>
<1>1. Len(file) \in Nat
  BY LenProperties DEF StreamTypes
<1>2. line + 1 \in 1 .. extent /\ extent \in 1 .. Len(file) /\ line + 1 \in 1 .. Len(file)
  BY <1>1 DEF StreamTypes, LineAtHand
<1>3. Row(line + 1, 0) \in RowsOf(file)
  BY <1>2 DEF Row, RowsOf
<1>. QED
  BY <1>2, <1>3 DEF LineAtHand, Filling

\* What apply_ops makes of the line at hand.
LEMMA AppliedTypes ==
  ASSUME StreamTypes, LineAtHand, NEW applied, applied = ApplyOps(Row(line + 1, 0))
  PROVE  /\ applied.ops \in Seq(StreamOp) /\ Len(applied.ops) = Len(plan)
         /\ \A i \in 1 .. Len(plan) : CountsDown(applied.ops[i], ops[i])
         /\ \A i \in 1 .. Len(plan) : CountsDown(applied.ops[i], plan[i])
         /\ applied.rows \in Seq(RowsOf(file)) /\ applied.failed \in BOOLEAN
         /\ ~ applied.failed =>
              /\ applied.rows = ChainRows(file, ops, <<Row(line + 1, 0)>>)
              /\ applied.ops = After(file, ops, <<Row(line + 1, 0)>>)
              /\ WithinLimits(applied.rows)
<1>. DEFINE row == Row(line + 1, 0)
<1>1. file \in Seq(Line) /\ ops \in Seq(StreamOp) /\ Len(ops) = Len(plan) /\ row \in RowsOf(file)
  BY NextLine DEF StreamTypes
<1>. HIDE DEF row
<1>2. /\ ApplyOps(row) \in ApplyStates
      /\ \A j \in 1 .. Len(ops) : CountsDown(ApplyOps(row).ops[j], ops[j])
      /\ ~ ApplyOps(row).failed =>
           /\ ApplyOps(row).rows = ChainRows(file, ops, <<row>>)
           /\ ApplyOps(row).ops = After(file, ops, <<row>>)
           /\ WithinLimits(ApplyOps(row).rows)
  BY <1>1, ApplyFacts
<1>3. applied = ApplyOps(row)
  BY DEF row
<1>4. /\ applied.ops \in Seq(StreamOp) /\ Len(applied.ops) = Len(ops)
      /\ applied.rows \in Seq(RowsOf(file)) /\ applied.failed \in BOOLEAN
  BY <1>2, <1>3 DEF ApplyStates
<1>5. ASSUME NEW i \in 1 .. Len(plan)
      PROVE  CountsDown(applied.ops[i], plan[i])
  <2>1. CountsDown(applied.ops[i], ops[i])
    BY <1>1, <1>2, <1>3
  <2>2. CountsDown(ops[i], plan[i]) /\ plan[i] \in StreamOp
    BY ElementOfSeq DEF StreamTypes
  <2>. QED
    BY <2>1, <2>2, CountsDownFurther
<1>. QED
  BY <1>1, <1>2, <1>3, <1>4, <1>5 DEF row

-----------------------------------------------------------------------------
(***************************************************************************)
(* Types.                                                                  *)
(***************************************************************************)

\* The steps that fail or end a call, and those that only move the stream on.
LEMMA QuietTypes ==
  ASSUME StreamTypes, StartPull \/ PullOver \/ TimeOut \/ SourceEnds \/ ReadFails \/ Cancel \/ Drop \/ Closed
  PROVE  StreamTypes'
<1>1. <<>> \in Seq(RowsOf(file))
  BY EmptySeq
<1>2. CASE StartPull
  BY <1>2 DEF StartPull, StreamTypes, inputVars, sourceVars, callVars
<1>3. CASE PullOver
  <2>1. last' = "none" /\ failedAt' \in 0 .. Len(seen) \cup {Unlimited}
    BY <1>3, ReturnedFacts DEF PullOver, Return
  <2>. QED
    BY <1>1, <1>3, <2>1 DEF PullOver, Return, StreamTypes, inputVars, sourceVars
<1>4. CASE TimeOut
  <2>1. last' = "error" /\ failedAt' \in 0 .. Len(seen) \cup {Unlimited}
    BY <1>4, ReturnedFacts DEF TimeOut, Return
  <2>. QED
    BY <1>1, <1>4, <2>1 DEF TimeOut, Return, StreamTypes, inputVars, sourceVars
<1>5. CASE SourceEnds
  BY <1>5 DEF SourceEnds, StreamTypes, inputVars, sourceVars, callVars
<1>6. CASE ReadFails
  <2>1. last' = "error" /\ failedAt' \in 0 .. Len(seen) \cup {Unlimited}
    BY <1>6, ReturnedFacts DEF ReadFails, Return
  <2>2. torn' \in BOOLEAN
    BY <1>6 DEF ReadFails, StreamTypes
  <2>. QED
    BY <1>1, <1>6, <2>1, <2>2 DEF ReadFails, Return, StreamTypes, inputVars
<1>7. CASE Cancel
  BY <1>1, <1>7 DEF Cancel, StreamTypes, inputVars, sourceVars, callVars
<1>8. CASE Drop
  BY <1>8 DEF Drop, StreamTypes, inputVars, sourceVars, callVars
<1>9. CASE Closed
  BY <1>9 DEF Closed, StreamTypes, vars, inputVars, sourceVars, callVars
<1>. QED
  BY <1>2, <1>3, <1>4, <1>5, <1>6, <1>7, <1>8, <1>9

\* An append keeps the types: the rows of the file are rows of the longer file.
LEMMA AppendTypes ==
  ASSUME StreamTypes, NEW l \in Appended, AppendLine(l)
  PROVE  StreamTypes'
<1>1. l \in Line /\ file \in Seq(Line) /\ file' = Append(file, l)
  BY JsonlAssumption DEF AppendLine, StreamTypes
<1>2. file' \in Seq(Line) /\ Len(file') = Len(file) + 1 /\ Len(file) \in Nat
  BY <1>1, RowsOfMore, LenProperties
<1>3. \A rows \in Seq(RowsOf(file)) : rows \in Seq(RowsOf(file'))
  BY <1>1, RowsOfMore
<1>4. pending' \in Seq(RowsOf(file')) /\ batch' \in Seq(RowsOf(file'))
      /\ seen' \in Seq(RowsOf(file')) /\ result' \in Seq(RowsOf(file'))
  BY <1>3 DEF AppendLine, StreamTypes
<1>5. extent' \in 0 .. Len(file')
  BY <1>2 DEF AppendLine, StreamTypes, sourceVars
<1>. QED
  BY <1>2, <1>4, <1>5 DEF AppendLine, StreamTypes, sourceVars, callVars

\* Opening keeps the types.
LEMMA OpenTypes ==
  ASSUME StreamTypes, Open
  PROVE  StreamTypes'
<1>1. last' \in {"opened", "error"} /\ failedAt' \in 0 .. Len(seen) \cup {Unlimited}
  BY ReturnedFacts DEF Open
<1>2. Len(file) \in Nat /\ line \in Nat /\ extent \in Nat
  BY LenProperties DEF StreamTypes
<1>3. extent' \in 0 .. Len(file) /\ extent' >= extent /\ result' \in Seq(RowsOf(file))
  <2>1. WholeResult \in Seq(RowsOf(file))
    <3>. DEFINE rows == SourceRows(0, Len(file))
    <3>1. WholeResult = ChainRows(file, plan, rows)
      BY <1>2 DEF WholeResult, SourceRows
    <3>2. rows \in Seq(RowsOf(file))
      <4>1. file \in Seq(Line) /\ Len(file) \in 0 .. Len(file) /\ 0 \in 0 .. Len(file)
        BY <1>2 DEF StreamTypes
      <4>. QED
        BY <4>1, SourceRowsType
    <3>. HIDE DEF rows
    <3>. QED
      BY <3>1, <3>2, ChainType DEF StreamTypes
  <2>. QED
    BY <1>2, <2>1 DEF Open, StreamTypes
<1>4. line' \in 0 .. extent'
  BY <1>2, <1>3 DEF Open, StreamTypes
<1>5. pc' \in {"idle", "closed"} /\ UNCHANGED <<file, plan, options, line, torn, scanned, ops, pending, done, cancelled, batch, seen>>
  BY DEF Open
<1>. QED
  BY <1>1, <1>3, <1>4, <1>5 DEF StreamTypes

\* The steps that read a line.
LEMMA LineTypesStep ==
  ASSUME StreamTypes, LineRejected \/ RowFails \/ RowQueued
  PROVE  StreamTypes'
<1>1. <<>> \in Seq(RowsOf(file))
  BY EmptySeq
<1>2. LineAtHand /\ LineConsumed
  BY DEF LineRejected, RowFails, RowQueued, RowDecoded
<1>3. line' = line + 1 /\ line + 1 \in 1 .. extent /\ extent \in 1 .. Len(file) /\ torn' = FALSE /\ scanned' = scanned + 1
  BY <1>2, NextLine DEF LineConsumed
<1>4. line' \in 0 .. extent /\ scanned' \in 0 .. line'
  BY <1>3 DEF StreamTypes
<1>5. CASE LineRejected
  <2>1. last' = "error" /\ failedAt' \in 0 .. Len(seen) \cup {Unlimited}
    BY <1>5, ReturnedFacts DEF LineRejected, Return
  <2>. QED
    BY <1>1, <1>3, <1>4, <1>5, <2>1 DEF LineRejected, Return, StreamTypes, inputVars
<1>. DEFINE applied == ApplyOps(Row(line + 1, 0))
<1>6. /\ applied.ops \in Seq(StreamOp) /\ Len(applied.ops) = Len(plan)
      /\ \A i \in 1 .. Len(plan) : CountsDown(applied.ops[i], plan[i])
      /\ applied.rows \in Seq(RowsOf(file))
  BY <1>2, AppliedTypes
<1>7. CASE RowFails
  <2>1. last' = "error" /\ failedAt' \in 0 .. Len(seen) \cup {Unlimited}
    BY <1>7, ReturnedFacts DEF RowFails, Return
  <2>2. ops' = applied.ops
    BY <1>7 DEF RowFails
  <2>. HIDE DEF applied
  <2>3. UNCHANGED <<inputVars, extent, pending, done, cancelled, seen>> /\ pc' = "idle" /\ batch' = <<>>
    BY <1>7 DEF RowFails, Return
  <2>. QED
    BY <1>1, <1>3, <1>4, <1>6, <2>1, <2>2, <2>3 DEF StreamTypes, inputVars
<1>8. CASE RowQueued
  <2>1. ops' = applied.ops /\ pending' = applied.rows
    BY <1>8 DEF RowQueued
  <2>. HIDE DEF applied
  <2>2. UNCHANGED <<inputVars, pc, extent, done, cancelled, batch, callVars, seen>>
    BY <1>8 DEF RowQueued
  <2>. QED
    BY <1>3, <1>4, <1>6, <2>1, <2>2 DEF StreamTypes, inputVars, callVars
<1>. QED
  BY <1>5, <1>7, <1>8

\* The steps that fill and return a batch.
LEMMA BatchTypes ==
  ASSUME StreamTypes, TakeRow \/ EndBatch
  PROVE  StreamTypes'
<1>. DEFINE R == RowsOf(file)
<1>1. <<>> \in Seq(R) /\ pending \in Seq(R) /\ batch \in Seq(R) /\ seen \in Seq(R)
  BY EmptySeq DEF StreamTypes
<1>2. CASE TakeRow
  <2>1. pending # <<>> /\ batch' = Append(batch, Head(pending)) /\ pending' = Tail(pending)
    BY <1>2 DEF TakeRow, RowAtHand
  <2>2. Head(pending) \in R /\ pending' \in Seq(R)
    BY <1>1, <2>1, HeadTailProperties
  <2>3. batch' \in Seq(R)
    BY <1>1, <2>1, <2>2, AppendProperties
  <2>. QED
    BY <1>2, <2>2, <2>3 DEF TakeRow, StreamTypes, inputVars, sourceVars, callVars
<1>3. CASE EndBatch
  <2>1. last' \in {"none", "batch"} /\ failedAt' \in 0 .. Len(seen) \cup {Unlimited}
    <3>1. CASE batch = <<>>
      BY <1>3, <3>1, ReturnedFacts DEF EndBatch, Return
    <3>2. CASE batch # <<>>
      BY <1>3, <3>2, ReturnedFacts DEF EndBatch, Return
    <3>. QED
      BY <3>1, <3>2
  <2>2. seen' = seen \o batch
    BY <1>3 DEF EndBatch
  <2>3. seen' \in Seq(R) /\ Len(seen') = Len(seen) + Len(batch) /\ Len(seen) \in Nat /\ Len(batch) \in Nat
    BY <1>1, <2>2, ConcatProperties, LenProperties
  <2>4. failedAt' \in 0 .. Len(seen') \cup {Unlimited}
    BY <2>1, <2>3
  <2>. QED
    BY <1>1, <1>3, <2>1, <2>3, <2>4 DEF EndBatch, Return, StreamTypes, inputVars, sourceVars
<1>. QED
  BY <1>2, <1>3

\* Every step keeps the types.
LEMMA TypesStep ==
  ASSUME StreamTypes, [Next]_vars
  PROVE  StreamTypes'
<1>1. CASE UNCHANGED vars
  BY <1>1 DEF StreamTypes, vars, inputVars, sourceVars, callVars
<1>. QED
  BY <1>1, QuietTypes, AppendTypes, OpenTypes, LineTypesStep, BatchTypes DEF Next

-----------------------------------------------------------------------------
(***************************************************************************)
(* Control.                                                                *)
(***************************************************************************)
\* An empty batch ends the stream.
LEMMA EndsEmpty ==
  ASSUME StreamTypes, Control, EndBatch, batch = <<>>
  PROVE  pending = <<>> /\ done
<1>. SUFFICES ASSUME Len(batch) = TargetRows PROVE FALSE
  BY DEF EndBatch, Overflows
<1>1. Len(batch) = 0
  BY EmptyLength DEF StreamTypes
<1>2. options.batchRows # 0
  BY DEF EndBatch, Control
<1>3. options.batchRows \in Nat /\ options.maxRows \in Nat \cup {Unlimited}
  BY DEF StreamTypes, StreamOptions, Limit
<1>4. TargetRows # 0
  BY <1>2, <1>3 DEF TargetRows, Min2
<1>. QED
  BY <1>1, <1>4

\* Every step keeps the control state.
LEMMA ControlStep ==
  ASSUME StreamTypes, Control, [Next]_vars
  PROVE  Control'
<1>. USE DEF Failed
<1>1. CASE UNCHANGED vars
  BY <1>1 DEF Control, vars, inputVars, sourceVars, callVars
<1>2. CASE \E l \in Appended : AppendLine(l)
  BY <1>2 DEF AppendLine, Control, sourceVars, callVars
<1>3. CASE Open
  <2>1. CASE pc' = "idle"
    <3>1. last' = "opened" /\ failedAt' = failedAt
      BY <1>3, <2>1, ReturnedFacts DEF Open
    <3>2. options.batchRows # 0
      BY <1>3, <2>1 DEF Open
    <3>. QED
      BY <1>3, <2>1, <3>1, <3>2 DEF Open, Control
  <2>2. CASE pc' = "closed"
    <3>1. failedAt' # Unlimited /\ last' = "error"
      BY <1>3, <2>2, ReturnedFacts DEF Open
    <3>. QED
      BY <1>3, <2>2, <3>1 DEF Open, Control
  <2>. QED
    BY <1>3, <2>1, <2>2 DEF Open
<1>4. CASE StartPull
  BY <1>4 DEF StartPull, StreamOver, Control, inputVars, sourceVars, callVars
<1>5. CASE PullOver
  <2>1. last' = "none" /\ failedAt' = failedAt
    BY <1>5, ReturnedFacts DEF PullOver, Return
  <2>. QED
    BY <1>5, <2>1 DEF PullOver, Return, StreamOver, Control, inputVars, sourceVars
<1>6. CASE SourceEnds
  BY <1>6 DEF SourceEnds, Filling, Control, inputVars, sourceVars, callVars
<1>7. CASE TimeOut \/ ReadFails \/ LineRejected \/ RowFails
  <2>1. Return("error") /\ UNCHANGED <<inputVars, extent, cancelled>>
    BY <1>7 DEF TimeOut, ReadFails, LineRejected, RowFails, sourceVars
  <2>2. pc' = "idle" /\ batch' = <<>> /\ last' = "error" /\ failedAt' # Unlimited
    BY <2>1, ReturnedFacts DEF Return
  <2>3. pc \in {"idle", "pulling"}
    BY <1>7 DEF TimeOut, ReadFails, LineRejected, RowFails, RowDecoded, LineAtHand, Filling
  <2>. QED
    BY <2>1, <2>2, <2>3 DEF Control, inputVars
<1>8. CASE RowQueued
  <2>1. pc = "pulling" /\ torn' = FALSE
    BY <1>8 DEF RowQueued, RowDecoded, LineAtHand, Filling, LineConsumed
  <2>. QED
    BY <1>8, <2>1 DEF RowQueued, Control, inputVars, callVars
<1>9. CASE TakeRow
  BY <1>9 DEF TakeRow, RowAtHand, Control, inputVars, sourceVars, callVars
<1>10. CASE EndBatch
  <2>1. failedAt' = failedAt /\ last' = IF batch = <<>> THEN "none" ELSE "batch"
    <3>1. CASE batch = <<>>
      BY <1>10, <3>1, ReturnedFacts DEF EndBatch, Return
    <3>2. CASE batch # <<>>
      BY <1>10, <3>2, ReturnedFacts DEF EndBatch, Return
    <3>. QED
      BY <3>1, <3>2
  <2>2. batch = <<>> => pending = <<>> /\ done
    BY <1>10, EndsEmpty
  <2>. QED
    BY <1>10, <2>1, <2>2 DEF EndBatch, Return, Control, inputVars, sourceVars
<1>11. CASE Cancel
  BY <1>11 DEF Cancel, Control, inputVars, sourceVars, callVars
<1>12. CASE Drop
  BY <1>12 DEF Drop, Control, inputVars, sourceVars, callVars
<1>13. CASE Closed
  BY <1>13 DEF Closed, Control, vars, inputVars, sourceVars, callVars
<1>. QED
  BY <1>1, <1>2, <1>3, <1>4, <1>5, <1>6, <1>7, <1>8, <1>9, <1>10, <1>11, <1>12, <1>13 DEF Next

-----------------------------------------------------------------------------
(***************************************************************************)
(* Nothing of the result is lost.                                          *)
(***************************************************************************)

\* What is still to come are rows of the file.
LEMMA RestTypes ==
  ASSUME StreamTypes
  PROVE  /\ SourceRows(line, extent) \in Seq(RowsOf(file)) /\ Rest \in Seq(RowsOf(file))
         /\ \A rows \in Seq(RowsOf(file)) : ChainRows(file, ops, rows) \in Seq(RowsOf(file))
<1>. DEFINE R == RowsOf(file)
<1>1. file \in Seq(Line) /\ extent \in 0 .. Len(file) /\ line \in 0 .. extent /\ ops \in Seq(StreamOp)
  BY DEF StreamTypes
<1>2. SourceRows(line, extent) \in Seq(R)
  BY <1>1, SourceRowsType
<1>3. ASSUME NEW rows \in Seq(R)
      PROVE  ChainRows(file, ops, rows) \in Seq(R)
  BY <1>1, ChainType
<1>4. <<>> \in Seq(R)
  BY EmptySeq
<1>5. Rest \in {<<>>, ChainRows(file, ops, SourceRows(line, extent))}
  BY DEF Rest
<1>. QED
  BY <1>2, <1>3, <1>4, <1>5

\* Until the stream is done, what is still to come is what its operators make of the lines left.
LEMMA RestFacts ==
  ASSUME StreamTypes, ~ done
  PROVE  Rest = ChainRows(file, ops, SourceRows(line, extent))
  BY DEF Rest

\* The steps that end or break off the stream, and those that read.
LEMMA ReadingWhole ==
  ASSUME StreamTypes, Control, Whole, SourceEnds \/ ReadFails \/ LineRejected \/ RowFails \/ RowQueued
  PROVE  Whole'
<1>. DEFINE R == RowsOf(file)
<1>1. CASE ReadFails \/ LineRejected \/ RowFails
  <2>1. Returned("error")
    BY <1>1 DEF ReadFails, LineRejected, RowFails, Return
  <2>2. failedAt' # Unlimited
    BY <2>1, ReturnedFacts
  <2>. QED
    BY <2>2 DEF Whole, Failed
<1>2. CASE SourceEnds
  <2>. SUFFICES ASSUME ~ Failed, ~ cancelled
                PROVE  Rest = <<>>
    BY <1>2 DEF SourceEnds, Filling, Whole, Rest, Failed, inputVars, sourceVars, callVars
  <2>1. SourceRows(line, extent) \in Seq(R)
    BY RestTypes
  <2>2. ~ done /\ (Exhausted \/ line = extent)
    BY <1>2 DEF SourceEnds, Filling, SourceRead, Control
  <2>3. line = extent => SourceRows(line, extent) = <<>>
    <3>. SUFFICES ASSUME line = extent PROVE SourceRows(line, extent) = <<>>
      OBVIOUS
    <3>1. Len(SourceRows(line, extent)) = 0
      BY SourceRowsType, LenProperties DEF StreamTypes
    <3>. QED
      BY <2>1, <3>1, EmptyLength
  <2>4. Exhausted => \E j \in 1 .. Len(ops) : ops[j].op = "slice" /\ ops[j].limit = 0
    BY LenProperties DEF Exhausted, StreamTypes
  <2>5. ChainRows(file, ops, SourceRows(line, extent)) = <<>>
    BY <2>1, <2>2, <2>3, <2>4, ChainEmpty DEF StreamTypes
  <2>. QED
    BY <2>2, <2>5 DEF Rest
<1>3. CASE RowQueued
  <2>. DEFINE row == Row(line + 1, 0)
              applied == ApplyOps(row)
              more == SourceRows(line + 1, extent)
              some == ChainRows(file, ops, <<row>>)
              next == ChainRows(file, After(file, ops, <<row>>), more)
  <2>. SUFFICES ASSUME ~ Failed, ~ cancelled
                PROVE  Whole'
    BY <1>3 DEF RowQueued, Whole, Failed, callVars
  <2>1. LineAtHand /\ LineConsumed /\ ~ applied.failed /\ ops' = applied.ops /\ pending' = applied.rows
    BY <1>3 DEF RowQueued, RowDecoded
  <2>2. /\ line + 1 \in 1 .. extent /\ extent \in 1 .. Len(file)
        /\ <<row>> \in Seq(R) /\ row \in R
        /\ ~ done /\ pc = "pulling" /\ pending = <<>> /\ line' = line + 1
    BY <2>1, NextLine DEF LineConsumed
  <2>3. pending' = some /\ ops' = After(file, ops, <<row>>)
    BY <2>1, AppliedTypes
  <2>4. more \in Seq(R) /\ Len(more) = extent - (line + 1)
        /\ \A i \in 1 .. extent - (line + 1) : more[i] = Row((line + 1) + i, 0)
    BY <2>2, SourceRowsType DEF StreamTypes
  <2>5. SourceRows(line, extent) \in Seq(R) /\ Len(SourceRows(line, extent)) = extent - line
        /\ \A i \in 1 .. extent - line : SourceRows(line, extent)[i] = Row(line + i, 0)
    BY SourceRowsType DEF StreamTypes
  <2>. HIDE DEF row, more
  <2>6. IsConcat(SourceRows(line, extent), <<row>>, more)
    <3>. DEFINE all == SourceRows(line, extent)
                both == <<row>> \o more
    <3>1. both \in Seq(R) /\ Len(both) = 1 + Len(more)
          /\ both[1] = row
          /\ \A i \in 1 .. Len(more) : both[i + 1] = more[i]
      BY <2>2, <2>4, ConcatProperties
    <3>2. line \in Nat /\ extent \in Nat /\ line + 1 <= extent
      BY <2>2 DEF StreamTypes
    <3>. HIDE DEF all, both
    <3>3. Len(both) = extent - line /\ Len(all) = extent - line
      BY <2>4, <2>5, <3>1, <3>2 DEF all
    <3>4. all \in Seq(R) /\ \A i \in 1 .. extent - line : all[i] = Row(line + i, 0)
      BY <2>5 DEF all
    <3>5. ASSUME NEW i \in 1 .. extent - line
          PROVE  all[i] = both[i]
      <4>1. CASE i = 1
        BY <3>1, <3>4, <4>1 DEF row
      <4>2. CASE i # 1
        <5>. DEFINE j == i - 1
        <5>1. j \in 1 .. extent - (line + 1) /\ j + 1 = i /\ (line + 1) + j = line + i
          BY <3>2, <4>2
        <5>2. both[j + 1] = more[j]
          BY <2>4, <3>1, <5>1
        <5>3. more[j] = Row((line + 1) + j, 0)
          BY <2>4, <5>1
        <5>. HIDE DEF j
        <5>. QED
          BY <3>4, <5>1, <5>2, <5>3
      <4>. QED
        BY <4>1, <4>2
    <3>6. all = both
      BY <3>1, <3>3, <3>4, <3>5, SeqEqual
    <3>. QED
      BY <3>6, Zenon DEF all, both, IsConcat
  <2>7. Rest = ChainRows(file, ops, SourceRows(line, extent))
    BY <2>2 DEF Rest
  <2>8. IsConcat(Rest, some, next)
    <3>1. file \in Seq(Line) /\ ops \in Seq(StreamOp)
      BY DEF StreamTypes
    <3>. QED
      BY <2>2, <2>4, <2>6, <2>7, <3>1, ChainSplit
  <2>9. Rest' = next
    <3>1. file' = file /\ extent' = extent /\ done' = done
      BY <1>3 DEF RowQueued, inputVars
    <3>2. Rest' = ChainRows(file', ops', SourceRows(line', extent'))
      BY <2>2, <3>1 DEF Rest
    <3>. QED
      BY <2>2, <2>3, <3>1, <3>2 DEF more
  <2>10. some \in Seq(R) /\ next \in Seq(R)
    <3>1. file \in Seq(Line) /\ ops \in Seq(StreamOp)
      BY DEF StreamTypes
    <3>2. After(file, ops, <<row>>) \in Seq(StreamOp)
      BY <2>2, <3>1, AfterType
    <3>. QED
      BY <2>2, <2>4, <3>1, <3>2, ChainType
  <2>11. Together(seen, batch, <<>>, Rest) = Together(seen, batch, some, next)
    <3>1. seen \in Seq(R) /\ batch \in Seq(R) /\ <<>> \in Seq(R) /\ Rest \in Seq(R)
      BY RestTypes, EmptySeq DEF StreamTypes
    <3>. HIDE DEF some, next
    <3>. QED
      BY <2>8, <2>10, <3>1, TogetherFacts
  <2>12. result = Together(seen, batch, pending, Rest)
    BY <2>2, Zenon DEF Whole, Together
  <2>13. UNCHANGED <<result, seen, batch>>
    BY <1>3 DEF RowQueued, inputVars
  <2>14. result' = Together(seen', batch', pending', Rest')
    BY <2>2, <2>3, <2>9, <2>11, <2>12, <2>13
  <2>. QED
    BY <2>14, Zenon DEF Whole, Together
<1>. QED
  BY <1>1, <1>2, <1>3

\* The steps that open the stream or lengthen the file.
LEMMA OpeningWhole ==
  ASSUME StreamTypes, Control, Whole, Open \/ \E l \in Appended : AppendLine(l)
  PROVE  Whole'
<1>. DEFINE R == RowsOf(file)
<1>1. CASE Open
  <2>. SUFFICES ASSUME ~ Failed', ~ cancelled', pc' \in {"idle", "pulling"}
                PROVE  Whole'
    BY DEF Whole
  <2>1. pc' = "idle" /\ result' = WholeResult /\ extent' = Len(file)
    BY <1>1 DEF Open
  <2>2. /\ ~ done /\ line = 0 /\ ops = plan /\ pending = <<>> /\ batch = <<>> /\ seen = <<>>
        /\ UNCHANGED <<file, plan, line, ops, pending, done, batch, seen>>
    BY <1>1 DEF Open, Control
  <2>. DEFINE rows == SourceRows(0, Len(file))
              made == ChainRows(file, plan, rows)
  <2>3. Len(file) \in Nat /\ file \in Seq(Line) /\ plan \in Seq(StreamOp)
    BY LenProperties DEF StreamTypes
  <2>4. WholeResult = made
    BY <2>3 DEF WholeResult, SourceRows
  <2>5. Rest' = made
    <3>1. Rest' = ChainRows(file', ops', SourceRows(line', extent'))
      BY <2>2 DEF Rest
    <3>. QED
      BY <2>1, <2>2, <3>1
  <2>6. made \in Seq(R)
    <3>1. rows \in Seq(R)
      <4>1. Len(file) \in 0 .. Len(file) /\ 0 \in 0 .. Len(file)
        BY <2>3
      <4>. QED
        BY <2>3, <4>1, SourceRowsType
    <3>. HIDE DEF rows
    <3>. QED
      BY <2>3, <3>1, ChainType
  <2>. HIDE DEF made
  <2>7. <<>> \in Seq(R)
    BY EmptySeq
  <2>8. made = Together(<<>>, <<>>, <<>>, made)
    BY <2>6, <2>7, TogetherFacts
  <2>9. result' = Together(seen', batch', pending', Rest')
    BY <2>1, <2>2, <2>4, <2>5, <2>8
  <2>. QED
    BY <2>9, Zenon DEF Whole, Together
<1>2. CASE \E l \in Appended : AppendLine(l)
  <2>1. PICK l \in Appended : AppendLine(l)
    BY <1>2
  <2>2. l \in Line /\ file \in Seq(Line) /\ ops \in Seq(StreamOp)
    BY JsonlAssumption DEF StreamTypes
  <2>3. /\ file' = Append(file, l)
        /\ UNCHANGED <<plan, options, result, pc, sourceVars, pending, done, cancelled, batch, callVars, seen>>
    BY <2>1 DEF AppendLine
  <2>4. ChainRows(Append(file, l), ops, SourceRows(line, extent)) = ChainRows(file, ops, SourceRows(line, extent))
    BY <2>2, RestTypes, ChainOfMore
  <2>5. Rest' = IF done' THEN <<>> ELSE ChainRows(file', ops', SourceRows(line', extent'))
    BY DEF Rest
  <2>6. Rest' = Rest
    BY <2>3, <2>4, <2>5 DEF Rest, sourceVars
  <2>. QED
    BY <2>3, <2>6, Zenon DEF Whole, Failed, callVars
<1>. QED
  BY <1>1, <1>2

\* The steps that only move rows.
LEMMA MovingWhole ==
  ASSUME StreamTypes, Control, Whole, TakeRow \/ EndBatch
  PROVE  Whole'
<1>. DEFINE R == RowsOf(file)
<1>1. /\ UNCHANGED <<inputVars, sourceVars, done, cancelled, failedAt>>
      /\ pc = "pulling"
  <2>1. CASE TakeRow
    BY <2>1 DEF TakeRow, RowAtHand, callVars
  <2>2. CASE EndBatch
    <3>1. failedAt' = failedAt
      <4>1. CASE batch = <<>>
        BY <2>2, <4>1, ReturnedFacts DEF EndBatch, Return
      <4>2. CASE batch # <<>>
        BY <2>2, <4>2, ReturnedFacts DEF EndBatch, Return
      <4>. QED
        BY <4>1, <4>2
    <3>. QED
      BY <2>2, <3>1 DEF EndBatch
  <2>. QED
    BY <2>1, <2>2
<1>2. Rest' = Rest
  <2>1. Rest' = IF done' THEN <<>> ELSE ChainRows(file', ops', SourceRows(line', extent'))
    BY DEF Rest
  <2>. QED
    BY <1>1, <2>1 DEF Rest, inputVars, sourceVars
<1>3. seen \in Seq(R) /\ batch \in Seq(R) /\ pending \in Seq(R) /\ Rest \in Seq(R)
  BY RestTypes DEF StreamTypes
<1>. SUFFICES ASSUME ~ Failed, ~ cancelled
              PROVE  Whole'
  BY <1>1 DEF Whole, Failed
<1>4. result = Together(seen, batch, pending, Rest)
  BY <1>1, Zenon DEF Whole, Together
<1>5. Together(seen, batch, pending, Rest) = Together(seen', batch', pending', Rest)
  <2>1. CASE TakeRow
    <3>1. pending # <<>> /\ batch' = Append(batch, Head(pending)) /\ pending' = Tail(pending) /\ seen' = seen
      BY <2>1 DEF TakeRow, RowAtHand
    <3>. QED
      BY <1>3, <3>1, TogetherFacts
  <2>2. CASE EndBatch
    <3>1. seen' = seen \o batch /\ batch' = <<>> /\ pending' = pending
      BY <2>2 DEF EndBatch, Return
    <3>2. Together(seen, batch, pending, Rest) = Together(seen \o batch, <<>>, pending, Rest)
      BY <1>3, TogetherFacts
    <3>. QED
      BY <3>1, <3>2, Zenon
  <2>. QED
    BY <2>1, <2>2
<1>6. result' = Together(seen', batch', pending', Rest')
  BY <1>1, <1>2, <1>4, <1>5 DEF inputVars
<1>. QED
  BY <1>6, Zenon DEF Whole, Together

\* Every step keeps the parts of the result together.
LEMMA WholeStep ==
  ASSUME StreamTypes, Control, Whole, [Next]_vars
  PROVE  Whole'
<1>1. CASE UNCHANGED vars \/ StartPull \/ PullOver \/ Closed
  <2>1. UNCHANGED <<inputVars, sourceVars, pending, done, cancelled, batch, failedAt, seen>>
    <3>1. CASE PullOver
      <4>1. failedAt' = failedAt
        BY <3>1, ReturnedFacts DEF PullOver, Return
      <4>2. batch = <<>> /\ batch' = <<>>
        BY <3>1 DEF PullOver, Return, Control
      <4>. QED
        BY <3>1, <4>1, <4>2 DEF PullOver
    <3>. QED
      BY <1>1, <3>1 DEF StartPull, Closed, vars, callVars
  <2>2. pc' \in {"idle", "pulling"} => pc \in {"idle", "pulling"}
    BY <1>1 DEF StartPull, PullOver, Closed, vars
  <2>3. Rest' = Rest
    <3>1. Rest' = IF done' THEN <<>> ELSE ChainRows(file', ops', SourceRows(line', extent'))
      BY DEF Rest
    <3>. QED
      BY <2>1, <3>1 DEF Rest, inputVars, sourceVars
  <2>4. UNCHANGED <<result, seen, batch, pending, failedAt, cancelled>>
    BY <2>1 DEF inputVars
  <2>. QED
    BY <2>2, <2>3, <2>4, Zenon DEF Whole, Failed
<1>2. CASE TimeOut
  <2>1. failedAt' # Unlimited
    BY <1>2, ReturnedFacts DEF TimeOut, Return
  <2>. QED
    BY <2>1 DEF Whole, Failed
<1>3. CASE Cancel \/ Drop
  <2>1. cancelled' \/ pc' = "closed"
    BY <1>3 DEF Cancel, Drop
  <2>. QED
    BY <2>1 DEF Whole
<1>. QED
  BY <1>1, <1>2, <1>3, ReadingWhole, OpeningWhole, MovingWhole DEF Next

-----------------------------------------------------------------------------
(***************************************************************************)
(* The invariant.                                                          *)
(***************************************************************************)
\* The invariant holds initially.
LEMMA StreamStart ==
  ASSUME Init
  PROVE  LInv
<1>1. <<>> \in Seq(RowsOf(file)) /\ Len(<<>>) = 0
  BY EmptySeq
<1>2. file \in Seq(Line) /\ plan \in Seq(StreamOp) /\ options \in StreamOptions
  BY JsonlAssumption DEF Init
<1>3. Len(file) \in Nat /\ \A i \in 1 .. Len(plan) : plan[i] \in StreamOp
  BY <1>2, LenProperties, ElementOfSeq
<1>4. \A i \in 1 .. Len(plan) : CountsDown(ops[i], plan[i])
  BY <1>3, AfterCountsDown DEF Init
<1>5. 0 \in 0 .. Len(file) /\ 0 \in 0 .. 0
  BY <1>3
<1>6. StreamTypes
  BY <1>1, <1>2, <1>4, <1>5 DEF Init, StreamTypes
<1>7. Control
  BY DEF Init, Control, Failed
<1>8. Whole
  BY DEF Init, Whole
<1>. QED
  BY <1>6, <1>7, <1>8 DEF LInv

\* What names and handles do does not touch the stream.
LEMMA StreamSteps ==
  ASSUME [SourceNext]_<<vars, nameVars, pinVars>>
  PROVE  [Next]_vars
<1>1. CASE UNCHANGED <<vars, nameVars, pinVars>>
  BY <1>1
<1>2. CASE \E n \in Names : Unlink(n)
  BY <1>2 DEF Unlink, Interfere
<1>3. CASE \E n \in Names, kind \in {"file", "dir"}, ino \in Inodes : Create(n, kind, ino)
  BY <1>3 DEF Create, Interfere
<1>4. CASE \E n, to \in Names : Rename(n, to) \/ MakeLink(n, to)
  BY <1>4 DEF Rename, MakeLink, Interfere
<1>5. CASE ResolvePath \/ InspectPath \/ OpenPath \/ PinFile
  BY <1>5 DEF ResolvePath, InspectPath, OpenPath, PinFile
<1>6. CASE Canonicalize \/ Examine \/ Reopen \/ OpenReplaced \/ Unresolved
  BY <1>6 DEF Canonicalize, Examine, Reopen, OpenReplaced, Unresolved
<1>7. CASE OpenPinned \/ OpenRefused
  BY <1>7 DEF OpenPinned, OpenRefused, Next
<1>8. CASE UseStream
  BY <1>8 DEF UseStream, Next
<1>. QED
  BY <1>1, <1>2, <1>3, <1>4, <1>5, <1>6, <1>7, <1>8 DEF SourceNext

\* LInv is an invariant of the stream, whatever becomes of its source.
LEMMA StreamInvariant == SourceSpec => []LInv
<1>1. SourceInit => LInv
  BY StreamStart DEF SourceInit
<1>2. LInv /\ [SourceNext]_<<vars, nameVars, pinVars>> => LInv'
  BY StreamSteps, TypesStep, ControlStep, WholeStep DEF LInv
<1>. QED
  BY <1>1, <1>2, PTL DEF SourceSpec

-----------------------------------------------------------------------------
(***************************************************************************)
(* The contract of a pull stream.                                          *)
(***************************************************************************)
\* What has been given, with the batch, is a prefix of all; with nothing left it is all.
LEMMA PrefixGiven ==
  ASSUME NEW S, NEW s \in Seq(S), NEW b \in Seq(S), NEW p \in Seq(S), NEW r \in Seq(S),
         NEW all \in Seq(S), all = Together(s, b, p, r)
  PROVE  /\ s \o b = SubSeq(all, 1, Len(s) + Len(b))
         /\ b # <<>> => Len(s) + Len(b) \in Len(s) + 1 .. Len(all)
         /\ b = <<>> /\ p = <<>> /\ r = <<>> => all = s
<1>. DEFINE q == p \o r
            g == s \o b
<1>1. q \in Seq(S) /\ g \in Seq(S) /\ Len(g) = Len(s) + Len(b)
  BY ConcatProperties
<1>2. Len(g) \in Nat /\ Len(s) \in Nat /\ Len(b) \in Nat /\ Len(q) \in Nat
  BY <1>1, LenProperties
<1>. HIDE DEF q
<1>3. Associates(s, b, q)
  BY <1>1, Grouping
<1>4. all = g \o q
  BY <1>3, Zenon DEF Together, Associates, q
<1>. HIDE DEF g
<1>5. IsConcat(all, g, q)
  BY <1>4, Zenon DEF IsConcat
<1>6. Len(all) = Len(g) + Len(q) /\ SubSeq(all, 1, Len(g)) = g
  BY <1>1, <1>5, FirstPart
<1>7. b # <<>> => Len(b) # 0
  BY EmptyLength
<1>8. b # <<>> => Len(g) \in Len(s) + 1 .. Len(all)
  BY <1>1, <1>2, <1>6, <1>7
<1>9. ASSUME b = <<>>, p = <<>>, r = <<>>
      PROVE  all = s
  <2>1. g = s /\ q = <<>>
    BY <1>9, ConcatEmptySeq DEF g, q
  <2>2. g \o q = s
    BY <2>1, ConcatEmptySeq
  <2>. QED
    BY <1>4, <2>2
<1>. QED
  BY <1>1, <1>6, <1>8, <1>9 DEF g

\* What a consumer that stops at the first error has been given does not change any more.
LEMMA FailureIsFinal ==
  ASSUME LInv, Failed, [Next]_vars
  PROVE  Failed' /\ UNCHANGED <<result, failedAt, SubSeq(seen, 1, failedAt)>>
<1>. DEFINE R == RowsOf(file)
<1>1. failedAt' = failedAt
  BY DEF Next, vars, callVars, AppendLine, Open, StartPull, PullOver, TimeOut, SourceEnds, ReadFails,
         LineRejected, RowFails, RowQueued, TakeRow, EndBatch, Cancel, Drop, Closed, Return, Returned
<1>2. pc # "new"
  BY DEF LInv, Control
<1>3. result' = result
  BY <1>2 DEF Next, vars, inputVars, AppendLine, Open, StartPull, PullOver, TimeOut, SourceEnds, ReadFails,
              LineRejected, RowFails, RowQueued, TakeRow, EndBatch, Cancel, Drop, Closed
<1>4. CASE EndBatch
  <2>1. seen' = seen \o batch
    BY <1>4 DEF EndBatch
  <2>2. seen \in Seq(R) /\ batch \in Seq(R) /\ failedAt \in 0 .. Len(seen)
    BY DEF LInv, StreamTypes, Failed
  <2>3. SubSeq(seen \o batch, 1, failedAt) = SubSeq(seen, 1, failedAt)
    <3>1. CASE failedAt = 0
      <4>1. SubSeq(seen, 1, 0) = <<>> /\ SubSeq(seen \o batch, 1, 0) = <<>>
        BY SubSeqEmpty
      <4>. QED
        BY <3>1, <4>1
    <3>2. CASE failedAt # 0
      <4>1. 1 \in 1 .. Len(seen) /\ failedAt \in 1 .. Len(seen)
        BY <2>2, <3>2, LenProperties
      <4>. QED
        BY <2>2, <4>1, SubSeqOfConcat1
    <3>. QED
      BY <3>1, <3>2
  <2>. QED
    BY <1>1, <1>3, <2>1, <2>3 DEF Failed
<1>5. CASE ~ EndBatch
  <2>1. seen' = seen
    BY <1>5 DEF Next, vars, AppendLine, Open, StartPull, PullOver, TimeOut, SourceEnds, ReadFails,
                LineRejected, RowFails, RowQueued, TakeRow, Cancel, Drop, Closed
  <2>. QED
    BY <1>1, <1>3, <2>1 DEF Failed
<1>. QED
  BY <1>4, <1>5

\* An error is the end for a consumer that has met none before.
LEMMA ErrorsRefine ==
  ASSUME LInv, ~ Failed, Returned("error"), UNCHANGED <<result, cancelled, seen>>
  PROVE  Stream!Fail \/ Stream!PullAgain
<1>1. last' = "error" /\ failedAt' = Len(seen) /\ failedAt' # Unlimited
  BY ReturnedFacts DEF LInv, Failed
<1>2. SubSeq(seen', 1, failedAt') = seen
  <2>1. SubSeq(seen, 1, Len(seen)) = seen
    BY SubSeqFull DEF LInv, StreamTypes
  <2>. QED
    BY <1>1, <2>1
<1>. QED
  BY <1>1, <1>2 DEF Failed, Stream!Fail, Stream!PullAgain

\* The end of a stream that has neither failed nor been cancelled.
LEMMA EndsRefine ==
  ASSUME LInv, ~ Failed, PullOver
  PROVE  Stream!Complete \/ Stream!PullAgain
<1>1. last' = "none" /\ failedAt' = failedAt /\ UNCHANGED <<result, cancelled, seen>>
  BY ReturnedFacts DEF LInv, PullOver, Return, inputVars
<1>2. CASE cancelled \/ last = "none"
  BY <1>1, <1>2 DEF Failed, Stream!PullAgain
<1>3. CASE ~ cancelled /\ last # "none"
  <2>1. done /\ pending = <<>> /\ batch = <<>> /\ pc = "idle"
    BY <1>3 DEF PullOver, StreamOver, LInv, Control
  <2>2. Rest = <<>>
    BY <2>1 DEF Rest
  <2>3. result = Together(seen, batch, pending, Rest)
    BY <1>3, <2>1, Zenon DEF LInv, Whole, Together
  <2>4. /\ seen \in Seq(RowsOf(file)) /\ batch \in Seq(RowsOf(file)) /\ pending \in Seq(RowsOf(file))
        /\ result \in Seq(RowsOf(file)) /\ Rest \in Seq(RowsOf(file))
    BY RestTypes DEF LInv, StreamTypes
  <2>5. result = seen
    BY <2>1, <2>2, <2>3, <2>4, PrefixGiven
  <2>. QED
    BY <1>1, <1>3, <2>5 DEF Failed, Stream!Complete
<1>. QED
  BY <1>2, <1>3

\* A batch is the next rows of the result.
LEMMA BatchesRefine ==
  ASSUME LInv, ~ Failed, EndBatch
  PROVE  Stream!Deliver \/ Stream!Complete
<1>1. /\ failedAt' = failedAt /\ last' = IF batch = <<>> THEN "none" ELSE "batch"
      /\ seen' = seen \o batch /\ pc = "pulling" /\ UNCHANGED <<result, cancelled>>
  <2>1. failedAt' = failedAt /\ last' = IF batch = <<>> THEN "none" ELSE "batch"
    <3>1. CASE batch = <<>>
      BY <3>1, ReturnedFacts DEF LInv, EndBatch, Return
    <3>2. CASE batch # <<>>
      BY <3>2, ReturnedFacts DEF LInv, EndBatch, Return
    <3>. QED
      BY <3>1, <3>2
  <2>. QED
    BY <2>1 DEF EndBatch, inputVars
<1>2. ~ cancelled /\ last # "none"
  BY <1>1 DEF LInv, Control
<1>3. result = Together(seen, batch, pending, Rest)
  BY <1>1, <1>2, Zenon DEF LInv, Whole, Together
<1>4. /\ seen \in Seq(RowsOf(file)) /\ batch \in Seq(RowsOf(file)) /\ pending \in Seq(RowsOf(file))
      /\ result \in Seq(RowsOf(file)) /\ Rest \in Seq(RowsOf(file))
  BY RestTypes DEF LInv, StreamTypes
<1>5. seen' = SubSeq(result, 1, Len(seen) + Len(batch))
  BY <1>1, <1>3, <1>4, PrefixGiven
<1>6. CASE batch = <<>>
  <2>1. pending = <<>> /\ done
    BY <1>6, EndsEmpty DEF LInv
  <2>2. Rest = <<>>
    BY <2>1 DEF Rest
  <2>3. result = seen
    BY <1>3, <1>4, <1>6, <2>1, <2>2, PrefixGiven
  <2>4. seen' = seen
    BY <1>1, <1>4, <1>6, ConcatEmptySeq
  <2>. QED
    BY <1>1, <1>2, <1>6, <2>3, <2>4 DEF Failed, Stream!Complete
<1>7. CASE batch # <<>>
  <2>1. Len(seen) + Len(batch) \in Len(seen) + 1 .. Len(result)
    BY <1>3, <1>4, <1>7, PrefixGiven
  <2>. QED
    BY <1>1, <1>2, <1>5, <1>7, <2>1 DEF Failed, Stream!Deliver
<1>. QED
  BY <1>6, <1>7

\* Opening is the opening of the abstract stream, or its failure.
LEMMA OpenRefines ==
  ASSUME LInv, ~ Failed, Open
  PROVE  Stream!Open \/ Stream!Fail
<1>1. ~ cancelled /\ last = "new" /\ seen = <<>> /\ UNCHANGED <<cancelled, seen>>
  BY DEF Open, LInv, Control
<1>2. CASE pc' = "idle"
  <2>1. last' = "opened" /\ failedAt' = failedAt
    BY <1>2, ReturnedFacts DEF Open, LInv
  <2>. QED
    BY <1>1, <2>1 DEF Failed, Stream!Open
<1>3. CASE pc' = "closed"
  <2>1. Returned("error") /\ UNCHANGED result
    BY <1>3 DEF Open
  <2>2. Stream!Fail \/ Stream!PullAgain
    BY <1>1, <2>1, ErrorsRefine
  <2>. QED
    BY <1>1, <2>2 DEF Failed, Stream!PullAgain
<1>. QED
  BY <1>2, <1>3 DEF Open

\* The row-by-row execution delivers the result of the plan over the file as it was when the
\* stream was opened: for every file, every chain of operators, all limits and whatever
\* fails or is appended, what a consumer that stops at the first error has been given is a
\* prefix of that result, the end is announced only after its last row, and nothing is
\* delivered after an end, an error or a cancellation (fill_pending, apply_op, next_batch).
THEOREM JsonlDeliversTheResult == SourceSpec => ImplementsPullStream
<1>1. SourceInit => Stream!Init
  BY DEF SourceInit, Init, Stream!Init, Failed
<1>2. LInv /\ [Next]_vars => [Stream!Next]_(Stream!vars)
  <2>. SUFFICES ASSUME LInv, [Next]_vars
                PROVE  Stream!Next \/ UNCHANGED Stream!vars
    OBVIOUS
  <2>1. CASE Failed
    BY <2>1, FailureIsFinal DEF Stream!vars
  <2>. SUFFICES ASSUME ~ Failed
                PROVE  Stream!Next \/ UNCHANGED Stream!vars
    BY <2>1
  <2>2. CASE TimeOut \/ ReadFails \/ LineRejected \/ RowFails
    <3>1. Returned("error") /\ UNCHANGED <<result, cancelled, seen>>
      BY <2>2 DEF TimeOut, ReadFails, LineRejected, RowFails, Return, inputVars
    <3>. QED
      BY <3>1, ErrorsRefine DEF Stream!Next
  <2>3. CASE Cancel
    BY <2>3 DEF Cancel, inputVars, callVars, Failed, Stream!Next, Stream!Cancel
  <2>4. CASE \/ \E l \in Appended : AppendLine(l)
             \/ StartPull \/ SourceEnds \/ RowQueued \/ TakeRow \/ Drop \/ Closed \/ UNCHANGED vars
    <3>1. UNCHANGED <<result, cancelled, callVars, seen>>
      BY <2>4 DEF AppendLine, StartPull, SourceEnds, RowQueued, TakeRow, Drop, Closed, vars, inputVars
    <3>. QED
      BY <3>1 DEF callVars, Failed, Stream!vars
  <2>. QED
    BY <2>2, <2>3, <2>4, OpenRefines, EndsRefine, BatchesRefine DEF Next, Stream!Next
<1>3. SourceSpec => []LInv
  BY StreamInvariant
<1>4. [SourceNext]_<<vars, nameVars, pinVars>> => [Next]_vars
  BY StreamSteps
<1>. QED
  BY <1>1, <1>2, <1>3, <1>4, PTL DEF SourceSpec, ImplementsPullStream, Stream!Spec

-----------------------------------------------------------------------------
(***************************************************************************)
(* The limits of a batch.                                                  *)
(***************************************************************************)
BytesOf(lines, row) == IF row.item = 0 THEN lines[row.line].bytes ELSE 1

\* The bytes of every row.
Sizes(lines, rows) == [i \in 1 .. Len(rows) |-> BytesOf(lines, rows[i])]

BytesIn(lines, rows) == Sum(Sizes(lines, rows))

\* The sizes of rows are numbers, one for each row.
LEMMA SizesType ==
  ASSUME NEW lines \in Seq(Line), NEW rows \in Seq(RowsOf(lines))
  PROVE  /\ Sizes(lines, rows) \in Seq(Nat) /\ Len(Sizes(lines, rows)) = Len(rows)
         /\ \A row \in RowsOf(lines) : BytesOf(lines, row) \in Nat
<1>1. ASSUME NEW row \in RowsOf(lines)
      PROVE  BytesOf(lines, row) \in Nat
  <2>1. row.line \in 1 .. Len(lines)
    BY DEF RowsOf
  <2>2. lines[row.line].bytes \in Nat
    BY <2>1, LineTypes
  <2>. QED
    BY <2>2 DEF BytesOf
<1>2. Len(rows) \in Nat /\ \A i \in 1 .. Len(rows) : rows[i] \in RowsOf(lines)
  BY LenProperties, ElementOfSeq
<1>3. \A i \in 1 .. Len(rows) : BytesOf(lines, rows[i]) \in Nat
  BY <1>1, <1>2
<1>4. Sizes(lines, rows) \in [1 .. Len(rows) -> Nat]
  BY <1>3 DEF Sizes
<1>5. Sizes(lines, rows) \in Seq(Nat)
  BY <1>2, <1>4, IsASeq
<1>6. Len(Sizes(lines, rows)) = Len(rows)
  BY <1>2, <1>4, <1>5, LenProperties
<1>. QED
  BY <1>1, <1>5, <1>6

\* The bytes of rows, added up from either end.
LEMMA BytesFacts ==
  ASSUME NEW lines \in Seq(Line), NEW rows \in Seq(RowsOf(lines))
  PROVE  /\ BytesIn(lines, rows) \in Nat
         /\ rows = <<>> => BytesIn(lines, rows) = 0
         /\ \A row \in RowsOf(lines) :
              BytesIn(lines, Append(rows, row)) = BytesIn(lines, rows) + BytesOf(lines, row)
         /\ rows # <<>> =>
              BytesIn(lines, rows) = BytesOf(lines, Head(rows)) + BytesIn(lines, Tail(rows))
<1>. DEFINE R == RowsOf(lines)
            ns == Sizes(lines, rows)
<1>1. ns \in Seq(Nat) /\ Len(ns) = Len(rows) /\ Len(rows) \in Nat
      /\ \A row \in R : BytesOf(lines, row) \in Nat
  BY SizesType, LenProperties
<1>2. \A i \in 1 .. Len(rows) : ns[i] = BytesOf(lines, rows[i])
  BY DEF Sizes
<1>3. rows = <<>> => ns = <<>>
  BY <1>1, EmptyLength
<1>. HIDE DEF ns
<1>4. ASSUME NEW row \in R
      PROVE  BytesIn(lines, Append(rows, row)) = Sum(ns) + BytesOf(lines, row)
  <2>. DEFINE x == BytesOf(lines, row)
              more == Append(rows, row)
              ms == Sizes(lines, more)
  <2>1. more \in Seq(R) /\ Len(more) = Len(rows) + 1 /\ x \in Nat
        /\ more[Len(rows) + 1] = row /\ \A i \in 1 .. Len(rows) : more[i] = rows[i]
    BY <1>1, AppendProperties
  <2>. HIDE DEF more
  <2>2. ms \in Seq(Nat) /\ Len(ms) = Len(rows) + 1
    BY <2>1, SizesType
  <2>3. \A i \in 1 .. Len(rows) + 1 : ms[i] = BytesOf(lines, more[i])
    BY <2>1 DEF Sizes
  <2>. HIDE DEF ms
  <2>4. ms[Len(rows) + 1] = x /\ \A i \in 1 .. Len(rows) : ms[i] = ns[i]
    <3>1. Len(rows) + 1 \in 1 .. Len(rows) + 1 /\ \A i \in 1 .. Len(rows) : i \in 1 .. Len(rows) + 1
      BY <1>1
    <3>2. ms[Len(rows) + 1] = x
      BY <2>1, <2>3, <3>1
    <3>. HIDE DEF x
    <3>3. \A i \in 1 .. Len(rows) : ms[i] = ns[i]
      BY <1>2, <2>1, <2>3, <3>1
    <3>. QED
      BY <3>2, <3>3
  <2>. HIDE DEF x
  <2>5. Append(ns, x) \in Seq(Nat) /\ Len(Append(ns, x)) = Len(rows) + 1
        /\ Append(ns, x)[Len(rows) + 1] = x /\ \A i \in 1 .. Len(rows) : Append(ns, x)[i] = ns[i]
    BY <1>1, <2>1, AppendProperties
  <2>6. ms = Append(ns, x)
    <3>. DEFINE app == Append(ns, x)
    <3>. HIDE DEF app
    <3>1. \A i \in 1 .. Len(rows) + 1 : ms[i] = app[i]
      BY <1>1, <2>4, <2>5 DEF app
    <3>2. ms = app
      BY <2>2, <2>5, <3>1, SeqEqual DEF app
    <3>. QED
      BY <3>2 DEF app
  <2>7. Sum(ms) = Sum(ns) + x
    BY <1>1, <2>1, <2>6, SumAppend
  <2>. QED
    BY <2>7 DEF BytesIn, ms, more, x
<1>5. ASSUME rows # <<>>
      PROVE  Sum(ns) = BytesOf(lines, Head(rows)) + BytesIn(lines, Tail(rows))
  <2>. DEFINE rest == Tail(rows)
              ms == Sizes(lines, rest)
  <2>1. rest \in Seq(R) /\ Len(rest) = Len(rows) - 1 /\ Len(rows) # 0 /\ Head(rows) = rows[1]
        /\ \A i \in 1 .. Len(rows) - 1 : rest[i] = rows[i + 1]
    BY <1>1, <1>5, EmptyLength, HeadTailProperties
  <2>. HIDE DEF rest
  <2>2. ms \in Seq(Nat) /\ Len(ms) = Len(rows) - 1
    BY <2>1, SizesType
  <2>3. \A i \in 1 .. Len(rows) - 1 : ms[i] = BytesOf(lines, rest[i])
    BY <2>1 DEF Sizes
  <2>. HIDE DEF ms
  <2>4. ns # <<>>
    BY <1>1, <2>1, EmptyLength
  <2>5. Tail(ns) \in Seq(Nat) /\ Len(Tail(ns)) = Len(rows) - 1 /\ Head(ns) = ns[1]
        /\ \A i \in 1 .. Len(rows) - 1 : Tail(ns)[i] = ns[i + 1]
    BY <1>1, <2>4, HeadTailProperties
  <2>6. ms = Tail(ns)
    <3>. DEFINE t == Tail(ns)
    <3>. HIDE DEF t
    <3>1. \A i \in 1 .. Len(rows) - 1 : i + 1 \in 1 .. Len(rows)
      BY <1>1
    <3>2. \A i \in 1 .. Len(rows) - 1 : ms[i] = t[i]
      BY <1>2, <2>1, <2>3, <2>5, <3>1 DEF t
    <3>3. ms = t
      BY <2>2, <2>5, <3>2, SeqEqual DEF t
    <3>. QED
      BY <3>3 DEF t
  <2>7. Head(ns) = BytesOf(lines, Head(rows))
    BY <1>1, <1>2, <2>1, <2>5
  <2>8. Sum(ns) = Head(ns) + Sum(Tail(ns))
    BY <1>1, <2>4, SumHead
  <2>. QED
    BY <2>6, <2>7, <2>8 DEF BytesIn, ms, rest
<1>6. Sum(ns) \in Nat /\ (ns = <<>> => Sum(ns) = 0)
  BY <1>1, SumAppend
<1>. QED
  BY <1>3, <1>4, <1>5, <1>6 DEF BytesIn, ns

\* Another line does not change what rows weigh.
LEMMA BytesOfMore ==
  ASSUME NEW lines \in Seq(Line), NEW l \in Line, NEW rows \in Seq(RowsOf(lines))
  PROVE  BytesIn(Append(lines, l), rows) = BytesIn(lines, rows)
<1>1. \A i \in 1 .. Len(rows) : rows[i] \in RowsOf(lines)
  BY ElementOfSeq
<1>2. \A i \in 1 .. Len(lines) : Append(lines, l)[i] = lines[i]
  BY RowsOfMore
<1>. DEFINE more == Append(lines, l)
<1>. HIDE DEF more
<1>3. \A i \in 1 .. Len(rows) : BytesOf(more, rows[i]) = BytesOf(lines, rows[i])
  <2>. TAKE i \in 1 .. Len(rows)
  <2>1. rows[i].line \in 1 .. Len(lines)
    BY <1>1 DEF RowsOf
  <2>. QED
    BY <1>2, <2>1 DEF BytesOf, more
<1>4. Sizes(more, rows) = Sizes(lines, rows)
  BY <1>3 DEF Sizes
<1>. QED
  BY <1>4 DEF BytesIn, more

\* What is prepared is within the limits, and what is queued as well.
BatchLimited ==
  pc = "pulling" =>
    /\ ~ Over(options.maxRows, Len(batch)) /\ ~ Over(options.maxBytes, TotalBytes(batch))
    /\ Len(batch) <= TargetRows

PendingLimited == WithinLimits(pending)

Limited == BatchLimited /\ PendingLimited

\* The limits a stream is opened with, and the target they give a batch.
LEMMA LimitFacts ==
  ASSUME StreamTypes
  PROVE  /\ options.maxRows \in Nat \cup {Unlimited} /\ options.maxBytes \in Nat \cup {Unlimited}
         /\ options.batchRows \in Nat /\ TargetRows \in Nat
         /\ options.maxRows # Unlimited => TargetRows <= options.maxRows \/ options.maxRows = 0
         /\ \A rows : TotalBytes(rows) = BytesIn(file, rows)
         /\ Len(batch) \in Nat /\ Len(pending) \in Nat
         /\ \A limit \in Nat \cup {Unlimited} : ~ Over(limit, 0)
<1>1. options.maxRows \in Nat \cup {Unlimited} /\ options.maxBytes \in Nat \cup {Unlimited}
      /\ options.batchRows \in Nat /\ Unlimited \notin Nat
  BY JsonlAssumption DEF StreamTypes, StreamOptions, Limit
<1>2. TargetRows \in Nat /\ (options.maxRows # Unlimited => TargetRows <= options.maxRows \/ options.maxRows = 0)
  BY <1>1 DEF TargetRows, Min2
<1>3. \A rows : TotalBytes(rows) = BytesIn(file, rows)
  BY DEF TotalBytes, BytesIn, Sizes, RowBytes, BytesOf
<1>4. Len(batch) \in Nat /\ Len(pending) \in Nat
  BY LenProperties DEF StreamTypes
<1>5. \A limit \in Nat \cup {Unlimited} : ~ Over(limit, 0)
  BY DEF Over
<1>. QED
  BY <1>1, <1>2, <1>3, <1>4, <1>5

\* No rows are within every limit.
LEMMA NothingIsLimited ==
  ASSUME StreamTypes
  PROVE  WithinLimits(<<>>) /\ TotalBytes(<<>>) = 0 /\ Len(<<>>) = 0
<1>1. <<>> \in Seq(RowsOf(file)) /\ Len(<<>>) = 0
  BY EmptySeq
<1>2. BytesIn(file, <<>>) = 0
  BY <1>1, BytesFacts DEF StreamTypes
<1>. QED
  BY <1>1, <1>2, LimitFacts DEF WithinLimits

\* A row that is taken into the batch keeps it within the limits (next_batch).
LEMMA TakingLimited ==
  ASSUME StreamTypes, Limited, TakeRow
  PROVE  Limited'
<1>. DEFINE R == RowsOf(file)
            x == Head(pending)
            n == Len(batch)
            k == Len(pending)
            held == BytesIn(file, batch)
            size == BytesOf(file, x)
            rest == BytesIn(file, Tail(pending))
<1>1. /\ pc = "pulling" /\ n < TargetRows /\ pending # <<>> /\ ~ Overflows
      /\ batch' = Append(batch, x) /\ pending' = Tail(pending)
      /\ UNCHANGED <<file, options, pc>>
  BY DEF TakeRow, RowAtHand, inputVars
<1>2. batch \in Seq(R) /\ pending \in Seq(R) /\ file \in Seq(Line)
  BY DEF StreamTypes
<1>3. x \in R /\ Tail(pending) \in Seq(R) /\ Len(Tail(pending)) = k - 1 /\ k # 0
  BY <1>1, <1>2, HeadTailProperties, EmptyLength
<1>4. /\ BytesIn(file, pending) = size + rest
      /\ BytesIn(file, Append(batch, x)) = held + size
      /\ held \in Nat /\ rest \in Nat /\ (batch = <<>> => held = 0)
  BY <1>1, <1>2, <1>3, BytesFacts
<1>5. size \in Nat
  BY <1>2, <1>3, SizesType
<1>6. /\ options.maxRows \in Nat \cup {Unlimited} /\ options.maxBytes \in Nat \cup {Unlimited}
      /\ TargetRows \in Nat /\ n \in Nat /\ k \in Nat
      /\ (options.maxRows # Unlimited => TargetRows <= options.maxRows \/ options.maxRows = 0)
  BY LimitFacts
<1>7. Len(batch') = n + 1 /\ Len(pending') = k - 1
  BY <1>1, <1>2, <1>3, AppendProperties
<1>8. TargetRows' = TargetRows
  BY <1>1 DEF TargetRows
<1>9. TotalBytes(batch)' = BytesIn(file', batch') /\ TotalBytes(pending)' = BytesIn(file', pending')
  BY DEF TotalBytes, BytesIn, Sizes, RowBytes, BytesOf
<1>10. TotalBytes(batch)' = held + size /\ TotalBytes(pending)' = rest
  BY <1>1, <1>4, <1>9
<1>11. TotalBytes(pending) = size + rest /\ TotalBytes(batch) = held /\ RowBytes(x) = size
  <2>1. RowBytes(x) = size
    BY DEF RowBytes, BytesOf
  <2>. QED
    BY <1>4, <2>1, LimitFacts
<1>12. ~ Over(options.maxRows, k) /\ ~ Over(options.maxBytes, size + rest)
  BY <1>11 DEF Limited, PendingLimited, WithinLimits
<1>13. batch = <<>> \/ ~ Over(options.maxBytes, held + size)
  BY <1>1, <1>11 DEF Overflows
<1>. HIDE DEF x, n, k, held, size, rest
<1>14. ~ Over(options.maxRows, n + 1) /\ ~ Over(options.maxBytes, held + size) /\ n + 1 <= TargetRows
  BY <1>1, <1>3, <1>4, <1>5, <1>6, <1>12, <1>13 DEF Over
<1>15. ~ Over(options.maxRows, k - 1) /\ ~ Over(options.maxBytes, rest)
  BY <1>3, <1>4, <1>5, <1>6, <1>12 DEF Over
<1>16. BatchLimited'
  BY <1>1, <1>7, <1>8, <1>10, <1>14 DEF BatchLimited
<1>17. PendingLimited'
  BY <1>1, <1>7, <1>10, <1>15 DEF PendingLimited, WithinLimits
<1>. QED
  BY <1>16, <1>17 DEF Limited

\* Every step keeps batches and pending rows within the limits.
LEMMA LimitedStep ==
  ASSUME StreamTypes, Control, Limited, [Next]_vars
  PROVE  Limited'
<1>1. /\ TotalBytes(batch)' = BytesIn(file', batch') /\ TotalBytes(pending)' = BytesIn(file', pending')
      /\ TotalBytes(batch) = BytesIn(file, batch) /\ TotalBytes(pending) = BytesIn(file, pending)
  BY DEF TotalBytes, BytesIn, Sizes, RowBytes, BytesOf
<1>2. CASE UNCHANGED <<file, options, pending>> /\ (pc' # "pulling" \/ UNCHANGED <<pc, batch>>)
  <2>1. PendingLimited'
    BY <1>1, <1>2 DEF Limited, PendingLimited, WithinLimits
  <2>2. BatchLimited'
    BY <1>1, <1>2 DEF Limited, BatchLimited, TargetRows
  <2>. QED
    BY <2>1, <2>2 DEF Limited
<1>3. CASE UNCHANGED vars \/ Open \/ PullOver \/ TimeOut \/ SourceEnds \/ ReadFails \/ LineRejected \/ RowFails
           \/ EndBatch \/ Drop \/ Closed
  <2>1. UNCHANGED <<file, options, pending>> /\ (pc' # "pulling" \/ UNCHANGED <<pc, batch>>)
    BY <1>3 DEF vars, inputVars, Open, PullOver, TimeOut, SourceEnds, ReadFails, LineRejected, RowFails,
                EndBatch, Drop, Closed, Return
  <2>. QED
    BY <1>2, <2>1
<1>4. CASE \E l \in Appended : AppendLine(l)
  <2>1. PICK l \in Appended : AppendLine(l)
    BY <1>4
  <2>2. l \in Line /\ file' = Append(file, l) /\ UNCHANGED <<options, pc, pending, batch>>
    BY <2>1, JsonlAssumption DEF AppendLine
  <2>3. BytesIn(file', pending) = BytesIn(file, pending) /\ BytesIn(file', batch) = BytesIn(file, batch)
    BY <2>2, BytesOfMore DEF StreamTypes
  <2>4. TotalBytes(batch)' = TotalBytes(batch) /\ TotalBytes(pending)' = TotalBytes(pending)
    BY <1>1, <2>2, <2>3
  <2>5. PendingLimited'
    BY <2>2, <2>4 DEF Limited, PendingLimited, WithinLimits
  <2>6. BatchLimited'
    BY <2>2, <2>4 DEF Limited, BatchLimited, TargetRows
  <2>. QED
    BY <2>5, <2>6 DEF Limited
<1>5. CASE StartPull
  <2>1. batch = <<>> /\ batch' = <<>> /\ pending' = pending /\ UNCHANGED <<file, options>>
    BY <1>5 DEF StartPull, Control, inputVars
  <2>2. PendingLimited'
    BY <1>1, <2>1 DEF Limited, PendingLimited, WithinLimits
  <2>3. BytesIn(file, batch) = 0 /\ Len(batch) = 0
    BY <1>1, <2>1, NothingIsLimited
  <2>4. TotalBytes(batch)' = 0 /\ Len(batch') = 0 /\ TargetRows' = TargetRows /\ options' = options
    BY <1>1, <2>1, <2>3 DEF TargetRows
  <2>5. ~ Over(options.maxRows, 0) /\ ~ Over(options.maxBytes, 0) /\ 0 <= TargetRows
    <3>1. TargetRows \in Nat
      BY LimitFacts
    <3>2. ~ Over(options.maxRows, 0) /\ ~ Over(options.maxBytes, 0)
      BY LimitFacts
    <3>. QED
      BY <3>1, <3>2
  <2>6. BatchLimited'
    BY <2>4, <2>5 DEF BatchLimited
  <2>. QED
    BY <2>2, <2>6 DEF Limited
<1>6. CASE RowQueued
  <2>. DEFINE applied == ApplyOps(Row(line + 1, 0))
  <2>1. LineAtHand /\ ~ applied.failed /\ pending' = applied.rows /\ UNCHANGED <<file, options, pc, batch>>
    BY <1>6 DEF RowQueued, RowDecoded, inputVars
  <2>2. WithinLimits(applied.rows)
    BY <2>1, AppliedTypes
  <2>. HIDE DEF applied
  <2>3. TotalBytes(applied.rows) = BytesIn(file, applied.rows)
    BY LimitFacts
  <2>4. PendingLimited'
    BY <1>1, <2>1, <2>2, <2>3 DEF PendingLimited, WithinLimits
  <2>5. BatchLimited'
    BY <1>1, <2>1 DEF Limited, BatchLimited, TargetRows
  <2>. QED
    BY <2>4, <2>5 DEF Limited
<1>7. CASE Cancel
  <2>1. pc' = "idle" /\ pending' = <<>> /\ UNCHANGED <<file, options>>
    BY <1>7 DEF Cancel, inputVars
  <2>2. BytesIn(file, <<>>) = 0 /\ Len(<<>>) = 0
    BY NothingIsLimited, LimitFacts
  <2>3. TotalBytes(pending)' = 0 /\ Len(pending') = 0
    BY <1>1, <2>1, <2>2
  <2>4. ~ Over(options.maxRows, 0) /\ ~ Over(options.maxBytes, 0)
    BY LimitFacts
  <2>. QED
    BY <2>1, <2>3, <2>4 DEF Limited, BatchLimited, PendingLimited, WithinLimits
<1>. QED
  BY <1>3, <1>4, <1>5, <1>6, <1>7, TakingLimited DEF Next

-----------------------------------------------------------------------------
(***************************************************************************)
(* Rows in order.                                                          *)
(***************************************************************************)
Ascending(rows) == \A i, j \in 1 .. Len(rows) : i < j => Before(rows[i], rows[j])

OfLine(n, rows) == \A i \in 1 .. Len(rows) : rows[i].line = n

\* Rows picked from others, in their order.
Selected(out, rows) ==
  /\ Len(out) <= Len(rows)
  /\ \A i \in 1 .. Len(out) : \E j \in 1 .. Len(rows) : out[i] = rows[j]
  /\ Ascending(rows) => Ascending(out)

\* A selection of rows stays one when a row is offered, passed on or not.
LEMMA SelectedMore ==
  ASSUME NEW S, NEW o \in Seq(S), NEW d \in Seq(S), NEW x \in S, Selected(o, d)
  PROVE  Selected(o, Append(d, x)) /\ Selected(Append(o, x), Append(d, x))
<1>. DEFINE n == Len(d)
            m == Len(o)
            dd == Append(d, x)
            oo == Append(o, x)
<1>1. n \in Nat /\ m \in Nat /\ m <= n
  BY LenProperties DEF Selected
<1>2. Len(dd) = n + 1 /\ dd[n + 1] = x /\ \A i \in 1 .. n : dd[i] = d[i]
  BY AppendProperties
<1>3. Len(oo) = m + 1 /\ oo[m + 1] = x /\ \A i \in 1 .. m : oo[i] = o[i]
  BY AppendProperties
<1>4. \A i \in 1 .. m : \E j \in 1 .. n : o[i] = d[j]
  BY DEF Selected
<1>. HIDE DEF dd, oo
<1>5. \A i \in 1 .. m : \E j \in 1 .. n + 1 : o[i] = dd[j]
  <2>. TAKE i \in 1 .. m
  <2>1. PICK j \in 1 .. n : o[i] = d[j]
    BY <1>4
  <2>2. j \in 1 .. n + 1 /\ dd[j] = d[j]
    BY <1>1, <1>2, <2>1
  <2>. QED
    BY <2>1, <2>2
<1>6. \A i \in 1 .. m + 1 : \E j \in 1 .. n + 1 : oo[i] = dd[j]
  <2>. TAKE i \in 1 .. m + 1
  <2>1. CASE i = m + 1
    <3>1. n + 1 \in 1 .. n + 1
      BY <1>1
    <3>. QED
      BY <1>2, <1>3, <2>1, <3>1
  <2>2. CASE i # m + 1
    <3>1. i \in 1 .. m
      BY <1>1, <2>2
    <3>. QED
      BY <1>3, <1>5, <3>1
  <2>. QED
    BY <2>1, <2>2
<1>7. ASSUME Ascending(dd)
      PROVE  Ascending(o) /\ Ascending(oo)
  <2>1. Ascending(d)
    <3>. SUFFICES ASSUME NEW i \in 1 .. n, NEW j \in 1 .. n, i < j
                  PROVE  Before(d[i], d[j])
      BY DEF Ascending
    <3>1. i \in 1 .. n + 1 /\ j \in 1 .. n + 1 /\ dd[i] = d[i] /\ dd[j] = d[j]
      BY <1>1, <1>2
    <3>. QED
      BY <1>2, <1>7, <3>1 DEF Ascending
  <2>2. Ascending(o)
    BY <2>1 DEF Selected
  <2>3. ASSUME NEW i \in 1 .. m + 1, NEW j \in 1 .. m + 1, i < j
        PROVE  Before(oo[i], oo[j])
    <3>1. i \in 1 .. m /\ oo[i] = o[i]
      BY <1>1, <1>3, <2>3
    <3>2. CASE j = m + 1
      <4>1. PICK k \in 1 .. n : o[i] = d[k]
        BY <1>4, <3>1
      <4>2. k \in 1 .. n + 1 /\ n + 1 \in 1 .. n + 1 /\ k < n + 1 /\ dd[k] = d[k]
        BY <1>1, <1>2
      <4>3. Before(dd[k], dd[n + 1])
        BY <1>2, <1>7, <4>2 DEF Ascending
      <4>. QED
        BY <1>2, <1>3, <3>1, <3>2, <4>1, <4>2, <4>3
    <3>3. CASE j # m + 1
      <4>1. j \in 1 .. m /\ oo[j] = o[j]
        BY <1>1, <1>3, <3>3
      <4>. QED
        BY <2>2, <2>3, <3>1, <4>1 DEF Ascending
    <3>. QED
      BY <3>2, <3>3
  <2>. QED
    BY <1>3, <2>2, <2>3 DEF Ascending
<1>8. m <= n + 1 /\ m + 1 <= n + 1
  BY <1>1
<1>. HIDE DEF n, m
<1>9. Selected(o, dd) /\ Selected(oo, dd)
  BY <1>2, <1>3, <1>5, <1>6, <1>7, <1>8 DEF Selected, n, m
<1>. QED
  BY <1>9 DEF dd, oo

\* Filters and projections pick rows.
LEMMA PickedOrder ==
  ASSUME NEW lines \in Seq(Line), NEW op \in StreamOp, op.op \in {"filter", "project"},
         NEW rows \in Seq(RowsOf(lines))
  PROVE  Selected(OpRows(lines, op, rows), rows)
<1>. DEFINE R == RowsOf(lines)
            F(rs) == OpRows(lines, op, rs)
            T == {n \in Nat : \A rs \in Seq(R) : Len(rs) = n => Selected(F(rs), rs)}
<1>1. \A rs \in Seq(R) :
        /\ F(rs) \in Seq(R)
        /\ rs = <<>> => F(rs) = <<>>
        /\ \A x \in R : F(Append(rs, x)) = F(rs) \o Produced(lines, op, x)
  BY OneByOne
<1>2. \A x \in R : Produced(lines, op, x) \in {<<>>, <<x>>}
  BY DEF Produced
<1>3. 0 \in T
  <2>. SUFFICES ASSUME NEW rs \in Seq(R), Len(rs) = 0
                PROVE  Selected(F(rs), rs)
    OBVIOUS
  <2>1. rs = <<>> /\ F(rs) = <<>>
    BY <1>1, EmptyLength
  <2>2. Selected(rs, rs)
    BY DEF Selected, Ascending
  <2>. QED
    BY <2>1, <2>2
<1>. HIDE DEF F
<1>4. ASSUME NEW n \in Nat, n \in T
      PROVE  n + 1 \in T
  <2>. SUFFICES ASSUME NEW rs \in Seq(R), Len(rs) = n + 1
                PROVE  Selected(F(rs), rs)
    OBVIOUS
  <2>1. PICK d \in Seq(R), x \in R : rs = Append(d, x) /\ Len(d) = n
    BY LastMember
  <2>2. Selected(F(d), d) /\ F(d) \in Seq(R)
    BY <1>1, <1>4, <2>1
  <2>. HIDE DEF T
  <2>3. Selected(F(d), rs) /\ Selected(Append(F(d), x), rs)
    BY <2>1, <2>2, SelectedMore
  <2>4. F(rs) \in {F(d), Append(F(d), x)}
    <3>1. F(rs) = F(d) \o Produced(lines, op, x)
      BY <1>1, <2>1
    <3>2. F(d) \o <<>> = F(d)
      BY <2>2, ConcatEmptySeq
    <3>3. F(d) \o <<x>> = Append(F(d), x)
      BY <2>2, AppendIsConcat
    <3>4. Produced(lines, op, x) = <<>> \/ Produced(lines, op, x) = <<x>>
      BY <1>2
    <3>. QED
      BY <3>1, <3>2, <3>3, <3>4, Zenon
  <2>. QED
    BY <2>3, <2>4
<1>. HIDE DEF T
<1>5. Nat \subseteq T
  BY <1>3, <1>4, NumberInduction
<1>6. Len(rows) \in T
  BY <1>5, LenProperties
<1>. QED
  BY <1>6 DEF T, F

\* So does a slice.
LEMMA SlicedOrder ==
  ASSUME NEW lines \in Seq(Line), NEW op \in StreamOp, op.op = "slice",
         NEW rows \in Seq(RowsOf(lines))
  PROVE  /\ Selected(OpRows(lines, op, rows), rows)
         /\ Len(OpRows(lines, op, rows)) = Passed(op, Len(rows))
<1>. DEFINE out == OpRows(lines, op, rows)
            n == Len(rows)
            s == Skipped(op, n)
            k == Passed(op, n)
<1>1. n \in Nat /\ s \in 0 .. n /\ k \in 0 .. n - s
  BY LenProperties, SliceCounts
<1>2. IsPiece(out, rows, s, k)
  BY SliceRows
<1>. HIDE DEF out, s, k, n
<1>3. Len(out) = k /\ \A i \in 1 .. k : out[i] = rows[s + i]
  BY <1>2 DEF IsPiece
<1>4. \A i \in 1 .. k : s + i \in 1 .. n
  BY <1>1
<1>5. \A i, j \in 1 .. k : i < j => s + i < s + j
  BY <1>1
<1>6. Ascending(rows) => Ascending(out)
  BY <1>3, <1>4, <1>5 DEF Ascending, n
<1>7. Selected(out, rows)
  BY <1>1, <1>3, <1>4, <1>6 DEF Selected, n
<1>. QED
  BY <1>3, <1>7 DEF out, k, n

\* The elements of a list are in order, and of the line of the list.
LEMMA ElementsOrder ==
  ASSUME NEW lines \in Seq(Line), NEW row \in RowsOf(lines)
  PROVE  OfLine(row.line, Elements(lines, row)) /\ Ascending(Elements(lines, row))
<1>. DEFINE out == Elements(lines, row)
            list == lines[row.line].list
<1>1. list \in Nat \cup {EvalError}
  <2>1. row.line \in 1 .. Len(lines)
    BY DEF RowsOf
  <2>. QED
    BY <2>1, LineTypes
<1>2. CASE list = EvalError
  <2>1. out = <<>> /\ Len(<<>>) = 0
    BY <1>2, EmptySeq DEF Elements
  <2>. QED
    BY <2>1 DEF OfLine, Ascending
<1>3. CASE list # EvalError
  <2>1. list \in Nat /\ out = [k \in 1 .. list |-> Row(row.line, k)]
    BY <1>1, <1>3 DEF Elements
  <2>2. Len(out) = list /\ \A k \in 1 .. list : out[k] = Row(row.line, k)
    BY <2>1
  <2>. HIDE DEF out, list
  <2>3. OfLine(row.line, out)
    BY <2>2 DEF OfLine, Row
  <2>4. Ascending(out)
    BY <2>1, <2>2 DEF Ascending, Before, Row
  <2>. QED
    BY <2>3, <2>4 DEF out
<1>. QED
  BY <1>2, <1>3

\* The elements of one list come in the list's order and from its line.
LEMMA UnnestedOrder ==
  ASSUME NEW lines \in Seq(Line), NEW op \in StreamOp, op.op = "unnest",
         NEW rows \in Seq(RowsOf(lines)), Len(rows) <= 1, NEW n, OfLine(n, rows)
  PROVE  OfLine(n, OpRows(lines, op, rows)) /\ Ascending(OpRows(lines, op, rows))
<1>. DEFINE R == RowsOf(lines)
            F(rs) == OpRows(lines, op, rs)
<1>1. \A rs \in Seq(R) :
        /\ F(rs) \in Seq(R)
        /\ rs = <<>> => F(rs) = <<>>
        /\ \A x \in R : F(Append(rs, x)) = F(rs) \o Produced(lines, op, x)
  BY OneByOne
<1>2. \A x \in R : Produced(lines, op, x) = Elements(lines, x)
  BY DEF Produced
<1>3. Len(rows) \in Nat
  BY LenProperties
<1>. HIDE DEF F
<1>4. CASE Len(rows) = 0
  <2>1. F(rows) = <<>> /\ Len(<<>>) = 0
    BY <1>1, <1>4, EmptyLength
  <2>. QED
    BY <2>1 DEF OfLine, Ascending, F
<1>5. CASE Len(rows) = 1
  <2>1. PICK x \in R : rows = Append(<<>>, x) /\ rows[1] = x
    BY <1>5, OneMember
  <2>2. <<>> \in Seq(R)
    BY EmptySeq
  <2>3. F(<<>>) = <<>>
    BY <1>1, <2>2
  <2>4. F(rows) = <<>> \o Elements(lines, x)
    BY <1>1, <1>2, <2>1, <2>2, <2>3, Zenon
  <2>5. Elements(lines, x) \in Seq(R)
    BY <1>2, ProducedType
  <2>6. F(rows) = Elements(lines, x)
    BY <2>4, <2>5, ConcatEmptySeq
  <2>7. x.line = n
    BY <1>5, <2>1 DEF OfLine
  <2>. QED
    BY <2>6, <2>7, ElementsOrder DEF F
<1>6. Len(rows) = 0 \/ Len(rows) = 1
  <2>. DEFINE m == Len(rows)
  <2>1. m \in Nat /\ m <= 1
    BY <1>3
  <2>. HIDE DEF m
  <2>2. m = 0 \/ m = 1
    BY ONLY <2>1
  <2>. QED
    BY <2>2 DEF m
<1>. QED
  BY <1>4, <1>5, <1>6

\* An operator keeps the order of rows of one line, and makes no more of them unless it unnests a list.
LEMMA OpOrder ==
  ASSUME NEW lines \in Seq(Line), NEW op \in StreamOp, NEW rows \in Seq(RowsOf(lines)),
         NEW n, OfLine(n, rows), Ascending(rows), op.op = "unnest" => Len(rows) <= 1
  PROVE  /\ OfLine(n, OpRows(lines, op, rows)) /\ Ascending(OpRows(lines, op, rows))
         /\ op.op # "unnest" => Len(OpRows(lines, op, rows)) <= Len(rows)
         /\ op.op = "slice" => Len(OpRows(lines, op, rows)) = Passed(op, Len(rows))
<1>1. CASE op.op = "unnest"
  BY <1>1, UnnestedOrder
<1>2. CASE op.op # "unnest"
  <2>1. op.op \in {"filter", "project", "slice"}
    BY <1>2 DEF StreamOp
  <2>2. Selected(OpRows(lines, op, rows), rows)
    BY <2>1, PickedOrder, SlicedOrder
  <2>3. OfLine(n, OpRows(lines, op, rows))
    BY <2>2 DEF Selected, OfLine
  <2>. QED
    BY <2>2, <2>3, SlicedOrder DEF Selected
<1>. QED
  BY <1>1, <1>2

OneList(chain) == \A i, j \in 1 .. Len(chain) : chain[i].op = "unnest" /\ chain[j].op = "unnest" => i = j

Unnests(chain, from, to) == \E j \in from .. to : chain[j].op = "unnest"

\* What a chain makes of one row: rows of its line, in order, and no more than one as long
\* as no list has been unnested.
LEMMA ChainOrder ==
  ASSUME NEW lines \in Seq(Line), NEW chain \in Seq(StreamOp), OneList(chain),
         NEW row \in RowsOf(lines), NEW f, Chains(f, lines, chain, <<row>>)
  PROVE  \A k \in 0 .. Len(chain) :
           /\ OfLine(row.line, f[k]) /\ Ascending(f[k])
           /\ ~ Unnests(chain, 1, k) => Len(f[k]) <= 1
<1>. DEFINE n == Len(chain)
            Good(k) == /\ OfLine(row.line, f[k]) /\ Ascending(f[k])
                       /\ ~ Unnests(chain, 1, k) => Len(f[k]) <= 1
            T == {k \in Nat : k <= n => Good(k)}
<1>1. n \in Nat /\ \A i \in 1 .. n : chain[i] \in StreamOp
  BY LenProperties, ElementOfSeq
<1>2. 0 \in T
  <2>. DEFINE one == f[0]
  <2>1. one = <<row>>
    BY DEF Chains
  <2>2. Len(one) = 1 /\ one[1] = row
    BY <2>1
  <2>. HIDE DEF one
  <2>3. OfLine(row.line, one)
    BY <2>2 DEF OfLine
  <2>4. Ascending(one)
    BY <2>2 DEF Ascending
  <2>5. Good(0)
    <3>1. f[0] = one /\ 1 <= 1
      BY DEF one
    <3>. QED
      BY <2>2, <2>3, <2>4, <3>1
  <2>. HIDE DEF Good
  <2>. QED
    BY <2>5
<1>3. ASSUME NEW k \in Nat, k \in T
      PROVE  k + 1 \in T
  <2>. SUFFICES ASSUME k + 1 <= n PROVE Good(k + 1)
    OBVIOUS
  <2>. DEFINE i == k + 1
              op == chain[i]
              rows == f[k]
              out == f[i]
  <2>1. i \in 1 .. n /\ i - 1 = k /\ k \in 0 .. n /\ op \in StreamOp
    BY <1>1
  <2>2. out = OpRows(lines, op, rows) /\ rows \in Seq(RowsOf(lines)) /\ out \in Seq(RowsOf(lines))
    <3>1. f[i] = OpRows(lines, chain[i], f[i - 1]) /\ f[k] \in Seq(RowsOf(lines))
      BY <2>1 DEF Chains
    <3>2. i \in 0 .. n
      BY <2>1
    <3>3. f[i] \in Seq(RowsOf(lines))
      BY <3>2 DEF Chains
    <3>. QED
      BY <2>1, <3>1, <3>3
  <2>3. Good(k)
    BY <1>3, <2>1
  <2>4. op.op = "unnest" => ~ Unnests(chain, 1, k)
    <3>. SUFFICES ASSUME op.op = "unnest", NEW j \in 1 .. k, chain[j].op = "unnest" PROVE FALSE
      BY DEF Unnests
    <3>1. j \in 1 .. n /\ j # i
      BY <2>1
    <3>. QED
      BY <2>1, <3>1 DEF OneList
  <2>5. Unnests(chain, 1, k) \/ op.op = "unnest" => Unnests(chain, 1, i)
    <3>1. \A j \in 1 .. k : j \in 1 .. i
      BY <2>1
    <3>2. i \in 1 .. i
      BY <2>1
    <3>. HIDE DEF i
    <3>. QED
      BY <3>1, <3>2 DEF Unnests
  <2>6. Len(rows) \in Nat /\ Len(out) \in Nat
    BY <2>2, LenProperties
  <2>. HIDE DEF T, i, op, rows, out
  <2>7. OfLine(row.line, rows) /\ Ascending(rows) /\ (~ Unnests(chain, 1, k) => Len(rows) <= 1)
    BY <2>3 DEF rows
  <2>8. /\ OfLine(row.line, out) /\ Ascending(out)
        /\ op.op # "unnest" => Len(out) <= Len(rows)
    BY <2>1, <2>2, <2>4, <2>7, OpOrder
  <2>9. ~ Unnests(chain, 1, i) => Len(out) <= 1
    BY <2>5, <2>6, <2>7, <2>8
  <2>. QED
    BY <2>8, <2>9 DEF out, i
<1>. HIDE DEF T
<1>4. Nat \subseteq T
  BY <1>2, <1>3, NumberInduction
<1>. QED
  BY <1>1, <1>4 DEF T

\* Behind the last list nothing becomes more.
LEMMA ChainShrinks ==
  ASSUME NEW lines \in Seq(Line), NEW chain \in Seq(StreamOp), OneList(chain),
         NEW row \in RowsOf(lines), NEW f, Chains(f, lines, chain, <<row>>),
         NEW i \in 1 .. Len(chain), ~ Unnests(chain, i + 1, Len(chain)), chain[i].op = "slice"
  PROVE  Len(f[Len(chain)]) <= Passed(chain[i], Len(f[i - 1]))
<1>. DEFINE n == Len(chain)
            most == Passed(chain[i], Len(f[i - 1]))
            T == {k \in Nat : i + k <= n => Len(f[i + k]) <= most}
<1>1. n \in Nat /\ i \in Nat /\ i <= n /\ \A j \in 1 .. n : chain[j] \in StreamOp
  BY LenProperties, ElementOfSeq
<1>2. \A k \in 0 .. n : /\ f[k] \in Seq(RowsOf(lines)) /\ Len(f[k]) \in Nat
                        /\ OfLine(row.line, f[k]) /\ Ascending(f[k])
  <2>. TAKE k \in 0 .. n
  <2>1. f[k] \in Seq(RowsOf(lines))
    BY DEF Chains
  <2>. QED
    BY <2>1, ChainOrder, LenProperties
<1>3. \A k \in 1 .. n : f[k] = OpRows(lines, chain[k], f[k - 1])
  BY DEF Chains
<1>4. most \in Nat
  <2>. DEFINE m == Len(f[i - 1])
  <2>1. m \in Nat
    BY <1>1, <1>2
  <2>. HIDE DEF m
  <2>2. Skipped(chain[i], m) \in 0 .. m /\ Passed(chain[i], m) \in 0 .. m - Skipped(chain[i], m)
    BY <1>1, <2>1, SliceCounts
  <2>. QED
    BY <2>1, <2>2 DEF m
<1>5. 0 \in T
  <2>1. i - 1 \in 0 .. n /\ i + 0 = i
    BY <1>1
  <2>2. Len(f[i]) = most
    BY <1>1, <1>2, <1>3, <2>1, SlicedOrder
  <2>. HIDE DEF most
  <2>. QED
    BY <1>4, <2>1, <2>2
<1>. HIDE DEF most
<1>6. ASSUME NEW k \in Nat, k \in T
      PROVE  k + 1 \in T
  <2>. DEFINE p == i + k
              j == p + 1
  <2>. SUFFICES ASSUME j <= n PROVE Len(f[j]) <= most
    BY <1>1
  <2>1. p \in 0 .. n /\ j \in 1 .. n /\ j - 1 = p /\ j \in i + 1 .. n /\ j \in 0 .. n
    BY <1>1
  <2>2. Len(f[p]) <= most
    BY <1>6, <2>1
  <2>3. chain[j].op # "unnest"
    BY <2>1 DEF Unnests
  <2>. HIDE DEF T, p, j
  <2>4. Len(f[j]) <= Len(f[p])
    BY <1>1, <1>2, <1>3, <2>1, <2>3, OpOrder
  <2>. QED
    BY <1>2, <1>4, <2>1, <2>2, <2>4
<1>. HIDE DEF T
<1>7. Nat \subseteq T
  BY <1>5, <1>6, NumberInduction
<1>8. n - i \in Nat /\ i + (n - i) = n
  BY <1>1
<1>. QED
  BY <1>7, <1>8 DEF T, most

\* Every row of the one before every row of the other.
Precede(s, t) == \A i \in 1 .. Len(s), j \in 1 .. Len(t) : Before(s[i], t[j])

UpTo(n, rows) == \A i \in 1 .. Len(rows) : rows[i].line <= n

\* Where there are no rows, any order holds.
LEMMA EmptyOrder ==
  ASSUME NEW s, Len(s) = 0
  PROVE  /\ Ascending(s)
         /\ \A n : OfLine(n, s) /\ UpTo(n, s)
         /\ \A t : Precede(s, t) /\ Precede(t, s)
<1>1. \A i \in 1 .. Len(s) : FALSE
  OBVIOUS
<1>. QED
  BY <1>1 DEF Ascending, OfLine, UpTo, Precede

\* Rows that move on from one queue to the next keep their order.
LEMMA JoinedOrder ==
  ASSUME NEW S, NEW s \in Seq(S), NEW b \in Seq(S), NEW p \in Seq(S), NEW n,
         Ascending(s), Ascending(b), Precede(s, b), Precede(s, p), Precede(b, p), UpTo(n, s), UpTo(n, b)
  PROVE  Ascending(s \o b) /\ Precede(s \o b, p) /\ UpTo(n, s \o b)
<1>. DEFINE c == s \o b
            l == Len(s)
            m == Len(b)
<1>1. l \in Nat /\ m \in Nat /\ Len(c) = l + m
      /\ \A i \in 1 .. l + m : c[i] = IF i <= l THEN s[i] ELSE b[i - l]
  BY ConcatProperties, LenProperties
<1>. HIDE DEF c
<1>2. ASSUME NEW i \in 1 .. l + m
      PROVE  \/ i \in 1 .. l /\ c[i] = s[i]
             \/ i > l /\ i - l \in 1 .. m /\ c[i] = b[i - l]
  BY <1>1
<1>3. ASSUME NEW i \in 1 .. l + m, NEW j \in 1 .. l + m, i < j
      PROVE  Before(c[i], c[j])
  <2>1. CASE i \in 1 .. l /\ c[i] = s[i] /\ j \in 1 .. l /\ c[j] = s[j]
    BY <1>3, <2>1 DEF Ascending
  <2>2. CASE i \in 1 .. l /\ c[i] = s[i] /\ j - l \in 1 .. m /\ c[j] = b[j - l]
    BY <2>2 DEF Precede
  <2>3. CASE i - l \in 1 .. m /\ c[i] = b[i - l] /\ j - l \in 1 .. m /\ c[j] = b[j - l]
    <3>1. i - l < j - l
      BY <1>1, <1>3
    <3>. QED
      BY <2>3, <3>1 DEF Ascending
  <2>4. ~ (i > l /\ j \in 1 .. l)
    BY <1>1, <1>3
  <2>. QED
    BY <1>2, <2>1, <2>2, <2>3, <2>4
<1>4. \A i \in 1 .. l + m, j \in 1 .. Len(p) : Before(c[i], p[j])
  <2>. TAKE i \in 1 .. l + m, j \in 1 .. Len(p)
  <2>. QED
    BY <1>2 DEF Precede
<1>5. \A i \in 1 .. l + m : c[i].line <= n
  <2>. TAKE i \in 1 .. l + m
  <2>. QED
    BY <1>2 DEF UpTo
<1>6. Ascending(c) /\ Precede(c, p) /\ UpTo(n, c)
  BY <1>1, <1>3, <1>4, <1>5 DEF Ascending, Precede, UpTo
<1>. QED
  BY <1>6 DEF c

\* A row that moves from the queue to the end of the batch keeps the order of all.
LEMMA MovedOrder ==
  ASSUME NEW S, NEW s \in Seq(S), NEW b \in Seq(S), NEW p \in Seq(S), p # <<>>, NEW n \in Nat,
         Ascending(b), Ascending(p), Precede(s, b), Precede(s, p), Precede(b, p), UpTo(n, b), OfLine(n, p)
  PROVE  /\ Ascending(Append(b, Head(p))) /\ Ascending(Tail(p))
         /\ Precede(s, Append(b, Head(p))) /\ Precede(s, Tail(p)) /\ Precede(Append(b, Head(p)), Tail(p))
         /\ UpTo(n, Append(b, Head(p))) /\ OfLine(n, Tail(p))
<1>. DEFINE x == Head(p)
            t == Tail(p)
            c == Append(b, x)
            m == Len(b)
            k == Len(p) - 1
<1>1. /\ k \in Nat /\ m \in Nat /\ Len(p) = k + 1
      /\ x \in S /\ x = p[1] /\ Len(t) = k /\ \A i \in 1 .. k : t[i] = p[i + 1]
  BY HeadTailProperties, LenProperties, EmptyLength
<1>2. Len(c) = m + 1 /\ c[m + 1] = x /\ \A i \in 1 .. m : c[i] = b[i]
  BY <1>1, AppendProperties
<1>. HIDE DEF x, t, c, k
<1>3. 1 \in 1 .. Len(p) /\ \A i \in 1 .. k : i + 1 \in 1 .. Len(p) /\ 1 < i + 1
  BY <1>1
<1>4. \A i \in 1 .. m + 1 : (i \in 1 .. m /\ c[i] = b[i]) \/ (i = m + 1 /\ c[i] = p[1])
  BY <1>1, <1>2
<1>5. Ascending(c)
  <2>. SUFFICES ASSUME NEW i \in 1 .. m + 1, NEW j \in 1 .. m + 1, i < j
                PROVE  Before(c[i], c[j])
    BY <1>2 DEF Ascending
  <2>1. i \in 1 .. m /\ c[i] = b[i]
    BY <1>1, <1>4
  <2>2. CASE j \in 1 .. m /\ c[j] = b[j]
    BY <2>1, <2>2 DEF Ascending
  <2>3. CASE c[j] = p[1]
    BY <1>3, <2>1, <2>3 DEF Precede
  <2>. QED
    BY <1>4, <2>2, <2>3
<1>6. Ascending(t)
  <2>. SUFFICES ASSUME NEW i \in 1 .. k, NEW j \in 1 .. k, i < j
                PROVE  Before(t[i], t[j])
    BY <1>1 DEF Ascending
  <2>1. i + 1 < j + 1 /\ i + 1 \in 1 .. Len(p) /\ j + 1 \in 1 .. Len(p) /\ t[i] = p[i + 1] /\ t[j] = p[j + 1]
    BY <1>1, <1>3
  <2>2. Before(p[i + 1], p[j + 1])
    BY <2>1 DEF Ascending
  <2>. QED
    BY <2>1, <2>2
<1>7. Precede(s, c)
  <2>. SUFFICES ASSUME NEW i \in 1 .. Len(s), NEW j \in 1 .. m + 1
                PROVE  Before(s[i], c[j])
    BY <1>2 DEF Precede
  <2>. QED
    BY <1>3, <1>4 DEF Precede
<1>8. Precede(s, t)
  <2>. SUFFICES ASSUME NEW i \in 1 .. Len(s), NEW j \in 1 .. k
                PROVE  Before(s[i], t[j])
    BY <1>1 DEF Precede
  <2>1. j + 1 \in 1 .. Len(p) /\ t[j] = p[j + 1]
    BY <1>1, <1>3
  <2>2. Before(s[i], p[j + 1])
    BY <2>1 DEF Precede
  <2>. QED
    BY <2>1, <2>2
<1>9. Precede(c, t)
  <2>. SUFFICES ASSUME NEW i \in 1 .. m + 1, NEW j \in 1 .. k
                PROVE  Before(c[i], t[j])
    BY <1>1, <1>2 DEF Precede
  <2>1. j + 1 \in 1 .. Len(p) /\ 1 < j + 1 /\ t[j] = p[j + 1]
    BY <1>1, <1>3
  <2>2. Before(p[1], p[j + 1])
    BY <1>3, <2>1 DEF Ascending
  <2>3. i \in 1 .. m => Before(b[i], p[j + 1])
    BY <2>1 DEF Precede
  <2>. QED
    BY <1>4, <2>1, <2>2, <2>3
<1>10. UpTo(n, c)
  <2>. SUFFICES ASSUME NEW i \in 1 .. m + 1
                PROVE  c[i].line <= n
    BY <1>2 DEF UpTo
  <2>1. p[1].line = n
    BY <1>3 DEF OfLine
  <2>2. i \in 1 .. m => b[i].line <= n
    BY DEF UpTo
  <2>. QED
    BY <1>4, <2>1, <2>2
<1>11. OfLine(n, t)
  <2>. SUFFICES ASSUME NEW i \in 1 .. k
                PROVE  t[i].line = n
    BY <1>1 DEF OfLine
  <2>1. i + 1 \in 1 .. Len(p) /\ t[i] = p[i + 1]
    BY <1>1, <1>3
  <2>2. p[i + 1].line = n
    BY <2>1 DEF OfLine
  <2>. QED
    BY <2>1, <2>2
<1>. QED
  BY <1>5, <1>6, <1>7, <1>8, <1>9, <1>10, <1>11 DEF x, t, c

\* What is given, prepared and queued is in the order of the lines, and each row once.
Ordered ==
  /\ OneList(plan)
  /\ Ascending(seen) /\ Ascending(batch) /\ Ascending(pending)
  /\ Precede(seen, batch) /\ Precede(seen, pending) /\ Precede(batch, pending)
  /\ UpTo(line, seen) /\ UpTo(line, batch) /\ OfLine(line, pending)

\* How much of its limit the last slices keep for what has not been passed on yet.
Kept(next, i, rows) == next[i].limit + Len(rows) <= ops[i].limit

\* The rows that apply_ops queues come from the line at hand, in order, and count against the slices
\* behind the last list.
LEMMA AppliedOrder ==
  ASSUME StreamTypes, OneList(plan), LineAtHand, NEW applied, applied = ApplyOps(Row(line + 1, 0)),
         ~ applied.failed
  PROVE  /\ OfLine(line + 1, applied.rows) /\ Ascending(applied.rows)
         /\ \A i \in 1 .. Len(plan) :
              plan[i].op = "slice" /\ ~ Unnests(plan, i + 1, Len(plan)) /\ plan[i].limit # Unlimited
              => Kept(applied.ops, i, applied.rows)
<1>. DEFINE n == Len(ops)
            row == Row(line + 1, 0)
            f == Out(file, ops, <<row>>)
<1>1. /\ file \in Seq(Line) /\ ops \in Seq(StreamOp) /\ n = Len(plan) /\ n \in Nat
      /\ \A i \in 1 .. n : CountsDown(ops[i], plan[i]) /\ ops[i] \in StreamOp /\ ops[i].op = plan[i].op
  <2>1. file \in Seq(Line) /\ ops \in Seq(StreamOp) /\ n = Len(plan) /\ \A i \in 1 .. n : CountsDown(ops[i], plan[i])
    BY DEF StreamTypes
  <2>2. n \in Nat
    BY <2>1, LenProperties
  <2>. QED
    BY <2>1, <2>2 DEF CountsDown
<1>2. row \in RowsOf(file) /\ <<row>> \in Seq(RowsOf(file))
  BY NextLine
<1>3. applied.rows = ChainRows(file, ops, <<row>>) /\ applied.ops = After(file, ops, <<row>>)
  BY AppliedTypes
<1>4. ChainRows(file, ops, <<row>>) = f[n] /\ Chains(f, file, ops, <<row>>)
  BY <1>1, <1>2, ChainSteps
<1>5. After(file, ops, <<row>>) = [j \in 1 .. n |-> OpAfter(ops[j], Len(f[j - 1]))]
  BY DEF After
<1>6. OneList(ops)
  BY <1>1 DEF OneList
<1>7. row.line = line + 1
  BY DEF Row
<1>. HIDE DEF row, f
<1>8. OfLine(line + 1, f[n]) /\ Ascending(f[n])
  <2>1. n \in 0 .. n
    BY <1>1
  <2>2. OfLine(row.line, f[n]) /\ Ascending(f[n])
    BY <1>1, <1>2, <1>4, <1>6, <2>1, ChainOrder
  <2>. QED
    BY <1>7, <2>2
<1>9. ASSUME NEW i \in 1 .. n, plan[i].op = "slice", ~ Unnests(plan, i + 1, n), plan[i].limit # Unlimited
      PROVE  Kept(applied.ops, i, applied.rows)
  <2>. DEFINE op == ops[i]
              k == Len(f[i - 1])
  <2>1. op \in StreamOp /\ op.op = "slice" /\ op.limit # Unlimited /\ op.limit \in Nat
    <3>1. op \in StreamOp /\ op.op = "slice" /\ op.limit # Unlimited
      BY <1>1, <1>9 DEF CountsDown
    <3>. HIDE DEF op
    <3>. QED
      BY <3>1, SliceTypes
  <2>2. k \in Nat
    <3>1. i - 1 \in 0 .. n
      BY <1>1
    <3>2. f[i - 1] \in Seq(RowsOf(file))
      BY <1>4, <3>1 DEF Chains
    <3>. QED
      BY <3>2, LenProperties
  <2>3. ~ Unnests(ops, i + 1, n)
    <3>1. \A j \in i + 1 .. n : ops[j].op = plan[j].op
      BY <1>1
    <3>. QED
      BY <1>9, <3>1 DEF Unnests
  <2>4. Len(f[n]) <= Passed(op, k)
    BY <1>1, <1>2, <1>4, <1>6, <2>1, <2>3, ChainShrinks
  <2>5. Len(f[n]) \in Nat
    <3>1. n \in 0 .. n
      BY <1>1
    <3>2. f[n] \in Seq(RowsOf(file))
      BY <1>4, <3>1 DEF Chains
    <3>. QED
      BY <3>2, LenProperties
  <2>. HIDE DEF k
  <2>6. applied.ops[i] = OpAfter(op, k)
    BY <1>3, <1>5 DEF k
  <2>. HIDE DEF op
  <2>7. OpAfter(op, k).limit = op.limit - Passed(op, k) /\ Passed(op, k) \in Int
    <3>1. OpAfter(op, k).limit = op.limit - Passed(op, k)
      BY <2>1, <2>2, OpAfterType
    <3>2. Skipped(op, k) \in 0 .. k /\ Passed(op, k) \in 0 .. k - Skipped(op, k)
      BY <2>1, <2>2, SliceCounts
    <3>. QED
      BY <2>2, <3>1, <3>2
  <2>8. OpAfter(op, k).limit + Len(f[n]) <= op.limit
    BY <2>1, <2>4, <2>5, <2>7
  <2>. QED
    BY <1>3, <1>4, <2>6, <2>8 DEF Kept, op
<1>. QED
  BY <1>1, <1>3, <1>4, <1>8, <1>9

\* Every step keeps the order of rows.
LEMMA OrderedStep ==
  ASSUME StreamTypes, Control, Ordered, [Next]_vars
  PROVE  Ordered'
<1>. DEFINE R == RowsOf(file)
<1>1. seen \in Seq(R) /\ batch \in Seq(R) /\ pending \in Seq(R) /\ line \in Nat /\ Len(<<>>) = 0
  BY EmptySeq DEF StreamTypes
<1>2. plan' = plan
  BY DEF Next, vars, inputVars, AppendLine, Open, StartPull, PullOver, TimeOut, SourceEnds, ReadFails,
         LineRejected, RowFails, RowQueued, TakeRow, EndBatch, Cancel, Drop, Closed
<1>3. CASE UNCHANGED <<seen, line>> /\ batch' \in {batch, <<>>} /\ pending' \in {pending, <<>>}
  BY <1>1, <1>2, <1>3, EmptyOrder DEF Ordered
<1>4. CASE UNCHANGED vars \/ Open \/ StartPull \/ PullOver \/ TimeOut \/ SourceEnds \/ ReadFails \/ Cancel \/ Drop
           \/ Closed \/ \E l \in Appended : AppendLine(l)
  <2>1. UNCHANGED <<seen, line>> /\ batch' \in {batch, <<>>} /\ pending' \in {pending, <<>>}
    BY <1>4 DEF vars, sourceVars, AppendLine, Open, StartPull, PullOver, TimeOut, SourceEnds, ReadFails,
                Cancel, Drop, Closed, Return
  <2>. QED
    BY <1>3, <2>1
<1>5. UpTo(line + 1, seen) /\ UpTo(line + 1, batch)
  <2>1. \A rows \in Seq(R) : UpTo(line, rows) => UpTo(line + 1, rows)
    <3>. SUFFICES ASSUME NEW rows \in Seq(R), UpTo(line, rows), NEW i \in 1 .. Len(rows)
                  PROVE  rows[i].line <= line + 1
      BY DEF UpTo
    <3>1. rows[i].line <= line
      BY DEF UpTo
    <3>2. rows[i] \in R
      BY ElementOfSeq
    <3>3. rows[i].line \in Nat
      BY <3>2 DEF RowsOf
    <3>. QED
      BY <1>1, <3>1, <3>3
  <2>. QED
    BY <1>1, <2>1 DEF Ordered
<1>6. CASE LineRejected \/ RowFails
  <2>1. LineAtHand /\ LineConsumed /\ UNCHANGED <<seen, pending>> /\ batch' = <<>>
    BY <1>6 DEF LineRejected, RowFails, RowDecoded, Return
  <2>2. pending = <<>> /\ line' = line + 1
    BY <2>1, NextLine DEF LineConsumed
  <2>. QED
    BY <1>1, <1>2, <1>5, <2>1, <2>2, EmptyOrder DEF Ordered
<1>7. CASE RowQueued
  <2>. DEFINE applied == ApplyOps(Row(line + 1, 0))
  <2>1. LineAtHand /\ LineConsumed /\ ~ applied.failed /\ pending' = applied.rows /\ UNCHANGED <<seen, batch>>
    BY <1>7 DEF RowQueued, RowDecoded
  <2>2. line' = line + 1
    BY <2>1 DEF LineConsumed
  <2>3. OfLine(line + 1, applied.rows) /\ Ascending(applied.rows)
    BY <2>1, AppliedOrder DEF Ordered
  <2>. HIDE DEF applied
  <2>4. ASSUME NEW rows \in Seq(R), UpTo(line, rows)
        PROVE  Precede(rows, applied.rows)
    <3>. SUFFICES ASSUME NEW i \in 1 .. Len(rows), NEW j \in 1 .. Len(applied.rows)
                  PROVE  Before(rows[i], applied.rows[j])
      BY DEF Precede
    <3>1. rows[i].line <= line
      BY <2>4 DEF UpTo
    <3>2. rows[i] \in R
      BY ElementOfSeq
    <3>3. rows[i].line \in Nat
      BY <3>2 DEF RowsOf
    <3>4. applied.rows[j].line = line + 1
      BY <2>3 DEF OfLine
    <3>. QED
      BY <1>1, <3>1, <3>3, <3>4 DEF Before
  <2>5. Precede(seen, pending') /\ Precede(batch, pending')
    BY <1>1, <2>1, <2>4 DEF Ordered
  <2>. QED
    BY <1>2, <1>5, <2>1, <2>2, <2>3, <2>5 DEF Ordered
<1>8. CASE TakeRow
  <2>1. pending # <<>> /\ batch' = Append(batch, Head(pending)) /\ pending' = Tail(pending)
        /\ UNCHANGED <<seen, line>>
    BY <1>8 DEF TakeRow, RowAtHand, sourceVars
  <2>2. /\ Ascending(batch) /\ Ascending(pending)
        /\ Precede(seen, batch) /\ Precede(seen, pending) /\ Precede(batch, pending)
        /\ UpTo(line, batch) /\ OfLine(line, pending)
    BY DEF Ordered
  <2>3. /\ Ascending(batch') /\ Ascending(pending')
        /\ Precede(seen, batch') /\ Precede(seen, pending') /\ Precede(batch', pending')
        /\ UpTo(line, batch') /\ OfLine(line, pending')
    BY <1>1, <2>1, <2>2, MovedOrder
  <2>. QED
    BY <1>2, <2>1, <2>3 DEF Ordered
<1>9. CASE EndBatch
  <2>1. seen' = seen \o batch /\ batch' = <<>> /\ UNCHANGED <<line, pending>>
    BY <1>9 DEF EndBatch, Return, sourceVars
  <2>2. Ascending(seen \o batch) /\ Precede(seen \o batch, pending) /\ UpTo(line, seen \o batch)
    BY <1>1, JoinedOrder DEF Ordered
  <2>3. Ascending(seen') /\ Precede(seen', pending') /\ UpTo(line', seen')
    BY <2>1, <2>2, Zenon
  <2>. QED
    BY <1>1, <1>2, <2>1, <2>3, EmptyOrder DEF Ordered
<1>. QED
  BY <1>4, <1>6, <1>7, <1>8, <1>9 DEF Next

\* The last slices bound what is given, prepared and queued in all, whatever has failed.
LastSlice(i) == plan[i].op = "slice" /\ ~ Unnests(plan, i + 1, Len(plan))

Given == Len(seen) + (Len(batch) + Len(pending))

Quota ==
  \A i \in 1 .. Len(plan) :
    LastSlice(i) /\ plan[i].limit # Unlimited => ops[i].limit + Given <= plan[i].limit

\* The numbers that quotas are about.
LEMMA QuotaFacts ==
  ASSUME StreamTypes
  PROVE  /\ Len(seen) \in Nat /\ Len(batch) \in Nat /\ Len(pending) \in Nat /\ Given \in Nat
         /\ Len(plan) \in Nat
         /\ \A i \in 1 .. Len(plan) :
              plan[i].op = "slice" /\ plan[i].limit # Unlimited => ops[i].limit \in Nat /\ plan[i].limit \in Nat
<1>1. Len(seen) \in Nat /\ Len(batch) \in Nat /\ Len(pending) \in Nat /\ Len(plan) \in Nat
  BY LenProperties DEF StreamTypes
<1>2. ASSUME NEW i \in 1 .. Len(plan), plan[i].op = "slice", plan[i].limit # Unlimited
      PROVE  ops[i].limit \in Nat /\ plan[i].limit \in Nat
  <2>1. CountsDown(ops[i], plan[i]) /\ plan[i] \in StreamOp
    BY ElementOfSeq DEF StreamTypes
  <2>2. ops[i] \in StreamOp /\ ops[i].op = "slice" /\ ops[i].limit # Unlimited
    BY <1>2, <2>1 DEF CountsDown
  <2>3. ops[i].limit \in Nat \cup {Unlimited}
    BY <2>2, SliceTypes
  <2>4. plan[i].limit \in Nat \cup {Unlimited}
    BY <1>2, <2>1, SliceTypes
  <2>. QED
    BY <1>2, <2>2, <2>3, <2>4
<1>3. Given \in Nat
  BY <1>1 DEF Given
<1>. QED
  BY <1>1, <1>2, <1>3

\* A quota is kept when no slice is set back and no more is held than before.
LEMMA QuotaKept ==
  ASSUME StreamTypes, Quota, plan' = plan, NEW g \in Nat, Given' = g, g <= Given,
         \A i \in 1 .. Len(plan) : CountsDown(ops'[i], ops[i])
  PROVE  Quota'
<1>1. ASSUME NEW i \in 1 .. Len(plan), LastSlice(i), plan[i].limit # Unlimited
      PROVE  ops'[i].limit + g <= plan[i].limit
  <2>1. ops[i].limit + Given <= plan[i].limit
    BY <1>1 DEF Quota
  <2>2. ops[i].limit \in Nat /\ plan[i].limit \in Nat /\ Given \in Nat
    BY <1>1, QuotaFacts DEF LastSlice
  <2>3. CountsDown(ops'[i], ops[i]) /\ CountsDown(ops[i], plan[i]) /\ plan[i].op = "slice"
    BY <1>1 DEF StreamTypes, LastSlice
  <2>4. ops[i].op = "slice" /\ ops[i].limit # Unlimited /\ ops'[i].limit <= ops[i].limit
    <3>1. ops[i].op = "slice" /\ ops[i].limit # Unlimited
      BY <1>1, <2>3 DEF CountsDown
    <3>. QED
      BY <2>3, <3>1 DEF CountsDown
  <2>5. ops'[i].limit \in Nat
    <3>1. ops'[i] \in StreamOp /\ ops'[i].op = "slice" /\ ops'[i].limit # Unlimited
      BY <2>3, <2>4 DEF CountsDown
    <3>2. ops'[i].limit \in Nat \cup {Unlimited}
      BY <3>1, SliceTypes
    <3>. QED
      BY <3>1, <3>2
  <2>. DEFINE had == Given
              all == plan[i].limit
              was == ops[i].limit
              now == ops'[i].limit
  <2>6. was + had <= all /\ was \in Nat /\ all \in Nat /\ had \in Nat /\ now <= was /\ now \in Nat /\ g <= had
    BY <2>1, <2>2, <2>4, <2>5
  <2>. HIDE DEF had, all, was, now
  <2>7. now + g <= all
    BY ONLY <2>6, g \in Nat
  <2>. QED
    BY <2>7 DEF now, all
<1>3. \A i \in 1 .. Len(plan) : LastSlice(i)' <=> LastSlice(i)
  BY DEF LastSlice
<1>. QED
  BY <1>1, <1>3 DEF Quota

\* Every step keeps the quotas of the slices: a row that is given has been counted.
LEMMA QuotaStep ==
  ASSUME StreamTypes, Ordered, Quota, [Next]_vars
  PROVE  Quota'
<1>. DEFINE R == RowsOf(file)
<1>1. /\ seen \in Seq(R) /\ batch \in Seq(R) /\ pending \in Seq(R) /\ Len(<<>>) = 0
      /\ Len(seen) \in Nat /\ Len(batch) \in Nat /\ Len(pending) \in Nat
  BY QuotaFacts, EmptySeq DEF StreamTypes
<1>2. plan' = plan
  BY DEF Next, vars, inputVars, AppendLine, Open, StartPull, PullOver, TimeOut, SourceEnds, ReadFails,
         LineRejected, RowFails, RowQueued, TakeRow, EndBatch, Cancel, Drop, Closed
<1>3. \A i \in 1 .. Len(plan) : CountsDown(ops[i], ops[i])
  <2>1. \A i \in 1 .. Len(plan) : ops[i] \in StreamOp
    BY DEF StreamTypes, CountsDown
  <2>. QED
    BY <2>1, AfterCountsDown
<1>4. CASE UNCHANGED vars \/ Open \/ StartPull \/ PullOver \/ TimeOut \/ SourceEnds \/ ReadFails \/ Cancel \/ Drop
           \/ Closed \/ LineRejected \/ \E l \in Appended : AppendLine(l)
  <2>1. UNCHANGED <<seen, ops>> /\ batch' \in {batch, <<>>} /\ pending' \in {pending, <<>>}
    BY <1>4 DEF vars, sourceVars, AppendLine, Open, StartPull, PullOver, TimeOut, SourceEnds, ReadFails,
                Cancel, Drop, Closed, LineRejected, Return
  <2>2. Len(seen') = Len(seen) /\ Len(batch') \in {Len(batch), 0} /\ Len(pending') \in {Len(pending), 0}
    BY <1>1, <2>1
  <2>3. Given' \in Nat /\ Given' <= Given
    BY <1>1, <2>2 DEF Given
  <2>. QED
    BY <1>2, <1>3, <2>1, <2>3, QuotaKept
<1>5. CASE RowFails
  <2>. DEFINE applied == ApplyOps(Row(line + 1, 0))
  <2>1. LineAtHand /\ ops' = applied.ops /\ UNCHANGED <<seen, pending>> /\ batch' = <<>>
    BY <1>5 DEF RowFails, RowDecoded, Return
  <2>2. \A i \in 1 .. Len(plan) : CountsDown(ops'[i], ops[i])
    BY <2>1, AppliedTypes
  <2>3. Given' \in Nat /\ Given' <= Given
    BY <1>1, <2>1 DEF Given
  <2>. QED
    BY <1>2, <2>2, <2>3, QuotaKept
<1>6. CASE RowQueued
  <2>. DEFINE applied == ApplyOps(Row(line + 1, 0))
              n == Len(applied.rows)
  <2>1. /\ LineAtHand /\ ~ applied.failed /\ ops' = applied.ops /\ pending' = applied.rows
        /\ UNCHANGED <<seen, batch>>
    BY <1>6 DEF RowQueued, RowDecoded
  <2>2. pending = <<>>
    BY <2>1, NextLine
  <2>3. applied.rows \in Seq(R) /\ \A i \in 1 .. Len(plan) : CountsDown(applied.ops[i], plan[i])
    BY <2>1, AppliedTypes
  <2>4. n \in Nat
    BY <2>3, LenProperties
  <2>5. \A i \in 1 .. Len(plan) : LastSlice(i) /\ plan[i].limit # Unlimited => applied.ops[i].limit + n <= ops[i].limit
    <3>1. \A i \in 1 .. Len(plan) : LastSlice(i) /\ plan[i].limit # Unlimited => Kept(applied.ops, i, applied.rows)
      BY <2>1, AppliedOrder DEF Ordered, LastSlice
    <3>. QED
      BY <3>1 DEF Kept
  <2>6. Given' = Given + n
    <3>1. Len(pending') = n /\ Len(pending) = 0 /\ Len(batch') = Len(batch) /\ Len(seen') = Len(seen)
      BY <1>1, <2>1, <2>2
    <3>. HIDE DEF n
    <3>. QED
      BY <1>1, <2>4, <3>1 DEF Given
  <2>7. \A i \in 1 .. Len(plan) : LastSlice(i)' <=> LastSlice(i)
    BY <1>2 DEF LastSlice
  <2>. HIDE DEF applied, n
  <2>8. ASSUME NEW i \in 1 .. Len(plan), LastSlice(i), plan[i].limit # Unlimited
        PROVE  ops'[i].limit + Given' <= plan[i].limit
    <3>1. ops[i].limit + Given <= plan[i].limit
      BY <2>8 DEF Quota
    <3>2. ops[i].limit \in Nat /\ plan[i].limit \in Nat /\ Given \in Nat
      BY <2>8, QuotaFacts DEF LastSlice
    <3>3. applied.ops[i].limit \in Nat
      <4>1. CountsDown(applied.ops[i], plan[i]) /\ plan[i].op = "slice"
        BY <2>3, <2>8 DEF LastSlice
      <4>2. applied.ops[i] \in StreamOp /\ applied.ops[i].op = "slice" /\ applied.ops[i].limit # Unlimited
        BY <2>8, <4>1 DEF CountsDown
      <4>3. applied.ops[i].limit \in Nat \cup {Unlimited}
        BY <4>2, SliceTypes
      <4>. QED
        BY <4>2, <4>3
    <3>4. applied.ops[i].limit + n <= ops[i].limit
      BY <2>5, <2>8
    <3>. DEFINE had == Given
                all == plan[i].limit
                was == ops[i].limit
                now == applied.ops[i].limit
    <3>5. was + had <= all /\ was \in Nat /\ all \in Nat /\ had \in Nat /\ now + n <= was /\ now \in Nat
      BY <3>1, <3>2, <3>3, <3>4
    <3>6. ops'[i].limit = now /\ Given' = had + n
      BY <2>1, <2>6
    <3>. HIDE DEF had, all, was, now
    <3>7. now + (had + n) <= all
      BY ONLY <2>4, <3>5
    <3>. QED
      BY <3>6, <3>7 DEF all
  <2>. QED
    BY <1>2, <2>7, <2>8 DEF Quota
<1>7. CASE TakeRow
  <2>1. /\ pending # <<>> /\ batch' = Append(batch, Head(pending)) /\ pending' = Tail(pending)
        /\ UNCHANGED <<seen, ops>>
    BY <1>7 DEF TakeRow, RowAtHand, sourceVars
  <2>2. Head(pending) \in R /\ Len(pending') = Len(pending) - 1 /\ Len(pending) # 0
    BY <1>1, <2>1, HeadTailProperties, EmptyLength
  <2>3. Len(batch') = Len(batch) + 1
    BY <1>1, <2>1, <2>2, AppendProperties
  <2>4. Given' \in Nat /\ Given' <= Given
    BY <1>1, <2>1, <2>2, <2>3 DEF Given
  <2>. QED
    BY <1>2, <1>3, <2>1, <2>4, QuotaKept
<1>8. CASE EndBatch
  <2>1. seen' = seen \o batch /\ batch' = <<>> /\ UNCHANGED <<ops, pending>>
    BY <1>8 DEF EndBatch, Return, sourceVars
  <2>2. Len(seen') = Len(seen) + Len(batch) /\ Len(batch') = 0
    BY <1>1, <2>1, ConcatProperties
  <2>3. Given' \in Nat /\ Given' <= Given
    BY <1>1, <2>1, <2>2 DEF Given
  <2>. QED
    BY <1>2, <1>3, <2>1, <2>3, QuotaKept
<1>. QED
  BY <1>4, <1>5, <1>6, <1>7, <1>8 DEF Next

-----------------------------------------------------------------------------
(***************************************************************************)
(* Types, limits and order together.                                       *)
(***************************************************************************)
FullInv == LInv /\ Limited /\ Ordered /\ Quota

\* The full invariant holds initially.
LEMMA FullStart ==
  ASSUME Init
  PROVE  FullInv
<1>1. LInv
  BY StreamStart
<1>2. Len(<<>>) = 0 /\ seen = <<>> /\ batch = <<>> /\ pending = <<>> /\ pc = "new" /\ ops = plan /\ plan \in Plans
  BY EmptySeq DEF Init
<1>3. Limited
  BY <1>1, <1>2, NothingIsLimited DEF LInv, Limited, BatchLimited, PendingLimited
<1>4. OneList(plan)
  <2>1. plan \in Seq(StreamOp)
    BY <1>1 DEF LInv, StreamTypes
  <2>2. DOMAIN plan = 1 .. Len(plan)
    BY <2>1, LenProperties
  <2>. QED
    BY <1>2, <2>2, ListsAssumption DEF OneList
<1>5. Ordered
  BY <1>2, <1>4, EmptyOrder DEF Ordered
<1>6. Quota
  <2>1. Given = 0
    BY <1>2 DEF Given
  <2>2. \A i \in 1 .. Len(plan) : LastSlice(i) /\ plan[i].limit # Unlimited => plan[i].limit \in Nat
    BY <1>1, QuotaFacts DEF LInv, LastSlice
  <2>3. \A i \in 1 .. Len(plan) : LastSlice(i) /\ plan[i].limit # Unlimited => ops[i].limit + 0 <= plan[i].limit
    BY <1>2, <2>2
  <2>. QED
    BY <2>1, <2>3 DEF Quota
<1>. QED
  BY <1>1, <1>3, <1>5, <1>6 DEF FullInv

\* FullInv is an invariant of the stream, whatever becomes of its source.
LEMMA FullInvariant == SourceSpec => []FullInv
<1>1. SourceInit => FullInv
  BY FullStart DEF SourceInit
<1>2. FullInv /\ [SourceNext]_<<vars, nameVars, pinVars>> => FullInv'
  <2>. SUFFICES ASSUME FullInv, [SourceNext]_<<vars, nameVars, pinVars>>
                PROVE  FullInv'
    OBVIOUS
  <2>1. [Next]_vars
    BY StreamSteps
  <2>2. StreamTypes /\ Control /\ Whole /\ Limited /\ Ordered /\ Quota
    BY DEF FullInv, LInv
  <2>3. StreamTypes' /\ Control' /\ Whole'
    BY <2>1, <2>2, TypesStep, ControlStep, WholeStep
  <2>4. Limited' /\ Ordered' /\ Quota'
    BY <2>1, <2>2, LimitedStep, OrderedStep, QuotaStep
  <2>. QED
    BY <2>3, <2>4 DEF FullInv, LInv
<1>. QED
  BY <1>1, <1>2, PTL DEF SourceSpec

\* Rows of a file are rows.
LEMMA RowsOfAFile ==
  ASSUME NEW lines \in Seq(Line), NEW rows \in Seq(RowsOf(lines))
  PROVE  rows \in Seq(Rows) /\ DOMAIN rows = 1 .. Len(rows)
<1>1. Len(lines) \in Nat /\ Len(rows) \in Nat /\ DOMAIN rows = 1 .. Len(rows)
      /\ \A i \in 1 .. Len(rows) : rows[i] \in RowsOf(lines)
  BY LenProperties, ElementOfSeq
<1>2. RowsOf(lines) \subseteq Rows
  BY <1>1 DEF RowsOf, Rows
<1>3. rows \in [1 .. Len(rows) -> Rows]
  <2>1. rows = [i \in 1 .. Len(rows) |-> rows[i]]
    BY LenProperties
  <2>. QED
    BY <1>1, <1>2, <2>1
<1>4. rows \in Seq(Rows)
  BY <1>1, <1>3, IsASeq
<1>. QED
  BY <1>1, <1>4

\* Types, the limits of batches, and what errors leave intact: whatever file, plan, limits
\* and faults there are, a consumer that goes on after an error is never given a row twice
\* or out of order, and the slices of the plan still bound what it is given in all (apply_op,
\* next_batch, enforce_rows).
THEOREM JsonlTypeCorrect == SourceSpec => []TypeOK
<1>1. FullInv => TypeOK
  <2>. SUFFICES ASSUME FullInv PROVE TypeOK
    OBVIOUS
  <2>. DEFINE R == RowsOf(file)
  <2>1. StreamTypes /\ Control /\ Limited /\ Ordered /\ Quota
    BY DEF FullInv, LInv
  <2>2. /\ file \in Seq(Line) /\ plan \in Seq(StreamOp) /\ options \in StreamOptions
        /\ pc \in {"new", "idle", "pulling", "closed"}
        /\ extent \in 0 .. Len(file) /\ line \in 0 .. extent /\ torn \in BOOLEAN /\ scanned \in 0 .. line
        /\ ops \in Seq(StreamOp) /\ Len(ops) = Len(plan)
        /\ done \in BOOLEAN /\ cancelled \in BOOLEAN
        /\ last \in {"new", "opened", "batch", "none", "error"}
        /\ failedAt \in 0 .. Len(seen) \cup {Unlimited}
    BY <2>1 DEF StreamTypes
  <2>3. DOMAIN ops = 1 .. Len(plan) /\ DOMAIN plan = 1 .. Len(plan)
    BY <2>2, LenProperties
  <2>4. \A i \in DOMAIN ops : ops[i].op = "slice" => ops[i].offset <= plan[i].offset
    BY <2>1, <2>3 DEF StreamTypes, CountsDown
  <2>5. /\ result \in Seq(Rows) /\ pending \in Seq(Rows) /\ batch \in Seq(Rows) /\ seen \in Seq(Rows)
        /\ DOMAIN pending = 1 .. Len(pending) /\ DOMAIN seen = 1 .. Len(seen)
    BY <2>1, RowsOfAFile DEF StreamTypes
  <2>6. \A i \in DOMAIN pending : pending[i].line = line
    BY <2>1, <2>5 DEF Ordered, OfLine
  <2>7. pc = "pulling" => ~ Over(options.maxRows, Len(batch)) /\ ~ Over(options.maxBytes, TotalBytes(batch))
    BY <2>1 DEF Limited, BatchLimited
  <2>8. \A i, j \in DOMAIN seen : i < j => Before(seen[i], seen[j])
    BY <2>1, <2>5 DEF Ordered, Ascending
  <2>9. ASSUME NEW i \in 1 .. Len(plan), plan[i].op = "slice",
               \A j \in i + 1 .. Len(plan) : plan[j].op # "unnest"
        PROVE  ~ Over(plan[i].limit, Len(seen))
    <3>. SUFFICES ASSUME plan[i].limit # Unlimited
                  PROVE  ~ (Len(seen) > plan[i].limit)
      BY DEF Over
    <3>1. LastSlice(i)
      BY <2>9 DEF LastSlice, Unnests
    <3>2. ops[i].limit + Given <= plan[i].limit
      BY <2>1, <3>1 DEF Quota
    <3>3. ops[i].limit \in Nat /\ plan[i].limit \in Nat
      BY <2>1, <2>9, QuotaFacts
    <3>4. Len(seen) \in Nat /\ Len(batch) \in Nat /\ Len(pending) \in Nat
      BY <2>1, QuotaFacts
    <3>. QED
      BY <3>2, <3>3, <3>4 DEF Given
  <2>. QED
    BY <2>2, <2>3, <2>4, <2>5, <2>6, <2>7, <2>8, <2>9 DEF TypeOK
<1>. QED
  BY <1>1, FullInvariant, PTL
=============================================================================
