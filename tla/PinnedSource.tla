---------------------------- MODULE PinnedSource ----------------------------
(***************************************************************************)
(* The source of a JSONL stream (engines/jsonl/src/source.rs): a model is  *)
(* bound to a file below the root, whose handle is kept, and each          *)
(* execution resolves the path again and reads only if it still leads to   *)
(* the file that was pinned.  Every system call is a step, and another     *)
(* process may remove, create, rename and link files between them.         *)
(*                                                                         *)
(* A file is told from others by its inode (same_file on Unix), and an     *)
(* inode can be used again once no name and no handle keeps it; `gen` is   *)
(* the file itself.  There is one model; binding it again is refused       *)
(* without effect.  Names no longer matter once the stream has its handle. *)
(***************************************************************************)
EXTENDS JsonlStream

CONSTANTS
  Names,            \* paths
  Root,             \* those below the root of the engine
  BoundName,        \* the path the model is bound to
  Inodes,           \* inode numbers
  Directory,        \* what every path is at first
  Disturbed,        \* the requests <<file, plan, options>> that other processes disturb
  MaxReplacements   \* bound on what they do

ASSUME SourceAssumption == Root \subseteq Names /\ BoundName \in Root /\ MaxReplacements \in Nat

Nothing == [kind |-> "none"]

FileNode == [kind : {"file", "dir"}, ino : Inodes, gen : Nat]

Entry == {Nothing} \cup FileNode \cup [kind : {"link"}, to : Names]

\* At first, as ever, the files of one inode are one file.
ASSUME DirectoryAssumption ==
  /\ Directory \in [Names -> Entry]
  /\ \A m, n \in Names :
       Directory[m] \in FileNode /\ Directory[n] \in FileNode /\ Directory[m].ino = Directory[n].ino
       => Directory[m] = Directory[n]

VARIABLES
  entries,     \* what every path is: nothing, a file, a directory or a link
  born,        \* files created (history)
  left,        \* changes other processes may still make
  step,        \* the system call that is next
  path,        \* JsonlSource.path
  canonical,   \* the path as resolved for this execution
  metadata,    \* what it was when inspected
  pinned,      \* JsonlSource.file
  reader       \* the handle just opened, then the stream's

nameVars == <<entries, born, left>>
pinVars == <<step, path, canonical, metadata, pinned, reader>>

SourceInit ==
  /\ Init
  /\ entries = Directory
  /\ born = 0 /\ left = IF <<file, plan, options>> \in Disturbed THEN MaxReplacements ELSE 0
  /\ step = "unbound" /\ path = BoundName /\ canonical = BoundName
  /\ metadata = Nothing /\ pinned = Nothing /\ reader = Nothing

\* Paths lead through at most one link.
Target(name) == IF entries[name].kind = "link" THEN entries[name].to ELSE name

Node(name) == entries[Target(name)]

Exists(name) == Node(name).kind \in {"file", "dir"}

Resolves(name) == Exists(name) /\ Target(name) \in Root

SameFile(a, b) == a.ino = b.ino

-----------------------------------------------------------------------------
(***************************************************************************)
(* Other processes.                                                        *)
(***************************************************************************)
\* Mutation: the source remembers the metadata of its file and closes it.
Held_Closed == {reader}

\* The files that handles keep.
Held == {pinned, reader}

InUse == {node.ino : node \in {n \in Held \cup {entries[m] : m \in Names} : n.kind \in {"file", "dir"}}}

Interfere(changed) ==
  /\ pc = "new" /\ left > 0
  /\ entries' = [n \in Names |-> IF n \in DOMAIN changed THEN changed[n] ELSE entries[n]]
  /\ left' = left - 1
  /\ UNCHANGED <<vars, pinVars>>

Unlink(n) == entries[n] # Nothing /\ Interfere([m \in {n} |-> Nothing]) /\ UNCHANGED born

Create(n, kind, ino) ==
  /\ entries[n] = Nothing /\ ino \notin InUse
  /\ born' = born + 1
  /\ Interfere([m \in {n} |-> [kind |-> kind, ino |-> ino, gen |-> born']])

Rename(n, to) ==
  /\ n # to /\ entries[n] # Nothing /\ entries[to].kind # "dir"
  /\ Interfere([m \in {n, to} |-> IF m = to THEN entries[n] ELSE Nothing])
  /\ UNCHANGED born

MakeLink(n, to) ==
  /\ n # to /\ entries[n] = Nothing /\ \A m \in Names : entries[m].kind # "link"
  /\ Interfere([m \in {n} |-> [kind |-> "link", to |-> to]])
  /\ UNCHANGED born

-----------------------------------------------------------------------------
(***************************************************************************)
(* bind_definition.  An error leaves the model unbound.                    *)
(***************************************************************************)
Advance(from, ok, to, back) == step = from /\ step' = IF ok THEN to ELSE back

ResolvePath ==
  /\ step = "unbound" /\ Resolves(BoundName)
  /\ step' = "resolved" /\ path' = Target(BoundName)
  /\ UNCHANGED <<vars, nameVars, canonical, metadata, pinned, reader>>

InspectPath ==
  /\ Advance("resolved", Node(path).kind = "file", "inspected", "unbound")
  /\ UNCHANGED <<vars, nameVars, path, canonical, metadata, pinned, reader>>

OpenPath ==
  /\ Advance("inspected", Exists(path), "pinning", "unbound")
  /\ reader' = IF Exists(path) THEN Node(path) ELSE Nothing
  /\ UNCHANGED <<vars, nameVars, path, canonical, metadata, pinned>>

\* The path is inspected again and has to lead to the file that was opened.
PinFile ==
  LET unchanged == Exists(path) /\ SameFile(reader, Node(path))
  IN  /\ Advance("pinning", unchanged, "bound", "unbound")
      /\ pinned' = IF unchanged THEN reader ELSE Nothing
      /\ reader' = Nothing
      /\ UNCHANGED <<vars, nameVars, path, canonical, metadata>>

-----------------------------------------------------------------------------
(***************************************************************************)
(* JsonlSource::open_file.  After an error the query may be tried again.   *)
(***************************************************************************)
Executable == options.batchRows # 0 /\ options.maxScanned # 0

Canonicalize ==
  /\ step = "bound" /\ pc = "new" /\ Executable /\ Resolves(path)
  /\ step' = "canonical" /\ canonical' = Target(path)
  /\ UNCHANGED <<vars, nameVars, path, metadata, pinned, reader>>

Examine ==
  /\ Advance("canonical", Node(canonical).kind = "file", "examined", "bound")
  /\ metadata' = Node(canonical)
  /\ UNCHANGED <<vars, nameVars, path, canonical, pinned, reader>>

Reopen ==
  /\ Advance("examined", Exists(canonical), "reopened", "bound")
  /\ reader' = IF Exists(canonical) THEN Node(canonical) ELSE Nothing
  /\ UNCHANGED <<vars, nameVars, path, canonical, metadata, pinned>>

StillPinned == SameFile(pinned, metadata) /\ SameFile(pinned, reader)

OpenPinned ==
  /\ step = "reopened" /\ StillPinned
  /\ Open
  /\ step' = "reading"
  /\ UNCHANGED <<nameVars, path, canonical, metadata, pinned, reader>>

OpenReplaced ==
  /\ step = "reopened" /\ ~ StillPinned
  /\ step' = "bound" /\ reader' = Nothing
  /\ UNCHANGED <<vars, nameVars, path, canonical, metadata, pinned>>

\* Neither binding nor opening gets further than a path that does not resolve, or not to
\* one below the root.
Unresolved ==
  /\ pc = "new"
  /\ \/ step = "unbound" /\ ~ Resolves(BoundName)
     \/ step = "bound" /\ Executable /\ ~ Resolves(path)
  /\ UNCHANGED <<vars, nameVars, pinVars>>

\* Options that are refused before the file is looked at.
OpenRefused == step = "bound" /\ ~ Executable /\ Open /\ UNCHANGED <<nameVars, pinVars>>

UseStream ==
  /\ \/ \E l \in Appended : AppendLine(l)
     \/ StartPull \/ PullOver \/ TimeOut
     \/ SourceEnds \/ ReadFails \/ LineRejected \/ RowFails \/ RowQueued
     \/ TakeRow \/ EndBatch
     \/ Cancel \/ Drop \/ Closed
  /\ UNCHANGED <<nameVars, pinVars>>

SourceNext ==
  \/ \E n \in Names : Unlink(n)
  \/ \E n \in Names, kind \in {"file", "dir"}, ino \in Inodes : Create(n, kind, ino)
  \/ \E n, to \in Names : Rename(n, to) \/ MakeLink(n, to)
  \/ ResolvePath \/ InspectPath \/ OpenPath \/ PinFile
  \/ Canonicalize \/ Examine \/ Reopen \/ OpenPinned \/ OpenReplaced \/ OpenRefused \/ Unresolved
  \/ UseStream

SourceSpec == SourceInit /\ [][SourceNext]_<<vars, nameVars, pinVars>>

-----------------------------------------------------------------------------
\* A stream reads the very file that was pinned when its model was bound, and a regular
\* one, whatever names and inodes were replaced between any two system calls of binding
\* and opening (bind_definition, open_file).  What keeps an inode from coming back as
\* another file is the handle that the source holds.
SourceIsPinned == step = "reading" => reader = pinned /\ reader.kind = "file"
=============================================================================
