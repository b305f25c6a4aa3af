------------------------------ MODULE HostTree ------------------------------
(***************************************************************************)
(* The host's file system as package os shows it to the toolkit: a tree is *)
(* a function from the host paths that are there to nodes.  The toolkit    *)
(* makes absolute links only.  An operation yields the tree after it, or   *)
(* Failed, which leaves the tree as it was; on the path Failed it fails.   *)
(***************************************************************************)
EXTENDS JailPath, SequencesExt

CONSTANTS
  MaxLinks,  \* links followed before the host gives up
  Missing,   \* lookups: no such file or directory
  NotDir,    \* lookups: a file, or too many links, on the way
  Failed

ASSUME HostAssumption ==
  /\ MaxLinks \in Nat /\ Missing # NotDir /\ Failed \notin {Missing, NotDir}
  /\ \A answer \in {Missing, NotDir, Failed} : answer \notin Path
  /\ Failed \notin {"dir", "link", "file"}

DirNode   == [kind |-> "dir"]
LinkTo(p) == [kind |-> "link", to |-> p]
FileOf(d) == [kind |-> "file", data |-> d]

IsDir(t, p)  == p \in DOMAIN t /\ t[p].kind = "dir"
IsFile(t, p) == p \in DOMAIN t /\ t[p].kind = "file"
IsLink(t, p) == p \in DOMAIN t /\ t[p].kind = "link"

Under(t, p)     == {q \in DOMAIN t : IsPrefix(p, q)}
Put(t, p, node) == [q \in DOMAIN t \cup {p} |-> IF q = p THEN node ELSE t[q]]
Without(t, S)   == [q \in DOMAIN t \ S |-> t[q]]

\* Where the host is on a path, what is still ahead, and the links left.
Way == [at : Path, rest : Path, links : 0..MaxLinks]

\* Where p leads when every link is followed.  The last component need not be
\* there.
Walk(t, p) ==
  LET walk[s \in Way] ==
        IF s.rest = <<>> THEN s.at
        ELSE LET q    == Append(s.at, Head(s.rest))
                 more == Tail(s.rest)
             IN  CASE q \notin DOMAIN t -> IF more = <<>> THEN q ELSE Missing
                   [] IsLink(t, q) -> IF s.links = 0 THEN NotDir
                                      ELSE walk[[at    |-> <<>>, rest |-> t[q].to \o more,
                                                 links |-> s.links - 1]]
                   [] IsFile(t, q) -> IF more = <<>> THEN q ELSE NotDir
                   [] OTHER        -> walk[[at |-> q, rest |-> more, links |-> s.links]]
  IN IF p = Failed THEN NotDir ELSE walk[[at |-> <<>>, rest |-> p, links |-> MaxLinks]]

\* The entry called name of what is found at d.
EntryOf(t, d, name) ==
  CASE d \in {Missing, NotDir} -> d
    [] d \in DOMAIN t -> IF IsDir(t, d) THEN Append(d, name) ELSE NotDir
    [] OTHER -> Missing

\* The directory entry that p names, the last component not followed.
EntryAt(t, p) ==
  CASE p = Failed -> NotDir
    [] p = <<>>   -> p
    [] OTHER      -> EntryOf(t, Walk(t, Front(p)), Last(p))

Exists(t, q) == IF q \in DOMAIN t THEN q ELSE Failed

\* filepath.EvalSymlinks
EvalSymlinks(t, p) == Exists(t, Walk(t, p))

\* os.Lstat fails because nothing is there.
IsNotExist(t, p) == LET e == EntryAt(t, p) IN e # NotDir /\ e \notin DOMAIN t

IsNew(t, e) == e \notin DOMAIN t \cup {Missing, NotDir}

PutNew(t, e, node) == IF IsNew(t, e) THEN Put(t, e, node) ELSE Failed

OsMkdir(t, p) == PutNew(t, EntryAt(t, p), DirNode)

\* One round of os.MkdirAll: q is a directory, or becomes one.
DirMade(t, q) == IF t = Failed \/ IsDir(t, Walk(t, q)) THEN t ELSE OsMkdir(t, q)

OsMkdirAll(t, p) ==
  LET made[k \in 0..Len(p)] == IF k = 0 THEN t ELSE DirMade(made[k - 1], SubSeq(p, 1, k))
  IN  IF p = Failed THEN Failed ELSE made[Len(p)]

WriteAt(t, q, node) ==
  IF q \in {Missing, NotDir} \/ IsDir(t, q) THEN Failed ELSE Put(t, q, node)

\* os.WriteFile, and os.OpenFile to create or write.
OsWriteFile(t, p, node) == WriteAt(t, Walk(t, p), node)

RemoveEntry(t, e) ==
  IF e \in DOMAIN t /\ Under(t, e) = {e} THEN Without(t, {e}) ELSE Failed

OsRemove(t, p) == RemoveEntry(t, EntryAt(t, p))

RemoveBelow(t, e) ==
  CASE e = NotDir     -> Failed
    [] e \in DOMAIN t -> Without(t, Under(t, e))
    [] OTHER          -> t

OsRemoveAll(t, p) == RemoveBelow(t, EntryAt(t, p))

\* What is at o or below goes to n.
Move(t, o, n) ==
  LET To(q) == n \o SubSeq(q, Len(o) + 1, Len(q))
      rest  == Without(t, Under(t, o) \cup {n})
  IN  [q \in DOMAIN rest \cup {To(m) : m \in Under(t, o)} |->
         IF q \in DOMAIN rest THEN rest[q] ELSE t[o \o SubSeq(q, Len(n) + 1, Len(q))]]

\* os.Rename refuses an existing directory as the new name.
CanMove(t, o, n) ==
  /\ o \in DOMAIN t /\ n \notin {Missing, NotDir} /\ ~IsDir(t, n)
  /\ IsDir(t, o) => n \notin DOMAIN t /\ ~IsPrefix(o, n)

Renamed(t, o, n) == IF CanMove(t, o, n) THEN Move(t, o, n) ELSE Failed

OsRename(t, old, new) == Renamed(t, EntryAt(t, old), EntryAt(t, new))

OsSymlink(t, text, p) == PutNew(t, EntryAt(t, p), LinkTo(text))

=============================================================================
