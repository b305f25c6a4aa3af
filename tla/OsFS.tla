-------------------------------- MODULE OsFS --------------------------------
(***************************************************************************)
(* filesystem.OsFS under a jail, with links: where each operation of       *)
(* toolkit.Runtime acts on the host, and atomicWriteFile one system call   *)
(* after the other, beside a client that changes the tree and with crashes.*)
(*                                                                         *)
(* Arguments are absolute virtual paths, as Runtime.ResolvePath passes     *)
(* them on.  The jail is fixed; module Runtime has SetJail and Setwd.      *)
(***************************************************************************)
EXTENDS HostTree

CONSTANTS
  Worlds,        \* the jails, and the trees to begin with
  Args,          \* arguments of the file operations
  AtomicArgs,    \* arguments of AtomicWriteFile
  Data,          \* what one call writes; a file contains a sequence of these
  Writers,       \* calls of AtomicWriteFile, each names its temporary file
  MaxOps,        \* bound on atomic writes and on what else changes something
  NoPath         \* no operation in progress

\* What a writer has written so far.
Part(w)  == <<[by |-> w, whole |-> FALSE]>>
Whole(w) == <<[by |-> w, whole |-> TRUE]>>

\* The paths that name no temporary file.
Lasting == Seq(Names \ Writers)

IsNode(node) ==
  \/ node = DirNode
  \/ node.kind = "link" /\ node.to \in Lasting /\ node = LinkTo(node.to)
  \/ /\ node.kind = "file" /\ node = FileOf(node.data)
     /\ node.data \in Seq({node.data[i] : i \in DOMAIN node.data})

\* The tree is one: what contains something is a directory.
IsTree(t) ==
  /\ IsDir(t, <<>>)
  /\ \A p \in DOMAIN t : /\ p \in Path /\ IsNode(t[p])
                         /\ p # <<>> => IsDir(t, Front(p))

ASSUME OsFSAssumption ==
  /\ Args \cup AtomicArgs \subseteq Lasting \ {<<>>}
  /\ Writers \subseteq Names /\ NoPath \notin Path /\ MaxOps \in Nat
  /\ \A d \in Data, w \in Writers : <<d>> # Part(w)

\* Temporary files have names of their own, and nobody has written yet.
ASSUME WorldsAssumption ==
  \A world \in Worlds :
    /\ world.jail \in Lasting \cup {NoJail} /\ IsTree(world.tree)
    /\ \A p \in DOMAIN world.tree :
         p \in Lasting /\ \A w \in Writers : world.tree[p] # FileOf(Part(w))

VARIABLES
  jail,     \* OsFS.jail
  tree,     \* the host
  pending,  \* the path whose parent Runtime.WriteFile has made
  pc, path, host,  \* atomicWriteFile: where it is, its argument, resolved
  moved,    \* history: the way to host may have changed since it was resolved
  cleared,  \* history: what was in the way to host is so no longer
  ops

vars == <<jail, tree, pending, pc, path, host, moved, cleared, ops>>

-----------------------------------------------------------------------------
(* Resolution.                                                             *)

\* resolveHost(v, false)
Lexical(v) ==
  IF jail # NoJail /\ ~IsInJail(jail, HostPath(jail, v)) THEN Failed ELSE HostPath(jail, v)

\* What the code does when the links of p cannot be followed.
OrElse(e, p) == IF e = Failed THEN p ELSE e

\* The jail with its links followed, if it is there.
CanonicalJail(t) == OrElse(EvalSymlinks(t, jail), jail)

\* Faulty variant: the jail is put before a path that has it.
JailTwice(t, p) == HostPath(jail, p)

\* The host path of a path that EvalSymlinks returned.
BackInJail(t, p) == HostPath(jail, RemoveJailPrefix(CanonicalJail(t), p))

\* A path whose links were followed must be in the jail.
Checked(t, p) == IF p # Failed /\ IsInJail(CanonicalJail(t), p) THEN p ELSE Failed

BackIfChecked(t, p) == IF Checked(t, p) = Failed THEN Failed ELSE BackInJail(t, p)

\* Faulty variant: what the links lead to is not looked at.
LexicalOnly(t, v) == Lexical(v)

\* resolveHost(v, true)
Followed(t, v) ==
  IF jail = NoJail THEN EvalSymlinks(t, v)
  ELSE BackIfChecked(t, EvalSymlinks(t, Lexical(v)))

\* How many components of p, the last one aside, are there.
Existing(t, p) ==
  CHOOSE k \in 0..Len(p) - 1 :
    /\ ~IsNotExist(t, SubSeq(p, 1, k))
    /\ \A i \in k + 1..Len(p) - 1 : IsNotExist(t, SubSeq(p, 1, i))

\* Follow the first k components of p and put the others back behind them.
Reattach(t, p, k) ==
  LET cur  == SubSeq(p, 1, k)
      base == Checked(t, OrElse(EvalSymlinks(t, cur), cur))
  IN  IF EntryAt(t, cur) = NotDir \/ base = Failed THEN Failed
      ELSE base \o SubSeq(p, k + 1, Len(p))

ParentFollowed(t, p) ==
  IF p = Failed \/ jail = NoJail \/ p = jail THEN p ELSE Reattach(t, p, Existing(t, p))

\* Faulty variant: links on the way to the parent are not looked at.
LexicalParent(t, v) == Lexical(v)

\* resolveHostForCreate
ForCreate(t, v) == ParentFollowed(t, Lexical(v))

LinkFollowed(t, p) ==
  IF p = Failed \/ jail = NoJail \/ ~IsLink(t, EntryAt(t, p)) THEN p
  ELSE Checked(t, EvalSymlinks(t, p))

\* resolveHostForOpen: a link at the end is followed too.
ForOpen(t, v) == LinkFollowed(t, ForCreate(t, v))

DataAt(t, q) == IF IsFile(t, q) THEN t[q].data ELSE Failed

ReadFile(t, v) == DataAt(t, Walk(t, Followed(t, v)))

\* Where Chmod, Chown and Chtimes (follow) and Lchown act.
Place(t, v, follow) ==
  IF follow THEN Walk(t, Followed(t, v)) ELSE EntryAt(t, ForCreate(t, v))

KindAt(t, q) == IF q \in DOMAIN t THEN t[q].kind ELSE Failed

Stat(t, v, follow) == KindAt(t, Place(t, v, follow))

\* The names in a directory.  Reading what is none fails, as if it were empty.
NamesIn(t, d) == {Last(q) : q \in {q \in DOMAIN t \ {<<>>} : IsDir(t, d) /\ Front(q) = d}}

ReadDir(t, v) == NamesIn(t, Walk(t, Followed(t, v)))

\* Faulty variant: what is before the wildcard is not looked at.
AnyPrefix(t, v) == TRUE

\* The part of the pattern before the wildcard does not lead out of the jail.
PrefixInJail(t, v) == jail = NoJail \/ v = <<>> \/ Followed(t, v) # Failed

\* Glob of the pattern v/*
Glob(t, v) ==
  IF ~PrefixInJail(t, v) THEN {}
  ELSE {RemoveJailPrefix(jail, m) :
          m \in {m \in {Append(HostPath(jail, v), n) : n \in NamesIn(t, Walk(t, HostPath(jail, v)))} :
                   IsInJail(jail, m)}}

-----------------------------------------------------------------------------
(* The client: one operation after the other.                              *)

\* An operation that fails changes nothing.
Becomes(t) == tree' = IF t = Failed THEN tree ELSE t

Call == pending = NoPath /\ ops < MaxOps

\* Runtime.WriteFile, AppendFile and OpenFile make the parent first ...
MakeParent(v) ==
  /\ Call
  /\ LET t == OsMkdirAll(tree, ForCreate(tree, Front(v)))
     IN  Becomes(t) /\ pending' = IF t = Failed THEN NoPath ELSE v
  /\ UNCHANGED <<jail, pc, path, host>>

\* ... and then call the file system.
WriteFile(v, d) ==
  /\ pending = v /\ pending' = NoPath
  /\ Becomes(OsWriteFile(tree, ForOpen(tree, v), FileOf(<<d>>)))
  /\ UNCHANGED <<jail, pc, path, host>>

OsAppend(t, p, d) ==
  OsWriteFile(t, p, FileOf(Append(OrElse(DataAt(t, Walk(t, p)), <<>>), d)))

AppendFile(v, d) ==
  /\ pending = v /\ pending' = NoPath
  /\ Becomes(OsAppend(tree, ForOpen(tree, v), d))
  /\ UNCHANGED <<jail, pc, path, host>>

\* To create or truncate: the file is there, and empty.
OpenFile(v) ==
  /\ pending = v /\ pending' = NoPath
  /\ Becomes(OsWriteFile(tree, ForOpen(tree, v), FileOf(<<>>)))
  /\ UNCHANGED <<jail, pc, path, host>>

Mkdir(v, all) ==
  /\ Call
  /\ Becomes(IF all THEN OsMkdirAll(tree, ForCreate(tree, v))
                    ELSE OsMkdir(tree, ForCreate(tree, v)))
  /\ UNCHANGED <<jail, pending, pc, path, host>>

Remove_(v, all) ==
  /\ Call
  /\ Becomes(IF all THEN OsRemoveAll(tree, ForCreate(tree, v))
                    ELSE OsRemove(tree, ForCreate(tree, v)))
  /\ UNCHANGED <<jail, pending, pc, path, host>>

Rename(src, dst) ==
  /\ Call
  /\ Becomes(OsRename(tree, ForCreate(tree, src), ForCreate(tree, dst)))
  /\ UNCHANGED <<jail, pending, pc, path, host>>

\* Faulty variant: a link contains the virtual path.
VirtualText(v) == v

LinkText(v) == Lexical(v)

Symlink(old, new) ==
  /\ Call
  /\ Becomes(IF LinkText(old) = Failed THEN Failed
             ELSE OsSymlink(tree, LinkText(old), ForCreate(tree, new)))
  /\ UNCHANGED <<jail, pending, pc, path, host>>

-----------------------------------------------------------------------------
(* AtomicWriteFile.                                                        *)

Goto(w, l) == pc' = [pc EXCEPT ![w] = l]

\* Faulty variant: the error is not looked at.
NoError(p) == FALSE

IsError(p) == p = Failed

Resolve(w, v) ==
  /\ pc[w] = "idle" /\ ops < MaxOps /\ ops' = ops + 1
  /\ LET p == ForOpen(tree, v)
     IN  IF IsError(p) THEN Goto(w, "done") /\ UNCHANGED <<path, host>>
         ELSE /\ Goto(w, "mkdir")
              /\ path' = [path EXCEPT ![w] = v] /\ host' = [host EXCEPT ![w] = p]
  /\ UNCHANGED <<jail, tree, pending>>

\* os.MkdirAll(dir)
MakeDirs(w) ==
  /\ pc[w] = "mkdir"
  /\ LET t == OsMkdirAll(tree, Front(host[w]))
     IN  Becomes(t) /\ Goto(w, IF t = Failed THEN "done" ELSE "create")
  /\ UNCHANGED <<jail, pending, path, host, ops>>

\* Faulty variant: the file is written where it belongs.
InPlace(w) == host[w]

\* The name os.CreateTemp picks is new.
TempPath(w) == Append(Front(host[w]), w)

\* os.CreateTemp: the file is there, and empty.
CreateTemp(w) ==
  /\ pc[w] = "create"
  /\ LET e == EntryAt(tree, TempPath(w))
     IN  IF IsNew(tree, e)
         THEN tree' = Put(tree, e, FileOf(Part(w))) /\ Goto(w, "write")
         ELSE tree' = tree /\ Goto(w, "done")
  /\ UNCHANGED <<jail, pending, path, host, ops>>

\* tmpFile.Write and Close go to the file wherever it is by now.
WriteTemp(w) ==
  /\ pc[w] = "write"
  /\ tree' = [p \in DOMAIN tree |->
                IF tree[p] = FileOf(Part(w)) THEN FileOf(Whole(w)) ELSE tree[p]]
  /\ Goto(w, "rename")
  /\ UNCHANGED <<jail, pending, path, host, ops>>

\* Faulty variant: an error returns at once.
Leave == "done"

\* The deferred os.Remove.
CleanUp == "remove"

\* A write or a close fails.
WriteFails(w) ==
  /\ pc[w] = "write" /\ Goto(w, CleanUp)
  /\ UNCHANGED <<jail, tree, pending, path, host, ops>>

\* os.Rename(tmpName, path), or an error of the host
Install(w) ==
  /\ pc[w] = "rename" /\ Goto(w, CleanUp)
  /\ \/ Becomes(OsRename(tree, TempPath(w), host[w]))
     \/ UNCHANGED tree
  /\ UNCHANGED <<jail, pending, path, host, ops>>

RemoveTemp(w) ==
  /\ pc[w] = "remove" /\ Goto(w, "done")
  /\ Becomes(OsRemove(tree, TempPath(w)))
  /\ UNCHANGED <<jail, pending, path, host, ops>>

Busy(w) == pc[w] \notin {"idle", "done", "crashed"}

\* The process dies.  What comes after is another one.
Crash ==
  /\ \E w \in Writers : Busy(w)
  /\ pc' = [w \in Writers |-> IF Busy(w) THEN "crashed" ELSE pc[w]]
  /\ pending' = NoPath
  /\ UNCHANGED <<jail, tree, path, host, ops>>

-----------------------------------------------------------------------------
Init ==
  /\ \E world \in Worlds : jail = world.jail /\ tree = world.tree
  /\ pending = NoPath /\ ops = 0
  /\ pc    = [w \in Writers |-> "idle"]
  /\ path  = [w \in Writers |-> NoPath]
  /\ host  = [w \in Writers |-> NoPath]
  /\ moved = [w \in Writers |-> FALSE] /\ cleared = [w \in Writers |-> FALSE]

AtomicWriteFile(w) ==
  \/ \E v \in AtomicArgs : Resolve(w, v)
  \/ MakeDirs(w) \/ CreateTemp(w) \/ WriteTemp(w) \/ WriteFails(w) \/ Install(w)
  \/ RemoveTemp(w)

Client ==
  /\ \E v \in Args :
       \/ MakeParent(v)
       \/ \E d \in Data : WriteFile(v, d) \/ AppendFile(v, d)
       \/ OpenFile(v)
       \/ \E all \in BOOLEAN : Mkdir(v, all) \/ Remove_(v, all)
       \/ \E u \in Args : Rename(v, u) \/ Symlink(v, u)
  /\ ops' = IF tree' = tree THEN ops ELSE ops + 1

\* The directories stay, and the links are the same.
WaysKept ==
  /\ \A p \in DOMAIN tree : IsDir(tree, p) => IsDir(tree', p)
  /\ \A p \in DOMAIN tree \cup DOMAIN tree' :
       IsLink(tree, p) \/ IsLink(tree', p)
         => p \in DOMAIN tree \cap DOMAIN tree' /\ tree[p] = tree'[p]

\* Before its last component p comes to a file, or to a link that leads to no
\* directory.
InTheWay(t, p) ==
  \E k \in 1..Len(p) - 1 :
    EntryAt(t, SubSeq(p, 1, k)) \in DOMAIN t /\ ~IsDir(t, Walk(t, SubSeq(p, 1, k)))

Clears(w) == InTheWay(tree, host[w]) /\ ~InTheWay(tree', host[w])

Next ==
  /\ Client \/ (\E w \in Writers : AtomicWriteFile(w)) \/ Crash
  /\ moved'   = [w \in Writers |-> moved[w] \/ (Busy(w) /\ ~WaysKept)]
  /\ cleared' = [w \in Writers |-> cleared[w] \/ (Busy(w) /\ Clears(w))]

Spec == Init /\ [][Next]_vars

-----------------------------------------------------------------------------
(* Properties.                                                             *)

\* Every variable has its type, and the tree is one.
TypeOK ==
  /\ jail \in {world.jail : world \in Worlds} /\ pending \in Args \cup {NoPath} /\ ops \in 0..MaxOps + 1
  /\ IsTree(tree)
  /\ \A w \in Writers :
       /\ pc[w] \in {"idle", "mkdir", "create", "write", "rename", "remove",
                     "done", "crashed"}
       /\ moved[w] \in BOOLEAN /\ cleared[w] \in BOOLEAN
       /\ pc[w] \in {"mkdir", "create", "write", "rename", "remove"}
            => path[w] \in AtomicArgs /\ host[w] \in Path

Inside(t, p) == jail = NoJail \/ IsPrefix(CanonicalJail(t), p)

\* Whatever links there are, a path that is resolved to something that is
\* there, links followed or not, is resolved to a place in the jail (comments
\* of ReadFile, Stat, Chmod and Lchown).
PlacesInside ==
  \A v \in Args, follow \in BOOLEAN :
    LET q == Place(tree, v, follow)
    IN  /\ q \in DOMAIN tree => Inside(tree, q)
        /\ follow /\ Followed(tree, v) # Failed => q \in DOMAIN tree

\* What ReadDir lists can be looked at under the name it has, and is what Glob
\* finds, although one follows links, one does not, and one leaves it to the
\* host.  Names that begin with ".." cannot be used in a jail.
ListedIsThere ==
  \A v \in Args \cup {<<>>} :
    LET listed == {Append(v, n) : n \in ReadDir(tree, v) \ DotNames}
    IN  /\ \A q \in listed : Stat(tree, q, FALSE) # Failed
        /\ {q \in Glob(tree, v) : Last(q) \notin DotNames} = listed

\* MakeParent makes a jail that is not there, and what is missing above it.
MadeForJail(p) ==
  /\ EvalSymlinks(tree, jail) = Failed /\ p \notin DOMAIN tree /\ IsDir(tree', p)
  /\ \E k \in 1..Len(jail) : p = Walk(tree', SubSeq(jail, 1, k))

\* An atomic write whose way is another than when it was resolved, or which
\* replaces the jail: its temporary file is beside it.
Astray(w) == moved[w] \/ cleared[w] \/ host[w] = CanonicalJail(tree)

\* What an operation creates, changes or removes is in the jail, whatever links
\* there are and whoever changes them meanwhile.
ChangesInside ==
  [][\A p \in DOMAIN tree \cup DOMAIN tree' :
       (p \notin DOMAIN tree \cap DOMAIN tree' \/ tree[p] # tree'[p])
         => \/ Inside(tree, p) \/ MadeForJail(p)
            \/ \E w \in Writers : AtomicWriteFile(w) /\ Astray(w)]_vars

\* What WriteFile, OpenFile or AtomicWriteFile left is what ReadFile reads next
\* under the same name, and AppendFile adds to what ReadFile read: they resolve
\* it differently, and to the same file.
ReadsBack ==
  [][/\ \A v \in Args, d \in Data : tree' # tree =>
          /\ WriteFile(v, d) => ReadFile(tree', v) = <<d>>
          /\ AppendFile(v, d) =>
               ReadFile(tree', v) = Append(OrElse(ReadFile(tree, v), <<>>), d)
          /\ OpenFile(v) => ReadFile(tree', v) = <<>>
     /\ \A w \in Writers :
          Install(w) /\ tree' # tree /\ ~moved[w] => ReadFile(tree', path[w]) = Whole(w)]_vars

\* A link leads where its text says, in the jail: reading it is reading what it
\* was made from (comment of Symlink).
LinkLeads ==
  [][\A old, new \in Args :
       Symlink(old, new) /\ tree' # tree
         => ReadFile(tree', new) = ReadFile(tree', old)]_vars

\* A file is what it was or what was written, as a whole, at any moment of any
\* number of atomic writes, errors and crashes: only temporary files are partial.
OnlyTempsArePartial ==
  \A p \in DOMAIN tree, w \in Writers : tree[p] = FileOf(Part(w)) => Last(p) = w

\* Whoever does not look at temporary files sees this.
Visible == [p \in {p \in DOMAIN tree : p = <<>> \/ Last(p) \notin Writers} |-> tree[p]]

\* A call that died is over.
Phase == [w \in Writers |-> IF pc[w] = "crashed" THEN "done" ELSE pc[w]]

WholeFiles == [w \in Writers |-> FileOf(Whole(w))]

Atomic == INSTANCE AtomicFile WITH
  Calls <- Writers, Dir <- DirNode, New <- WholeFiles, files <- Visible, phase <- Phase

\* An atomic write replaces one file by what it writes, as a whole, at one
\* moment or never, whoever changes what meanwhile; apart from the directories
\* above it nothing else that it does is seen (comment of AtomicWriteFile).
ReplacesAtOnce == Atomic!Spec

\* An atomic write leaves no temporary file behind, also when it fails; it may
\* if it crashes, or if somebody moves the directory meanwhile.
NoLitter ==
  \A w \in Writers : pc[w] = "done" /\ ~moved[w] =>
    \A p \in DOMAIN tree \ {<<>>} : Last(p) # w

=============================================================================
