------------------------------ MODULE JailPath ------------------------------
(***************************************************************************)
(* Package toolkit/jail: virtual paths, the paths a program uses, and host *)
(* paths, where a jail puts them.  An absolute clean path is the sequence  *)
(* of its components, "/" the empty one; filepath.Clean is the identity on *)
(* these.  NoJail is the empty jail, which means "not jailed".             *)
(***************************************************************************)
EXTENDS Integers, Sequences, FiniteSets

CONSTANTS
  Names,     \* the components of paths
  DotNames,  \* those that begin with "..", as in "..data"
  NoJail

ASSUME JailAssumption == DotNames \subseteq Names /\ NoJail \notin Seq(Names)

Path == Seq(Names)
Jail == Path \cup {NoJail}

\* filepath.Join(jail, v): an empty first element is skipped.
HostPath(jail, v) == IF jail = NoJail THEN v ELSE jail \o v

\* The number of components that j and p share from the root on.
Shared(j, p) ==
  Cardinality({k \in 1..Len(j) : k <= Len(p) /\ \A i \in 1..k : j[i] = p[i]})

\* filepath.Rel(j, p): that many "..", then down.
Rel(j, p) == [up   |-> Len(j) - Shared(j, p),
              down |-> SubSeq(p, Shared(j, p) + 1, Len(p))]

\* The text of Rel(j, p) begins with ".."
StartsWithDots(rel) == rel.up > 0 \/ (rel.down # <<>> /\ Head(rel.down) \in DotNames)

IsInJail(jail, p) == jail = NoJail \/ ~StartsWithDots(Rel(jail, p))

\* Joining "/" with leading ".."s drops them, and with them whatever of the
\* path is above the point where it leaves the way to the jail.
RemoveJailPrefix(jail, p) == IF jail = NoJail THEN p ELSE Rel(jail, p).down

=============================================================================
