------------------------------- MODULE MCOsFS -------------------------------
(* Small instances of OsFS for TLC: /j is a directory, /l a link to it, /z  *)
(* a directory outside of it.                                              *)
EXTENDS OsFS

CONSTANTS j, l, z, x, y, dots, old, new, w1, w2

Base == (<<>> :> DirNode) @@ (<<j>> :> DirNode) @@ (<<l>> :> LinkTo(<<j>>))
        @@ (<<z>> :> DirNode) @@ (<<z, y>> :> FileOf(<<old>>))

\* In the jail there are a file in a directory, and a name that begins with "..".
Plain == Base @@ (<<j, x>> :> DirNode) @@ (<<j, x, y>> :> FileOf(<<old>>))
              @@ (<<j, dots>> :> FileOf(<<old>>))

\* In the jail there are a link out of it, and one to a file outside.  A link
\* to itself takes the client two operations.
Linked == Base @@ (<<j, x>> :> LinkTo(<<z>>)) @@ (<<j, y>> :> LinkTo(<<z, y>>))

\* There is a link to the jail.
Looped == Base @@ (<<j, x>> :> LinkTo(<<j>>))

\* The last jail is not there, nor what it would be in.
MCWorlds == {[jail |-> <<j>>, tree |-> Linked], [jail |-> <<l>>,  tree |-> Plain],
             [jail |-> <<l>>, tree |-> Linked], [jail |-> NoJail, tree |-> Plain],
             [jail |-> <<l>>, tree |-> Looped], [jail |-> <<z, x, y>>, tree |-> Plain]}

MCArgs == {<<x>>, <<y>>, <<x, y>>, <<dots>>}
MCAtomicArgs == {<<x>>, <<x, y>>}

Alike == Permutations({w1, w2})
=============================================================================
