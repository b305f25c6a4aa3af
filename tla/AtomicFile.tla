----------------------------- MODULE AtomicFile -----------------------------
(***************************************************************************)
(* What AtomicWriteFile promises to whoever reads files meanwhile: a call  *)
(* makes the directories it needs, and then one file is what it writes, as *)
(* a whole, at one moment or never.  Its other steps show nothing, an      *)
(* error or a crash may end it before any of them, and everybody else does *)
(* anything between two of them.                                           *)
(***************************************************************************)
EXTENDS SequencesExt

CONSTANTS
  Calls,
  Dir,    \* a directory
  New     \* per call: the file that contains what it writes

VARIABLES
  files,  \* what is at each path
  phase   \* where each call is

Init == phase = [c \in Calls |-> "idle"]

Goto(c, from, to) == phase[c] = from /\ phase' = [phase EXCEPT ![c] = to]

\* The call resolves its argument, makes its temporary file, writes it, or fails
\* to write it, or to rename it.
Work(c) ==
  /\ \/ Goto(c, "idle", "mkdir") \/ Goto(c, "create", "write")
     \/ Goto(c, "write", "rename") \/ Goto(c, "write", "remove")
     \/ Goto(c, "rename", "remove")
  /\ UNCHANGED files

\* The directories above the file are made: nothing else changes.
MakeParents(c) ==
  /\ Goto(c, "mkdir", "create")
  /\ DOMAIN files \subseteq DOMAIN files'
  /\ files' = [p \in DOMAIN files' |-> IF p \in DOMAIN files THEN files[p] ELSE Dir]

IsDirAt(p) == p \in DOMAIN files /\ files[p] = Dir

\* A file in a directory, or a new one, is what the call writes.
Replace(c) ==
  /\ Goto(c, "rename", "remove")
  /\ \E p \in DOMAIN files' \ {<<>>} :
       /\ IsDirAt(Front(p)) /\ ~IsDirAt(p)
       /\ files' = [q \in DOMAIN files \cup {p} |-> IF q = p THEN New[c] ELSE files[q]]

\* Calls return, or die, wherever they are.
End(ended) ==
  /\ phase' = [c \in Calls |-> IF c \in ended THEN "done" ELSE phase[c]]
  /\ UNCHANGED files

\* Somebody else does something.
Others == UNCHANGED phase

Next ==
  \/ \E c \in Calls : Work(c) \/ MakeParents(c) \/ Replace(c)
  \/ \E ended \in SUBSET Calls : End(ended)
  \/ Others

Spec == Init /\ [][Next]_<<files, phase>>
=============================================================================
