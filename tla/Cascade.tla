------------------------------- MODULE Cascade -------------------------------
(***************************************************************************)
(* cfgcascade.Cascade: Resolve asks the provider of each layer in the      *)
(* order of their ranks, skips those that have nothing, records errors and *)
(* merges the rest.  A provider reads files or variables that may change   *)
(* between two of them, so that each is a step.                            *)
(*                                                                         *)
(* A configuration gives a value, or NoValue, to each setting.             *)
(***************************************************************************)
EXTENDS SequencesExt, Integers

CONSTANTS
  Layers, Rank,  \* Cascade.Layers, and their ranks
  Settings,      \* the keys of a configuration
  NoValue,
  Absent,        \* Load returns os.ErrNotExist
  Error          \* Load returns another error

ASSUME CascadeAssumption ==
  IsFiniteSet(Layers) /\ Rank \in [Layers -> Int] /\ Absent # Error

VARIABLES
  sorted,    \* the layers as Resolve sorted them
  next,      \* the one to ask next, 0 outside of Resolve
  resolved,  \* the ResolvedValue
  given      \* history: what the Load of each layer asked by it returned

cascadeVars == <<sorted, next, resolved, given>>

Nothing == [s \in Settings |-> NoValue]
Zero    == [value |-> Nothing, sources |-> <<>>, errors |-> <<>>, haveBase |-> FALSE]

CascadeInit ==
  /\ sorted = <<>> /\ next = 0 /\ resolved = Zero
  /\ given = <<>>

\* Faulty variant: the most specific layer comes first.
After(l, m) == Rank[l] > Rank[m]

\* The order of Resolve; layers of one rank are in any.
Before(l, m) == Rank[l] < Rank[m]

Orders == {s \in SetToSeqs(Layers) : \A i, j \in 1..Len(s) : i < j => ~Before(s[j], s[i])}

\* MergeFn of the toolkit's callers: what the overlay gives wins.
Merge(base, overlay) ==
  [s \in Settings |-> IF overlay[s] = NoValue THEN base[s] ELSE overlay[s]]

Resolve ==
  /\ next = 0
  /\ sorted' \in Orders
  /\ next' = 1 /\ resolved' = Zero
  /\ given' = <<>>

\* One round of the loop, for a provider that returns res.
Ask(res) ==
  LET l == sorted[next] IN
  /\ next' = next + 1
  /\ given' = [m \in DOMAIN given \cup {l} |-> IF m = l THEN res ELSE given[m]]
  /\ resolved' =
       CASE res = Absent -> resolved
         [] res = Error  -> [resolved EXCEPT !.errors = Append(@, l)]
         [] OTHER        -> [resolved EXCEPT
                               !.value = IF resolved.haveBase THEN Merge(@, res) ELSE res,
                               !.sources = Append(@, l), !.haveBase = TRUE]
  /\ UNCHANGED sorted

\* The most specific source comes first in the result.
Finish ==
  /\ next = Len(sorted) + 1
  /\ next' = 0
  /\ resolved' = [resolved EXCEPT !.sources = Reverse(@)]
  /\ UNCHANGED <<sorted, given>>

\* EnvProvider.Load, for the variables that hold the settings.
LoadEnv(value) == IF value = Nothing THEN Absent ELSE value

-----------------------------------------------------------------------------

Contributes(l) == given[l] \notin {Absent, Error}

\* Each setting has the value of the most specific layer which gave one.
ValueWins ==
  \A s \in Settings :
    LET givers == {l \in DOMAIN given : Contributes(l) /\ given[l][s] # NoValue} IN
    IF givers = {} THEN resolved.value[s] = NoValue
    ELSE \E l \in givers : /\ resolved.value[s] = given[l][s]
                           /\ \A m \in givers : Rank[m] <= Rank[l]

\* The layers that contributed and those that failed are named.
Provenance ==
  /\ ToSet(resolved.sources) = {l \in DOMAIN given : Contributes(l)}
  /\ ToSet(resolved.errors) = {l \in DOMAIN given : given[l] = Error}

Descending(s) == \A i, j \in 1..Len(s) : i < j => Rank[s[i]] >= Rank[s[j]]

\* Whatever changes while it runs, Resolve has asked every layer, and returns
\* for each setting the value of the most specific one which had it, with the
\* layers that contributed, the most specific first, and those that failed
\* (docs of Cascade.Resolve and ResolvedValue).
MostSpecificWins ==
  next = 0 /\ sorted # <<>> =>
    DOMAIN given = Layers /\ ValueWins /\ Provenance /\ Descending(resolved.sources)
=============================================================================
