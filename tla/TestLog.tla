------------------------------- MODULE TestLog -------------------------------
(***************************************************************************)
(* mylog.TestHandler: handlers derived with WithAttrs and WithGroup that   *)
(* share the entries of the handler they come from, goroutines that log    *)
(* through them or write lines to a SlogWriter, and a test that waits for  *)
(* an entry with RequireEntry.                                             *)
(*                                                                         *)
(* Each critical section of the root's mutex is a step.  Time is in units  *)
(* of the pause between two polls and passes between any two steps, so     *)
(* that the test may be kept waiting wherever it is.                       *)
(***************************************************************************)
EXTENDS Integers, SequencesExt

CONSTANTS
  Handlers,   \* the *TestHandler values, derived ones not yet made
  Root,       \* what NewTestHandler returned
  Logger,     \* the handler of NewTestLogger's logger, derived from Root
  Procs,      \* goroutines that log
  Writes,     \* what they write in one go: sequences of messages and Blank
  Blank,      \* an empty line
  Vals,       \* the values of the attribute that is followed
  None,       \* no value; no handler; no entry
  Wanted,     \* the message RequireEntry looks for
  Timeouts,
  MaxLogs,    \* bound on the entries
  Horizon     \* bound on time

Msgs == UNION {{w[i] : i \in 1..Len(w)} : w \in Writes} \ {Blank}

ASSUME TestLogAssumption ==
  /\ Root \in Handlers /\ Logger \in Handlers \ {Root} /\ None \notin Handlers \cup Vals
  /\ Writes \subseteq Seq(Msgs \cup {Blank})
  /\ Wanted \in Msgs /\ Timeouts \subseteq Nat /\ MaxLogs \in Nat /\ Horizon \in Nat

VARIABLES
  parent,     \* TestHandler.parent
  attrs,      \* TestHandler.attrs, by the value it gives the attribute
  entries,    \* TestHandler.Entries
  filter,     \* TestHandler.filter is not nil
  pc, via,    \* a goroutine: where it is in Handle, and of which handler
  todo,       \* a goroutine: the lines still to log
  own,        \* a goroutine: the value its record gives the attribute
  wpc, deadline, wake, result,  \* RequireEntry
  now,
  chain,      \* history: the values given by WithAttrs, from the root to a handler
  logged,     \* history: what a goroutine was told to log, as it should be captured
  before,     \* history: how many entries there were when RequireEntry was called
  seen        \* history: how many there were at its last poll

logVars  == <<parent, attrs, entries, filter, pc, via, todo, own, chain, logged>>
waitVars == <<wpc, deadline, wake, result, before, seen>>
vars     == <<logVars, waitVars, now>>

\* A value given for the attribute replaces an older one.
Over(new, old) == IF new = None THEN old ELSE new

-----------------------------------------------------------------------------
(* Handlers.                                                               *)

\* NewTestLogger: a handler, and a logger derived from it with an attribute
\* that is not the one followed.
Init ==
  /\ parent  = [h \in Handlers |-> IF h = Logger THEN Root ELSE None]
  /\ attrs   = [h \in Handlers |-> None]
  /\ entries = [h \in Handlers |-> <<>>]
  /\ filter  = [h \in Handlers |-> FALSE]
  /\ pc      = [p \in Procs |-> "idle"]
  /\ via     = [p \in Procs |-> Root]
  /\ todo    = [p \in Procs |-> <<>>]
  /\ own     = [p \in Procs |-> None]
  /\ wpc = "idle" /\ deadline = 0 /\ wake = 0 /\ result = None /\ now = 0
  /\ chain   = [h \in Handlers |-> <<>>]
  /\ logged  = [p \in Procs |-> <<>>]
  /\ before = 0 /\ seen = 0

Made(h) == h = Root \/ parent[h] # None

\* Faulty variant: one step up is taken for the root.
ParentOf(h) == IF parent[h] = None THEN h ELSE parent[h]

\* TestHandler.root
RootOf(h) ==
  LET up[g \in Handlers] == IF parent[g] = None THEN g ELSE up[parent[g]]
  IN  up[h]

\* The copy that WithAttrs makes: what the handler had, then what is new.
NewAttrs(h, v) == Over(v, attrs[h])

Derive(h, c, v, values) ==
  /\ Made(h) /\ ~Made(c)
  /\ parent' = [parent EXCEPT ![c] = h]
  /\ attrs'  = [attrs EXCEPT ![c] = v]
  /\ chain'  = [chain EXCEPT ![c] = values]
  /\ UNCHANGED <<entries, filter, pc, via, todo, own, logged, waitVars, now>>

WithAttrs(h, c, v) == Derive(h, c, NewAttrs(h, v), Append(chain[h], v))

WithGroup(h, c) == Derive(h, c, attrs[h], chain[h])

-----------------------------------------------------------------------------
(* Logging.                                                                *)

\* The value that was given last in the chain of handlers that leads to h.
Inherited(h) == IF chain[h] = <<>> THEN None ELSE chain[h][Len(chain[h])]

\* SlogWriter.Write logs every line that is not empty.
Lines(w) ==
  LET kept[i \in 0..Len(w)] ==
        IF i = 0 THEN <<>>
        ELSE IF w[i] = Blank THEN kept[i - 1] ELSE Append(kept[i - 1], w[i])
  IN  kept[Len(w)]

Room(ms) == FoldFunction(LAMBDA l, n : Len(l) + n, Len(ms), logged) <= MaxLogs

Start(p, h, ms, v) ==
  /\ pc[p] = "idle" /\ Made(h) /\ Room(ms)
  /\ via'  = [via EXCEPT ![p] = h]
  /\ own'  = [own EXCEPT ![p] = v]
  /\ todo' = [todo EXCEPT ![p] = ms]
  /\ pc'   = [pc EXCEPT ![p] = IF ms = <<>> THEN "idle" ELSE "capture"]
  /\ logged' = [logged EXCEPT ![p] = @ \o
        [i \in 1..Len(ms) |-> [by |-> p, msg |-> ms[i], attr |-> Over(v, Inherited(h))]]]
  /\ UNCHANGED <<parent, attrs, entries, filter, chain, waitVars, now>>

\* A call of a *slog.Logger, with or without the attribute.
Log(p, h, m, v) == Start(p, h, <<m>>, v)

\* SlogWriter.Write: every line through a handler derived for its caller.
Write(p, h, w) == Start(p, h, Lines(w), None)

Goto(p, from, to) == pc[p] = from /\ pc' = [pc EXCEPT ![p] = to]

\* TestHandler.Handle: the entry is built and appended to the root's.
Capture(p) ==
  LET r == RootOf(via[p])
      e == [by |-> p, msg |-> Head(todo[p]), attr |-> Over(own[p], attrs[via[p]])]
  IN  /\ Goto(p, "capture", "filter")
      /\ entries' = [entries EXCEPT ![r] = Append(@, e)]
      /\ UNCHANGED <<parent, attrs, filter, via, todo, own, chain, logged, waitVars, now>>

\* Handle, after the unlock: a filter that says no is put in place if there is
\* none, and called, so that nothing is echoed.  No mutex guards the filter:
\* goroutines that race here store the same function, and none removes it.
CallFilter(p) ==
  LET done == Len(todo[p]) = 1 IN
  /\ Goto(p, "filter", IF done THEN "idle" ELSE "capture")
  /\ filter' = [filter EXCEPT ![RootOf(via[p])] = TRUE]
  /\ todo' = [todo EXCEPT ![p] = Tail(@)]
  /\ via'  = [via EXCEPT ![p] = IF done THEN Root ELSE @]
  /\ own'  = [own EXCEPT ![p] = IF done THEN None ELSE @]
  /\ UNCHANGED <<parent, attrs, entries, chain, logged, waitVars, now>>

-----------------------------------------------------------------------------
(* RequireEntry.                                                           *)

\* The entries that match.
FindEntries(r, m) == {i \in 1..Len(entries[r]) : entries[r][i].msg = m}

\* The loop over the entries leaves with the first match, or without one.
FirstMatch(found) ==
  IF found = {} THEN wpc' = "check" /\ UNCHANGED result
  ELSE \E i \in found : /\ \A j \in found : i <= j
                        /\ wpc' = "found" /\ result' = entries[Root][i]

RequireEntry(timeout) ==
  /\ wpc = "idle" /\ now + timeout + 1 <= Horizon
  /\ wpc' = "poll" /\ deadline' = now + timeout
  /\ before' = Len(entries[Root])
  /\ UNCHANGED <<logVars, wake, result, seen, now>>

\* Faulty variant: the deadline is looked at before the entries.
HastyPoll ==
  /\ wpc = "poll" /\ UNCHANGED <<logVars, deadline, wake, before, now>>
  /\ IF now > deadline THEN wpc' = "check" /\ UNCHANGED <<result, seen>>
     ELSE seen' = Len(entries[Root]) /\ FirstMatch(FindEntries(Root, Wanted))

\* One pass over the entries under the mutex.
Poll ==
  /\ wpc = "poll"
  /\ seen' = Len(entries[Root])
  /\ FirstMatch(FindEntries(Root, Wanted))
  /\ UNCHANGED <<logVars, deadline, wake, before, now>>

\* The deadline is looked at after the poll; the report lists what is there now.
CheckDeadline ==
  /\ wpc = "check"
  /\ wpc'  = IF now > deadline THEN "failed" ELSE "sleep"
  /\ wake' = IF now > deadline THEN 0 ELSE now + 1
  /\ UNCHANGED <<logVars, deadline, result, before, seen, now>>

\* Faulty variant: the deadline moves with the polls.
SlidingWakeUp ==
  /\ wpc = "sleep" /\ now >= wake
  /\ wpc' = "poll" /\ deadline' = now + 1
  /\ UNCHANGED <<logVars, wake, result, before, seen, now>>

WakeUp ==
  /\ wpc = "sleep" /\ now >= wake
  /\ wpc' = "poll"
  /\ wake' = 0
  /\ UNCHANGED <<logVars, deadline, result, before, seen, now>>

Tick ==
  /\ now < Horizon /\ now' = now + 1
  /\ UNCHANGED <<logVars, waitVars>>

-----------------------------------------------------------------------------

Handle(p) == Capture(p) \/ CallFilter(p)

Waiter == Poll \/ CheckDeadline \/ WakeUp

Next ==
  \/ \E h, c \in Handlers : WithGroup(h, c) \/ \E v \in Vals : WithAttrs(h, c, v)
  \/ \E p \in Procs, h \in Handlers :
       \/ \E m \in Msgs, v \in Vals \cup {None} : Log(p, h, m, v)
       \/ \E w \in Writes : Write(p, h, w)
  \/ \E p \in Procs : Handle(p)
  \/ \E t \in Timeouts : RequireEntry(t)
  \/ Waiter \/ Tick

Spec == Init /\ [][Next]_vars

\* Time passes and the test's goroutine is scheduled; those that log need not be.
LiveSpec == Spec /\ WF_vars(Waiter) /\ WF_vars(Tick)

-----------------------------------------------------------------------------
(* What the test log promises.                                             *)

\* Where in the root's entries those of p are, and how many of them there are
\* up to i.
By(p)      == {i \in 1..Len(entries[Root]) : entries[Root][i].by = p}
Rank(p, i) == Cardinality({j \in By(p) : j <= i})

\* Whatever handlers a goroutine logs through and however the goroutines
\* interleave, the root captures what it was told to log, all of it, in its
\* order and with the attributes of the whole chain of handlers.
NothingLost ==
  \A p \in Procs :
    /\ \A i \in By(p) : /\ Rank(p, i) <= Len(logged[p])
                        /\ entries[Root][i] = logged[p][Rank(p, i)]
    /\ pc[p] = "idle" => Cardinality(By(p)) = Len(logged[p])

\* RequireEntry fails only after its timeout and when its last poll, which
\* comes after the call however late the test runs, saw no match; what it
\* returns is the first match.
FailureIsHonest ==
  /\ wpc = "failed" =>
       /\ now > deadline /\ seen >= before
       /\ \A i \in 1..seen : entries[Root][i].msg # Wanted
  /\ wpc = "found" =>
       \E i \in 1..seen : /\ entries[Root][i] = result /\ result.msg = Wanted
                         /\ \A j \in 1..i - 1 : entries[Root][j].msg # Wanted

\* A test that waits for an entry goes on: it finds one or fails.
RequireReturns == (wpc = "poll") ~> (wpc \in {"found", "failed"})
=============================================================================
