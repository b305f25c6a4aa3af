------------------------------ MODULE Scheduler ------------------------------
(***************************************************************************)
(* The event scheduler behind clock.TestClock (clock/scheduler.go,         *)
(* clock/clock.go): a min-heap of entries ordered by (deadline, id),       *)
(* guarded by scheduler.mu; tickers whose state is shared by all their     *)
(* re-inserted entries; AfterFunc timers, whose handle holds an            *)
(* indirection to the current entry guarded by testTimer.mu; and           *)
(* Advance, which collects what is due under the lock and delivers it      *)
(* after releasing the lock.                                               *)
(*                                                                         *)
(* Every lock-protected section is one step, except that Advance's drain   *)
(* loop takes one step per iteration with the lock held and its delivery   *)
(* loop one step per event without it.  Calls that are a single critical   *)
(* section (NewTicker, After, AfterFunc, Ticker.Stop, Set) are made by any *)
(* goroutine, AfterFunc callbacks included; calls that take several steps  *)
(* are made by the goroutines in Procs.                                    *)
(***************************************************************************)
EXTENDS Integers, Sequences, FiniteSets

CONSTANTS
  Tickers,     \* handles NewTicker can return (*testTicker and its tickerState)
  Timers,      \* handles AfterFunc can return (*testTimer)
  Afters,      \* channels After can return
  Procs,       \* goroutines in the middle of Advance, Timer.Stop, Timer.Reset
  Advancers,   \* those of them that call Advance
  NoProc,      \* the owner of a free mutex
  Durations,   \* durations given to NewTicker, After, AfterFunc and Reset
  Steps,       \* durations given to Advance
  SetTimes,    \* times given to TestClock.Set
  MaxID,       \* bound on ids: no registration, no new Reset once it is reached
  Horizon      \* bound on time: Advance does not go beyond it

Handles == Tickers \cup Timers \cup Afters
Chans   == Tickers \cup Afters

ASSUME SchedulerAssumption ==
  /\ Tickers \cap Timers = {} /\ Tickers \cap Afters = {} /\ Timers \cap Afters = {}
  /\ Advancers \subseteq Procs
  /\ NoProc \notin Procs \cup Handles
  /\ Durations \subseteq Int
  /\ Steps \subseteq Int
  /\ SetTimes \subseteq Int
  /\ MaxID \in Nat
  /\ Horizon \in Int

\* No time is mistaken for the absence of one.
ASSUME NoProcIsNoTime == NoProc \notin Int

VARIABLES
  now,        \* TestClock.now, in ticks since the seed
  mu,         \* scheduler.mu: its owner, or NoProc
  nextID,     \* scheduler.nextID
  entry,      \* every schedEntry allocated so far, by id
  entries,    \* scheduler.entries: the ids in the heap
  made,       \* the handles that exist
  period,     \* tickerState.period
  stopped,    \* tickerState.stopped
  ch,         \* the tick and After channels, of capacity 1
  ref,        \* *testTimer.entryRef: the id of the timer's current entry
  tmMu,       \* testTimer.mu
  pc,         \* where each goroutine is in its call
  target,     \* local of advance: newNow
  fires,      \* local of advance: what to fire, as entry ids
  timer,      \* local of Stop and Reset: the receiver
  fresh,      \* local of Reset: the entry resetTimer returned
  \* History, read by the properties only.
  fired,      \* ids of the entries an advance has collected
  launched,   \* ids of the entries whose callback has been started
  reported,   \* ids of the entries for which Stop or Reset returned true
  lastDue,    \* per ticker: deadline of the last tick collected, or its creation
  lastSent    \* per ticker: last tick put on its channel, or its creation

sched  == <<now, mu, nextID, entry, entries>>
tick   == <<made, period, stopped, ch>>
locks  == <<ref, tmMu>>
frame  == <<pc, target, fires, timer, fresh>>
ghost  == <<fired, launched, reported, lastDue, lastSent>>
vars   == <<sched, tick, locks, frame, ghost>>

Entry == [deadline : Int, obj : Handles, dead : BOOLEAN]
NoTimer == NoProc

-----------------------------------------------------------------------------
(* The heap.                                                               *)

\* Faulty variant: equal deadlines in reverse registration order.
LessLIFO(e, f) ==
  \/ entry[e].deadline < entry[f].deadline
  \/ entry[e].deadline = entry[f].deadline /\ e > f

\* schedHeap.Less: by deadline, ties by id, which is registration order.
Less(e, f) ==
  \/ entry[e].deadline < entry[f].deadline
  \/ entry[e].deadline = entry[f].deadline /\ e < f

\* s.entries[0], the entry heap.Pop returns.
IsTop(e) ==
  /\ e \in entries
  /\ \A f \in entries \ {e} : Less(e, f)

\* A fresh entry for obj, due at t; its id is the next one.
Alloc(tbl, obj, t) ==
  [e \in 1..(nextID + 1) |->
     IF e = nextID + 1 THEN [deadline |-> t, obj |-> obj, dead |-> FALSE]
                       ELSE tbl[e]]

\* Faulty variant: allocID returns the counter before incrementing it.
PushStale(tbl, heap, obj, t) ==
  /\ nextID'  = nextID + 1
  /\ entry'   = Alloc(tbl, obj, t)
  /\ entries' = heap \cup {nextID}

\* allocID followed by heap.Push of the new entry on `heap`.
Push(tbl, heap, obj, t) ==
  /\ nextID'  = nextID + 1
  /\ entry'   = Alloc(tbl, obj, t)
  /\ entries' = heap \cup {nextID + 1}

\* Faulty variant: the top entry is looked at and left in the heap.
PeekHeap(e) == entries

\* heap.Pop of e.
PopHeap(e) == entries \ {e}

\* Faulty variant: the tombstone is lost.
KillNothing(e) == entry

\* e.dead = true.
Kill(e) == [entry EXCEPT ![e].dead = TRUE]

\* Faulty variant: a stopped ticker is not skipped.
SkippedIfDead(e) == entry[e].dead

\* The entries the drain loop skips: tombstones, and a stopped ticker's.
Skipped(e) == entry[e].dead \/ (entry[e].obj \in Tickers /\ stopped[entry[e].obj])

-----------------------------------------------------------------------------
(* Registration and the clock's setter: one critical section each.         *)

Init ==
  /\ now = 0 /\ mu = NoProc /\ nextID = 0 /\ entry = <<>> /\ entries = {}
  /\ made = {}
  /\ period  = [h \in Tickers |-> 0]
  /\ stopped = [h \in Tickers |-> FALSE]
  /\ ch      = [c \in Chans |-> <<>>]
  /\ ref     = [h \in Timers |-> 0]
  /\ tmMu    = [h \in Timers |-> NoProc]
  /\ pc      = [p \in Procs |-> "idle"]
  /\ target  = [p \in Procs |-> 0]
  /\ fires   = [p \in Procs |-> <<>>]
  /\ timer   = [p \in Procs |-> NoTimer]
  /\ fresh   = [p \in Procs |-> 0]
  /\ fired = {} /\ launched = {} /\ reported = {}
  /\ lastDue  = [h \in Tickers |-> 0]
  /\ lastSent = [h \in Tickers |-> 0]

\* TestClock.NewTicker: panics on a non-positive interval, before any change.
NewTicker(h, d) ==
  /\ h \in Tickers \ made /\ mu = NoProc /\ nextID < MaxID
  /\ d > 0
  /\ Push(entry, entries, h, now + d)
  /\ made'     = made \cup {h}
  /\ period'   = [period EXCEPT ![h] = d]
  /\ lastDue'  = [lastDue EXCEPT ![h] = now]
  /\ lastSent' = [lastSent EXCEPT ![h] = now]
  /\ UNCHANGED <<now, mu, stopped, ch, locks, frame, fired, launched, reported>>

\* TestClock.After.
After(c, d) ==
  /\ c \in Afters \ made /\ mu = NoProc /\ nextID < MaxID
  /\ Push(entry, entries, c, now + d)
  /\ made' = made \cup {c}
  /\ UNCHANGED <<now, mu, period, stopped, ch, locks, frame, ghost>>

\* TestClock.AfterFunc.
AfterFunc(h, d) ==
  /\ h \in Timers \ made /\ mu = NoProc /\ nextID < MaxID
  /\ Push(entry, entries, h, now + d)
  /\ made' = made \cup {h}
  /\ ref'  = [ref EXCEPT ![h] = nextID + 1]
  /\ UNCHANGED <<now, mu, period, stopped, ch, tmMu, frame, ghost>>

\* testTicker.Stop and scheduler.stopTicker.
StopTicker(h) ==
  /\ h \in Tickers \cap made /\ mu = NoProc
  /\ stopped' = [stopped EXCEPT ![h] = TRUE]
  /\ UNCHANGED <<sched, made, period, ch, locks, frame, ghost>>

\* TestClock.Set: no event fires, whatever the new time.
Set(t) ==
  /\ mu = NoProc
  /\ now' = t
  /\ UNCHANGED <<mu, nextID, entry, entries, tick, locks, frame, ghost>>

\* A receiver takes the value buffered in a tick or After channel.
Receive(c) ==
  /\ ch[c] # <<>>
  /\ ch' = [ch EXCEPT ![c] = Tail(@)]
  /\ UNCHANGED <<sched, made, period, stopped, locks, frame, ghost>>

-----------------------------------------------------------------------------
(* Timer.Stop and Timer.Reset: testTimer.mu first, scheduler.mu inside it. *)

\* Faulty variant: tm.mu is not waited for.
BargeTimer(p, h, next) ==
  /\ pc[p] = "idle" /\ h \in Timers \cap made
  /\ tmMu'  = [tmMu EXCEPT ![h] = p]
  /\ pc'    = [pc EXCEPT ![p] = next]
  /\ timer' = [timer EXCEPT ![p] = h]
  /\ UNCHANGED <<sched, tick, ref, target, fires, fresh, ghost>>

LockTimer(p, h, next) ==
  /\ pc[p] = "idle" /\ h \in Timers \cap made /\ tmMu[h] = NoProc
  /\ tmMu'  = [tmMu EXCEPT ![h] = p]
  /\ pc'    = [pc EXCEPT ![p] = next]
  /\ timer' = [timer EXCEPT ![p] = h]
  /\ UNCHANGED <<sched, tick, ref, target, fires, fresh, ghost>>

UnlockTimer(p) ==
  /\ tmMu'  = [tmMu EXCEPT ![timer[p]] = NoProc]
  /\ pc'    = [pc EXCEPT ![p] = "idle"]
  /\ timer' = [timer EXCEPT ![p] = NoTimer]

\* testTimer.Stop takes tm.mu and reads the entry pointer.
Stop(p, h) == LockTimer(p, h, "cancel")

\* scheduler.cancel: tombstone the entry; true iff it was not one already.
Cancel(p) ==
  LET e == ref[timer[p]] IN
  /\ pc[p] = "cancel" /\ mu = NoProc
  /\ entry'    = Kill(e)
  /\ reported' = IF entry[e].dead THEN reported ELSE reported \cup {e}
  /\ UnlockTimer(p)
  /\ UNCHANGED <<now, mu, nextID, entries, tick, ref, target, fires, fresh,
                 fired, launched, lastDue, lastSent>>

\* testTimer.Reset takes tm.mu and reads the entry pointer.
Reset(p, h) == nextID < MaxID /\ LockTimer(p, h, "reset")

\* scheduler.resetTimer: tombstone the old entry, push a fresh one.
ResetTimer(p, d) ==
  LET e == ref[timer[p]] IN
  /\ pc[p] = "reset" /\ mu = NoProc
  /\ Push(Kill(e), entries, timer[p], now + d)
  /\ reported' = IF entry[e].dead THEN reported ELSE reported \cup {e}
  /\ fresh'    = [fresh EXCEPT ![p] = nextID + 1]
  /\ pc'       = [pc EXCEPT ![p] = "store"]
  /\ UNCHANGED <<now, mu, tick, locks, target, fires, timer,
                 fired, launched, lastDue, lastSent>>

\* *tm.entryRef = newEntry, and tm.mu released.
StoreRef(p) ==
  /\ pc[p] = "store"
  /\ ref'   = [ref EXCEPT ![timer[p]] = fresh[p]]
  /\ fresh' = [fresh EXCEPT ![p] = 0]
  /\ UnlockTimer(p)
  /\ UNCHANGED <<sched, tick, target, fires, ghost>>

-----------------------------------------------------------------------------
(* scheduler.advance.                                                      *)

\* Where advance is once `q` is what it still has to fire.
Firing(q) == IF q = <<>> THEN "idle" ELSE "fire"

\* Takes scheduler.mu and computes newNow.
Advance(p, d) ==
  /\ p \in Advancers /\ pc[p] = "idle" /\ mu = NoProc
  /\ now + d <= Horizon
  /\ mu'     = p
  /\ target' = [target EXCEPT ![p] = now + d]
  /\ pc'     = [pc EXCEPT ![p] = "drain"]
  /\ UNCHANGED <<now, nextID, entry, entries, tick, locks, fires, timer, fresh, ghost>>

\* Faulty variant: the window is open on the right.
OverdueAt(e, t) == entry[e].deadline < t

\* !top.deadline.After(newNow).
DueAt(e, t) == entry[e].deadline <= t

\* The top of the heap is due: the body of the drain loop runs.
Due(p, e) == pc[p] = "drain" /\ IsTop(e) /\ DueAt(e, target[p])

\* Pops a tombstone or a stopped ticker's entry.
Drop(p, e) ==
  /\ Due(p, e) /\ Skipped(e)
  /\ entries' = PopHeap(e)
  /\ UNCHANGED <<now, mu, nextID, entry, tick, locks, frame, ghost>>

\* Faulty variant: what came due last is fired first.
QueueFirst(q, e) == <<e>> \o q

\* fires = append(fires, ...).
Queue(q, e) == Append(q, e)

\* Pops a one-shot entry and remembers to fire it.
Collect(p, e) ==
  /\ Due(p, e) /\ ~Skipped(e) /\ entry[e].obj \notin Tickers
  /\ entries' = PopHeap(e)
  /\ fires'   = [fires EXCEPT ![p] = Queue(@, e)]
  /\ fired'   = fired \cup {e}
  /\ UNCHANGED <<now, mu, nextID, entry, tick, locks, pc, target, timer, fresh,
                 launched, reported, lastDue, lastSent>>

\* Faulty variant: the period counts from the time Advance moves to.
DriftingDeadline(p, e) == target[p] + period[entry[e].obj]

\* The next deadline of the ticker whose entry e is due.
NextDeadline(p, e) == entry[e].deadline + period[entry[e].obj]

\* Pops a ticker's entry, remembers to fire it, and re-inserts the ticker one
\* period after the deadline that has come due.
CollectTick(p, e) ==
  LET h == entry[e].obj IN
  /\ Due(p, e) /\ ~Skipped(e) /\ h \in Tickers
  /\ Push(entry, PopHeap(e), h, NextDeadline(p, e))
  /\ fires'   = [fires EXCEPT ![p] = Queue(@, e)]
  /\ fired'   = fired \cup {e}
  /\ lastDue' = [lastDue EXCEPT ![h] = entry[e].deadline]
  /\ UNCHANGED <<now, mu, tick, locks, pc, target, timer, fresh,
                 launched, reported, lastSent>>

\* Nothing more is due: time moves and the lock is released.
Release(p) ==
  /\ pc[p] = "drain"
  /\ \A e \in entries : ~DueAt(e, target[p])
  /\ now'    = target[p]
  /\ mu'     = NoProc
  /\ target' = [target EXCEPT ![p] = 0]
  /\ pc'     = [pc EXCEPT ![p] = Firing(fires[p])]
  /\ UNCHANGED <<nextID, entry, entries, tick, locks, fires, timer, fresh, ghost>>

NextFire(p) ==
  /\ pc[p] = "fire"
  /\ fires' = [fires EXCEPT ![p] = Tail(@)]
  /\ pc'    = [pc EXCEPT ![p] = Firing(Tail(fires[p]))]

\* Faulty variant: a plain send, which waits for room.
BlockingSend(c, t) == ch[c] = <<>> /\ ch' = [ch EXCEPT ![c] = <<t>>]

\* A send in a select with a default: dropped when the buffer is full.
TrySend(c, t) == ch' = [ch EXCEPT ![c] = IF @ = <<>> THEN <<t>> ELSE @]

\* Delivers a tick.
SendTick(p) ==
  LET e == Head(fires[p])
      h == entry[e].obj IN
  /\ NextFire(p) /\ h \in Tickers
  /\ TrySend(h, entry[e].deadline)
  /\ lastSent' = IF ch[h] = <<>> THEN [lastSent EXCEPT ![h] = entry[e].deadline] ELSE lastSent
  /\ UNCHANGED <<sched, made, period, stopped, locks, target, timer, fresh,
                 fired, launched, reported, lastDue>>

\* Delivers the value of an After channel.
SendAfter(p) ==
  LET e == Head(fires[p]) IN
  /\ NextFire(p) /\ entry[e].obj \in Afters
  /\ TrySend(entry[e].obj, entry[e].deadline)
  /\ UNCHANGED <<sched, made, period, stopped, locks, target, timer, fresh, ghost>>

\* go fn().
Launch(p) ==
  LET e == Head(fires[p]) IN
  /\ NextFire(p) /\ entry[e].obj \in Timers
  /\ launched' = launched \cup {e}
  /\ UNCHANGED <<sched, tick, locks, target, timer, fresh,
                 fired, reported, lastDue, lastSent>>

-----------------------------------------------------------------------------

Drain(p)   == \/ \E e \in entries : Drop(p, e) \/ Collect(p, e) \/ CollectTick(p, e)
              \/ Release(p)
Deliver(p) == SendTick(p) \/ SendAfter(p) \/ Launch(p)

Next ==
  \/ \E d \in Durations :
       \/ \E h \in Tickers : NewTicker(h, d)
       \/ \E h \in Timers : AfterFunc(h, d)
       \/ \E c \in Afters : After(c, d)
       \/ \E p \in Procs : ResetTimer(p, d)
  \/ \E h \in Tickers : StopTicker(h)
  \/ \E t \in SetTimes : Set(t)
  \/ \E c \in Chans : Receive(c)
  \/ \E p \in Procs :
       \/ \E h \in Timers : Stop(p, h) \/ Reset(p, h)
       \/ \E d \in Steps : Advance(p, d)
       \/ Cancel(p) \/ StoreRef(p) \/ Drain(p) \/ Deliver(p)

Spec == Init /\ [][Next]_vars

\* Go schedules every runnable goroutine, and a sync.Mutex that is released
\* again and again is eventually granted to each goroutine waiting for it.
\* Callers owe nothing: no call need ever be made, no channel ever read.
Fairness ==
  \A p \in Procs :
    /\ WF_vars(Drain(p)) /\ WF_vars(Deliver(p)) /\ WF_vars(StoreRef(p))
    /\ SF_vars(Cancel(p)) /\ SF_vars(\E d \in Durations : ResetTimer(p, d))

LiveSpec == Spec /\ Fairness

-----------------------------------------------------------------------------
(* Properties.                                                             *)

\* Every variable has its type; ids name allocated entries.
TypeOK ==
  /\ now \in Int /\ mu \in Procs \cup {NoProc} /\ nextID \in Nat
  /\ entry \in [1..nextID -> Entry]
  /\ entries \subseteq 1..nextID
  /\ made \subseteq Handles
  /\ period \in [Tickers -> Int]
  /\ stopped \in [Tickers -> BOOLEAN]
  /\ ch \in [Chans -> Seq(Int)]
  /\ ref \in [Timers -> 0..nextID]
  /\ tmMu \in [Timers -> Procs \cup {NoProc}]
  /\ pc \in [Procs -> {"idle", "cancel", "reset", "store", "drain", "fire"}]
  /\ target \in [Procs -> Int]
  /\ fires \in [Procs -> Seq(1..nextID)]
  /\ timer \in [Procs -> Timers \cup {NoTimer}]
  /\ fresh \in [Procs -> 0..nextID]
  /\ fired \subseteq 1..nextID /\ launched \subseteq 1..nextID
  /\ reported \subseteq 1..nextID
  /\ lastDue \in [Tickers -> Int] /\ lastSent \in [Tickers -> Int]

\* The entries of h that an Advance would still fire.
Live(h) == {e \in entries : entry[e].obj = h /\ ~Skipped(e)}

\* The entry a Stop or Reset of timer h acts on once it has taken tm.mu.
Current(h) ==
  IF tmMu[h] \in Procs /\ pc[tmMu[h]] = "store" THEN fresh[tmMu[h]] ELSE ref[h]

\* However Stop and Reset of a timer interleave with each other and with
\* Advance, the only entry of the timer that can still fire is the one its
\* handle points to (resetTimer tombstones the entry it replaces, tm.mu keeps
\* entryRef in step): no firing escapes a later Stop, and none is doubled.
CurrentIsOnlyLive == \A h \in Timers : Live(h) \subseteq {Current(h)}

\* A running ticker is never lost, doubled or shifted by the re-insertions:
\* it has exactly one entry, due one positive period after the tick that was
\* collected last, whatever stretch of time one Advance covers.
TickerRegular ==
  \A h \in Tickers \cap made :
    ~stopped[h] => \E e \in Live(h) : /\ Live(h) = {e}
                                      /\ entry[e].deadline = lastDue[h] + period[h]
                                      /\ period[h] > 0

\* What one Advance fires is in deadline order, equal deadlines in
\* registration order, re-inserted ticks included (doc of TestClock.Advance).
FiresSorted ==
  \A p \in Procs : \A i, j \in 1..Len(fires[p]) :
    i < j => LET e == fires[p][i]
                 f == fires[p][j]
             IN  \/ entry[e].deadline < entry[f].deadline
                 \/ entry[e].deadline = entry[f].deadline /\ e < f

\* The entries goroutine p has collected and not yet fired.
Queued(p) == {fires[p][i] : i \in 1..Len(fires[p])}

\* An entry fires at most once: collected entries have left the heap for good,
\* an entry waits in one Advance's list only, and not after it was launched.
FiresOnce ==
  /\ fired \cap entries = {}
  /\ launched \subseteq fired
  /\ \A p \in Procs :
       /\ Queued(p) \subseteq fired \ launched
       /\ \A i, j \in 1..Len(fires[p]) : i # j => fires[p][i] # fires[p][j]
       /\ \A q \in Procs \ {p} : Queued(p) \cap Queued(q) = {}

\* When durations are positive and nobody calls Set, nothing that can still
\* fire is due at or before the time the clock shows: Advance collects all of
\* [old_now, old_now+d], entries of concurrent registrations included.
NothingOverdue ==
  mu = NoProc => \A h \in Handles : \A e \in Live(h) : entry[e].deadline > now

\* The ticks put on a ticker's channel carry increasing times.
TicksInOrder ==
  [][\A h \in Tickers \cap made : lastSent'[h] # lastSent[h] => lastSent'[h] > lastSent[h]]_vars

\* A stopped ticker is out of the schedule at once and for good: no Advance
\* collects another of its ticks, whichever of its entries is in the heap.
StoppedTickerIsQuiet ==
  [][\A h \in Tickers : stopped[h] => stopped'[h] /\ lastDue'[h] = lastDue[h]]_vars

\* Every Stop, Reset and Advance returns, with nobody reading a channel: the
\* drain loop ends, sends never wait, and tm.mu and scheduler.mu are always
\* given back, although tm.mu is held while waiting for scheduler.mu.
CallsReturn == \A p \in Procs : pc[p] # "idle" ~> pc[p] = "idle"

\* Timer.Stop and Timer.Reset return true only if the timer has not expired,
\* so never once its callback runs (doc of Timer and of scheduler.cancel).
StopReportsPending ==
  [][\A e \in reported' \ reported : e \notin launched]_vars

\* After Ticker.Stop no more ticks are delivered (doc of Ticker).
NoTickAfterStop ==
  [][\A h \in Tickers : stopped[h] => lastSent'[h] = lastSent[h]]_vars

\* The scheduler implements the schedule its callers see: one deadline per
\* handle, without heap, tombstones, shared ticker states or entry pointers.
Schedule == INSTANCE TimerService WITH
  None   <- NoProc,
  time   <- now,
  until  <- IF mu = NoProc THEN NoProc ELSE target[mu],
  armed  <- [h \in Handles |-> IF Live(h) = {} THEN NoProc
                               ELSE entry[CHOOSE e \in Live(h) : TRUE].deadline],
  owed   <- [h \in Handles |-> Cardinality({x \in Procs \X (1..nextID) :
                 x[2] \in Queued(x[1]) /\ entry[x[2]].obj = h})]
ImplementsSchedule == Schedule!Spec

=============================================================================
