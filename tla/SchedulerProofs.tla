-------------------------- MODULE SchedulerProofs --------------------------
(***************************************************************************)
(* Theorems about Scheduler, for every set of handles and goroutines,      *)
(* every duration and every bound: its types and locks; that a handle has  *)
(* one live entry; that nothing is overdue; that every entry fires at most *)
(* once, the events of one Advance in order; and that the scheduler        *)
(* implements the schedule its callers see.                                *)
(***************************************************************************)
EXTENDS Scheduler, SequenceTheorems, FiniteSetTheorems, TLAPS

(***************************************************************************)
(* What the locks and the program counters say of each other: a goroutine  *)
(* drains the heap iff it holds scheduler.mu, works on a timer iff it      *)
(* holds that timer's mutex, and delivers only while something is left.    *)
(***************************************************************************)
OnTimer == {"cancel", "reset", "store"}

Control ==
  /\ \A p \in Procs : mu = p <=> pc[p] = "drain"
  /\ \A p \in Procs : pc[p] \in OnTimer <=> timer[p] # NoTimer
  /\ \A p \in Procs, h \in Timers : timer[p] = h <=> tmMu[h] = p
  /\ \A p \in Procs : timer[p] # NoTimer => timer[p] \in made
  /\ \A h \in Timers \cap made : ref[h] # 0
  /\ \A p \in Procs : pc[p] = "store" => fresh[p] # 0
  /\ \A p \in Procs : pc[p] = "fire" => fires[p] # <<>>

Base == TypeOK /\ Control

-----------------------------------------------------------------------------
(* The heap.                                                               *)

\* Every entry of the table is as it was and there is a live one more.
Pushed(tbl, heap, obj, t) ==
  /\ nextID' = nextID + 1
  /\ nextID' \in Nat
  /\ entry' \in [1..nextID' -> Entry]
  /\ entries' = heap \cup {nextID'}
  /\ entries' \subseteq 1..nextID'
  /\ \A e \in 1..nextID : entry'[e] = tbl[e]
  /\ entry'[nextID'].deadline = t
  /\ entry'[nextID'].obj = obj
  /\ entry'[nextID'].dead = FALSE

\* Push leaves every entry of the table as it was and adds a live one.
LEMMA PushFacts ==
  ASSUME TypeOK, NEW tbl, NEW heap, NEW obj, NEW t, Push(tbl, heap, obj, t),
         tbl \in [1..nextID -> Entry], heap \in SUBSET (1..nextID),
         obj \in Handles, t \in Int
  PROVE  Pushed(tbl, heap, obj, t)
  BY DEF Push, Pushed, Alloc, TypeOK, Entry

\* A tombstone changes nothing but the mark of the entry it is put on.
LEMMA KillFacts ==
  ASSUME TypeOK, NEW e \in 1..nextID
  PROVE  /\ Kill(e) \in [1..nextID -> Entry]
         /\ \A f \in 1..nextID : /\ Kill(e)[f].deadline = entry[f].deadline
                                 /\ Kill(e)[f].obj = entry[f].obj
                                 /\ f # e => Kill(e)[f] = entry[f]
         /\ Kill(e)[e].dead
  BY DEF Kill, TypeOK, Entry

\* A sequence of ids stays one when more ids are in use.
LEMMA SeqWiden ==
  ASSUME NEW S, NEW T, S \subseteq T, NEW q \in Seq(S)
  PROVE  q \in Seq(T)
<1>1. q \in [1..Len(q) -> T] /\ Len(q) \in Nat
  OBVIOUS
<1> QED
  BY <1>1, SeqDef

\* What a delivery takes off the list and leaves on it.
LEMMA NextFireFacts ==
  ASSUME TypeOK, NEW p \in Procs, fires[p] # <<>>
  PROVE  Head(fires[p]) \in 1..nextID /\ Tail(fires[p]) \in Seq(1..nextID)
  BY DEF TypeOK

\* A delivery concerns nobody else's locks and locals.
LEMMA ControlDeliver ==
  ASSUME Base, NEW p \in Procs, pc[p] = "fire", fires[p] # <<>>,
         fires' = [fires EXCEPT ![p] = Tail(@)],
         pc' = [pc EXCEPT ![p] = IF Tail(fires[p]) = <<>> THEN "idle" ELSE "fire"],
         UNCHANGED <<mu, timer, tmMu, made, ref, fresh>>
  PROVE  Control'
<1>0. pc \in [Procs -> {"idle", "cancel", "reset", "store", "drain", "fire"}]
  BY DEF Base, TypeOK
<1>1. /\ pc'[p] = IF Tail(fires[p]) = <<>> THEN "idle" ELSE "fire"
      /\ fires'[p] = Tail(fires[p])
      /\ \A q \in Procs \ {p} : pc'[q] = pc[q] /\ fires'[q] = fires[q]
  BY DEF Base, TypeOK
<1>2. ASSUME NEW q \in Procs PROVE pc'[q] = "fire" => fires'[q] # <<>>
  <2>1. pc[q] = "fire" => fires[q] # <<>>
    BY DEF Base, Control
  <2> QED
    BY <1>1, <2>1
<1>3. ASSUME NEW q \in Procs
      PROVE  /\ pc'[q] = "drain" <=> pc[q] = "drain"
             /\ pc'[q] \in OnTimer <=> pc[q] \in OnTimer
             /\ pc'[q] = "store" <=> pc[q] = "store"
  <2>1. CASE q = p
    <3>1. pc'[q] \in {"idle", "fire"} /\ pc[q] = "fire"
      BY <1>1, <2>1
    <3> QED
      BY <3>1 DEF OnTimer
  <2>2. CASE q # p
    BY <1>1, <2>2
  <2> QED
    BY <2>1, <2>2
<1> QED
  BY <1>2, <1>3 DEF Base, Control

-----------------------------------------------------------------------------
(* Types and control are inductive together.                               *)

LEMMA BaseInit == Init => Base
  BY SchedulerAssumption DEF Init, Base, TypeOK, Control, Entry, Handles, Chans, NoTimer, OnTimer

LEMMA BaseStep == Base /\ [Next]_vars => Base'
<1> SUFFICES ASSUME Base, [Next]_vars PROVE Base'
  OBVIOUS
<1> USE SchedulerAssumption DEF Handles, Chans, NoTimer, OnTimer
<1>1. ASSUME NEW h \in Tickers, NEW d \in Durations, NewTicker(h, d) PROVE Base'
  <2>1. now + d \in Int
    BY <1>1 DEF Base, TypeOK
  <2>2. entry \in [1..nextID -> Entry] /\ entries \subseteq 1..nextID
    BY DEF Base, TypeOK
  <2>3. Push(entry, entries, h, now + d)
    BY <1>1 DEF NewTicker
  <2>4. /\ nextID' = nextID + 1 /\ nextID' \in Nat
        /\ entry' \in [1..nextID' -> Entry] /\ entries' \subseteq 1..nextID'
    <3>1. now + d \in Int /\ entries \in SUBSET (1..nextID) /\ h \in Handles
      BY <2>1, <2>2 DEF Base, TypeOK
    <3>pushed. Pushed(entry, entries, h, now + d)
      BY <2>2, <2>3, <3>1, PushFacts DEF Base
    <3> QED
      BY <2>2, <2>3, <3>1, <3>pushed DEF Pushed
  <2>5. \A q \in Procs : fires[q] \in Seq(1..nextID')
    <3>1. 1..nextID \subseteq 1..nextID'
      BY <2>4 DEF Base, TypeOK
    <3> QED
      BY <3>1, SeqWiden DEF Base, TypeOK
  <2>6. fires' \in [Procs -> Seq(1..nextID')]
    BY <1>1, <2>5 DEF Base, TypeOK, NewTicker, frame
  <2>7. TypeOK'
    BY <1>1, <2>1, <2>4, <2>6 DEF Base, TypeOK, NewTicker, vars, sched, tick, locks, frame, ghost
  <2>8. Control'
    BY <1>1, <2>1, <2>4 DEF Base, TypeOK, Control, NewTicker, vars, sched, tick, locks, frame, ghost
  <2> QED
    BY <2>7, <2>8 DEF Base
<1>2. ASSUME NEW h \in Timers, NEW d \in Durations, AfterFunc(h, d) PROVE Base'
  <2>1. now + d \in Int
    BY <1>2 DEF Base, TypeOK
  <2>2. entry \in [1..nextID -> Entry] /\ entries \subseteq 1..nextID
    BY DEF Base, TypeOK
  <2>3. Push(entry, entries, h, now + d)
    BY <1>2 DEF AfterFunc
  <2>4. /\ nextID' = nextID + 1 /\ nextID' \in Nat
        /\ entry' \in [1..nextID' -> Entry] /\ entries' \subseteq 1..nextID'
    <3>1. now + d \in Int /\ entries \in SUBSET (1..nextID) /\ h \in Handles
      BY <2>1, <2>2 DEF Base, TypeOK
    <3>pushed. Pushed(entry, entries, h, now + d)
      BY <2>2, <2>3, <3>1, PushFacts DEF Base
    <3> QED
      BY <2>2, <2>3, <3>1, <3>pushed DEF Pushed
  <2>5. \A q \in Procs : fires[q] \in Seq(1..nextID')
    <3>1. 1..nextID \subseteq 1..nextID'
      BY <2>4 DEF Base, TypeOK
    <3> QED
      BY <3>1, SeqWiden DEF Base, TypeOK
  <2>6. fires' \in [Procs -> Seq(1..nextID')]
    BY <1>2, <2>5 DEF Base, TypeOK, AfterFunc, frame
  <2>7. TypeOK'
    BY <1>2, <2>1, <2>4, <2>6 DEF Base, TypeOK, AfterFunc, vars, sched, tick, locks, frame, ghost
  <2>8. Control'
    BY <1>2, <2>1, <2>4 DEF Base, TypeOK, Control, AfterFunc, vars, sched, tick, locks, frame, ghost
  <2> QED
    BY <2>7, <2>8 DEF Base
<1>3. ASSUME NEW c \in Afters, NEW d \in Durations, After(c, d) PROVE Base'
  <2>1. now + d \in Int
    BY <1>3 DEF Base, TypeOK
  <2>2. entry \in [1..nextID -> Entry] /\ entries \subseteq 1..nextID
    BY DEF Base, TypeOK
  <2>3. Push(entry, entries, c, now + d)
    BY <1>3 DEF After
  <2>4. /\ nextID' = nextID + 1 /\ nextID' \in Nat
        /\ entry' \in [1..nextID' -> Entry] /\ entries' \subseteq 1..nextID'
    <3>1. now + d \in Int /\ entries \in SUBSET (1..nextID) /\ c \in Handles
      BY <2>1, <2>2 DEF Base, TypeOK
    <3>pushed. Pushed(entry, entries, c, now + d)
      BY <2>2, <2>3, <3>1, PushFacts DEF Base
    <3> QED
      BY <2>2, <2>3, <3>1, <3>pushed DEF Pushed
  <2>5. \A q \in Procs : fires[q] \in Seq(1..nextID')
    <3>1. 1..nextID \subseteq 1..nextID'
      BY <2>4 DEF Base, TypeOK
    <3> QED
      BY <3>1, SeqWiden DEF Base, TypeOK
  <2>6. fires' \in [Procs -> Seq(1..nextID')]
    BY <1>3, <2>5 DEF Base, TypeOK, After, frame
  <2>7. TypeOK'
    BY <1>3, <2>1, <2>4, <2>6 DEF Base, TypeOK, After, vars, sched, tick, locks, frame, ghost
  <2>8. Control'
    BY <1>3, <2>1, <2>4 DEF Base, TypeOK, Control, After, vars, sched, tick, locks, frame, ghost
  <2> QED
    BY <2>7, <2>8 DEF Base
<1>4. ASSUME NEW p \in Procs, NEW d \in Durations, ResetTimer(p, d) PROVE Base'
  <2>1. timer[p] \in Timers /\ ref[timer[p]] \in 1..nextID
    BY <1>4 DEF Base, TypeOK, Control, ResetTimer
  <2>2. Kill(ref[timer[p]]) \in [1..nextID -> Entry]
    BY <2>1, KillFacts DEF Base
  <2>3. Push(Kill(ref[timer[p]]), entries, timer[p], now + d)
    BY <1>4 DEF ResetTimer
  <2>4. /\ nextID' = nextID + 1 /\ nextID' \in Nat
        /\ entry' \in [1..nextID' -> Entry] /\ entries' \subseteq 1..nextID'
    <3>1. now + d \in Int /\ entries \in SUBSET (1..nextID) /\ timer[p] \in Handles
      BY <2>1, <2>2 DEF Base, TypeOK
    <3>pushed. Pushed(Kill(ref[timer[p]]), entries, timer[p], now + d)
      BY <2>2, <2>3, <3>1, PushFacts DEF Base
    <3> QED
      BY <2>2, <2>3, <3>1, <3>pushed DEF Pushed
  <2>5. \A q \in Procs : fires[q] \in Seq(1..nextID')
    <3>1. 1..nextID \subseteq 1..nextID'
      BY <2>4 DEF Base, TypeOK
    <3> QED
      BY <3>1, SeqWiden DEF Base, TypeOK
  <2>6. fires' \in [Procs -> Seq(1..nextID')]
    BY <1>4, <2>5 DEF Base, TypeOK, ResetTimer, frame
  <2>7. TypeOK'
    <3>1. reported' \subseteq 1..nextID'
      <4>1. reported' \in {reported, reported \cup {ref[timer[p]]}}
        BY <1>4 DEF ResetTimer
      <4> QED
        BY <2>1, <2>4, <4>1 DEF Base, TypeOK
    <3>2. fresh' \in [Procs -> 0..nextID'] /\ ref' \in [Timers -> 0..nextID']
      BY <1>4, <2>4 DEF Base, TypeOK, ResetTimer, locks
    <3>3. fired' \subseteq 1..nextID' /\ launched' \subseteq 1..nextID'
      BY <1>4, <2>4 DEF Base, TypeOK, ResetTimer
    <3> QED
      BY <1>4, <2>4, <2>6, <3>1, <3>2, <3>3 DEF Base, TypeOK, ResetTimer, tick, locks
  <2>8. Control'
    BY <1>4, <2>1, <2>4 DEF Base, TypeOK, Control, ResetTimer, vars, sched, tick, locks, frame, ghost
  <2> QED
    BY <2>7, <2>8 DEF Base
<1>5. ASSUME NEW h \in Tickers, StopTicker(h) PROVE Base'
  <2>1. TypeOK'
    BY <1>5 DEF Base, TypeOK, StopTicker, sched, tick, locks, frame, ghost
  <2>2. UNCHANGED <<mu, pc, made, ref, tmMu, timer, fresh, fires>>
    BY <1>5 DEF StopTicker, sched, locks, frame
  <2> QED
    BY <2>1, <2>2 DEF Base, Control
<1>6. ASSUME NEW t \in SetTimes, Set(t) PROVE Base'
  <2>1. TypeOK'
    BY <1>6 DEF Base, TypeOK, Set, sched, tick, locks, frame, ghost
  <2>2. UNCHANGED <<mu, pc, made, ref, tmMu, timer, fresh, fires>>
    BY <1>6 DEF Set, tick, locks, frame
  <2> QED
    BY <2>1, <2>2 DEF Base, Control
<1>7. ASSUME NEW c \in Chans, Receive(c) PROVE Base'
  <2>1. TypeOK'
    <3>1. Tail(ch[c]) \in Seq(Int)
      <4>1. ch[c] \in Seq(Int) /\ ch[c] # <<>>
        BY <1>7 DEF Base, TypeOK, Receive
      <4> QED
        BY <4>1
    <3>2. ch' \in [Chans -> Seq(Int)]
      BY <1>7, <3>1 DEF Base, TypeOK, Receive
    <3> QED
      BY <1>7, <3>2 DEF Base, TypeOK, Receive, sched, locks, frame, ghost
  <2>2. UNCHANGED <<mu, pc, made, ref, tmMu, timer, fresh, fires>>
    BY <1>7 DEF Receive, sched, locks, frame
  <2> QED
    BY <2>1, <2>2 DEF Base, Control
<1>lock. ASSUME NEW p \in Procs, NEW h \in Timers, NEW next \in {"cancel", "reset"},
               LockTimer(p, h, next)
         PROVE  Base'
  <2>1. TypeOK'
    BY <1>lock DEF Base, TypeOK, LockTimer, sched, tick, ghost
  <2>2. /\ pc \in [Procs -> {"idle", "cancel", "reset", "store", "drain", "fire"}]
        /\ timer \in [Procs -> Timers \cup {NoTimer}] /\ tmMu \in [Timers -> Procs \cup {NoProc}]
    BY DEF Base, TypeOK
  <2>3. pc[p] = "idle" /\ h \in made /\ tmMu[h] = NoProc
    BY <1>lock DEF LockTimer
  <2>4. UNCHANGED <<mu, made, ref, fresh, fires>>
    BY <1>lock DEF LockTimer, sched, tick
  <2>5. \A q \in Procs : pc'[q] = IF q = p THEN next ELSE pc[q]
    BY <1>lock, <2>2 DEF LockTimer
  <2>6. \A q \in Procs : timer'[q] = IF q = p THEN h ELSE timer[q]
    BY <1>lock, <2>2 DEF LockTimer
  <2>7. \A g \in Timers : tmMu'[g] = IF g = h THEN p ELSE tmMu[g]
    BY <1>lock, <2>2 DEF LockTimer
  <2>8. timer[p] = NoTimer /\ NoTimer \notin Timers
    BY <2>3 DEF Base, Control
  <2>9. /\ \A q \in Procs : mu' = q <=> pc'[q] = "drain"
        /\ \A q \in Procs : pc'[q] \in OnTimer <=> timer'[q] # NoTimer
    BY <2>3, <2>4, <2>5, <2>6, <2>8 DEF Base, Control
  <2>10. \A q \in Procs, g \in Timers : timer'[q] = g <=> tmMu'[g] = q
    BY <2>3, <2>6, <2>7, <2>8 DEF Base, Control
  <2>11. /\ \A q \in Procs : timer'[q] # NoTimer => timer'[q] \in made'
         /\ \A g \in Timers \cap made' : ref'[g] # 0
         /\ \A q \in Procs : pc'[q] = "store" => fresh'[q] # 0
         /\ \A q \in Procs : pc'[q] = "fire" => fires'[q] # <<>>
    BY <2>3, <2>4, <2>5, <2>6 DEF Base, Control
  <2> QED
    BY <2>1, <2>9, <2>10, <2>11 DEF Base, Control
<1>8. ASSUME NEW p \in Procs, NEW h \in Timers, Stop(p, h) PROVE Base'
  BY <1>8, <1>lock DEF Stop
<1>9. ASSUME NEW p \in Procs, NEW h \in Timers, Reset(p, h) PROVE Base'
  BY <1>9, <1>lock DEF Reset
<1>10. ASSUME NEW p \in Procs, NEW d \in Steps, Advance(p, d) PROVE Base'
  <2>1. TypeOK'
    BY <1>10 DEF Base, TypeOK, Advance, tick, locks, ghost
  <2>2. Control'
    BY <1>10 DEF Base, TypeOK, Control, Advance, tick, locks
  <2> QED
    BY <2>1, <2>2 DEF Base
<1>11. ASSUME NEW p \in Procs, Cancel(p) PROVE Base'
  <2>1. timer[p] \in Timers /\ ref[timer[p]] \in 1..nextID
    BY <1>11 DEF Base, TypeOK, Control, Cancel
  <2>2. entry' \in [1..nextID -> Entry]
    BY <1>11, <2>1, KillFacts DEF Base, Cancel
  <2>3. TypeOK'
    BY <1>11, <2>1, <2>2 DEF Base, TypeOK, Cancel, UnlockTimer, vars, sched, tick, locks, frame, ghost
  <2>4. Control'
    BY <1>11, <2>1, <2>2 DEF Base, TypeOK, Control, Cancel, UnlockTimer, vars, sched, tick, locks, frame, ghost
  <2> QED
    BY <2>3, <2>4 DEF Base
<1>12. ASSUME NEW p \in Procs, StoreRef(p) PROVE Base'
  BY <1>12 DEF Base, TypeOK, Control, StoreRef, UnlockTimer, vars, sched, tick, locks, frame, ghost
<1>13. ASSUME NEW p \in Procs, NEW e \in entries, Drop(p, e) PROVE Base'
  BY <1>13 DEF Base, TypeOK, Control, Drop, Due, DueAt, PopHeap, Skipped, vars, sched, tick, locks, frame, ghost
<1>14. ASSUME NEW p \in Procs, NEW e \in entries, Collect(p, e) PROVE Base'
  BY <1>14 DEF Base, TypeOK, Control, Collect, Due, DueAt, PopHeap, Skipped, Queue, vars, sched, tick, locks, frame, ghost
<1>15. ASSUME NEW p \in Procs, NEW e \in entries, CollectTick(p, e) PROVE Base'
  <2>1. entry[e].obj \in Tickers /\ NextDeadline(p, e) \in Int /\ PopHeap(e) \subseteq 1..nextID
    BY <1>15 DEF Base, TypeOK, Entry, CollectTick, Due, DueAt, PopHeap, Skipped, Queue, NextDeadline
  <2>2. entry \in [1..nextID -> Entry]
    BY DEF Base, TypeOK
  <2>3. Push(entry, PopHeap(e), entry[e].obj, NextDeadline(p, e))
    BY <1>15 DEF CollectTick
  <2>4. /\ nextID' = nextID + 1 /\ nextID' \in Nat
        /\ entry' \in [1..nextID' -> Entry] /\ entries' \subseteq 1..nextID'
    <3>1. NextDeadline(p, e) \in Int /\ PopHeap(e) \in SUBSET (1..nextID) /\ entry[e].obj \in Handles
      BY <2>1, <2>2 DEF Base, TypeOK
    <3>pushed. Pushed(entry, PopHeap(e), entry[e].obj, NextDeadline(p, e))
      BY <2>2, <2>3, <3>1, PushFacts DEF Base
    <3> QED
      BY <2>2, <2>3, <3>1, <3>pushed DEF Pushed
  <2>5. \A q \in Procs : fires[q] \in Seq(1..nextID')
    <3>1. 1..nextID \subseteq 1..nextID'
      BY <2>4 DEF Base, TypeOK
    <3> QED
      BY <3>1, SeqWiden DEF Base, TypeOK
  <2>6. fires' \in [Procs -> Seq(1..nextID')]
    <3>1. e \in 1..nextID'
      BY <2>4 DEF Base, TypeOK
    <3> QED
      BY <1>15, <2>5, <3>1 DEF Base, TypeOK, CollectTick, Queue
  <2>7. TypeOK'
    <3>1. entry[e].deadline \in Int /\ e \in 1..nextID'
      BY <2>4 DEF Base, TypeOK, Entry
    <3>2. fresh' \in [Procs -> 0..nextID'] /\ ref' \in [Timers -> 0..nextID']
      BY <1>15, <2>4 DEF Base, TypeOK, CollectTick, locks
    <3>3. /\ fired' \subseteq 1..nextID' /\ launched' \subseteq 1..nextID'
          /\ reported' \subseteq 1..nextID'
      BY <1>15, <2>4, <3>1 DEF Base, TypeOK, CollectTick
    <3>4. lastDue' \in [Tickers -> Int]
      BY <1>15, <2>1, <3>1 DEF Base, TypeOK, CollectTick
    <3> QED
      BY <1>15, <2>4, <2>6, <3>2, <3>3, <3>4 DEF Base, TypeOK, CollectTick, tick, locks
  <2>8. Control'
    BY <1>15, <2>1, <2>4 DEF Base, TypeOK, Control, CollectTick, Due, DueAt, PopHeap, Skipped, Queue, NextDeadline, vars, sched, tick, locks, frame, ghost
  <2> QED
    BY <2>7, <2>8 DEF Base
<1>16. ASSUME NEW p \in Procs, Release(p) PROVE Base'
  BY <1>16 DEF Base, TypeOK, Control, Release, DueAt, Firing, vars, sched, tick, locks, frame, ghost
<1>17. ASSUME NEW p \in Procs, SendTick(p) PROVE Base'
  <2>1. fires[p] # <<>>
    BY <1>17 DEF Base, Control, SendTick, NextFire
  <2>2. Head(fires[p]) \in 1..nextID /\ Tail(fires[p]) \in Seq(1..nextID)
    BY <2>1, NextFireFacts DEF Base
  <2>3. entry[Head(fires[p])].deadline \in Int
    BY <2>2 DEF Base, TypeOK, Entry
  <2>4. ch' \in [Chans -> Seq(Int)]
    <3>1. <<entry[Head(fires[p])].deadline>> \in Seq(Int)
      BY <2>3
    <3> QED
      BY <1>17, <3>1 DEF Base, TypeOK, SendTick, TrySend
  <2>5. lastSent' \in [Tickers -> Int]
    BY <1>17, <2>3 DEF Base, TypeOK, SendTick
  <2>6. /\ fires' = [fires EXCEPT ![p] = Tail(@)]
        /\ pc' = [pc EXCEPT ![p] = IF Tail(fires[p]) = <<>> THEN "idle" ELSE "fire"]
        /\ pc[p] = "fire"
        /\ UNCHANGED <<sched, made, period, stopped, locks, target, timer, fresh,
                       fired, launched, reported, lastDue>>
    BY <1>17 DEF SendTick, NextFire, Firing
  <2>7. TypeOK'
    BY <2>2, <2>4, <2>5, <2>6 DEF Base, TypeOK, sched, locks
  <2>8. Control'
    <3>1. fires[p] # <<>>
      BY <2>6 DEF Base, Control
    <3> QED
      BY <2>6, <3>1, ControlDeliver DEF sched, locks
  <2> QED
    BY <2>7, <2>8 DEF Base
<1>18. ASSUME NEW p \in Procs, SendAfter(p) PROVE Base'
  <2>1. fires[p] # <<>>
    BY <1>18 DEF Base, Control, SendAfter, NextFire
  <2>2. Head(fires[p]) \in 1..nextID /\ Tail(fires[p]) \in Seq(1..nextID)
    BY <2>1, NextFireFacts DEF Base
  <2>3. entry[Head(fires[p])].deadline \in Int
    BY <2>2 DEF Base, TypeOK, Entry
  <2>4. ch' \in [Chans -> Seq(Int)]
    <3>1. <<entry[Head(fires[p])].deadline>> \in Seq(Int)
      BY <2>3
    <3> QED
      BY <1>18, <3>1 DEF Base, TypeOK, SendAfter, TrySend
  <2>5. /\ fires' = [fires EXCEPT ![p] = Tail(@)]
        /\ pc' = [pc EXCEPT ![p] = IF Tail(fires[p]) = <<>> THEN "idle" ELSE "fire"]
        /\ pc[p] = "fire"
        /\ UNCHANGED <<sched, made, period, stopped, locks, target, timer, fresh, ghost>>
    BY <1>18 DEF SendAfter, NextFire, Firing
  <2>6. TypeOK'
    BY <2>2, <2>4, <2>5 DEF Base, TypeOK, sched, locks, ghost
  <2>7. Control'
    BY <2>1, <2>5, ControlDeliver DEF sched, locks
  <2> QED
    BY <2>6, <2>7 DEF Base
<1>19. ASSUME NEW p \in Procs, Launch(p) PROVE Base'
  <2>1. fires[p] # <<>>
    BY <1>19 DEF Base, Control, Launch, NextFire
  <2>2. Head(fires[p]) \in 1..nextID /\ Tail(fires[p]) \in Seq(1..nextID)
    BY <2>1, NextFireFacts DEF Base
  <2>3. entry[Head(fires[p])].deadline \in Int
    BY <2>2 DEF Base, TypeOK, Entry
  <2>4. TypeOK'
    BY <1>19, <2>2, <2>3 DEF Base, TypeOK, Launch, NextFire, Firing, vars, sched, tick, locks, frame, ghost
  <2>5. Control'
    <3>1. /\ fires' = [fires EXCEPT ![p] = Tail(@)]
          /\ pc' = [pc EXCEPT ![p] = IF Tail(fires[p]) = <<>> THEN "idle" ELSE "fire"]
          /\ pc[p] = "fire" /\ UNCHANGED <<mu, timer, tmMu, made, ref, fresh>>
      BY <1>19 DEF Launch, NextFire, Firing, sched, tick, locks
    <3> QED
      BY <2>1, <3>1, ControlDeliver
  <2> QED
    BY <2>4, <2>5 DEF Base
<1>20. CASE UNCHANGED vars
  BY <1>20 DEF Base, TypeOK, Control, vars, sched, tick, locks, frame, ghost
<1> QED
  BY <1>1, <1>2, <1>3, <1>4, <1>5, <1>6, <1>7, <1>8, <1>9, <1>10, <1>11, <1>12, <1>13, <1>14, <1>15, <1>16, <1>17, <1>18, <1>19, <1>20 DEF Next, Drain, Deliver

\* Every reachable state of the scheduler is well typed, with the locks held
\* exactly by the goroutines whose program counter says so.
THEOREM TypeCorrect == Spec => []TypeOK
<1>1. Spec => []Base
  BY BaseInit, BaseStep, PTL DEF Spec
<1>2. Base => TypeOK
  BY DEF Base
<1> QED
  BY <1>1, <1>2, PTL

-----------------------------------------------------------------------------
(* Only the entry a timer's handle points to can fire.                     *)

(***************************************************************************)
(* CurrentIsOnlyLive without the set Live, and what keeps it inductive:    *)
(* entries belong to handles that exist, so a new timer starts with none.  *)
(***************************************************************************)
OnlyCurrent ==
  /\ \A e \in 1..nextID : entry[e].obj \in made
  /\ \A e \in entries : \A h \in Timers :
       entry[e].obj = h /\ ~entry[e].dead => e = Current(h)

\* A step that adds no entry and works on no timer disturbs nothing.
LEMMA OnlyCurrentFrame ==
  ASSUME Base, OnlyCurrent,
         entry' = entry, entries' \subseteq entries, nextID' = nextID,
         UNCHANGED <<made, ref, tmMu, fresh, timer>>,
         \A p \in Procs : pc[p] = "store" <=> pc'[p] = "store"
  PROVE  OnlyCurrent'
<1>1. \A h \in Timers : Current(h)' = Current(h)
  BY DEF Current
<1> QED
  BY <1>1 DEF OnlyCurrent

\* A step that adds an entry of a ticker or a channel disturbs nothing.
LEMMA OnlyCurrentPush ==
  ASSUME Base, OnlyCurrent,
         NEW heap \in SUBSET entries, NEW obj \in Handles \ Timers, NEW t \in Int,
         Push(entry, heap, obj, t), made' = made \cup {obj},
         UNCHANGED <<locks, fresh, pc>>
  PROVE  OnlyCurrent'
<1>1. /\ entries' = heap \cup {nextID'} /\ nextID' = nextID + 1
      /\ \A e \in 1..nextID : entry'[e] = entry[e]
      /\ entry'[nextID'].obj = obj
  <2>1. entry \in [1..nextID -> Entry] /\ heap \in SUBSET (1..nextID)
    BY DEF Base, TypeOK
  <2>pushed. Pushed(entry, heap, obj, t)
    BY <2>1, PushFacts DEF Base
  <2> QED
    BY <2>1, <2>pushed DEF Pushed
<1>2. \A h \in Timers : Current(h)' = Current(h)
  BY DEF Current, locks
<1>3. \A e \in entries : e \in 1..nextID
  BY DEF Base, TypeOK
<1>4. \A e \in 1..nextID' : e \in 1..nextID \/ e = nextID'
  BY <1>1 DEF Base, TypeOK
<1> QED
  BY <1>1, <1>2, <1>3, <1>4 DEF OnlyCurrent

LEMMA OnlyCurrentStep == Base /\ OnlyCurrent /\ [Next]_vars => OnlyCurrent'
<1> SUFFICES ASSUME Base, OnlyCurrent, [Next]_vars PROVE OnlyCurrent'
  OBVIOUS
<1> USE SchedulerAssumption DEF Handles
<1>1. ASSUME NEW h \in Tickers, NEW d \in Durations, NewTicker(h, d) PROVE OnlyCurrent'
  BY <1>1, OnlyCurrentPush DEF NewTicker, frame, Base, TypeOK
<1>2. ASSUME NEW c \in Afters, NEW d \in Durations, After(c, d) PROVE OnlyCurrent'
  BY <1>2, OnlyCurrentPush DEF After, frame, Base, TypeOK
<1>3. ASSUME NEW h \in Timers, NEW d \in Durations, AfterFunc(h, d) PROVE OnlyCurrent'
  <2>1. /\ entries' = entries \cup {nextID'} /\ nextID' = nextID + 1
        /\ \A e \in 1..nextID : entry'[e] = entry[e]
        /\ entry'[nextID'].obj = h
    <3>1. entry \in [1..nextID -> Entry] /\ entries \in SUBSET (1..nextID) /\ now + d \in Int
      BY DEF Base, TypeOK
    <3>2. Push(entry, entries, h, now + d)
      BY <1>3 DEF AfterFunc
    <3>pushed. Pushed(entry, entries, h, now + d)
      BY <3>1, <3>2, PushFacts DEF Base
    <3> QED
      BY <3>1, <3>2, <3>pushed DEF Pushed
  <2>2. /\ ref' = [ref EXCEPT ![h] = nextID'] /\ h \notin made /\ made' = made \cup {h}
        /\ UNCHANGED <<tmMu, pc, fresh, timer>>
    BY <1>3, <2>1 DEF AfterFunc, frame
  <2>3. tmMu[h] \notin Procs
    BY <2>2 DEF Base, Control, NoTimer
  <2>4. /\ \A g \in Timers \ {h} : Current(g)' = Current(g)
        /\ Current(h)' = nextID'
    BY <2>2, <2>3 DEF Current, Base, TypeOK
  <2>5. \A e \in entries : e \in 1..nextID /\ entry[e].obj # h
    BY <2>2 DEF Base, TypeOK, OnlyCurrent
  <2>6. \A e \in 1..nextID' : e \in 1..nextID \/ e = nextID'
    BY <2>1 DEF Base, TypeOK
  <2> QED
    BY <2>1, <2>2, <2>4, <2>5, <2>6 DEF OnlyCurrent
<1>4. ASSUME NEW p \in Procs, NEW d \in Durations, ResetTimer(p, d) PROVE OnlyCurrent'
  <2> DEFINE g == timer[p]
             k == ref[g]
  <2>1. /\ g \in Timers \cap made /\ k \in 1..nextID /\ tmMu[g] = p
        /\ Current(g) = k
    BY <1>4 DEF Base, TypeOK, Control, ResetTimer, Current, OnTimer, NoTimer
  <2>2. Kill(k) \in [1..nextID -> Entry]
    BY <2>1, KillFacts DEF Base
  <2>3. Push(Kill(k), entries, g, now + d)
    BY <1>4 DEF ResetTimer
  <2>4. /\ entries' = entries \cup {nextID'} /\ nextID' = nextID + 1
        /\ \A e \in 1..nextID : entry'[e] = Kill(k)[e]
        /\ entry'[nextID'].obj = g
    <3>1. now + d \in Int /\ entries \in SUBSET (1..nextID) /\ g \in Handles
      BY <2>1 DEF Base, TypeOK
    <3> HIDE DEF g, k
    <3>pushed. Pushed(Kill(k), entries, g, now + d)
      BY <2>2, <2>3, <3>1, PushFacts DEF Base
    <3> QED
      BY <2>2, <2>3, <3>1, <3>pushed DEF Pushed
  <2>5. /\ \A e \in 1..nextID : entry'[e].obj = entry[e].obj
        /\ \A e \in 1..nextID : e # k => entry'[e] = entry[e]
        /\ entry'[k].dead
    BY <2>1, <2>4, KillFacts DEF Base
  <2>6. \A h \in Timers : Current(h)' = IF h = g THEN nextID' ELSE Current(h)
    <3>1. /\ tmMu' = tmMu /\ ref' = ref /\ fresh' = [fresh EXCEPT ![p] = nextID']
          /\ pc' = [pc EXCEPT ![p] = "store"]
      BY <1>4, <2>4 DEF ResetTimer, locks
    <3>2. \A h \in Timers \ {g} : tmMu[h] # p
      BY DEF Base, Control
    <3> QED
      BY <2>1, <3>1, <3>2 DEF Current, Base, TypeOK
  <2>7. made' = made
    BY <1>4 DEF ResetTimer, tick
  <2>8. \A e \in entries : e \in 1..nextID
    BY DEF Base, TypeOK
  <2> HIDE DEF g, k
  <2>9. \A e \in 1..nextID' : entry'[e].obj \in made'
    BY <2>1, <2>4, <2>5, <2>7 DEF OnlyCurrent, Base, TypeOK
  <2>10. ASSUME NEW e \in entries', NEW h \in Timers, entry'[e].obj = h, ~entry'[e].dead
         PROVE  e = IF h = g THEN nextID' ELSE Current(h)
    <3>1. CASE e = nextID'
      BY <2>4, <2>10, <3>1
    <3>2. CASE e # nextID'
      <4>1. e \in entries /\ e \in 1..nextID /\ e # k
        BY <2>4, <2>5, <2>8, <2>10, <3>2
      <4>2. e = Current(h)
        BY <2>5, <2>10, <4>1 DEF OnlyCurrent
      <4> QED
        BY <2>1, <4>1, <4>2
    <3> QED
      BY <3>1, <3>2
  <2> QED
    BY <2>6, <2>9, <2>10 DEF OnlyCurrent
<1>5. ASSUME NEW h \in Tickers, StopTicker(h) PROVE OnlyCurrent'
  BY <1>5, OnlyCurrentFrame DEF StopTicker, sched, locks, frame
<1>6. ASSUME NEW t \in SetTimes, Set(t) PROVE OnlyCurrent'
  BY <1>6, OnlyCurrentFrame DEF Set, tick, locks, frame
<1>7. ASSUME NEW c \in Chans, Receive(c) PROVE OnlyCurrent'
  BY <1>7, OnlyCurrentFrame DEF Receive, sched, locks, frame
<1>8. ASSUME NEW p \in Procs, NEW h \in Timers, NEW next \in {"cancel", "reset"},
             LockTimer(p, h, next)
      PROVE  OnlyCurrent'
  <2>1. \A g \in Timers : Current(g)' = Current(g)
    BY <1>8 DEF LockTimer, Current, Base, TypeOK, Control, OnTimer, NoTimer
  <2> QED
    BY <1>8, <2>1 DEF OnlyCurrent, LockTimer, sched, tick
<1>9. ASSUME NEW p \in Procs, NEW d \in Steps, Advance(p, d) PROVE OnlyCurrent'
  BY <1>9, OnlyCurrentFrame DEF Advance, tick, locks, Base, TypeOK
<1>10. ASSUME NEW p \in Procs, Cancel(p) PROVE OnlyCurrent'
  <2> DEFINE g == timer[p]
             k == ref[g]
  <2>1. g \in Timers /\ k \in 1..nextID /\ tmMu[g] = p /\ pc[p] = "cancel"
    BY <1>10 DEF Base, TypeOK, Control, Cancel, OnTimer, NoTimer
  <2>2. \A h \in Timers : Current(h)' = Current(h)
    <3>1. /\ tmMu' = [tmMu EXCEPT ![g] = NoProc] /\ ref' = ref /\ fresh' = fresh
          /\ pc' = [pc EXCEPT ![p] = "idle"]
      BY <1>10 DEF Cancel, UnlockTimer
    <3>2. \A h \in Timers \ {g} : tmMu[h] # p
      BY DEF Base, Control
    <3> QED
      BY <2>1, <3>1, <3>2 DEF Current, Base, TypeOK
  <2>3. /\ \A e \in 1..nextID : entry'[e].obj = entry[e].obj
        /\ \A e \in 1..nextID : e # k => entry'[e] = entry[e]
        /\ entry'[k].dead
    BY <1>10, <2>1, KillFacts DEF Base, Cancel
  <2>4. UNCHANGED <<entries, nextID, made>>
    BY <1>10 DEF Cancel, tick
  <2>5. \A e \in entries : e \in 1..nextID
    BY DEF Base, TypeOK
  <2> HIDE DEF g, k
  <2>6. ASSUME NEW e \in entries', NEW h \in Timers, entry'[e].obj = h, ~entry'[e].dead
        PROVE  e = Current(h)
    BY <2>3, <2>4, <2>5, <2>6 DEF OnlyCurrent
  <2> QED
    BY <2>2, <2>3, <2>4, <2>6 DEF OnlyCurrent
<1>11. ASSUME NEW p \in Procs, StoreRef(p) PROVE OnlyCurrent'
  <2> DEFINE g == timer[p]
  <2>1. g \in Timers /\ tmMu[g] = p /\ pc[p] = "store"
    BY <1>11 DEF Base, TypeOK, Control, StoreRef, OnTimer, NoTimer
  <2>2. \A h \in Timers : Current(h)' = Current(h)
    <3>1. /\ tmMu' = [tmMu EXCEPT ![g] = NoProc] /\ fresh' = [fresh EXCEPT ![p] = 0]
          /\ ref' = [ref EXCEPT ![g] = fresh[p]]
          /\ pc' = [pc EXCEPT ![p] = "idle"]
      BY <1>11 DEF StoreRef, UnlockTimer
    <3>2. \A h \in Timers \ {g} : tmMu[h] # p
      BY DEF Base, Control
    <3> QED
      BY <2>1, <3>1, <3>2 DEF Current, Base, TypeOK
  <2> QED
    BY <1>11, <2>2 DEF OnlyCurrent, StoreRef, sched, tick
<1>12. ASSUME NEW p \in Procs, NEW e \in entries, Drop(p, e) \/ Collect(p, e)
       PROVE  OnlyCurrent'
  BY <1>12, OnlyCurrentFrame DEF Drop, Collect, PopHeap, tick, locks, frame
<1>13. ASSUME NEW p \in Procs, NEW e \in entries, CollectTick(p, e) PROVE OnlyCurrent'
  <2> DEFINE g == entry[e].obj
  <2>1. g \in Tickers /\ g \in made /\ NextDeadline(p, e) \in Int
    BY <1>13 DEF CollectTick, OnlyCurrent, NextDeadline, Base, TypeOK, Entry
  <2>2. Push(entry, PopHeap(e), g, NextDeadline(p, e)) /\ PopHeap(e) \in SUBSET entries
    BY <1>13 DEF CollectTick, PopHeap
  <2>3. made' = made \cup {g} /\ UNCHANGED <<locks, fresh, pc>>
    BY <1>13, <2>1 DEF CollectTick, tick
  <2> HIDE DEF g
  <2> QED
    BY <2>1, <2>2, <2>3, OnlyCurrentPush
<1>14. ASSUME NEW p \in Procs, Release(p) PROVE OnlyCurrent'
  BY <1>14, OnlyCurrentFrame DEF Release, Firing, tick, locks, Base, TypeOK
<1>15. ASSUME NEW p \in Procs, Deliver(p) PROVE OnlyCurrent'
  <2>1. /\ UNCHANGED <<entry, entries, nextID, made, ref, tmMu, fresh, timer>>
        /\ pc[p] = "fire" /\ pc' = [pc EXCEPT ![p] = IF Tail(fires[p]) = <<>> THEN "idle" ELSE "fire"]
    BY <1>15 DEF Deliver, SendTick, SendAfter, Launch, NextFire, Firing, sched, tick, locks, ghost
  <2>2. \A q \in Procs : pc[q] = "store" <=> pc'[q] = "store"
    BY <2>1 DEF Base, TypeOK
  <2> QED
    BY <2>1, <2>2, OnlyCurrentFrame
<1>16. CASE UNCHANGED vars
  BY <1>16, OnlyCurrentFrame DEF vars, sched, tick, locks, frame
<1> QED
  BY <1>1, <1>2, <1>3, <1>4, <1>5, <1>6, <1>7, <1>8, <1>9, <1>10, <1>11, <1>12,
     <1>13, <1>14, <1>15, <1>16 DEF Next, Drain, Stop, Reset

\* Whatever Stop, Reset and Advance do concurrently, the only entry of a timer
\* that can still fire is the one its handle points to.
THEOREM OnlyCurrentEntryFires == Spec => []CurrentIsOnlyLive
<1>1. Init => OnlyCurrent
  BY DEF Init, OnlyCurrent
<1>2. OnlyCurrent => CurrentIsOnlyLive
  BY DEF OnlyCurrent, CurrentIsOnlyLive, Live, Skipped
<1> QED
  BY <1>1, <1>2, BaseInit, BaseStep, OnlyCurrentStep, PTL DEF Spec

-----------------------------------------------------------------------------
(* Nothing is overdue.                                                     *)

\* NothingOverdue for every entry in the heap, tombstones included: the time an
\* Advance moves to is the time it has drained the heap up to.
AllAhead == mu = NoProc => \A e \in entries : entry[e].deadline > now

\* A step that registers an entry with a positive duration.
LEMMA AheadPush ==
  ASSUME Base, AllAhead, mu = NoProc, NEW tbl \in [1..nextID -> Entry],
         \A e \in 1..nextID : tbl[e].deadline = entry[e].deadline,
         NEW obj \in Handles, NEW d \in Int, d > 0,
         Push(tbl, entries, obj, now + d), now' = now
  PROVE  AllAhead'
<1>1. now + d \in Int /\ now + d > now /\ entries \in SUBSET (1..nextID)
  BY DEF Base, TypeOK
<1> DEFINE t == now + d
<1>2. Push(tbl, entries, obj, t) /\ t \in Int /\ t > now
  BY <1>1
<1> HIDE DEF t
<1>3. /\ entries' = entries \cup {nextID'}
      /\ \A e \in 1..nextID : entry'[e] = tbl[e]
      /\ entry'[nextID'].deadline = t
  <2>pushed. Pushed(tbl, entries, obj, t)
    BY <1>1, <1>2, PushFacts DEF Base
  <2> QED
    BY <1>1, <1>2, <2>pushed DEF Pushed
<1> QED
  BY <1>1, <1>2, <1>3 DEF AllAhead

LEMMA AheadStep ==
  ASSUME \A d \in Durations : d > 0, SetTimes = {}, Base, AllAhead, [Next]_vars
  PROVE  AllAhead'
<1> USE SchedulerAssumption DEF Handles
<1>0. entry \in [1..nextID -> Entry] /\ entries \in SUBSET (1..nextID)
  BY DEF Base, TypeOK
<1>1. ASSUME NEW d \in Durations,
             \/ \E h \in Tickers : NewTicker(h, d)
             \/ \E h \in Timers : AfterFunc(h, d)
             \/ \E c \in Afters : After(c, d)
      PROVE  AllAhead'
  BY <1>0, <1>1, AheadPush DEF NewTicker, AfterFunc, After
<1>2. ASSUME NEW p \in Procs, NEW d \in Durations, ResetTimer(p, d) PROVE AllAhead'
  <2>1. timer[p] \in Timers /\ ref[timer[p]] \in 1..nextID
    BY <1>2 DEF Base, TypeOK, Control, ResetTimer, OnTimer, NoTimer
  <2>2. /\ Kill(ref[timer[p]]) \in [1..nextID -> Entry]
        /\ \A e \in 1..nextID : Kill(ref[timer[p]])[e].deadline = entry[e].deadline
    BY <2>1, KillFacts DEF Base
  <2>3. /\ mu = NoProc /\ now' = now
        /\ Push(Kill(ref[timer[p]]), entries, timer[p], now + d)
    BY <1>2 DEF ResetTimer
  <2> QED
    BY <2>1, <2>2, <2>3, AheadPush
<1>3. ASSUME NEW p \in Procs, Cancel(p) PROVE AllAhead'
  <2>1. ref[timer[p]] \in 1..nextID
    BY <1>3 DEF Base, TypeOK, Control, Cancel, OnTimer, NoTimer
  <2> QED
    BY <1>0, <1>3, <2>1, KillFacts DEF Base, Cancel, AllAhead
<1>4. ASSUME NEW p \in Procs, Release(p) PROVE AllAhead'
  <2>1. \A e \in entries : ~(entry[e].deadline <= target[p]) /\ entry[e].deadline \in Int
    BY <1>0, <1>4 DEF Release, DueAt, Entry
  <2>2. now' = target[p] /\ target[p] \in Int /\ UNCHANGED <<entry, entries>>
    BY <1>4 DEF Release, Base, TypeOK
  <2> QED
    BY <2>1, <2>2 DEF AllAhead
<1>5. ASSUME NEW p \in Procs, NEW e \in entries, Drop(p, e) \/ Collect(p, e) \/ CollectTick(p, e)
      PROVE  AllAhead'
  <2>1. mu' = mu /\ mu = p
    BY <1>5 DEF Drop, Collect, CollectTick, Due, Base, Control
  <2> QED
    BY <2>1 DEF AllAhead
<1>6. ASSUME NEW p \in Procs, \E d \in Steps : Advance(p, d) PROVE AllAhead'
  BY <1>6 DEF Advance, AllAhead
<1>7. ASSUME \/ \E h \in Tickers : StopTicker(h)
             \/ \E c \in Chans : Receive(c)
             \/ \E p \in Procs : \/ \E h \in Timers : Stop(p, h) \/ Reset(p, h)
                                 \/ StoreRef(p) \/ Deliver(p)
             \/ UNCHANGED vars
      PROVE  AllAhead'
  <2>1. UNCHANGED <<mu, now, entries, entry>>
    BY <1>7 DEF StopTicker, Receive, Stop, Reset, LockTimer, StoreRef, Deliver, SendTick,
                SendAfter, Launch, vars, sched
  <2> QED
    BY <2>1 DEF AllAhead
<1> QED
  BY <1>1, <1>2, <1>3, <1>4, <1>5, <1>6, <1>7 DEF Next, Drain

\* While durations are positive and nobody calls Set, what the clock has not
\* fired is still to come: an Advance collects all that falls due in the time it
\* covers, whatever is registered, reset or stopped between two Advances.
THEOREM AdvanceLeavesNothingOverdue ==
  ASSUME \A d \in Durations : d > 0, SetTimes = {}
  PROVE  Spec => []NothingOverdue
<1>1. Init => AllAhead
  BY DEF Init, AllAhead
<1>2. Base /\ AllAhead /\ [Next]_vars => AllAhead'
  BY AheadStep
<1>3. AllAhead => NothingOverdue
  BY DEF AllAhead, NothingOverdue, Live
<1> QED
  BY <1>1, <1>2, <1>3, BaseInit, BaseStep, PTL DEF Spec

-----------------------------------------------------------------------------
(* Lists of entries.                                                       *)

\* The entries in a list.
InList(q) == {q[i] : i \in 1..Len(q)}

\* The lists with no entry in them twice.
Distinct == {q \in Seq(Nat) : \A i, j \in 1..Len(q) : i # j => q[i] # q[j]}

\* What Append does to a list of distinct entries.
LEMMA AppendFacts ==
  ASSUME NEW q \in Seq(Nat), NEW e \in Nat
  PROVE  InList(Append(q, e)) = InList(q) \cup {e}
<1>1. /\ Len(Append(q, e)) = Len(q) + 1 /\ Len(q) \in Nat
      /\ \A i \in 1..Len(q) : Append(q, e)[i] = q[i]
      /\ Append(q, e)[Len(q) + 1] = e
  OBVIOUS
<1>2. \A i \in 1..(Len(q) + 1) : i \in 1..Len(q) \/ i = Len(q) + 1
  BY <1>1
<1> QED
  BY <1>1, <1>2 DEF InList

LEMMA AppendDistinct ==
  ASSUME NEW q \in Distinct, NEW e \in Nat, e \notin InList(q)
  PROVE  Append(q, e) \in Distinct
<1> q \in Seq(Nat)
  BY DEF Distinct
<1>1. /\ Len(Append(q, e)) = Len(q) + 1 /\ Len(q) \in Nat
      /\ \A i \in 1..Len(q) : Append(q, e)[i] = q[i]
      /\ Append(q, e)[Len(q) + 1] = e
  OBVIOUS
<1>2. \A i \in 1..(Len(q) + 1) : i \in 1..Len(q) \/ i = Len(q) + 1
  BY <1>1
<1>3. \A i, j \in 1..Len(q) : i # j => q[i] # q[j]
  BY DEF Distinct
<1>4. \A i \in 1..Len(q) : q[i] # e
  BY DEF InList
<1>5. \A i, j \in 1..Len(Append(q, e)) : i # j => Append(q, e)[i] # Append(q, e)[j]
  BY <1>1, <1>2, <1>3, <1>4
<1>6. Append(q, e) \in Seq(Nat)
  OBVIOUS
<1> QED
  BY <1>5, <1>6 DEF Distinct

\* Tail adds nothing.
LEMMA TailElements ==
  ASSUME NEW q \in Seq(Nat), q # <<>>
  PROVE  Head(q) \in InList(q) /\ InList(Tail(q)) \subseteq InList(q)
<1>1. /\ Len(Tail(q)) = Len(q) - 1 /\ Len(q) \in Nat /\ Len(q) >= 1
      /\ Head(q) = q[1]
      /\ \A i \in 1..Len(Tail(q)) : Tail(q)[i] = q[i + 1]
  OBVIOUS
<1>2. \A i \in 1..Len(Tail(q)) : i + 1 \in 1..Len(q)
  BY <1>1
<1>3. 1 \in 1..Len(q)
  BY <1>1
<1> QED
  BY <1>1, <1>2, <1>3 DEF InList

\* What Tail does to a list of distinct entries.
LEMMA TailFacts ==
  ASSUME NEW q \in Distinct, q # <<>>
  PROVE  /\ Head(q) \in InList(q)
         /\ InList(Tail(q)) \subseteq InList(q)
         /\ Tail(q) \in Distinct /\ Head(q) \notin InList(Tail(q))
<1> q \in Seq(Nat)
  BY DEF Distinct
<1>1. /\ Len(Tail(q)) = Len(q) - 1 /\ Len(q) \in Nat /\ Len(q) >= 1
      /\ Head(q) = q[1]
      /\ \A i \in 1..Len(Tail(q)) : Tail(q)[i] = q[i + 1]
  OBVIOUS
<1>2. \A i \in 1..Len(Tail(q)) : i + 1 \in 1..Len(q) /\ i + 1 # 1
  BY <1>1
<1>3. 1 \in 1..Len(q)
  BY <1>1
<1>4. \A i, j \in 1..Len(q) : i # j => q[i] # q[j]
  BY DEF Distinct
<1>5. \A i, j \in 1..Len(Tail(q)) : i # j => Tail(q)[i] # Tail(q)[j]
  <2>1. \A i, j \in 1..Len(Tail(q)) : i # j => i + 1 # j + 1
    BY <1>1
  <2> QED
    BY <1>1, <1>2, <1>4, <2>1
<1>6. Tail(q) \in Distinct
  <2>1. Tail(q) \in Seq(Nat)
    OBVIOUS
  <2> QED
    BY <1>5, <2>1 DEF Distinct
<1>7. Head(q) \in InList(q) /\ InList(Tail(q)) \subseteq InList(q)
  BY TailElements
<1>8. Head(q) \notin InList(Tail(q))
  <2>1. \A i \in 1..Len(Tail(q)) : Tail(q)[i] # Head(q)
    BY <1>1, <1>2, <1>3, <1>4
  <2> QED
    BY <2>1 DEF InList
<1> QED
  BY <1>6, <1>7, <1>8

-----------------------------------------------------------------------------
(* No entry fires twice.                                                   *)

\* FiresOnce in terms of lists.
OnceInLists ==
  /\ fired \cap entries = {}
  /\ launched \subseteq fired
  /\ \A p \in Procs : InList(fires[p]) \subseteq fired \ launched /\ fires[p] \in Distinct
  /\ \A p, q \in Procs : p # q => InList(fires[p]) \cap InList(fires[q]) = {}

LEMMA OnceInListsIsFiresOnce == OnceInLists => FiresOnce
<1>1. \A p \in Procs : Queued(p) = InList(fires[p])
  BY DEF Queued, InList
<1> QED
  BY <1>1 DEF OnceInLists, FiresOnce, Distinct

\* A step that collects and delivers nothing, and adds fresh entries only.
LEMMA OnceFrame ==
  ASSUME Base, OnceInLists, UNCHANGED <<fires, fired, launched>>,
         \A e \in entries' : e \in entries \/ e = nextID + 1
  PROVE  OnceInLists'
<1>1. nextID + 1 \notin fired
  BY DEF Base, TypeOK
<1>2. fired' \cap entries' = {}
  BY <1>1 DEF OnceInLists
<1>3. fires' = fires /\ fired' = fired /\ launched' = launched
  OBVIOUS
<1> QED
  BY <1>2, <1>3 DEF OnceInLists

\* A step that collects e.
LEMMA OnceCollect ==
  ASSUME Base, OnceInLists, NEW p \in Procs, NEW e \in entries,
         fires' = [fires EXCEPT ![p] = Append(@, e)],
         fired' = fired \cup {e}, launched' = launched,
         \A f \in entries' : f \in entries \ {e} \/ f = nextID + 1
  PROVE  OnceInLists'
<1>1. e \in 1..nextID /\ nextID + 1 \notin fired /\ nextID + 1 # e
  BY DEF Base, TypeOK
<1>2. /\ fires'[p] = Append(fires[p], e)
      /\ \A q \in Procs \ {p} : fires'[q] = fires[q]
      /\ fires[p] \in Seq(Nat)
  BY DEF Base, TypeOK
<1>3. e \notin fired /\ \A q \in Procs : e \notin InList(fires[q]) /\ fires[q] \in Distinct
  BY DEF OnceInLists
<1>4. InList(fires'[p]) = InList(fires[p]) \cup {e} /\ fires'[p] \in Distinct
  <2>1. /\ InList(Append(fires[p], e)) = InList(fires[p]) \cup {e}
        /\ Append(fires[p], e) \in Distinct
    <3>1. e \in 1..nextID /\ fires[p] \in Seq(Nat)
      BY <1>1, <1>2
    <3>2. fires[p] \in Distinct /\ e \notin InList(fires[p])
      BY <1>3
    <3>3. InList(Append(fires[p], e)) = InList(fires[p]) \cup {e}
      BY <3>1, AppendFacts
    <3>4. Append(fires[p], e) \in Distinct
      BY <3>1, <3>2, AppendDistinct
    <3> QED
      BY <3>3, <3>4
  <2> QED
    BY <1>2, <2>1, Zenon
<1>5. /\ fired' \cap entries' = {} /\ launched' \subseteq fired'
      /\ \A q \in Procs : InList(fires[q]) \subseteq fired' \ launched'
      /\ e \in fired' \ launched'
      /\ \A q, r \in Procs : q # r => InList(fires[q]) \cap InList(fires[r]) = {}
  BY <1>1, <1>3 DEF OnceInLists
<1>6. /\ \A q \in Procs : InList(fires'[q]) \subseteq fired' \ launched' /\ fires'[q] \in Distinct
      /\ \A q, r \in Procs : q # r => InList(fires'[q]) \cap InList(fires'[r]) = {}
  <2>1. \A q \in Procs \ {p} : InList(fires'[q]) = InList(fires[q]) /\ fires'[q] \in Distinct
    BY <1>2, <1>3
  <2>2. \A q \in Procs : InList(fires'[q]) \subseteq fired' \ launched' /\ fires'[q] \in Distinct
    BY <1>4, <1>5, <2>1
  <2>3. \A q \in Procs \ {p} : /\ InList(fires'[q]) \cap InList(fires'[p]) = {}
                               /\ InList(fires'[p]) \cap InList(fires'[q]) = {}
    <3>1. \A q \in Procs \ {p} : InList(fires[q]) \cap InList(fires[p]) = {}
      BY <1>5
    <3>2. \A q \in Procs \ {p} : e \notin InList(fires[q])
      BY <1>3
    <3> QED
      BY <1>4, <2>1, <3>1, <3>2
  <2>4. \A q, r \in Procs \ {p} : q # r => InList(fires'[q]) \cap InList(fires'[r]) = {}
    BY <1>5, <2>1
  <2> QED
    BY <2>2, <2>3, <2>4
<1> QED
  BY <1>5, <1>6 DEF OnceInLists

\* A step that delivers the head of p's list.
LEMMA OnceDeliver ==
  ASSUME Base, OnceInLists, NEW p \in Procs, fires[p] # <<>>,
         fires' = [fires EXCEPT ![p] = Tail(@)],
         fired' = fired, entries' = entries,
         launched' \subseteq launched \cup {Head(fires[p])}
  PROVE  OnceInLists'
<1>1. /\ fires'[p] = Tail(fires[p])
      /\ \A q \in Procs \ {p} : fires'[q] = fires[q]
      /\ fires[p] \in Seq(Nat)
  BY DEF Base, TypeOK
<1>2. /\ \A q \in Procs : InList(fires[q]) \subseteq fired \ launched /\ fires[q] \in Distinct
      /\ \A q, r \in Procs : q # r => InList(fires[q]) \cap InList(fires[r]) = {}
      /\ fired \cap entries = {} /\ launched \subseteq fired
  BY DEF OnceInLists
<1>3. /\ Head(fires[p]) \in InList(fires[p])
      /\ InList(fires'[p]) \subseteq InList(fires[p])
      /\ fires'[p] \in Distinct /\ Head(fires[p]) \notin InList(fires'[p])
  BY <1>1, <1>2, TailFacts
<1>4. /\ fired' \cap entries' = {} /\ launched' \subseteq fired'
      /\ \A q \in Procs : InList(fires[q]) \subseteq fired'
  BY <1>2, <1>3
<1>5. \A q \in Procs \ {p} : Head(fires[p]) \notin InList(fires[q])
  BY <1>2, <1>3
<1>6. \A q \in Procs \ {p} : InList(fires'[q]) = InList(fires[q]) /\ fires'[q] \in Distinct
  BY <1>1, <1>2
<1>7. \A q \in Procs : InList(fires'[q]) \subseteq fired' \ launched' /\ fires'[q] \in Distinct
  BY <1>2, <1>3, <1>5, <1>6
<1>8. \A q \in Procs \ {p} : /\ InList(fires'[q]) \cap InList(fires'[p]) = {}
                             /\ InList(fires'[p]) \cap InList(fires'[q]) = {}
  BY <1>2, <1>3, <1>6
<1>9. \A q, r \in Procs \ {p} : q # r => InList(fires'[q]) \cap InList(fires'[r]) = {}
  BY <1>2, <1>6
<1>10. \A q, r \in Procs : q # r => InList(fires'[q]) \cap InList(fires'[r]) = {}
  BY <1>8, <1>9
<1> QED
  BY <1>4, <1>7, <1>10 DEF OnceInLists

LEMMA OnceStep == Base /\ OnceInLists /\ [Next]_vars => OnceInLists'
<1> SUFFICES ASSUME Base, OnceInLists, [Next]_vars PROVE OnceInLists'
  OBVIOUS
<1>1. ASSUME NEW d \in Durations,
             \/ \E h \in Tickers : NewTicker(h, d)
             \/ \E h \in Timers : AfterFunc(h, d)
             \/ \E c \in Afters : After(c, d)
             \/ \E p \in Procs : ResetTimer(p, d)
      PROVE  OnceInLists'
  BY <1>1, OnceFrame DEF NewTicker, AfterFunc, After, ResetTimer, Push, frame, ghost
<1>2. ASSUME NEW p \in Procs,
             \/ \E h \in Timers : Stop(p, h) \/ Reset(p, h)
             \/ \E d \in Steps : Advance(p, d)
             \/ Cancel(p) \/ StoreRef(p) \/ Release(p)
             \/ \E e \in entries : Drop(p, e)
      PROVE  OnceInLists'
  BY <1>2, OnceFrame
     DEF Stop, Reset, LockTimer, Advance, Cancel, UnlockTimer, StoreRef, Release, Drop, PopHeap,
         sched, frame, ghost
<1>3. ASSUME \/ \E h \in Tickers : StopTicker(h)
             \/ \E t \in SetTimes : Set(t)
             \/ \E c \in Chans : Receive(c)
             \/ UNCHANGED vars
      PROVE  OnceInLists'
  BY <1>3, OnceFrame DEF StopTicker, Set, Receive, vars, sched, frame, ghost
<1>4. ASSUME NEW p \in Procs, NEW e \in entries, Collect(p, e) \/ CollectTick(p, e)
      PROVE  OnceInLists'
  BY <1>4, OnceCollect DEF Collect, CollectTick, Queue, PopHeap, Push
<1>5. ASSUME NEW p \in Procs, Deliver(p) PROVE OnceInLists'
  <2>1. /\ pc[p] = "fire" /\ fires' = [fires EXCEPT ![p] = Tail(@)]
        /\ fired' = fired /\ entries' = entries
        /\ launched' \subseteq launched \cup {Head(fires[p])}
    BY <1>5 DEF Deliver, SendTick, SendAfter, Launch, NextFire, sched, ghost
  <2> QED
    BY <2>1, OnceDeliver DEF Base, Control
<1> QED
  BY <1>1, <1>2, <1>3, <1>4, <1>5 DEF Next, Drain

\* An entry fires at most once, however many goroutines advance the clock.
THEOREM NothingFiresTwice == Spec => []FiresOnce
<1>1. Init => OnceInLists
  BY DEF Init, OnceInLists, InList, Distinct
<1> QED
  BY <1>1, BaseInit, BaseStep, OnceStep, OnceInListsIsFiresOnce, PTL DEF Spec

-----------------------------------------------------------------------------
(* One Advance fires in order.                                             *)

\* The entries of table tbl that come before f.
Before(tbl, f) ==
  {e \in Nat : \/ tbl[e].deadline < tbl[f].deadline
               \/ tbl[e].deadline = tbl[f].deadline /\ e < f}

\* The lists in firing order.
Sorted(tbl) ==
  {q \in Seq(Nat) : \A i, j \in 1..Len(q) : i < j => q[i] \in Before(tbl, q[j])}

\* Order does not depend on more than the deadlines of the entries in the list.
LEMMA SortedKept ==
  ASSUME NEW tbl, NEW new, NEW q \in Sorted(tbl),
         \A e \in InList(q) : new[e].deadline = tbl[e].deadline
  PROVE  q \in Sorted(new)
<1>1. q \in Seq(Nat) /\ \A i, j \in 1..Len(q) : i < j => q[i] \in Before(tbl, q[j])
  BY DEF Sorted
<1>2. \A i \in 1..Len(q) : new[q[i]].deadline = tbl[q[i]].deadline
  BY DEF InList
<1>3. \A i, j \in 1..Len(q) : i < j => q[i] \in Before(new, q[j])
  BY <1>1, <1>2 DEF Before
<1> QED
  BY <1>1, <1>3 DEF Sorted

\* Appending what comes after everything in the list.
LEMMA AppendSorted ==
  ASSUME NEW tbl, NEW q \in Sorted(tbl), NEW e \in Nat,
         \A x \in InList(q) : x \in Before(tbl, e)
  PROVE  Append(q, e) \in Sorted(tbl)
<1>1. q \in Seq(Nat) /\ \A i, j \in 1..Len(q) : i < j => q[i] \in Before(tbl, q[j])
  BY DEF Sorted
<1>2. /\ Len(Append(q, e)) = Len(q) + 1 /\ Len(q) \in Nat
      /\ \A i \in 1..Len(q) : Append(q, e)[i] = q[i]
      /\ Append(q, e)[Len(q) + 1] = e
      /\ Append(q, e) \in Seq(Nat)
  BY <1>1
<1>3. \A i \in 1..Len(q) : q[i] \in Before(tbl, e)
  BY DEF InList
<1>4. \A i, j \in 1..Len(Append(q, e)) :
        i < j => i \in 1..Len(q) /\ (j \in 1..Len(q) \/ j = Len(q) + 1)
  BY <1>2
<1>5. \A i, j \in 1..Len(Append(q, e)) : i < j => Append(q, e)[i] \in Before(tbl, Append(q, e)[j])
  BY <1>1, <1>2, <1>3, <1>4
<1> QED
  BY <1>2, <1>5 DEF Sorted

\* Taking the head off.
LEMMA TailSorted ==
  ASSUME NEW tbl, NEW q \in Sorted(tbl), q # <<>>
  PROVE  Tail(q) \in Sorted(tbl)
<1>1. q \in Seq(Nat) /\ \A i, j \in 1..Len(q) : i < j => q[i] \in Before(tbl, q[j])
  BY DEF Sorted
<1>2. /\ Len(Tail(q)) = Len(q) - 1 /\ Len(q) \in Nat
      /\ \A i \in 1..Len(Tail(q)) : Tail(q)[i] = q[i + 1]
      /\ Tail(q) \in Seq(Nat)
  BY <1>1
<1>3. \A i, j \in 1..Len(Tail(q)) :
        i < j => i + 1 < j + 1 /\ i + 1 \in 1..Len(q) /\ j + 1 \in 1..Len(q)
  BY <1>2
<1>4. \A i, j \in 1..Len(Tail(q)) : i < j => Tail(q)[i] \in Before(tbl, Tail(q)[j])
  BY <1>1, <1>2, <1>3
<1> QED
  BY <1>2, <1>4 DEF Sorted

(***************************************************************************)
(* FiresSorted is not inductive alone: what Advance has collected comes    *)
(* before everything still in the heap as long as it holds the lock, also  *)
(* before the ticks it re-inserts, because periods are positive; and a new *)
(* Advance starts from an empty list.                                      *)
(***************************************************************************)
Order ==
  /\ \A p \in Procs : fires[p] \in Sorted(entry)
  /\ \A p \in Procs : InList(fires[p]) \subseteq 1..nextID
  /\ \A p \in Procs : pc[p] \notin {"drain", "fire"} => fires[p] = <<>>
  /\ \A p \in Procs : pc[p] = "drain" =>
       \A f \in entries : InList(fires[p]) \subseteq Before(entry, f)
  /\ \A h \in Tickers \cap made : period[h] > 0
  /\ \A e \in 1..nextID : entry[e].obj \in made

LEMMA OrderIsSorted == Order => FiresSorted
<1> SUFFICES ASSUME Order, NEW p \in Procs, NEW i \in 1..Len(fires[p]), NEW j \in 1..Len(fires[p]),
                    i < j
             PROVE  \/ entry[fires[p][i]].deadline < entry[fires[p][j]].deadline
                    \/ /\ entry[fires[p][i]].deadline = entry[fires[p][j]].deadline
                       /\ fires[p][i] < fires[p][j]
  BY DEF FiresSorted
<1> QED
  BY DEF Order, Sorted, Before

\* A step that collects and delivers nothing, and pushes only when nobody is
\* draining the heap.
LEMMA OrderFrame ==
  ASSUME Base, Order, fires' = fires, nextID' \in Nat, nextID' >= nextID,
         mu = NoProc \/ entries' \subseteq entries,
         \A e \in 1..nextID : entry'[e].deadline = entry[e].deadline,
         \A p \in Procs : pc'[p] = "drain" => pc[p] = "drain" \/ fires[p] = <<>>,
         \A p \in Procs : pc'[p] \notin {"drain", "fire"} =>
           pc[p] \notin {"drain", "fire"} \/ fires[p] = <<>>,
         \A h \in Tickers \cap made' : period'[h] > 0,
         \A e \in 1..nextID' : entry'[e].obj \in made'
  PROVE  Order'
<1>1. \A p \in Procs : fires[p] \in Sorted(entry')
  BY SortedKept DEF Order
<1>2. ASSUME NEW p \in Procs PROVE InList(fires[p]) \subseteq 1..nextID'
  BY DEF Order, Base, TypeOK
<1>3. ASSUME NEW p \in Procs, pc'[p] = "drain", NEW f \in entries', NEW e \in InList(fires[p])
      PROVE  e \in Before(entry', f)
  <2>1. fires[p] # <<>>
    BY <1>3 DEF InList
  <2>2. pc[p] = "drain" /\ mu # NoProc
    BY <1>3, <2>1, SchedulerAssumption DEF Base, Control
  <2>3. f \in entries /\ f \in 1..nextID /\ e \in 1..nextID
    BY <2>2 DEF Base, TypeOK, Order
  <2>4. e \in Before(entry, f)
    BY <2>2, <2>3 DEF Order
  <2> QED
    BY <2>3, <2>4 DEF Before
<1>4. \A p \in Procs : pc'[p] \notin {"drain", "fire"} => fires'[p] = <<>>
  BY DEF Order
<1> QED
  BY <1>1, <1>2, <1>3, <1>4 DEF Order

\* A step that registers an entry for a handle that exists afterwards.
LEMMA OrderPush ==
  ASSUME Base, Order, mu = NoProc, fires' = fires,
         NEW tbl \in [1..nextID -> Entry], NEW obj \in Handles, NEW t \in Int,
         \A e \in 1..nextID : tbl[e].deadline = entry[e].deadline /\ tbl[e].obj = entry[e].obj,
         Push(tbl, entries, obj, t), made' = made \cup {obj},
         \A h \in Tickers \cap made' : period'[h] > 0,
         \A p \in Procs : pc'[p] = pc[p] \/ (pc[p] = "reset" /\ pc'[p] = "store")
  PROVE  Order'
<1>1. /\ nextID' = nextID + 1 /\ nextID' \in Nat /\ nextID \in Nat
      /\ \A e \in 1..nextID : entry'[e] = tbl[e]
      /\ entry'[nextID'].obj = obj
  <2>1. entries \in SUBSET (1..nextID) /\ nextID \in Nat
    BY DEF Base, TypeOK
  <2>pushed. Pushed(tbl, entries, obj, t)
    BY <2>1, PushFacts DEF Base
  <2> QED
    BY <2>1, <2>pushed DEF Pushed
<1>2. \A e \in 1..nextID : entry'[e].deadline = entry[e].deadline
  BY <1>1
<1>3. \A e \in 1..nextID' : entry'[e].obj \in made'
  <2>1. \A e \in 1..nextID' : e \in 1..nextID \/ e = nextID'
    BY <1>1
  <2> QED
    BY <1>1, <2>1 DEF Order
<1> QED
  BY <1>1, <1>2, <1>3, OrderFrame

\* A step that collects the top entry e; what is in the heap afterwards comes
\* after e.
LEMMA OrderCollect ==
  ASSUME Base, Order, NEW p \in Procs, NEW e \in entries, pc[p] = "drain", pc' = pc,
         IsTop(e), fires' = [fires EXCEPT ![p] = Append(@, e)],
         nextID' \in Nat, nextID' >= nextID,
         \A f \in 1..nextID : entry'[f] = entry[f],
         \A f \in entries' : f \in Nat /\ entry'[f].deadline \in Int,
         \A f \in entries' : e \in Before(entry', f),
         UNCHANGED <<made, period>>,
         \A f \in 1..nextID' : entry'[f].obj \in made
  PROVE  Order'
<1>1. /\ e \in 1..nextID /\ e \in Nat /\ nextID \in Nat
      /\ fires'[p] = Append(fires[p], e)
      /\ \A q \in Procs \ {p} : fires'[q] = fires[q] /\ pc[q] # "drain"
      /\ fires[p] \in Seq(Nat)
      /\ \A f \in 1..nextID : entry[f].deadline \in Int
  BY DEF Base, TypeOK, Control, Entry
<1>2. \A q \in Procs : fires[q] \in Sorted(entry') /\ InList(fires[q]) \subseteq 1..nextID
  BY SortedKept DEF Order
<1>3. \A x \in InList(fires[p]) : x \in Before(entry, e)
  BY DEF Order
<1>4. \A x \in InList(fires[p]) : x \in Before(entry', e)
  BY <1>1, <1>2, <1>3 DEF Before
<1>5. fires'[p] \in Sorted(entry')
  BY <1>1, <1>2, <1>4, AppendSorted
<1>6. InList(fires'[p]) = InList(fires[p]) \cup {e}
  BY <1>1, AppendFacts
<1>7. \A q \in Procs : fires'[q] \in Sorted(entry')
  BY <1>1, <1>2, <1>5
<1>8. \A q \in Procs : InList(fires'[q]) \subseteq 1..nextID'
  <2>1. 1..nextID \subseteq 1..nextID'
    BY <1>1
  <2> QED
    BY <1>1, <1>2, <1>6, <2>1
<1>9. ASSUME NEW f \in entries', NEW x \in InList(fires'[p])
      PROVE  x \in Before(entry', f)
  <2>1. CASE x = e
    BY <2>1
  <2>2. CASE x \in InList(fires[p])
    <3>1. x \in Before(entry', e) /\ e \in Before(entry', f) /\ x \in 1..nextID
      BY <1>2, <1>4, <2>2
    <3>2. /\ entry'[x].deadline \in Int /\ entry'[e].deadline \in Int /\ entry'[f].deadline \in Int
          /\ f \in Nat
      BY <1>1, <3>1
    <3> QED
      BY <1>1, <3>1, <3>2 DEF Before
  <2> QED
    BY <1>6, <1>9, <2>1, <2>2
<1>10. \A q \in Procs : pc'[q] = "drain" =>
         \A f \in entries' : InList(fires'[q]) \subseteq Before(entry', f)
  BY <1>1, <1>9
<1>11. \A q \in Procs : pc'[q] \notin {"drain", "fire"} => fires'[q] = <<>>
  BY <1>1 DEF Order
<1> QED
  BY <1>7, <1>8, <1>10, <1>11 DEF Order

\* A step that delivers the head of p's list.
LEMMA OrderDeliver ==
  ASSUME Base, Order, NEW p \in Procs, pc[p] = "fire",
         fires' = [fires EXCEPT ![p] = Tail(@)],
         pc' = [pc EXCEPT ![p] = IF Tail(fires[p]) = <<>> THEN "idle" ELSE "fire"],
         UNCHANGED <<entry, entries, nextID, made, period>>
  PROVE  Order'
<1>1. /\ fires[p] # <<>> /\ fires[p] \in Seq(Nat)
      /\ fires'[p] = Tail(fires[p])
      /\ pc'[p] = IF Tail(fires[p]) = <<>> THEN "idle" ELSE "fire"
      /\ \A q \in Procs \ {p} : fires'[q] = fires[q] /\ pc'[q] = pc[q]
  BY DEF Base, TypeOK, Control
<1>2. fires'[p] \in Sorted(entry)
  BY <1>1, TailSorted DEF Order
<1>3. InList(fires'[p]) \subseteq InList(fires[p])
  BY <1>1, TailElements
<1>4. \A q \in Procs : fires'[q] \in Sorted(entry) /\ InList(fires'[q]) \subseteq 1..nextID
  BY <1>1, <1>2, <1>3 DEF Order
<1>5. \A q \in Procs : pc'[q] \notin {"drain", "fire"} => fires'[q] = <<>>
  BY <1>1 DEF Order
<1>6. \A q \in Procs : pc'[q] = "drain" =>
        \A f \in entries : InList(fires'[q]) \subseteq Before(entry, f)
  BY <1>1 DEF Order
<1> QED
  BY <1>4, <1>5, <1>6 DEF Order

LEMMA OrderStep == Base /\ Order /\ [Next]_vars => Order'
<1> SUFFICES ASSUME Base, Order, [Next]_vars PROVE Order'
  OBVIOUS
<1> USE SchedulerAssumption DEF Handles
<1>0. pc \in [Procs -> {"idle", "cancel", "reset", "store", "drain", "fire"}]
  BY DEF Base, TypeOK
<1>1. ASSUME NEW h \in Tickers, NEW d \in Durations, NewTicker(h, d) PROVE Order'
  <2>1. \A k \in Tickers \cap made' : period'[k] > 0
    BY <1>1 DEF NewTicker, Order, Base, TypeOK
  <2>2. entry \in [1..nextID -> Entry] /\ now + d \in Int
    BY DEF Base, TypeOK
  <2>3. /\ Push(entry, entries, h, now + d) /\ mu = NoProc
        /\ fires' = fires /\ pc' = pc /\ made' = made \cup {h}
    BY <1>1 DEF NewTicker, frame
  <2>4. h \in Handles
    OBVIOUS
  <2>5. \A q \in Procs : pc'[q] = pc[q]
    BY <2>3
  <2> QED
    BY <2>1, <2>2, <2>3, <2>4, <2>5, OrderPush
<1>2. ASSUME NEW h \in Timers, NEW d \in Durations, AfterFunc(h, d) PROVE Order'
  <2>1. \A k \in Tickers \cap made' : period'[k] > 0
    BY <1>2 DEF AfterFunc, Order
  <2>2. entry \in [1..nextID -> Entry] /\ now + d \in Int
    BY DEF Base, TypeOK
  <2>3. /\ Push(entry, entries, h, now + d) /\ mu = NoProc
        /\ fires' = fires /\ pc' = pc /\ made' = made \cup {h}
    BY <1>2 DEF AfterFunc, frame
  <2>4. h \in Handles
    OBVIOUS
  <2>5. \A q \in Procs : pc'[q] = pc[q]
    BY <2>3
  <2> QED
    BY <2>1, <2>2, <2>3, <2>4, <2>5, OrderPush
<1>3. ASSUME NEW c \in Afters, NEW d \in Durations, After(c, d) PROVE Order'
  <2>1. \A k \in Tickers \cap made' : period'[k] > 0
    BY <1>3 DEF After, Order
  <2>2. entry \in [1..nextID -> Entry] /\ now + d \in Int
    BY DEF Base, TypeOK
  <2>3. /\ Push(entry, entries, c, now + d) /\ mu = NoProc
        /\ fires' = fires /\ pc' = pc /\ made' = made \cup {c}
    BY <1>3 DEF After, frame
  <2>4. c \in Handles
    OBVIOUS
  <2>5. \A q \in Procs : pc'[q] = pc[q]
    BY <2>3
  <2> QED
    BY <2>1, <2>2, <2>3, <2>4, <2>5, OrderPush
<1>4. ASSUME NEW p \in Procs, NEW d \in Durations, ResetTimer(p, d) PROVE Order'
  <2> DEFINE g == timer[p]
             k == ref[g]
  <2>1. g \in Timers \cap made /\ k \in 1..nextID /\ now + d \in Int
    BY <1>4 DEF Base, TypeOK, Control, ResetTimer, OnTimer, NoTimer
  <2>2. /\ Kill(k) \in [1..nextID -> Entry]
        /\ \A e \in 1..nextID : /\ Kill(k)[e].deadline = entry[e].deadline
                                /\ Kill(k)[e].obj = entry[e].obj
    BY <2>1, KillFacts DEF Base
  <2>3. /\ Push(Kill(k), entries, g, now + d) /\ mu = NoProc /\ fires' = fires
        /\ made' = made /\ period' = period
        /\ pc[p] = "reset" /\ pc' = [pc EXCEPT ![p] = "store"]
    BY <1>4 DEF ResetTimer, tick
  <2>6. \A q \in Procs : pc'[q] = pc[q] \/ (pc[q] = "reset" /\ pc'[q] = "store")
    BY <1>0, <2>3
  <2>7. made' = made \cup {g}
    BY <2>1, <2>3
  <2>4. \A h \in Tickers \cap made' : period'[h] > 0
    BY <2>1, <2>3 DEF Order
  <2>5. g \in Handles
    BY <2>1
  <2> HIDE DEF g, k
  <2> QED
    BY <2>1, <2>2, <2>3, <2>4, <2>5, <2>6, <2>7, OrderPush
<1>5. ASSUME \/ \E h \in Tickers : StopTicker(h)
             \/ \E t \in SetTimes : Set(t)
             \/ \E c \in Chans : Receive(c)
             \/ UNCHANGED vars
      PROVE  Order'
  <2>1. UNCHANGED <<fires, entry, entries, nextID, pc, made, period>>
    BY <1>5 DEF StopTicker, Set, Receive, vars, sched, tick, frame
  <2> QED
    BY <2>1, OrderFrame DEF Order, Base, TypeOK
<1>6. ASSUME NEW p \in Procs,
             \/ \E h \in Timers : Stop(p, h) \/ Reset(p, h)
             \/ \E d \in Steps : Advance(p, d)
             \/ StoreRef(p) \/ Release(p)
             \/ \E e \in entries : Drop(p, e)
      PROVE  Order'
  <2>1. /\ UNCHANGED <<fires, entry, nextID, made, period>> /\ entries' \subseteq entries
    BY <1>6 DEF Stop, Reset, LockTimer, Advance, StoreRef, UnlockTimer, Release, Drop, PopHeap,
                sched, tick, frame
  <2>2. ASSUME NEW q \in Procs, pc'[q] # pc[q]
        PROVE  /\ pc'[q] = "drain" => pc[q] = "idle"
               /\ pc'[q] \notin {"drain", "fire"} => pc[q] # "fire"
               /\ pc'[q] \notin {"drain", "fire"} /\ pc[q] = "drain" => fires[q] = <<>>
    BY <1>6, <2>2 DEF Stop, Reset, LockTimer, Advance, StoreRef, UnlockTimer, Release, Drop, Firing,
                frame, Base, TypeOK
  <2>3. \A q \in Procs : pc[q] = "idle" => fires[q] = <<>>
    BY DEF Order
  <2>4. ASSUME NEW q \in Procs
        PROVE  /\ pc'[q] = "drain" => pc[q] = "drain" \/ fires[q] = <<>>
               /\ pc'[q] \notin {"drain", "fire"} =>
                    pc[q] \notin {"drain", "fire"} \/ fires[q] = <<>>
    <3>1. CASE pc'[q] = pc[q]
      BY <3>1
    <3>2. CASE pc'[q] # pc[q]
      BY <2>2, <2>3, <3>2
    <3> QED
      BY <3>1, <3>2
  <2>5. /\ nextID' \in Nat /\ nextID' >= nextID
        /\ \A h \in Tickers \cap made' : period'[h] > 0
        /\ \A e \in 1..nextID' : entry'[e].obj \in made'
    BY <2>1 DEF Order, Base, TypeOK
  <2> QED
    BY <2>1, <2>4, <2>5, OrderFrame
<1>7. ASSUME NEW p \in Procs, Cancel(p) PROVE Order'
  <2>1. timer[p] \in Timers /\ ref[timer[p]] \in 1..nextID
    BY <1>7 DEF Base, TypeOK, Control, Cancel, OnTimer, NoTimer
  <2>2. /\ \A e \in 1..nextID : entry'[e].deadline = entry[e].deadline /\ entry'[e].obj = entry[e].obj
    BY <1>7, <2>1, KillFacts DEF Base, Cancel
  <2>3. /\ UNCHANGED <<fires, entries, nextID, made, period>>
        /\ pc[p] = "cancel" /\ pc' = [pc EXCEPT ![p] = "idle"]
    BY <1>7 DEF Cancel, UnlockTimer, tick
  <2>4. \A q \in Procs : pc'[q] = pc[q] \/ (pc[q] = "cancel" /\ pc'[q] = "idle")
    BY <1>0, <2>3
  <2>5. /\ nextID' \in Nat /\ nextID' >= nextID
        /\ \A h \in Tickers \cap made' : period'[h] > 0
        /\ \A e \in 1..nextID' : entry'[e].obj \in made'
    <3>1. nextID \in Nat
      BY DEF Base, TypeOK
    <3> QED
      BY <2>2, <2>3, <3>1 DEF Order
  <2> QED
    BY <2>2, <2>3, <2>4, <2>5, OrderFrame
<1>8. ASSUME NEW p \in Procs, NEW e \in entries, Collect(p, e) PROVE Order'
  <2>1. /\ pc[p] = "drain" /\ IsTop(e) /\ fires' = [fires EXCEPT ![p] = Append(@, e)]
        /\ entries' = entries \ {e}
        /\ UNCHANGED <<nextID, entry, pc, made, period>>
    BY <1>8 DEF Collect, Due, Queue, PopHeap, tick
  <2>2. \A f \in entries' : f \in Nat /\ entry[f].deadline \in Int /\ e \in Before(entry, f)
    BY <2>1 DEF IsTop, Less, Before, Base, TypeOK, Entry
  <2>3. /\ nextID' \in Nat /\ nextID' >= nextID
        /\ \A f \in 1..nextID : entry'[f] = entry[f]
        /\ \A f \in 1..nextID' : entry'[f].obj \in made
    BY <2>1 DEF Order, Base, TypeOK
  <2> QED
    BY <2>1, <2>2, <2>3, OrderCollect
<1>9. ASSUME NEW p \in Procs, NEW e \in entries, CollectTick(p, e) PROVE Order'
  <2> DEFINE h == entry[e].obj
  <2>1. /\ pc[p] = "drain" /\ IsTop(e) /\ fires' = [fires EXCEPT ![p] = Append(@, e)]
        /\ Push(entry, PopHeap(e), h, NextDeadline(p, e))
        /\ UNCHANGED <<pc, made, period>>
        /\ h \in Tickers
    BY <1>9 DEF CollectTick, Due, Queue, tick
  <2>2. /\ e \in 1..nextID /\ entry[e].deadline \in Int /\ h \in made
        /\ period[h] \in Int /\ period[h] > 0
    BY <2>1 DEF Base, TypeOK, Entry, Order
  <2>3. NextDeadline(p, e) \in Int /\ NextDeadline(p, e) > entry[e].deadline
    BY <2>2 DEF NextDeadline
  <2>4. entry \in [1..nextID -> Entry] /\ PopHeap(e) \in SUBSET (1..nextID) /\ nextID \in Nat
    BY DEF Base, TypeOK, PopHeap
  <2> HIDE DEF h
  <2>8. h \in Handles
    BY <2>1
  <2>5. /\ nextID' = nextID + 1 /\ nextID' \in Nat
        /\ entries' = PopHeap(e) \cup {nextID'}
        /\ \A f \in 1..nextID : entry'[f] = entry[f]
        /\ entry'[nextID'].deadline = NextDeadline(p, e)
        /\ entry'[nextID'].obj = h
    <3>1. /\ Push(entry, PopHeap(e), h, NextDeadline(p, e)) /\ NextDeadline(p, e) \in Int
          /\ PopHeap(e) \in SUBSET (1..nextID)
      BY <2>1, <2>3, <2>4
    <3>pushed. Pushed(entry, PopHeap(e), h, NextDeadline(p, e))
      BY <2>4, <2>8, <3>1, PushFacts DEF Base
    <3> QED
      BY <2>4, <2>8, <3>1, <3>pushed DEF Pushed
  <2>6. ASSUME NEW f \in entries'
        PROVE  f \in Nat /\ entry'[f].deadline \in Int /\ e \in Before(entry', f)
    <3>1. CASE f = nextID'
      BY <2>2, <2>3, <2>5, <3>1 DEF Before
    <3>2. CASE f # nextID'
      <4>1. f \in entries \ {e} /\ f \in 1..nextID /\ entry[f].deadline \in Int
        BY <2>5, <3>2 DEF PopHeap, Base, TypeOK, Entry
      <4>2. e \in Before(entry, f)
        BY <2>1, <2>2, <4>1 DEF IsTop, Less, Before
      <4> QED
        BY <2>2, <2>5, <4>1, <4>2 DEF Before
    <3> QED
      BY <3>1, <3>2
  <2>7. \A f \in 1..nextID' : entry'[f].obj \in made
    <3>1. \A f \in 1..nextID' : f \in 1..nextID \/ f = nextID'
      BY <2>4, <2>5
    <3> QED
      BY <2>2, <2>5, <3>1 DEF Order
  <2> QED
    <3>1. nextID' >= nextID
      BY <2>4, <2>5
    <3> QED
      BY <2>1, <2>5, <2>6, <2>7, <3>1, OrderCollect
<1>10. ASSUME NEW p \in Procs, Deliver(p) PROVE Order'
  <2>1. /\ pc[p] = "fire" /\ fires' = [fires EXCEPT ![p] = Tail(@)]
        /\ pc' = [pc EXCEPT ![p] = IF Tail(fires[p]) = <<>> THEN "idle" ELSE "fire"]
        /\ UNCHANGED <<entry, entries, nextID, made, period>>
    BY <1>10 DEF Deliver, SendTick, SendAfter, Launch, NextFire, Firing, sched, tick
  <2> QED
    BY <2>1, OrderDeliver
<1> QED
  BY <1>1, <1>2, <1>3, <1>4, <1>5, <1>6, <1>7, <1>8, <1>9, <1>10 DEF Next, Drain

\* What one Advance fires is in deadline order, ties in registration order.
THEOREM OneAdvanceFiresInOrder == Spec => []FiresSorted
<1>1. Init => Order
  BY DEF Init, Order, Sorted, InList
<1> QED
  BY <1>1, BaseInit, BaseStep, OrderStep, OrderIsSorted, PTL DEF Spec

-----------------------------------------------------------------------------
(* Tickers are regular.                                                    *)

(***************************************************************************)
(* A timer's handle points to an entry of that timer, so Stop and Reset    *)
(* put tombstones on timers' entries only and no ticker's entry is lost to *)
(* them.                                                                   *)
(***************************************************************************)
Refs ==
  /\ \A h \in Timers \cap made : entry[ref[h]].obj = h
  /\ \A p \in Procs : pc[p] = "store" => entry[fresh[p]].obj = timer[p]
  /\ \A e \in 1..nextID : entry[e].obj \in Tickers => ~entry[e].dead

\* A step after which every entry is of the same handle as before.
LEMMA RefsFrame ==
  ASSUME Base, Refs, UNCHANGED <<nextID, made, ref, fresh, timer>>,
         \A e \in 1..nextID : entry'[e].obj = entry[e].obj,
         \A e \in 1..nextID : entry[e].obj \in Tickers => entry'[e].dead = entry[e].dead,
         \A p \in Procs : pc'[p] = "store" => pc[p] = "store"
  PROVE  Refs'
<1>1. \A h \in Timers \cap made : ref[h] \in 1..nextID
  BY DEF Base, TypeOK, Control
<1>2. \A p \in Procs : pc[p] = "store" => fresh[p] \in 1..nextID
  BY DEF Base, TypeOK, Control
<1> QED
  BY <1>1, <1>2 DEF Refs

\* A step that pushes an entry for a ticker or a channel.
LEMMA RefsPush ==
  ASSUME Base, Refs, NEW heap \in SUBSET (1..nextID),
         NEW obj \in Handles \ Timers, NEW t \in Int,
         Push(entry, heap, obj, t), made' = made \cup {obj},
         UNCHANGED <<ref, fresh, timer, pc>>
  PROVE  Refs'
<1>1. /\ nextID' = nextID + 1 /\ nextID \in Nat
      /\ \A e \in 1..nextID : entry'[e] = entry[e]
      /\ entry'[nextID'].dead = FALSE
  <2>1. entry \in [1..nextID -> Entry] /\ nextID \in Nat
    BY DEF Base, TypeOK
  <2>pushed. Pushed(entry, heap, obj, t)
    BY <2>1, PushFacts DEF Base
  <2> QED
    BY <2>1, <2>pushed DEF Pushed
<1>2. \A h \in Timers \cap made' : h \in made /\ ref[h] \in 1..nextID
  BY DEF Base, TypeOK, Control
<1>3. \A p \in Procs : pc[p] = "store" => fresh[p] \in 1..nextID
  BY DEF Base, TypeOK, Control
<1>4. \A e \in 1..nextID' : e \in 1..nextID \/ e = nextID'
  BY <1>1
<1> QED
  BY <1>1, <1>2, <1>3, <1>4 DEF Refs

LEMMA RefsStep == Base /\ Order /\ Refs /\ [Next]_vars => Refs'
<1> SUFFICES ASSUME Base, Order, Refs, [Next]_vars PROVE Refs'
  OBVIOUS
<1> USE SchedulerAssumption DEF Handles
<1>0. /\ pc \in [Procs -> {"idle", "cancel", "reset", "store", "drain", "fire"}]
      /\ entry \in [1..nextID -> Entry] /\ nextID \in Nat /\ entries \in SUBSET (1..nextID)
      /\ now \in Int /\ Durations \subseteq Int
  BY DEF Base, TypeOK
<1>1. ASSUME NEW h \in Handles \ Timers, NEW d \in Durations, NewTicker(h, d) \/ After(h, d)
      PROVE  Refs'
  <2>1. /\ Push(entry, entries, h, now + d) /\ made' = made \cup {h}
        /\ UNCHANGED <<ref, fresh, timer, pc>> /\ now + d \in Int
    BY <1>0, <1>1 DEF NewTicker, After, locks, frame
  <2> QED
    BY <1>0, <2>1, RefsPush
<1>2. ASSUME NEW h \in Timers, NEW d \in Durations, AfterFunc(h, d) PROVE Refs'
  <2>1. Push(entry, entries, h, now + d) /\ now + d \in Int /\ h \in Handles
    BY <1>0, <1>2 DEF AfterFunc
  <2>2. /\ nextID' = nextID + 1
        /\ \A e \in 1..nextID : entry'[e] = entry[e]
        /\ entry'[nextID'].obj = h
    <3>pushed. Pushed(entry, entries, h, now + d)
      BY <1>0, <2>1, PushFacts DEF Base
    <3> QED
      BY <1>0, <2>1, <3>pushed DEF Pushed
  <2>3. /\ ref' = [ref EXCEPT ![h] = nextID'] /\ made' = made \cup {h}
        /\ UNCHANGED <<fresh, timer, pc>>
    BY <1>2, <2>2 DEF AfterFunc, frame
  <2>4. \A g \in (Timers \cap made') \ {h} : g \in made /\ ref'[g] = ref[g] /\ ref[g] \in 1..nextID
    BY <2>3 DEF Base, TypeOK, Control
  <2>5. ref'[h] = nextID'
    BY <2>3 DEF Base, TypeOK
  <2>6. \A p \in Procs : pc[p] = "store" => fresh[p] \in 1..nextID
    BY DEF Base, TypeOK, Control
  <2>7. \A e \in 1..nextID' : e \in 1..nextID \/ e = nextID'
    BY <1>0, <2>2
  <2> QED
    BY <2>2, <2>3, <2>4, <2>5, <2>6, <2>7 DEF Refs
<1>3. ASSUME NEW p \in Procs, NEW d \in Durations, ResetTimer(p, d) PROVE Refs'
  <2> DEFINE g == timer[p]
             k == ref[g]
  <2>1. g \in Timers \cap made /\ k \in 1..nextID /\ now + d \in Int /\ g \in Handles
    BY <1>0, <1>3 DEF Base, TypeOK, Control, ResetTimer, OnTimer, NoTimer
  <2>2. entry[k].obj = g
    BY <2>1 DEF Refs
  <2>3. /\ Push(Kill(k), entries, g, now + d)
        /\ pc' = [pc EXCEPT ![p] = "store"] /\ fresh' = [fresh EXCEPT ![p] = nextID + 1]
        /\ UNCHANGED <<ref, timer, made>>
    BY <1>3 DEF ResetTimer, tick, locks
  <2> HIDE DEF g, k
  <2>4. /\ Kill(k) \in [1..nextID -> Entry]
        /\ \A e \in 1..nextID : Kill(k)[e].obj = entry[e].obj
        /\ \A e \in 1..nextID : e # k => Kill(k)[e] = entry[e]
    BY <2>1, KillFacts DEF Base
  <2>5. /\ nextID' = nextID + 1
        /\ \A e \in 1..nextID : entry'[e] = Kill(k)[e]
        /\ entry'[nextID'].obj = g
    <3>pushed. Pushed(Kill(k), entries, g, now + d)
      BY <1>0, <2>1, <2>3, <2>4, PushFacts DEF Base
    <3> QED
      BY <1>0, <2>1, <2>3, <2>4, <3>pushed DEF Pushed
  <2>6. /\ \A e \in 1..nextID : entry'[e].obj = entry[e].obj
        /\ \A e \in 1..nextID : entry[e].obj \in Tickers => entry'[e].dead = entry[e].dead
    BY <2>1, <2>2, <2>4, <2>5
  <2>7. \A h \in Timers \cap made : ref[h] \in 1..nextID
    BY DEF Base, TypeOK, Control
  <2>8. \A q \in Procs \ {p} : /\ pc'[q] = pc[q] /\ fresh'[q] = fresh[q]
                               /\ pc[q] = "store" => fresh[q] \in 1..nextID
    BY <2>3 DEF Base, TypeOK, Control
  <2>9. fresh'[p] = nextID' /\ timer[p] = g
    BY <2>3, <2>5 DEF Base, TypeOK, g
  <2>10. \A e \in 1..nextID' : e \in 1..nextID \/ e = nextID'
    BY <1>0, <2>5
  <2>11. \A h \in Timers \cap made' : (entry[ref[h]].obj)' = h
    BY <2>3, <2>6, <2>7 DEF Refs
  <2>12. \A q \in Procs : pc'[q] = "store" => entry'[fresh'[q]].obj = timer'[q]
    BY <2>3, <2>5, <2>6, <2>8, <2>9 DEF Refs
  <2>13. \A e \in 1..nextID' : entry'[e].obj \in Tickers => ~entry'[e].dead
    BY <2>1, <2>5, <2>6, <2>10 DEF Refs
  <2> QED
    BY <2>11, <2>12, <2>13 DEF Refs
<1>4. ASSUME NEW p \in Procs, Cancel(p) PROVE Refs'
  <2>1. timer[p] \in Timers \cap made /\ ref[timer[p]] \in 1..nextID
    BY <1>4 DEF Base, TypeOK, Control, Cancel, OnTimer, NoTimer
  <2>2. entry[ref[timer[p]]].obj \notin Tickers
    BY <2>1 DEF Refs
  <2>3. entry' = Kill(ref[timer[p]]) /\ UNCHANGED <<nextID, made, ref, fresh>>
    BY <1>4 DEF Cancel, tick
  <2>4. pc' = [pc EXCEPT ![p] = "idle"] /\ timer' = [timer EXCEPT ![p] = NoTimer]
    BY <1>4 DEF Cancel, UnlockTimer
  <2>5. /\ \A e \in 1..nextID : entry'[e].obj = entry[e].obj
        /\ \A e \in 1..nextID : entry[e].obj \in Tickers => entry'[e].dead = entry[e].dead
    BY <2>1, <2>2, <2>3, KillFacts DEF Base
  <2>6. \A h \in Timers \cap made : ref[h] \in 1..nextID
    BY DEF Base, TypeOK, Control
  <2>7. \A q \in Procs : pc'[q] = "store" =>
          pc[q] = "store" /\ timer'[q] = timer[q] /\ fresh[q] \in 1..nextID
    BY <2>4 DEF Base, TypeOK, Control
  <2>8. \A h \in Timers \cap made' : (entry[ref[h]].obj)' = h
    BY <2>3, <2>5, <2>6 DEF Refs
  <2>9. \A q \in Procs : pc'[q] = "store" => entry'[fresh'[q]].obj = timer'[q]
    BY <2>3, <2>5, <2>7 DEF Refs
  <2>10. \A e \in 1..nextID' : entry'[e].obj \in Tickers => ~entry'[e].dead
    BY <2>3, <2>5 DEF Refs
  <2> QED
    BY <2>8, <2>9, <2>10 DEF Refs
<1>5. ASSUME NEW p \in Procs, StoreRef(p) PROVE Refs'
  <2>1. /\ pc[p] = "store" /\ timer[p] \in Timers
        /\ pc' = [pc EXCEPT ![p] = "idle"] /\ ref' = [ref EXCEPT ![timer[p]] = fresh[p]]
        /\ timer' = [timer EXCEPT ![p] = NoTimer] /\ fresh' = [fresh EXCEPT ![p] = 0]
        /\ UNCHANGED <<entry, nextID, made>>
    BY <1>5 DEF StoreRef, UnlockTimer, sched, tick, Base, TypeOK, Control, OnTimer, NoTimer
  <2>2. \A q \in Procs : pc'[q] = "store" =>
          pc[q] = "store" /\ timer'[q] = timer[q] /\ fresh'[q] = fresh[q]
    BY <2>1 DEF Base, TypeOK
  <2>3. /\ ref'[timer[p]] = fresh[p]
        /\ \A h \in Timers \ {timer[p]} : ref'[h] = ref[h]
    BY <2>1 DEF Base, TypeOK
  <2> QED
    BY <2>1, <2>2, <2>3 DEF Refs
<1>6. ASSUME NEW p \in Procs, NEW h \in Timers, NEW next \in {"cancel", "reset"}, LockTimer(p, h, next)
      PROVE  Refs'
  <2>1. /\ UNCHANGED <<entry, nextID, made, ref, fresh>>
        /\ pc[p] = "idle" /\ pc' = [pc EXCEPT ![p] = next] /\ timer' = [timer EXCEPT ![p] = h]
    BY <1>6 DEF LockTimer, sched, tick
  <2>2. \A q \in Procs : pc'[q] = "store" => pc[q] = "store" /\ timer'[q] = timer[q]
    BY <2>1 DEF Base, TypeOK
  <2> QED
    BY <2>1, <2>2 DEF Refs
<1>7. ASSUME NEW p \in Procs, NEW e \in entries, CollectTick(p, e) PROVE Refs'
  <2> DEFINE h == entry[e].obj
  <2>1. /\ Push(entry, PopHeap(e), h, NextDeadline(p, e)) /\ h \in Tickers
        /\ UNCHANGED <<made, ref, fresh, timer, pc>>
    BY <1>7 DEF CollectTick, tick, locks
  <2>2. h \in made /\ h \in Handles \ Timers /\ NextDeadline(p, e) \in Int
    BY <1>0, <2>1 DEF Order, NextDeadline, Base, TypeOK, Entry
  <2>3. PopHeap(e) \in SUBSET (1..nextID)
    BY <1>0 DEF PopHeap
  <2> HIDE DEF h
  <2>4. made' = made \cup {h}
    BY <2>1, <2>2
  <2> QED
    BY <2>1, <2>2, <2>3, <2>4, RefsPush
<1>8. ASSUME \/ \E h \in Tickers : StopTicker(h)
             \/ \E t \in SetTimes : Set(t)
             \/ \E c \in Chans : Receive(c)
             \/ UNCHANGED vars
      PROVE  Refs'
  <2>1. UNCHANGED <<entry, nextID, made, ref, fresh, timer, pc>>
    BY <1>8 DEF StopTicker, Set, Receive, vars, sched, tick, locks, frame
  <2> QED
    BY <2>1, RefsFrame
<1>9. ASSUME NEW p \in Procs,
             \/ \E d \in Steps : Advance(p, d)
             \/ \E e \in entries : Drop(p, e) \/ Collect(p, e)
             \/ Release(p) \/ Deliver(p)
      PROVE  Refs'
  <2>1. /\ UNCHANGED <<entry, nextID, made, ref, fresh, timer>>
    BY <1>9 DEF Advance, Drop, Collect, Release, Deliver, SendTick, SendAfter, Launch, NextFire,
                sched, tick, locks, frame
  <2>2. pc' = pc \/ \E s \in {"idle", "drain", "fire"} : pc' = [pc EXCEPT ![p] = s]
    BY <1>9 DEF Advance, Drop, Collect, Release, Deliver, SendTick, SendAfter, Launch, NextFire,
                Firing, frame
  <2>3. \A q \in Procs : pc'[q] = "store" => pc[q] = "store"
    BY <1>0, <2>2
  <2> QED
    BY <2>1, <2>3, RefsFrame
<1> QED
  BY <1>1, <1>2, <1>3, <1>4, <1>5, <1>6, <1>7, <1>8, <1>9 DEF Next, Drain, Stop, Reset

\* TickerRegular for the entries in the heap, whatever is written on them.
Regular ==
  \A h \in Tickers \cap made : ~stopped[h] =>
    \E e \in entries : /\ entry[e].obj = h
                       /\ entry[e].deadline = lastDue[h] + period[h]
                       /\ \A f \in entries : entry[f].obj = h => f = e

LEMMA RegularIsTickerRegular == Base /\ Order /\ Refs /\ Regular => TickerRegular
<1> SUFFICES ASSUME Base, Order, Refs, Regular, NEW h \in Tickers \cap made, ~stopped[h]
             PROVE  \E e \in Live(h) : /\ Live(h) = {e}
                                       /\ entry[e].deadline = lastDue[h] + period[h]
                                       /\ period[h] > 0
  BY DEF TickerRegular
<1>1. PICK e \in entries : /\ entry[e].obj = h
                           /\ entry[e].deadline = lastDue[h] + period[h]
                           /\ \A f \in entries : entry[f].obj = h => f = e
  BY DEF Regular
<1>2. ~entry[e].dead
  BY <1>1 DEF Refs, Base, TypeOK
<1>3. Live(h) = {e}
  BY <1>1, <1>2 DEF Live, Skipped
<1> QED
  BY <1>1, <1>3 DEF Order

\* A step that keeps the entries of running tickers and adds none of a ticker.
LEMMA RegularFrame ==
  ASSUME Base, Regular, UNCHANGED <<lastDue, period>>,
         \A h \in Tickers \cap made' : h \in made,
         \A h \in Tickers : stopped[h] => stopped'[h],
         \A e \in 1..nextID : /\ entry'[e].obj = entry[e].obj
                              /\ entry'[e].deadline = entry[e].deadline,
         \A h \in Tickers : \A e \in entries : entry[e].obj = h /\ ~stopped[h] => e \in entries',
         \A f \in entries' : f \in entries \/ entry'[f].obj \notin Tickers
  PROVE  Regular'
<1> SUFFICES ASSUME NEW h \in Tickers, h \in made', ~stopped'[h]
             PROVE  \E e \in entries' : /\ entry'[e].obj = h
                                        /\ entry'[e].deadline = lastDue[h] + period[h]
                                        /\ \A f \in entries' : entry'[f].obj = h => f = e
  BY DEF Regular
<1>1. h \in Tickers \cap made /\ ~stopped[h]
  OBVIOUS
<1>2. PICK e \in entries : /\ entry[e].obj = h
                           /\ entry[e].deadline = lastDue[h] + period[h]
                           /\ \A f \in entries : entry[f].obj = h => f = e
  BY <1>1 DEF Regular
<1>3. \A f \in entries : f \in 1..nextID
  BY DEF Base, TypeOK
<1>4. e \in entries'
  BY <1>1, <1>2
<1>5. \A f \in entries' : entry'[f].obj = h => f = e
  BY <1>2, <1>3
<1> QED
  BY <1>2, <1>3, <1>4, <1>5

LEMMA RegularStep == Base /\ Order /\ Refs /\ Regular /\ [Next]_vars => Regular'
<1> SUFFICES ASSUME Base, Order, Refs, Regular, [Next]_vars PROVE Regular'
  OBVIOUS
<1> USE SchedulerAssumption DEF Handles
<1>0. /\ entry \in [1..nextID -> Entry] /\ nextID \in Nat /\ entries \in SUBSET (1..nextID)
      /\ now \in Int /\ Durations \subseteq Int
      /\ lastDue \in [Tickers -> Int] /\ period \in [Tickers -> Int]
      /\ \A e \in entries : e \in 1..nextID
      /\ \A e \in entries : entry[e].obj \in made
      /\ nextID + 1 \notin 1..nextID
  BY DEF Base, TypeOK, Order
<1>heap. entry \in [1..nextID -> Entry] /\ entries \in SUBSET (1..nextID)
  BY DEF Base, TypeOK
<1>1. ASSUME NEW h \in Tickers, NEW d \in Durations, NewTicker(h, d) PROVE Regular'
  <2>1. /\ Push(entry, entries, h, now + d) /\ h \notin made /\ now + d \in Int /\ h \in Handles
        /\ made' = made \cup {h} /\ period' = [period EXCEPT ![h] = d]
        /\ lastDue' = [lastDue EXCEPT ![h] = now] /\ stopped' = stopped
    BY <1>0, <1>1 DEF NewTicker
  <2>2. /\ nextID' = nextID + 1 /\ entries' = entries \cup {nextID'}
        /\ \A e \in 1..nextID : entry'[e] = entry[e]
        /\ entry'[nextID'].obj = h /\ entry'[nextID'].deadline = now + d
    <3> DEFINE t == now + d
    <3>1. Push(entry, entries, h, t) /\ h \in Handles /\ t \in Int
      BY <2>1
    <3> HIDE DEF t
    <3>2. /\ nextID' = nextID + 1 /\ entries' = entries \cup {nextID'}
          /\ \A e \in 1..nextID : entry'[e] = entry[e]
          /\ entry'[nextID'].obj = h /\ entry'[nextID'].deadline = t
      <4>pushed. Pushed(entry, entries, h, t)
        BY <1>heap, <3>1, PushFacts DEF Base
      <4> QED
        BY <1>heap, <3>1, <4>pushed DEF Pushed
    <3> QED
      BY <3>2 DEF t
  <2>3. ASSUME NEW g \in Tickers \cap made', ~stopped'[g]
        PROVE  \E e \in entries' : /\ entry'[e].obj = g
                                   /\ entry'[e].deadline = lastDue'[g] + period'[g]
                                   /\ \A f \in entries' : entry'[f].obj = g => f = e
    <3>1. CASE g = h
      <4>1. lastDue'[g] + period'[g] = now + d
        BY <1>0, <2>1, <3>1
      <4>2. \A f \in entries' : entry'[f].obj = g => f = nextID'
        BY <1>0, <2>1, <2>2, <3>1
      <4> QED
        BY <2>2, <3>1, <4>1, <4>2
    <3>2. CASE g # h
      <4>1. g \in Tickers \cap made /\ ~stopped[g]
        BY <2>1, <2>3, <3>2
      <4>2. PICK e \in entries : /\ entry[e].obj = g
                                 /\ entry[e].deadline = lastDue[g] + period[g]
                                 /\ \A f \in entries : entry[f].obj = g => f = e
        BY <4>1 DEF Regular
      <4>3. lastDue'[g] = lastDue[g] /\ period'[g] = period[g]
        BY <1>0, <2>1, <3>2, <4>1
      <4>4. \A f \in entries' : entry'[f].obj = g => f = e
        BY <1>0, <2>2, <3>2, <4>2
      <4> QED
        BY <1>0, <2>2, <4>2, <4>3, <4>4
    <3> QED
      BY <3>1, <3>2
  <2> QED
    BY <2>3 DEF Regular
<1>2. ASSUME NEW h \in Timers \cup Afters, NEW d \in Durations, AfterFunc(h, d) \/ After(h, d)
      PROVE  Regular'
  <2>1. /\ Push(entry, entries, h, now + d) /\ now + d \in Int /\ h \in Handles
        /\ made' = made \cup {h} /\ UNCHANGED <<period, lastDue, stopped>>
    BY <1>0, <1>2 DEF AfterFunc, After, ghost
  <2>2. /\ nextID' = nextID + 1 /\ entries' = entries \cup {nextID'}
        /\ \A e \in 1..nextID : entry'[e] = entry[e]
        /\ entry'[nextID'].obj = h
    <3>pushed. Pushed(entry, entries, h, now + d)
      BY <1>0, <2>1, PushFacts DEF Base
    <3> QED
      BY <1>0, <2>1, <3>pushed DEF Pushed
  <2>3. h \notin Tickers
    OBVIOUS
  <2> QED
    BY <2>1, <2>2, <2>3, RegularFrame
<1>3. ASSUME NEW p \in Procs, NEW d \in Durations, ResetTimer(p, d) PROVE Regular'
  <2> DEFINE g == timer[p]
             k == ref[g]
  <2>1. g \in Timers /\ k \in 1..nextID /\ now + d \in Int /\ g \in Handles
    BY <1>0, <1>3 DEF Base, TypeOK, Control, ResetTimer, OnTimer, NoTimer
  <2>2. /\ Push(Kill(k), entries, g, now + d) /\ UNCHANGED <<made, period, lastDue, stopped>>
    BY <1>3 DEF ResetTimer, tick
  <2> HIDE DEF g, k
  <2>3. /\ Kill(k) \in [1..nextID -> Entry]
        /\ \A e \in 1..nextID : /\ Kill(k)[e].obj = entry[e].obj
                                /\ Kill(k)[e].deadline = entry[e].deadline
    BY <2>1, KillFacts DEF Base
  <2>4. /\ nextID' = nextID + 1 /\ entries' = entries \cup {nextID'}
        /\ \A e \in 1..nextID : entry'[e] = Kill(k)[e]
        /\ entry'[nextID'].obj = g
    <3>1. /\ Push(Kill(k), entries, g, now + d) /\ Kill(k) \in [1..nextID -> Entry]
          /\ g \in Handles /\ now + d \in Int
      BY <2>1, <2>2, <2>3
    <3>pushed. Pushed(Kill(k), entries, g, now + d)
      BY <1>heap, <3>1, PushFacts DEF Base
    <3> QED
      BY <1>heap, <3>1, <3>pushed DEF Pushed
  <2>5. g \notin Tickers
    BY <2>1
  <2> QED
    BY <2>2, <2>3, <2>4, <2>5, RegularFrame
<1>4. ASSUME NEW p \in Procs, Cancel(p) PROVE Regular'
  <2>1. timer[p] \in Timers /\ ref[timer[p]] \in 1..nextID
    BY <1>4 DEF Base, TypeOK, Control, Cancel, OnTimer, NoTimer
  <2>2. /\ entry' = Kill(ref[timer[p]])
        /\ UNCHANGED <<entries, made, period, lastDue, stopped>>
    BY <1>4 DEF Cancel, tick
  <2> QED
    BY <2>1, <2>2, KillFacts, RegularFrame DEF Base
<1>5. ASSUME NEW p \in Procs, NEW e \in entries, CollectTick(p, e) PROVE Regular'
  <2> DEFINE h == entry[e].obj
  <2>1. /\ Push(entry, entries \ {e}, h, entry[e].deadline + period[h]) /\ h \in Tickers
        /\ UNCHANGED <<made, period, stopped>>
        /\ lastDue' = [lastDue EXCEPT ![h] = entry[e].deadline]
    BY <1>5 DEF CollectTick, NextDeadline, PopHeap, tick
  <2>2. /\ ~stopped[h] /\ h \in Tickers \cap made /\ h \in Handles
        /\ entry[e].deadline + period[h] \in Int /\ entries \ {e} \in SUBSET (1..nextID)
        /\ entry[e].deadline \in Int
    BY <1>0, <1>5 DEF CollectTick, Skipped, Entry
  <2>3. \A f \in entries : entry[f].obj = h => f = e
    BY <2>2 DEF Regular
  <2>4. entry[e].obj = h
    OBVIOUS
  <2> HIDE DEF h
  <2>5. /\ nextID' = nextID + 1 /\ entries' = (entries \ {e}) \cup {nextID'}
        /\ \A f \in 1..nextID : entry'[f] = entry[f]
        /\ entry'[nextID'].obj = h /\ entry'[nextID'].deadline = entry[e].deadline + period[h]
    <3> DEFINE t == entry[e].deadline + period[h]
               rest == entries \ {e}
    <3>1. Push(entry, rest, h, t) /\ rest \in SUBSET (1..nextID) /\ h \in Handles /\ t \in Int
      BY <2>1, <2>2
    <3> HIDE DEF t, rest
    <3>2. /\ nextID' = nextID + 1 /\ entries' = rest \cup {nextID'}
          /\ \A f \in 1..nextID : entry'[f] = entry[f]
          /\ entry'[nextID'].obj = h /\ entry'[nextID'].deadline = t
      <4>pushed. Pushed(entry, rest, h, t)
        BY <1>heap, <3>1, PushFacts DEF Base
      <4> QED
        BY <1>heap, <3>1, <4>pushed DEF Pushed
    <3> QED
      BY <3>2 DEF t, rest
  <2>6. ASSUME NEW g \in Tickers \cap made', ~stopped'[g]
        PROVE  \E x \in entries' : /\ entry'[x].obj = g
                                   /\ entry'[x].deadline = lastDue'[g] + period'[g]
                                   /\ \A f \in entries' : entry'[f].obj = g => f = x
    <3>1. CASE g = h
      <4>1. lastDue'[g] + period'[g] = entry[e].deadline + period[h]
        BY <1>0, <2>1, <2>2, <3>1
      <4>2. \A f \in entries' : entry'[f].obj = g => f = nextID'
        BY <1>0, <2>3, <2>5, <3>1
      <4> QED
        BY <2>5, <3>1, <4>1, <4>2
    <3>2. CASE g # h
      <4>1. g \in Tickers \cap made /\ ~stopped[g]
        BY <2>1, <2>6
      <4>2. PICK x \in entries : /\ entry[x].obj = g
                                 /\ entry[x].deadline = lastDue[g] + period[g]
                                 /\ \A f \in entries : entry[f].obj = g => f = x
        BY <4>1 DEF Regular
      <4>3. lastDue'[g] = lastDue[g] /\ period'[g] = period[g]
        BY <1>0, <2>1, <3>2, <4>1
      <4>4. \A f \in entries' : entry'[f].obj = g => f = x
        BY <1>0, <2>5, <3>2, <4>2
      <4>5. x \in entries' /\ x \in 1..nextID
        BY <1>0, <2>4, <2>5, <3>2, <4>2
      <4> QED
        BY <2>5, <4>2, <4>3, <4>4, <4>5
    <3> QED
      BY <3>1, <3>2
  <2> QED
    BY <2>6 DEF Regular
<1>6. ASSUME NEW p \in Procs, NEW e \in entries, Drop(p, e) \/ Collect(p, e) PROVE Regular'
  <2>1. /\ entries' = entries \ {e} /\ UNCHANGED <<entry, made, period, stopped, lastDue>>
    BY <1>6 DEF Drop, Collect, PopHeap, tick, ghost
  <2>2. entry[e].obj \in Tickers => stopped[entry[e].obj]
    BY <1>0, <1>6 DEF Drop, Collect, Skipped, Refs
  <2> QED
    BY <2>1, <2>2, RegularFrame
<1>7. ASSUME NEW h \in Tickers, StopTicker(h) PROVE Regular'
  <2>1. /\ UNCHANGED <<entry, entries, made, period, lastDue>>
        /\ stopped' = [stopped EXCEPT ![h] = TRUE]
    BY <1>7 DEF StopTicker, sched, ghost
  <2>2. \A g \in Tickers : stopped[g] => stopped'[g]
    BY <2>1 DEF Base, TypeOK
  <2> QED
    BY <2>1, <2>2, RegularFrame
<1>8. ASSUME \/ \E t \in SetTimes : Set(t)
             \/ \E c \in Chans : Receive(c)
             \/ UNCHANGED vars
      PROVE  Regular'
  <2>1. UNCHANGED <<entry, entries, made, period, lastDue, stopped>>
    BY <1>8 DEF Set, Receive, vars, sched, tick, ghost
  <2> QED
    BY <2>1, RegularFrame
<1>9. ASSUME NEW p \in Procs,
             \/ \E h \in Timers : Stop(p, h) \/ Reset(p, h)
             \/ \E d \in Steps : Advance(p, d)
             \/ StoreRef(p) \/ Release(p) \/ Deliver(p)
      PROVE  Regular'
  <2>1. UNCHANGED <<entry, entries, made, period, lastDue, stopped>>
    BY <1>9 DEF Stop, Reset, LockTimer, Advance, StoreRef, Release, Deliver, SendTick, SendAfter,
                Launch, sched, tick, ghost
  <2> QED
    BY <2>1, RegularFrame
<1> QED
  BY <1>1, <1>2, <1>3, <1>4, <1>5, <1>6, <1>7, <1>8, <1>9 DEF Next, Drain

\* A running ticker has exactly one entry that can fire, due one positive
\* period after the tick collected last.
THEOREM TickersStayRegular == Spec => []TickerRegular
<1>1. Init => Order /\ Refs /\ Regular
  BY DEF Init, Order, Sorted, InList, Refs, Regular
<1> QED
  BY <1>1, BaseInit, BaseStep, OrderStep, RefsStep, RegularStep, RegularIsTickerRegular, PTL DEF Spec

-----------------------------------------------------------------------------
(* The scheduler implements the schedule its callers see.                  *)

\* The refinement mapping of Schedule, by handle.
ArmedAt(h) == IF Live(h) = {} THEN NoProc
              ELSE entry[CHOOSE e \in Live(h) : TRUE].deadline
OwedBy(h)  == {x \in Procs \X (1..nextID) : x[2] \in Queued(x[1]) /\ entry[x[2]].obj = h}
Until      == IF mu = NoProc THEN NoProc ELSE target[mu]
ArmedMap   == [h \in Handles |-> ArmedAt(h)]
OwedMap    == [h \in Handles |-> Cardinality(OwedBy(h))]

\* What the steps of the schedule are under the mapping.
LEMMA ScheduleSteps ==
  /\ Until = NoProc /\ UNCHANGED <<now, Until, OwedMap>> =>
       /\ \A h \in Tickers, d \in Durations :
            /\ ArmedMap[h] = NoProc /\ d > 0 /\ period' = [period EXCEPT ![h] = d]
            /\ ArmedMap' = [ArmedMap EXCEPT ![h] = now + d]
            => Schedule!StartTicker(h, d)
       /\ UNCHANGED period =>
            \A h \in Handles :
              /\ \A d \in Durations : ArmedMap' = [ArmedMap EXCEPT ![h] = now + d]
                                      => Schedule!Arm(h, d)
              /\ ArmedMap' = [ArmedMap EXCEPT ![h] = NoProc] => Schedule!Disarm(h)
  /\ Until = NoProc /\ UNCHANGED <<ArmedMap, period, OwedMap>> =>
       /\ \A t \in SetTimes : now' = t /\ UNCHANGED Until => Schedule!Jump(t)
       /\ \A d \in Steps : Until' = now + d /\ UNCHANGED now => Schedule!Begin(d)
  /\ Until # NoProc /\ UNCHANGED period =>
       /\ \A h \in Handles :
            /\ ArmedMap[h] # NoProc /\ ArmedMap[h] <= Until
            /\ \A g \in Handles : ArmedMap[g] # NoProc => ArmedMap[h] <= ArmedMap[g]
            /\ ArmedMap' = [ArmedMap EXCEPT ![h] = IF h \in Tickers THEN @ + period[h]
                                                   ELSE NoProc]
            /\ OwedMap' = [OwedMap EXCEPT ![h] = @ + 1]
            /\ UNCHANGED <<now, Until>>
            => Schedule!Expire(h)
       /\ /\ \A h \in Handles : ArmedMap[h] # NoProc => ArmedMap[h] > Until
          /\ now' = Until /\ Until' = NoProc /\ UNCHANGED <<ArmedMap, OwedMap>>
          => Schedule!Finish
  /\ UNCHANGED <<now, Until, ArmedMap, period>> =>
       \A h \in Handles : OwedMap[h] > 0 /\ OwedMap' = [OwedMap EXCEPT ![h] = @ - 1]
                          => Schedule!Deliver(h)
BY DEF Schedule!StartTicker, Schedule!Arm, Schedule!Disarm, Schedule!Jump, Schedule!Begin,
       Schedule!Expire, Schedule!Finish, Schedule!Deliver, ArmedMap, ArmedAt, OwedMap, OwedBy,
       Until

\* A step that concerns one handle.
LEMMA MapSteps ==
  /\ \A h \in Handles : \A v :
       ArmedAt(h)' = v /\ (\A g \in Handles \ {h} : ArmedAt(g)' = ArmedAt(g))
       => ArmedMap' = [ArmedMap EXCEPT ![h] = v]
  /\ (\A h \in Handles : ArmedAt(h)' = ArmedAt(h)) => ArmedMap' = ArmedMap
  /\ (\A h \in Handles : OwedBy(h)' = OwedBy(h)) => OwedMap' = OwedMap
BY DEF ArmedMap, OwedMap

-----------------------------------------------------------------------------
(* At most one entry of a handle can fire.                                 *)

\* A channel of After has one entry: nothing pushes another one.
OneAfter ==
  \A e, f \in entries :
    entry[e].obj \in Afters /\ entry[f].obj = entry[e].obj => e = f

\* The firings owed to a handle are finitely many.
OwedFinite == \A h \in Handles : IsFiniteSet(OwedBy(h))

\* Only tickers that exist have been stopped.
StoppedExist == \A h \in Tickers : stopped[h] => h \in made

FiringInv == /\ Base /\ OnlyCurrent /\ OnceInLists /\ Order /\ Refs /\ Regular
             /\ OneAfter /\ StoppedExist

\* The deadline of a handle is that of its only entry that can fire.
ArmedByOne ==
  \A h \in Handles :
    \/ Live(h) = {} /\ ArmedAt(h) = NoProc
    \/ \E e \in entries : /\ Live(h) = {e} /\ ArmedAt(h) = entry[e].deadline
                          /\ entry[e].deadline \in Int

LEMMA OneLive == FiringInv => ArmedByOne
<1> SUFFICES ASSUME FiringInv, NEW h \in Handles, Live(h) # {}
             PROVE  \E e \in entries : /\ Live(h) = {e} /\ ArmedAt(h) = entry[e].deadline
                                       /\ entry[e].deadline \in Int
  BY DEF ArmedByOne, ArmedAt
<1>1. PICK e \in Live(h) : TRUE
  OBVIOUS
<1>2. ASSUME NEW f \in Live(h) PROVE f = e
  <2>1. CASE h \in Timers
    BY <1>1, <1>2, <2>1 DEF FiringInv, OnlyCurrent, Live, Skipped
  <2>2. CASE h \in Tickers
    <3>1. h \in made /\ ~stopped[h]
      BY <1>1, <2>2 DEF FiringInv, Order, Base, TypeOK, Live, Skipped
    <3> QED
      BY <1>1, <1>2, <2>2, <3>1 DEF FiringInv, Regular, Live
  <2>3. CASE h \in Afters
    BY <1>1, <1>2, <2>3 DEF FiringInv, OneAfter, Live
  <2> QED
    BY <2>1, <2>2, <2>3 DEF Handles
<1>3. Live(h) = {e}
  BY <1>1, <1>2
<1>4. (CHOOSE f \in Live(h) : TRUE) = e
  BY <1>3
<1>5. e \in entries /\ entry[e].deadline \in Int
  BY <1>1 DEF Live, FiringInv, Base, TypeOK, Entry
<1> QED
  BY <1>3, <1>4, <1>5 DEF ArmedAt

\* A step that neither adds nor removes an entry of h that can fire.
LEMMA ArmedKept ==
  ASSUME FiringInv, ArmedByOne, ArmedByOne', NEW h \in Handles,
         \A e \in entries : entry[e].obj = h /\ ~Skipped(e) => e \in entries' /\ entry'[e] = entry[e],
         \A e \in entries' : entry'[e].obj = h => e \in entries /\ entry'[e] = entry[e],
         h \in Tickers => stopped'[h] = stopped[h]
  PROVE  ArmedAt(h)' = ArmedAt(h)
<1>1. Live(h)' = Live(h)
  BY DEF Live, Skipped
<1>2. CASE Live(h) = {}
  BY <1>1, <1>2 DEF ArmedByOne
<1>3. CASE Live(h) # {}
  <2>1. PICK e \in entries : Live(h) = {e} /\ ArmedAt(h) = entry[e].deadline
    BY <1>3 DEF ArmedByOne
  <2>2. PICK f \in entries' : Live(h)' = {f} /\ ArmedAt(h)' = entry'[f].deadline
    BY <1>1, <1>3 DEF ArmedByOne
  <2>3. e = f /\ entry'[e] = entry[e]
    BY <1>1, <2>1, <2>2 DEF Live
  <2> QED
    BY <2>1, <2>2, <2>3
<1> QED
  BY <1>2, <1>3

\* A step after which no entry of h can fire.
LEMMA ArmedNone ==
  ASSUME FiringInv, ArmedByOne', NEW h \in Handles,
         \A e \in entries' : entry'[e].obj = h => Skipped(e)'
  PROVE  ArmedAt(h)' = NoProc
<1>1. Live(h)' = {}
  BY DEF Live
<1> QED
  BY <1>1 DEF ArmedByOne

\* A step after which h has the new entry n that can fire.
LEMMA ArmedNew ==
  ASSUME FiringInv, ArmedByOne', NEW h \in Handles, NEW n \in entries',
         entry'[n].obj = h, ~Skipped(n)'
  PROVE  ArmedAt(h)' = entry'[n].deadline
<1>1. n \in Live(h)'
  BY DEF Live
<1> QED
  BY <1>1 DEF ArmedByOne

-----------------------------------------------------------------------------
(* What is owed to a handle.                                               *)

\* A step that collects and delivers nothing.
LEMMA OwedKept ==
  ASSUME FiringInv, fires' = fires, nextID' \in Nat, nextID' >= nextID,
         \A e \in 1..nextID : entry'[e].obj = entry[e].obj
  PROVE  \A h \in Handles : OwedBy(h)' = OwedBy(h)
<1>1. \A p \in Procs : Queued(p)' = Queued(p) /\ Queued(p) \subseteq 1..nextID
  BY DEF FiringInv, Order, InList, Queued
<1>2. nextID \in Nat /\ 1..nextID \subseteq 1..nextID'
  BY DEF FiringInv, Base, TypeOK
<1> QED
  BY <1>1, <1>2 DEF OwedBy

\* A step that collects entry e.
LEMMA OwedCollect ==
  ASSUME FiringInv, OwedFinite, NEW p \in Procs, NEW e \in entries,
         fires' = [fires EXCEPT ![p] = Append(@, e)], nextID' \in Nat, nextID' >= nextID,
         \A f \in 1..nextID : entry'[f].obj = entry[f].obj
  PROVE  /\ OwedFinite'
         /\ OwedMap' = [OwedMap EXCEPT ![entry[e].obj] = @ + 1]
<1>0. PICK h \in Handles : h = entry[e].obj
  BY DEF FiringInv, Base, TypeOK, Entry
<1>1. e \in 1..nextID /\ nextID \in Nat /\ 1..nextID \subseteq 1..nextID'
  BY DEF FiringInv, Base, TypeOK
<1>2. /\ Queued(p)' = Queued(p) \cup {e}
      /\ \A q \in Procs \ {p} : Queued(q)' = Queued(q)
      /\ \A q \in Procs : Queued(q) \subseteq 1..nextID
  <2>1. fires[p] \in Seq(Nat) /\ fires'[p] = Append(fires[p], e) /\ e \in Nat
        /\ \A q \in Procs \ {p} : fires'[q] = fires[q]
    BY <1>1 DEF FiringInv, OnceInLists, Distinct, Base, TypeOK
  <2>2. InList(fires'[p]) = InList(fires[p]) \cup {e}
    BY <2>1, AppendFacts
  <2> QED
    BY <2>1, <2>2 DEF Queued, InList, FiringInv, Order
<1>3. e \notin Queued(p)
  BY DEF FiringInv, OnceInLists, Queued, InList
<1>4. \A g \in Handles \ {h} : OwedBy(g)' = OwedBy(g)
  BY <1>0, <1>1, <1>2 DEF OwedBy
<1>5. OwedBy(h)' = OwedBy(h) \cup {<<p, e>>} /\ <<p, e>> \notin OwedBy(h)
  BY <1>0, <1>1, <1>2, <1>3 DEF OwedBy
<1>6. IsFiniteSet(OwedBy(h))
  BY <1>1 DEF OwedFinite
<1>7. /\ IsFiniteSet(OwedBy(h) \cup {<<p, e>>})
      /\ Cardinality(OwedBy(h) \cup {<<p, e>>}) = Cardinality(OwedBy(h)) + 1
  BY <1>5, <1>6, FS_AddElement
<1>8. OwedFinite'
  BY <1>4, <1>5, <1>7 DEF OwedFinite
<1>9. \A g \in Handles : Cardinality(OwedBy(g))' = IF g = h THEN Cardinality(OwedBy(h)) + 1
                                                   ELSE Cardinality(OwedBy(g))
  BY <1>4, <1>5, <1>7
<1>10. OwedMap' = [OwedMap EXCEPT ![h] = @ + 1]
  BY <1>1, <1>9 DEF OwedMap
<1> QED
  BY <1>0, <1>8, <1>10

\* A step that delivers the head of p's list.
LEMMA OwedDeliver ==
  ASSUME FiringInv, OwedFinite, NEW p \in Procs, fires[p] # <<>>,
         fires' = [fires EXCEPT ![p] = Tail(@)], UNCHANGED <<nextID, entry>>
  PROVE  \E h \in Handles : /\ OwedFinite' /\ OwedMap[h] > 0
                            /\ OwedMap' = [OwedMap EXCEPT ![h] = @ - 1]
<1>0. Head(fires[p]) \in 1..nextID
  BY NextFireFacts DEF FiringInv, Base
<1> PICK e \in 1..nextID : e = Head(fires[p])
  BY <1>0
<1> PICK h \in Handles : h = entry[e].obj
  BY DEF FiringInv, Base, TypeOK, Entry
<1>1. /\ fires[p] \in Distinct
      /\ fires'[p] = Tail(fires[p]) /\ \A q \in Procs \ {p} : fires'[q] = fires[q]
  BY DEF FiringInv, OnceInLists, Base, TypeOK
<1>2. /\ e \in InList(fires[p]) /\ InList(Tail(fires[p])) \subseteq InList(fires[p])
      /\ e \notin InList(Tail(fires[p]))
  BY <1>1, TailFacts
<1>3. InList(fires[p]) \subseteq InList(Tail(fires[p])) \cup {e}
  <2>1. fires[p] \in Seq(Nat)
    BY <1>1 DEF Distinct
  <2>2. \A i \in 1..Len(fires[p]) : i # 1 => i - 1 \in 1..Len(Tail(fires[p]))
                                                   /\ Tail(fires[p])[i - 1] = fires[p][i]
    BY <2>1
  <2>3. e = fires[p][1]
    BY <2>1
  <2> QED
    BY <2>2, <2>3 DEF InList
<1>5. /\ Queued(p)' = Queued(p) \ {e} /\ e \in Queued(p)
      /\ \A q \in Procs \ {p} : Queued(q)' = Queued(q)
  <2>1. \A q \in Procs : Queued(q) = InList(fires[q]) /\ Queued(q)' = InList(fires'[q])
    BY DEF Queued, InList
  <2>2. InList(Tail(fires[p])) = InList(fires[p]) \ {e}
    BY <1>2, <1>3
  <2> QED
    BY <1>1, <1>2, <2>1, <2>2
<1>6. \A g \in Handles \ {h} : OwedBy(g)' = OwedBy(g)
  BY <1>5 DEF OwedBy
<1>7. OwedBy(h)' = OwedBy(h) \ {<<p, e>>} /\ <<p, e>> \in OwedBy(h)
  BY <1>5 DEF OwedBy
<1>8. IsFiniteSet(OwedBy(h))
  BY DEF OwedFinite
<1>9. /\ IsFiniteSet(OwedBy(h) \ {<<p, e>>})
      /\ Cardinality(OwedBy(h) \ {<<p, e>>}) = Cardinality(OwedBy(h)) - 1
      /\ Cardinality(OwedBy(h)) \in Nat /\ Cardinality(OwedBy(h)) # 0
  BY <1>7, <1>8, FS_RemoveElement, FS_CardinalityType, FS_EmptySet
<1>10. OwedFinite'
  BY <1>6, <1>7, <1>9 DEF OwedFinite
<1>11. \A g \in Handles : Cardinality(OwedBy(g))' = IF g = h THEN Cardinality(OwedBy(h)) - 1
                                                    ELSE Cardinality(OwedBy(g))
  BY <1>6, <1>7, <1>9
<1>12. OwedMap' = [OwedMap EXCEPT ![h] = @ - 1] /\ OwedMap[h] > 0
  BY <1>9, <1>11 DEF OwedMap
<1> QED
  BY <1>10, <1>12

-----------------------------------------------------------------------------
(* The steps.                                                              *)

\* An entry of a channel stays the only one.
LEMMA OneAfterStep == Base /\ OnlyCurrent /\ OneAfter /\ [Next]_vars => OneAfter'
<1> SUFFICES ASSUME Base, OnlyCurrent, OneAfter, [Next]_vars PROVE OneAfter'
  OBVIOUS
<1> USE SchedulerAssumption DEF Handles
<1>0. /\ entry \in [1..nextID -> Entry] /\ entries \in SUBSET (1..nextID) /\ nextID \in Nat
      /\ now \in Int /\ \A e \in entries : e \in 1..nextID /\ entry[e].obj \in made
  BY DEF Base, TypeOK, OnlyCurrent
<1>1. ASSUME NEW c \in Handles, NEW d \in Durations,
             NewTicker(c, d) \/ AfterFunc(c, d) \/ After(c, d), c \notin made
      PROVE  OneAfter'
  <2>1. Push(entry, entries, c, now + d) /\ now + d \in Int
    BY <1>0, <1>1 DEF NewTicker, AfterFunc, After
  <2>2. /\ entries' = entries \cup {nextID'}
        /\ \A e \in 1..nextID : entry'[e] = entry[e]
        /\ entry'[nextID'].obj = c
    <3>pushed. Pushed(entry, entries, c, now + d)
      BY <1>0, <2>1, PushFacts DEF Base
    <3> QED
      BY <1>0, <2>1, <3>pushed DEF Pushed
  <2>3. \A e \in entries : entry'[e] = entry[e] /\ entry'[e].obj # c
    BY <1>0, <1>1, <2>2
  <2>4. ASSUME NEW e \in entries', NEW f \in entries', entry'[e].obj \in Afters,
               entry'[f].obj = entry'[e].obj
        PROVE  e = f
    BY <2>2, <2>3, <2>4 DEF OneAfter
  <2> QED
    BY <2>4 DEF OneAfter
<1>2. ASSUME NEW tbl \in [1..nextID -> Entry], NEW heap \in SUBSET entries,
             NEW h \in Handles \ Afters, NEW t \in Int, Push(tbl, heap, h, t),
             \A e \in 1..nextID : tbl[e].obj = entry[e].obj
      PROVE  OneAfter'
  <2>1. heap \in SUBSET (1..nextID)
    BY <1>0
  <2>2. /\ entries' = heap \cup {nextID'}
        /\ \A e \in 1..nextID : entry'[e] = tbl[e]
        /\ entry'[nextID'].obj = h
    <3>pushed. Pushed(tbl, heap, h, t)
      BY <1>2, <2>1, PushFacts DEF Base
    <3> QED
      BY <1>2, <2>1, <3>pushed DEF Pushed
  <2>3. \A e \in heap : e \in entries /\ entry'[e].obj = entry[e].obj
    BY <1>0, <1>2, <2>2
  <2> QED
    BY <2>2, <2>3 DEF OneAfter
<1>3. ASSUME entries' \subseteq entries, \A e \in entries : entry'[e].obj = entry[e].obj
      PROVE  OneAfter'
  BY <1>3 DEF OneAfter
<1>4. ASSUME NEW p \in Procs, NEW d \in Durations, ResetTimer(p, d) PROVE OneAfter'
  <2>1. timer[p] \in Timers /\ ref[timer[p]] \in 1..nextID /\ now + d \in Int
    BY <1>0, <1>4 DEF Base, TypeOK, Control, ResetTimer, OnTimer, NoTimer
  <2> DEFINE tbl == Kill(ref[timer[p]])
             t   == now + d
  <2>2. tbl \in [1..nextID -> Entry] /\ \A e \in 1..nextID : tbl[e].obj = entry[e].obj
    BY <2>1, KillFacts DEF Base
  <2>3. Push(tbl, entries, timer[p], t) /\ timer[p] \in Handles \ Afters /\ t \in Int
    BY <1>4, <2>1 DEF ResetTimer
  <2> HIDE DEF tbl, t
  <2> QED
    BY <1>2, <2>2, <2>3
<1>5. ASSUME NEW p \in Procs, NEW e \in entries, CollectTick(p, e) PROVE OneAfter'
  <2> DEFINE h    == entry[e].obj
             t    == NextDeadline(p, e)
             heap == PopHeap(e)
  <2>1. h \in Handles \ Afters /\ Push(entry, heap, h, t) /\ heap \in SUBSET entries
    BY <1>5 DEF CollectTick, PopHeap
  <2>2. t \in Int
    <3>1. entry[e].deadline \in Int /\ entry[e].obj \in Tickers
      BY <1>0, <1>5 DEF CollectTick, Entry
    <3>2. period[entry[e].obj] \in Int
      BY <3>1 DEF Base, TypeOK
    <3> QED
      BY <3>1, <3>2 DEF NextDeadline
  <2> HIDE DEF h, t, heap
  <2> QED
    BY <1>0, <1>2, <2>1, <2>2
<1>6. ASSUME NEW p \in Procs, Cancel(p) PROVE OneAfter'
  <2>1. ref[timer[p]] \in 1..nextID
    BY <1>6 DEF Base, TypeOK, Control, Cancel, OnTimer, NoTimer
  <2> QED
    BY <1>0, <1>3, <1>6, <2>1, KillFacts DEF Base, Cancel
<1>7. ASSUME \/ \E h \in Tickers : StopTicker(h)
             \/ \E t \in SetTimes : Set(t)
             \/ \E c \in Chans : Receive(c)
             \/ \E p \in Procs : \/ \E h \in Timers : Stop(p, h) \/ Reset(p, h)
                                 \/ \E d \in Steps : Advance(p, d)
                                 \/ StoreRef(p) \/ Release(p) \/ Deliver(p)
             \/ UNCHANGED vars
      PROVE  OneAfter'
  <2>1. UNCHANGED <<entries, entry>>
    BY <1>7 DEF StopTicker, Set, Receive, Stop, Reset, LockTimer, Advance, StoreRef, Release,
                Deliver, SendTick, SendAfter, Launch, vars, sched
  <2> QED
    BY <1>3, <2>1
<1>8. ASSUME NEW p \in Procs, NEW e \in entries, Drop(p, e) \/ Collect(p, e) PROVE OneAfter'
  BY <1>3, <1>8 DEF Drop, Collect, PopHeap
<1>9. ASSUME NEW d \in Durations,
             \/ \E h \in Tickers : NewTicker(h, d)
             \/ \E h \in Timers : AfterFunc(h, d)
             \/ \E c \in Afters : After(c, d)
      PROVE  OneAfter'
  BY <1>1, <1>9 DEF NewTicker, AfterFunc, After
<1> QED
  BY <1>4, <1>5, <1>6, <1>7, <1>8, <1>9 DEF Next, Drain

\* Only NewTicker and Ticker.Stop say whether a ticker is stopped.
LEMMA StoppedFrame ==
  ASSUME [Next]_vars
  PROVE  \/ \E g \in Tickers : StopTicker(g)
         \/ \E d \in Durations : \E g \in Tickers : NewTicker(g, d)
         \/ made \subseteq made' /\ stopped' = stopped
<1> DEFINE Kept == made \subseteq made' /\ stopped' = stopped
<1>1. ASSUME NEW d \in Durations, NEW h \in Timers, AfterFunc(h, d) PROVE Kept
  BY <1>1 DEF AfterFunc, frame
<1>2. ASSUME NEW d \in Durations, NEW c \in Afters, After(c, d) PROVE Kept
  BY <1>2 DEF After, frame
<1>3. ASSUME NEW d \in Durations, NEW p \in Procs, ResetTimer(p, d) PROVE Kept
  BY <1>3 DEF ResetTimer, tick
<1>4. ASSUME NEW t \in SetTimes, Set(t) PROVE Kept
  BY <1>4 DEF Set, tick
<1>5. ASSUME NEW c \in Chans, Receive(c) PROVE Kept
  BY <1>5 DEF Receive
<1>6. ASSUME NEW p \in Procs, NEW h \in Timers, Stop(p, h) \/ Reset(p, h) PROVE Kept
  BY <1>6 DEF Stop, Reset, LockTimer, tick
<1>7. ASSUME NEW p \in Procs, NEW d \in Steps, Advance(p, d) PROVE Kept
  BY <1>7 DEF Advance, tick
<1>8. ASSUME NEW p \in Procs, Cancel(p) \/ StoreRef(p) PROVE Kept
  BY <1>8 DEF Cancel, StoreRef, tick
<1>9. ASSUME NEW p \in Procs, Drain(p) PROVE Kept
  BY <1>9 DEF Drain, Drop, Collect, CollectTick, Release, tick
<1>10. ASSUME NEW p \in Procs, Deliver(p) PROVE Kept
  BY <1>10 DEF Deliver, SendTick, SendAfter, Launch, tick
<1>11. CASE UNCHANGED vars
  BY <1>11 DEF vars, tick
<1> QED
  BY <1>1, <1>2, <1>3, <1>4, <1>5, <1>6, <1>7, <1>8, <1>9, <1>10, <1>11 DEF Next

LEMMA StoppedExistStep == Base /\ StoppedExist /\ [Next]_vars => StoppedExist'
<1> SUFFICES ASSUME Base, StoppedExist, [Next]_vars,
                    NEW h \in Tickers, stopped'[h]
             PROVE  h \in made'
  BY DEF StoppedExist
<1>1. stopped \in [Tickers -> BOOLEAN]
  BY DEF Base, TypeOK
<1>2. ASSUME NEW g \in Tickers, StopTicker(g) PROVE h \in made'
  BY <1>1, <1>2 DEF StopTicker, StoppedExist
<1>3. ASSUME NEW g \in Tickers, NEW d \in Durations, NewTicker(g, d) PROVE h \in made'
  BY <1>1, <1>3 DEF NewTicker, StoppedExist
<1>4. \/ \E g \in Tickers : StopTicker(g)
      \/ \E d \in Durations : \E g \in Tickers : NewTicker(g, d)
      \/ made \subseteq made' /\ stopped' = stopped
  BY StoppedFrame
<1> QED
  BY <1>2, <1>3, <1>4 DEF StoppedExist

LEMMA FiringStep == FiringInv /\ [Next]_vars => FiringInv'
BY BaseStep, OnlyCurrentStep, OnceStep, OrderStep, RefsStep, RegularStep, OneAfterStep,
   StoppedExistStep
DEF FiringInv

\* A call that registers handle h for time t: its earlier deadline is forgotten.
LEMMA RegisterRefines ==
  ASSUME FiringInv, OwedFinite, ArmedByOne, ArmedByOne', mu = NoProc,
         NEW tbl \in [1..nextID -> Entry], NEW h \in Handles, NEW t \in Int,
         Push(tbl, entries, h, t),
         \A e \in 1..nextID : tbl[e].obj = entry[e].obj,
         \A e \in 1..nextID : entry[e].obj # h => tbl[e] = entry[e],
         h \notin Tickers \/ h \notin made, h \in Tickers => ~stopped[h],
         UNCHANGED <<now, mu, fires, stopped>>
  PROVE  /\ ArmedMap' = [ArmedMap EXCEPT ![h] = t]
         /\ Until = NoProc /\ UNCHANGED <<Until, OwedMap>> /\ OwedFinite'
<1>1. /\ entry \in [1..nextID -> Entry] /\ entries \in SUBSET (1..nextID) /\ nextID \in Nat
      /\ \A e \in entries : e \in 1..nextID
  BY DEF FiringInv, Base, TypeOK
<1>2. /\ nextID' = nextID + 1 /\ entries' = entries \cup {nextID'}
      /\ \A e \in 1..nextID : entry'[e] = tbl[e]
      /\ entry'[nextID'].deadline = t
      /\ entry'[nextID'].obj = h
      /\ entry'[nextID'].dead = FALSE
  <2>pushed. Pushed(tbl, entries, h, t)
    BY <1>1, PushFacts DEF FiringInv, Base
  <2> QED
    BY <1>1, <2>pushed DEF Pushed
<1>4. ArmedAt(h)' = t
  <2> PICK n \in entries' : n = nextID'
    BY <1>2
  <2>1. entry'[n].obj = h /\ entry'[n].deadline = t /\ entry'[n].dead = FALSE
    BY <1>2
  <2>2. ~Skipped(n)'
    BY <2>1 DEF Skipped
  <2> QED
    BY <2>1, <2>2, ArmedNew
<1>5. ASSUME NEW g \in Handles \ {h} PROVE ArmedAt(g)' = ArmedAt(g)
  BY <1>1, <1>2, ArmedKept
<1>6. OwedMap' = OwedMap /\ OwedFinite'
  BY <1>1, <1>2, OwedKept, MapSteps DEF OwedFinite
<1> QED
  BY <1>4, <1>5, <1>6, MapSteps DEF Until

\* A call that stops handle h: its deadline is forgotten, whether or not it had
\* one.
LEMMA StopRefines ==
  ASSUME FiringInv, ArmedByOne, ArmedByOne', mu = NoProc, NEW h \in Handles,
         \A e \in entries : entry'[e].obj = entry[e].obj,
         \A e \in 1..nextID : entry'[e].obj = entry[e].obj,
         \A e \in entries : entry[e].obj = h => Skipped(e)',
         \A e \in entries : entry[e].obj # h => entry'[e] = entry[e],
         \A g \in Tickers \ {h} : stopped'[g] = stopped[g],
         UNCHANGED <<now, mu, nextID, entries, fires, period>>
  PROVE  Schedule!Disarm(h)
<1>1. ArmedAt(h)' = NoProc
  BY ArmedNone
<1>2. ASSUME NEW g \in Handles \ {h} PROVE ArmedAt(g)' = ArmedAt(g)
  BY ArmedKept
<1>3. OwedMap' = OwedMap
  BY OwedKept, MapSteps DEF FiringInv, Base, TypeOK
<1> QED
  BY <1>1, <1>2, <1>3, MapSteps, ScheduleSteps DEF Until

\* A step on which no deadline depends.
LEMMA DeadlinesKept ==
  ASSUME FiringInv, ArmedByOne, ArmedByOne',
         \A e \in entries : ~Skipped(e) => e \in entries',
         entries' \subseteq entries,
         UNCHANGED <<entry, stopped>>
  PROVE  UNCHANGED ArmedMap
<1>1. ASSUME NEW g \in Handles PROVE ArmedAt(g)' = ArmedAt(g)
  BY ArmedKept
<1> QED
  BY <1>1, MapSteps

\* A step on which nothing owed depends.
LEMMA DebtsKept ==
  ASSUME FiringInv, OwedFinite, fires' = fires, nextID' \in Nat, nextID' >= nextID,
         \A e \in 1..nextID : entry'[e].obj = entry[e].obj
  PROVE  OwedFinite' /\ UNCHANGED OwedMap
<1>1. \A h \in Handles : OwedBy(h)' = OwedBy(h)
  BY OwedKept
<1> QED
  BY <1>1, MapSteps DEF OwedFinite

\* What changes in a schedule.
Mapped == <<now, Until, ArmedMap, period, OwedMap>>

\* The entry that is collected is the earliest deadline of all handles, and it
\* is due.
LEMMA TopIsEarliest ==
  ASSUME FiringInv, ArmedByOne, NEW p \in Procs, NEW e \in entries, Due(p, e), ~Skipped(e)
  PROVE  \E h \in Handles :
           /\ h = entry[e].obj /\ mu = p /\ Until # NoProc
           /\ Live(h) = {e} /\ ArmedAt(h) = entry[e].deadline
           /\ ArmedMap[h] # NoProc /\ ArmedMap[h] <= Until
           /\ \A g \in Handles : ArmedMap[g] # NoProc => ArmedMap[h] <= ArmedMap[g]
<1> PICK h \in Handles : h = entry[e].obj
  BY DEF FiringInv, Base, TypeOK, Entry
<1>1. Live(h) = {e} /\ ArmedAt(h) = entry[e].deadline /\ entry[e].deadline \in Int
  <2>1. e \in Live(h)
    BY DEF Live
  <2> QED
    BY <2>1 DEF ArmedByOne
<1>2. mu = p /\ Until = target[p] /\ target[p] \in Int /\ Until # NoProc
  BY SchedulerAssumption, NoProcIsNoTime DEF FiringInv, Base, TypeOK, Control, Due, Until
<1>3. ArmedMap[h] # NoProc /\ ArmedMap[h] <= Until
  BY <1>1, <1>2, NoProcIsNoTime DEF ArmedMap, Due, DueAt
<1>4. ASSUME NEW g \in Handles, ArmedMap[g] # NoProc PROVE ArmedMap[h] <= ArmedMap[g]
  <2>1. PICK f \in entries : ArmedAt(g) = entry[f].deadline /\ entry[f].deadline \in Int
    BY <1>4 DEF ArmedByOne, ArmedMap
  <2>2. f = e \/ Less(e, f)
    BY <2>1 DEF Due, IsTop
  <2> QED
    BY <1>1, <2>1, <2>2 DEF Less, ArmedMap
<1> QED
  BY <1>1, <1>2, <1>3, <1>4

\* Every step of the scheduler is a step of the schedule or changes none of it.
LEMMA StepRefines ==
  ASSUME FiringInv, OwedFinite, ArmedByOne, ArmedByOne', [Next]_vars
  PROVE  OwedFinite' /\ (Schedule!Next \/ UNCHANGED Mapped)
<1> USE SchedulerAssumption, NoProcIsNoTime DEF Handles
<1>0. /\ entry \in [1..nextID -> Entry] /\ nextID \in Nat /\ entries \in SUBSET (1..nextID)
      /\ now \in Int /\ Durations \subseteq Int
      /\ stopped \in [Tickers -> BOOLEAN] /\ period \in [Tickers -> Int]
      /\ \A e \in entries : e \in 1..nextID /\ entry[e].obj \in made
  BY DEF FiringInv, Base, TypeOK, Order
<1>1. ASSUME NEW d \in Durations, NEW h \in Tickers, NewTicker(h, d)
      PROVE  OwedFinite' /\ Schedule!Next
  <2>1. /\ mu = NoProc /\ h \in Handles /\ h \notin made /\ ~stopped[h] /\ now + d \in Int
        /\ Push(entry, entries, h, now + d)
        /\ UNCHANGED <<now, mu, fires, stopped>> /\ d > 0
        /\ period' = [period EXCEPT ![h] = d]
    BY <1>0, <1>1 DEF NewTicker, locks, frame, FiringInv, StoppedExist
  <2>2. /\ ArmedMap' = [ArmedMap EXCEPT ![h] = now + d]
        /\ Until = NoProc /\ UNCHANGED <<Until, OwedMap>> /\ OwedFinite'
    BY <1>0, <2>1, RegisterRefines
  <2>3. ArmedMap[h] = NoProc
    <3>1. Live(h) = {}
      BY <1>0, <2>1 DEF Live
    <3> QED
      BY <3>1, <2>1 DEF ArmedMap, ArmedAt
  <2>4. Schedule!StartTicker(h, d)
    BY <2>1, <2>2, <2>3, ScheduleSteps
  <2> QED
    BY <2>2, <2>4 DEF Schedule!Next
<1>2. ASSUME NEW d \in Durations, NEW h \in Handles \ Tickers, AfterFunc(h, d) \/ After(h, d)
      PROVE  OwedFinite' /\ Schedule!Next
  <2>1. /\ mu = NoProc /\ now + d \in Int
        /\ Push(entry, entries, h, now + d)
        /\ UNCHANGED <<now, mu, fires, stopped, period>>
    BY <1>0, <1>2 DEF AfterFunc, After, locks, frame
  <2>2. /\ ArmedMap' = [ArmedMap EXCEPT ![h] = now + d]
        /\ Until = NoProc /\ UNCHANGED <<Until, OwedMap>> /\ OwedFinite'
    BY <1>0, <2>1, RegisterRefines
  <2>4. Schedule!Arm(h, d)
    BY <2>1, <2>2, ScheduleSteps
  <2> QED
    BY <2>2, <2>4 DEF Schedule!Next
<1>3. ASSUME NEW d \in Durations, NEW p \in Procs, ResetTimer(p, d)
      PROVE  OwedFinite' /\ Schedule!Next
  <2> PICK h \in Timers : h = timer[p]
    BY <1>3 DEF FiringInv, Base, TypeOK, Control, ResetTimer, OnTimer, NoTimer
  <2>1. ref[h] \in 1..nextID /\ entry[ref[h]].obj = h /\ h \in Handles \ Tickers
    BY <1>3 DEF FiringInv, Base, TypeOK, Control, Refs, ResetTimer, OnTimer, NoTimer
  <2>2. PICK tbl \in [1..nextID -> Entry] : tbl = Kill(ref[h])
    BY <2>1, KillFacts DEF FiringInv, Base
  <2>3. /\ mu = NoProc /\ now + d \in Int
        /\ Push(tbl, entries, h, now + d)
        /\ UNCHANGED <<now, mu, fires, stopped, period>>
    BY <1>0, <1>3, <2>2 DEF ResetTimer, tick
  <2>4. /\ \A e \in 1..nextID : tbl[e].obj = entry[e].obj
        /\ \A e \in 1..nextID : entry[e].obj # h => tbl[e] = entry[e]
    BY <2>1, <2>2, KillFacts DEF FiringInv, Base
  <2>5. /\ ArmedMap' = [ArmedMap EXCEPT ![h] = now + d]
        /\ Until = NoProc /\ UNCHANGED <<Until, OwedMap>> /\ OwedFinite'
    BY <2>1, <2>3, <2>4, RegisterRefines
  <2>6. Schedule!Arm(h, d)
    BY <2>1, <2>3, <2>5, ScheduleSteps
  <2> QED
    BY <2>1, <2>5, <2>6 DEF Schedule!Next
<1>4. ASSUME NEW h \in Tickers, StopTicker(h)
      PROVE  OwedFinite' /\ Schedule!Next
  <2>1. /\ mu = NoProc /\ h \in Handles
        /\ UNCHANGED <<now, mu, nextID, entry, entries, fires, period>>
        /\ stopped' = [stopped EXCEPT ![h] = TRUE]
    BY <1>4 DEF StopTicker, sched, frame
  <2>2. \A e \in entries : entry[e].obj = h => Skipped(e)'
    BY <1>0, <2>1 DEF Skipped
  <2>3. Schedule!Disarm(h)
    BY <1>0, <2>1, <2>2, StopRefines
  <2>4. OwedFinite'
    BY <1>0, <2>1, DebtsKept
  <2> QED
    BY <2>1, <2>3, <2>4 DEF Schedule!Next
<1>5. ASSUME NEW p \in Procs, Cancel(p)
      PROVE  OwedFinite' /\ Schedule!Next
  <2> PICK h \in Timers : h = timer[p]
    BY <1>5 DEF FiringInv, Base, TypeOK, Control, Cancel, OnTimer, NoTimer
  <2>1. /\ ref[h] \in 1..nextID /\ entry[ref[h]].obj = h /\ h \in Handles \ Tickers
        /\ pc[p] = "cancel" /\ tmMu[h] = p
    BY <1>5 DEF FiringInv, Base, TypeOK, Control, Refs, Cancel, OnTimer, NoTimer
  <2>2. /\ mu = NoProc /\ entry' = Kill(ref[h])
        /\ UNCHANGED <<now, mu, nextID, entries, fires, stopped, period>>
    BY <1>5 DEF Cancel, tick
  <2>3. /\ \A e \in 1..nextID : entry'[e].obj = entry[e].obj
        /\ \A e \in 1..nextID : e # ref[h] => entry'[e] = entry[e]
        /\ entry'[ref[h]].dead
    BY <2>1, <2>2, KillFacts DEF FiringInv, Base
  <2>4. ASSUME NEW e \in entries, entry[e].obj = h PROVE Skipped(e)'
    <3>1. entry[e].dead \/ e = ref[h]
      BY <2>1, <2>4 DEF FiringInv, OnlyCurrent, Current
    <3>2. entry'[e].dead
      BY <1>0, <2>3, <3>1
    <3> QED
      BY <3>2 DEF Skipped
  <2>5. Schedule!Disarm(h)
    BY <1>0, <2>1, <2>2, <2>3, <2>4, StopRefines
  <2>6. OwedFinite'
    BY <1>0, <2>2, <2>3, DebtsKept
  <2> QED
    BY <2>1, <2>5, <2>6 DEF Schedule!Next
<1>6. ASSUME NEW t \in SetTimes, Set(t)
      PROVE  OwedFinite' /\ Schedule!Next
  <2>1. /\ mu = NoProc /\ now' = t
        /\ UNCHANGED <<mu, nextID, entry, entries, stopped, period, fires>>
    BY <1>6 DEF Set, tick, frame
  <2>2. UNCHANGED <<ArmedMap, OwedMap>> /\ OwedFinite'
    BY <1>0, <2>1, DeadlinesKept, DebtsKept
  <2>3. Schedule!Jump(t)
    BY <2>1, <2>2, ScheduleSteps DEF Until
  <2> QED
    BY <2>2, <2>3 DEF Schedule!Next
<1>7. ASSUME \/ \E c \in Chans : Receive(c)
             \/ \E p \in Procs : (\E h \in Timers : Stop(p, h) \/ Reset(p, h)) \/ StoreRef(p)
             \/ UNCHANGED vars
      PROVE  OwedFinite' /\ UNCHANGED Mapped
  <2>1. UNCHANGED <<now, mu, nextID, entry, entries, stopped, period, fires, target>>
    BY <1>7 DEF Receive, Stop, Reset, LockTimer, StoreRef, vars, sched, tick, frame
  <2>2. UNCHANGED <<ArmedMap, OwedMap>> /\ OwedFinite'
    BY <1>0, <2>1, DeadlinesKept, DebtsKept
  <2> QED
    BY <2>1, <2>2 DEF Mapped, Until
<1>8. ASSUME NEW p \in Procs, NEW d \in Steps, Advance(p, d)
      PROVE  OwedFinite' /\ Schedule!Next
  <2>1. /\ mu = NoProc /\ mu' = p /\ target'[p] = now + d
        /\ UNCHANGED <<now, nextID, entry, entries, stopped, period, fires>>
    BY <1>8 DEF Advance, tick, FiringInv, Base, TypeOK
  <2>2. UNCHANGED <<ArmedMap, OwedMap>> /\ OwedFinite'
    BY <1>0, <2>1, DeadlinesKept, DebtsKept
  <2>3. Until = NoProc /\ Until' = now + d
    BY <2>1 DEF Until
  <2>4. Schedule!Begin(d)
    BY <2>1, <2>2, <2>3, ScheduleSteps
  <2> QED
    BY <2>2, <2>4 DEF Schedule!Next
<1>9. ASSUME NEW p \in Procs, NEW e \in entries, Drop(p, e)
      PROVE  OwedFinite' /\ UNCHANGED Mapped
  <2>1. /\ UNCHANGED <<now, mu, nextID, entry, stopped, period, fires, target>>
        /\ Skipped(e) /\ entries' = entries \ {e}
    BY <1>9 DEF Drop, PopHeap, tick, frame
  <2>2. UNCHANGED <<ArmedMap, OwedMap>> /\ OwedFinite'
    BY <1>0, <2>1, DeadlinesKept, DebtsKept
  <2> QED
    BY <2>1, <2>2 DEF Mapped, Until
<1>10. ASSUME NEW p \in Procs, NEW e \in entries, Collect(p, e)
       PROVE  OwedFinite' /\ Schedule!Next
  <2>1. /\ UNCHANGED <<now, mu, nextID, entry, stopped, period, target>>
        /\ Due(p, e) /\ ~Skipped(e) /\ entry[e].obj \notin Tickers
        /\ entries' = entries \ {e} /\ fires' = [fires EXCEPT ![p] = Append(@, e)]
    BY <1>10 DEF Collect, PopHeap, Queue, tick
  <2> PICK h \in Handles :
           /\ h = entry[e].obj /\ mu = p /\ Until # NoProc
           /\ Live(h) = {e} /\ ArmedAt(h) = entry[e].deadline
           /\ ArmedMap[h] # NoProc /\ ArmedMap[h] <= Until
           /\ \A g \in Handles : ArmedMap[g] # NoProc => ArmedMap[h] <= ArmedMap[g]
    BY <2>1, TopIsEarliest
  <2>2. OwedFinite' /\ OwedMap' = [OwedMap EXCEPT ![h] = @ + 1]
    <3>1. /\ nextID' \in Nat /\ nextID' >= nextID
          /\ \A f \in 1..nextID : entry'[f].obj = entry[f].obj
      BY <1>0, <2>1
    <3>2. OwedFinite' /\ OwedMap' = [OwedMap EXCEPT ![entry[e].obj] = @ + 1]
      BY <2>1, <3>1, OwedCollect
    <3> QED
      BY <3>2
  <2>3. ArmedAt(h)' = NoProc
    <3>1. \A f \in entries' : entry'[f].obj = h => Skipped(f)'
      BY <2>1 DEF Live, Skipped
    <3> QED
      BY <3>1, ArmedNone
  <2>4. ASSUME NEW g \in Handles \ {h} PROVE ArmedAt(g)' = ArmedAt(g)
    BY <2>1, ArmedKept
  <2>5. ArmedMap' = [ArmedMap EXCEPT ![h] = IF h \in Tickers THEN @ + period[h] ELSE NoProc]
    BY <2>1, <2>3, <2>4, MapSteps
  <2>6. Schedule!Expire(h)
    BY <2>1, <2>2, <2>5, ScheduleSteps DEF Until
  <2> QED
    BY <2>2, <2>6 DEF Schedule!Next
<1>11. ASSUME NEW p \in Procs, NEW e \in entries, CollectTick(p, e)
       PROVE  OwedFinite' /\ Schedule!Next
  <2>1. /\ UNCHANGED <<now, mu, stopped, period, target>>
        /\ Due(p, e) /\ ~Skipped(e) /\ entry[e].obj \in Tickers
        /\ Push(entry, entries \ {e}, entry[e].obj, entry[e].deadline + period[entry[e].obj])
        /\ fires' = [fires EXCEPT ![p] = Append(@, e)]
    BY <1>11 DEF CollectTick, PopHeap, Queue, NextDeadline, tick
  <2> PICK h \in Handles :
           /\ h = entry[e].obj /\ mu = p /\ Until # NoProc
           /\ Live(h) = {e} /\ ArmedAt(h) = entry[e].deadline
           /\ ArmedMap[h] # NoProc /\ ArmedMap[h] <= Until
           /\ \A g \in Handles : ArmedMap[g] # NoProc => ArmedMap[h] <= ArmedMap[g]
    BY <2>1, TopIsEarliest
  <2>2. PICK t \in Int : t = entry[e].deadline + period[h]
    BY <1>0, <2>1 DEF Entry
  <2>3. /\ nextID' = nextID + 1 /\ nextID' \in Nat
        /\ entries' = (entries \ {e}) \cup {nextID'}
        /\ \A f \in 1..nextID : entry'[f] = entry[f]
        /\ entry'[nextID'].deadline = t
        /\ entry'[nextID'].obj = h
        /\ entry'[nextID'].dead = FALSE
    <3>1. entries \ {e} \in SUBSET (1..nextID)
      BY <1>0
    <3>2. Push(entry, entries \ {e}, h, t)
      BY <2>1, <2>2
    <3>pushed. Pushed(entry, entries \ {e}, h, t)
      BY <1>0, <3>1, <3>2, PushFacts DEF FiringInv, Base
    <3> QED
      BY <1>0, <3>1, <3>2, <3>pushed DEF Pushed
  <2>4. OwedFinite' /\ OwedMap' = [OwedMap EXCEPT ![h] = @ + 1]
    <3>1. /\ nextID' \in Nat /\ nextID' >= nextID
          /\ \A f \in 1..nextID : entry'[f].obj = entry[f].obj
      BY <1>0, <2>3
    <3>2. OwedFinite' /\ OwedMap' = [OwedMap EXCEPT ![entry[e].obj] = @ + 1]
      BY <2>1, <3>1, OwedCollect
    <3> QED
      BY <3>2
  <2>5. ArmedAt(h)' = t
    <3> PICK n \in entries' : n = nextID'
      BY <2>3
    <3>1. entry'[n].obj = h /\ entry'[n].deadline = t /\ entry'[n].dead = FALSE
      BY <2>3
    <3>2. ~stopped'[h]
      BY <2>1 DEF Skipped
    <3>3. ~Skipped(n)'
      BY <3>1, <3>2 DEF Skipped
    <3> QED
      BY <3>1, <3>3, ArmedNew
  <2>6. ASSUME NEW g \in Handles \ {h} PROVE ArmedAt(g)' = ArmedAt(g)
    BY <1>0, <2>1, <2>3, ArmedKept
  <2>7. ArmedMap' = [ArmedMap EXCEPT ![h] = t]
    BY <2>5, <2>6, MapSteps
  <2>8. ArmedMap[h] = entry[e].deadline
    BY DEF ArmedMap
  <2>9. ArmedMap' = [ArmedMap EXCEPT ![h] = IF h \in Tickers THEN @ + period[h] ELSE NoProc]
    BY <2>1, <2>2, <2>7, <2>8
  <2>10. Schedule!Expire(h)
    BY <2>1, <2>4, <2>9, ScheduleSteps DEF Until
  <2> QED
    BY <2>4, <2>10 DEF Schedule!Next
<1>12. ASSUME NEW p \in Procs, Release(p)
       PROVE  OwedFinite' /\ Schedule!Next
  <2>1. /\ UNCHANGED <<nextID, entry, entries, stopped, period, fires>>
        /\ now' = target[p] /\ mu' = NoProc
        /\ \A e \in entries : ~DueAt(e, target[p])
    BY <1>12 DEF Release, tick
  <2>2. mu = p /\ Until = target[p] /\ target[p] \in Int /\ Until # NoProc /\ Until' = NoProc
    BY <1>12, <2>1 DEF FiringInv, Base, TypeOK, Control, Release, Until
  <2>3. UNCHANGED <<ArmedMap, OwedMap>> /\ OwedFinite'
    BY <1>0, <2>1, DeadlinesKept, DebtsKept
  <2>4. ASSUME NEW h \in Handles, ArmedMap[h] # NoProc PROVE ArmedMap[h] > Until
    <3>1. PICK e \in entries : ArmedAt(h) = entry[e].deadline /\ entry[e].deadline \in Int
      BY <2>4 DEF ArmedByOne, ArmedMap
    <3> QED
      BY <2>1, <2>2, <3>1 DEF DueAt, ArmedMap
  <2>5. Schedule!Finish
    BY <2>1, <2>2, <2>3, <2>4, ScheduleSteps
  <2> QED
    BY <2>3, <2>5 DEF Schedule!Next
<1>13. ASSUME NEW p \in Procs, Deliver(p)
       PROVE  OwedFinite' /\ Schedule!Next
  <2>1. /\ UNCHANGED <<now, mu, nextID, entry, entries, stopped, period, target>>
        /\ pc[p] = "fire" /\ fires' = [fires EXCEPT ![p] = Tail(@)]
    BY <1>13 DEF Deliver, SendTick, SendAfter, Launch, NextFire, sched, tick
  <2>2. fires[p] # <<>>
    BY <2>1 DEF FiringInv, Base, Control
  <2>3. PICK h \in Handles : /\ OwedFinite' /\ OwedMap[h] > 0
                             /\ OwedMap' = [OwedMap EXCEPT ![h] = @ - 1]
    BY <2>1, <2>2, OwedDeliver
  <2>4. UNCHANGED ArmedMap
    BY <2>1, DeadlinesKept
  <2>5. Schedule!Deliver(h)
    BY <2>1, <2>3, <2>4, ScheduleSteps DEF Until
  <2> QED
    BY <2>3, <2>5 DEF Schedule!Next
<1>14. ASSUME NEW d \in Durations, (\E h \in Timers : AfterFunc(h, d)) \/ (\E h \in Afters : After(h, d))
       PROVE  OwedFinite' /\ Schedule!Next
  BY <1>2, <1>14
<1> QED
  BY <1>1, <1>3, <1>4, <1>5, <1>6, <1>7, <1>8, <1>9, <1>10, <1>11, <1>12, <1>13, <1>14
  DEF Next, Drain

\* The initial states map to an initial state.
LEMMA InitRefines == Init => Schedule!Init /\ OwedFinite
<1> SUFFICES ASSUME Init PROVE Schedule!Init /\ OwedFinite
  OBVIOUS
<1>1. \A h \in Handles : Live(h) = {} /\ OwedBy(h) = {}
  BY DEF Init, Live, OwedBy, Queued
<1>2. ArmedMap = [h \in Handles |-> NoProc] /\ OwedMap = [h \in Handles |-> 0]
  BY <1>1, FS_EmptySet DEF ArmedMap, ArmedAt, OwedMap
<1>3. OwedFinite
  BY <1>1, FS_EmptySet DEF OwedFinite
<1> QED
  BY <1>2, <1>3 DEF Init, Schedule!Init, ArmedMap, ArmedAt, OwedMap, OwedBy, Until

\* The heap, its tombstones, the shared ticker states and the entry pointers
\* cannot be told from one deadline per handle: every behaviour of the
\* scheduler, for every number of goroutines inside Advance, Stop and Reset, is
\* one of the schedule.
THEOREM SchedulerImplementsSchedule == Spec => ImplementsSchedule
<1>1. Init => FiringInv
  BY BaseInit DEF Init, FiringInv, OnlyCurrent, OnceInLists, Order, Refs, Regular, OneAfter,
     StoppedExist, Sorted, Distinct, InList
<1>2. (FiringInv => ArmedByOne) /\ (FiringInv => ArmedByOne)'
  BY OneLive, PTL
<1>3. FiringInv /\ OwedFinite /\ [Next]_vars => FiringInv' /\ OwedFinite'
                                               /\ (Schedule!Next \/ UNCHANGED Mapped)
  BY <1>2, FiringStep, StepRefines
<1>4. (Schedule!Next \/ UNCHANGED Mapped)
      => [Schedule!Next]_<<now, IF mu = NoProc THEN NoProc ELSE target[mu],
                           [h \in Handles |-> IF Live(h) = {} THEN NoProc
                               ELSE entry[CHOOSE e \in Live(h) : TRUE].deadline],
                           period,
                           [h \in Handles |-> Cardinality({x \in Procs \X (1..nextID) :
                               x[2] \in Queued(x[1]) /\ entry[x[2]].obj = h})]>>
  BY DEF Mapped, Until, ArmedMap, ArmedAt, OwedMap, OwedBy
<1> QED
  BY <1>1, <1>3, <1>4, InitRefines, PTL DEF Spec, ImplementsSchedule, Schedule!Spec

-----------------------------------------------------------------------------
(* Tickers: what is stopped stays quiet, what is sent goes up.             *)

\* Once a ticker is stopped none of its ticks is collected any more, whichever of
\* its entries is still in the heap and whoever is inside Advance.
THEOREM StoppedTickersAreQuiet == Spec => StoppedTickerIsQuiet
<1>1. Init => StoppedExist
  BY DEF Init, StoppedExist
<1>2. Base /\ StoppedExist /\ [Next]_vars =>
        \A h \in Tickers : stopped[h] => stopped'[h] /\ lastDue'[h] = lastDue[h]
  <2> SUFFICES ASSUME Base, StoppedExist, [Next]_vars, NEW h \in Tickers, stopped[h]
               PROVE  stopped'[h] /\ lastDue'[h] = lastDue[h]
    OBVIOUS
  <2>1. /\ h \in made /\ stopped \in [Tickers -> BOOLEAN] /\ lastDue \in [Tickers -> Int]
    BY DEF StoppedExist, Base, TypeOK
  <2>2. stopped'[h]
    <3>1. ASSUME NEW g \in Tickers, StopTicker(g) PROVE stopped'[h]
      BY <2>1, <3>1 DEF StopTicker
    <3>2. ASSUME NEW g \in Tickers, NEW d \in Durations, NewTicker(g, d) PROVE stopped'[h]
      BY <2>1, <3>2 DEF NewTicker
    <3>3. \/ \E g \in Tickers : StopTicker(g)
          \/ \E d \in Durations : \E g \in Tickers : NewTicker(g, d)
          \/ stopped' = stopped
      BY StoppedFrame
    <3> QED
      BY <3>1, <3>2, <3>3
  <2>3. ASSUME NEW p \in Procs, NEW e \in entries, CollectTick(p, e)
        PROVE  lastDue'[h] = lastDue[h]
    BY <2>1, <2>3 DEF CollectTick, Skipped
  <2>4. ASSUME NEW g \in Tickers, NEW d \in Durations, NewTicker(g, d)
        PROVE  lastDue'[h] = lastDue[h]
    BY <2>1, <2>4 DEF NewTicker
  <2>5. \/ \E p \in Procs : \E e \in entries : CollectTick(p, e)
        \/ \E d \in Durations : \E g \in Tickers : NewTicker(g, d)
        \/ lastDue' = lastDue
    BY DEF Next, AfterFunc, After, ResetTimer, StopTicker, Set, Receive, Stop,
       Reset, LockTimer, Cancel, Advance, StoreRef, Drain, Drop, Collect, Release,
       Deliver, SendTick, SendAfter, Launch, vars, ghost
  <2> QED
    BY <2>2, <2>3, <2>4, <2>5
<1>3. Base /\ StoppedExist /\ [Next]_vars => StoppedExist'
  BY StoppedExistStep
<1>4. Base /\ StoppedExist /\ [Next]_vars =>
        [\A h \in Tickers : stopped[h] => stopped'[h] /\ lastDue'[h] = lastDue[h]]_vars
  BY <1>2
<1> QED
  BY <1>1, <1>3, <1>4, BaseInit, BaseStep, PTL DEF Spec, StoppedTickerIsQuiet

\* When e and f are ticks of one ticker, e is the earlier one.
Earlier(tbl, e, f) ==
  tbl[e].obj \in Tickers /\ tbl[f].obj = tbl[e].obj => tbl[e].deadline < tbl[f].deadline

\* When e is a tick, it is later than the last one its ticker has sent.
Unsent(tbl, sent, e) == tbl[e].obj \in Tickers => sent[tbl[e].obj] < tbl[e].deadline

\* The lists in which the ticks of every ticker go up.
Rising(tbl) ==
  {q \in Seq(Nat) : \A i, j \in 1..Len(q) : i < j => Earlier(tbl, q[i], q[j])}

LEMMA RisingKept ==
  ASSUME NEW tbl, NEW new, NEW q \in Rising(tbl),
         \A e \in InList(q) : new[e].deadline = tbl[e].deadline /\ new[e].obj = tbl[e].obj
  PROVE  q \in Rising(new)
<1>1. q \in Seq(Nat) /\ \A i, j \in 1..Len(q) : i < j => Earlier(tbl, q[i], q[j])
  BY DEF Rising
<1>2. \A i \in 1..Len(q) : /\ new[q[i]].deadline = tbl[q[i]].deadline
                           /\ new[q[i]].obj = tbl[q[i]].obj
  BY DEF InList
<1>3. \A i, j \in 1..Len(q) : i < j => Earlier(new, q[i], q[j])
  BY <1>1, <1>2 DEF Earlier
<1> QED
  BY <1>1, <1>3 DEF Rising

LEMMA AppendRising ==
  ASSUME NEW tbl, NEW q \in Rising(tbl), NEW e \in Nat,
         \A x \in InList(q) : Earlier(tbl, x, e)
  PROVE  Append(q, e) \in Rising(tbl)
<1>1. q \in Seq(Nat) /\ \A i, j \in 1..Len(q) : i < j => Earlier(tbl, q[i], q[j])
  BY DEF Rising
<1>2. /\ Len(Append(q, e)) = Len(q) + 1 /\ Len(q) \in Nat
      /\ \A i \in 1..Len(q) : Append(q, e)[i] = q[i]
      /\ Append(q, e)[Len(q) + 1] = e
      /\ Append(q, e) \in Seq(Nat)
  BY <1>1
<1>3. \A i \in 1..Len(q) : Earlier(tbl, q[i], e)
  BY DEF InList
<1>4. \A i, j \in 1..Len(Append(q, e)) :
        i < j => i \in 1..Len(q) /\ (j \in 1..Len(q) \/ j = Len(q) + 1)
  BY <1>2
<1>5. \A i, j \in 1..Len(Append(q, e)) : i < j => Earlier(tbl, Append(q, e)[i], Append(q, e)[j])
  BY <1>1, <1>2, <1>3, <1>4
<1> QED
  BY <1>2, <1>5 DEF Rising

LEMMA TailRising ==
  ASSUME NEW tbl, NEW q \in Rising(tbl), q # <<>>
  PROVE  /\ Tail(q) \in Rising(tbl)
         /\ \A x \in InList(Tail(q)) : Earlier(tbl, Head(q), x)
<1>1. q \in Seq(Nat) /\ \A i, j \in 1..Len(q) : i < j => Earlier(tbl, q[i], q[j])
  BY DEF Rising
<1>2. /\ Len(Tail(q)) = Len(q) - 1 /\ Len(q) \in Nat
      /\ \A i \in 1..Len(Tail(q)) : Tail(q)[i] = q[i + 1]
      /\ Tail(q) \in Seq(Nat)
      /\ Head(q) = q[1]
  BY <1>1
<1>3. /\ \A i \in 1..Len(Tail(q)) : 1 < i + 1 /\ 1 \in 1..Len(q) /\ i + 1 \in 1..Len(q)
      /\ \A i, j \in 1..Len(Tail(q)) : i < j => i + 1 < j + 1
  BY <1>2
<1>4. \A i, j \in 1..Len(Tail(q)) : i < j => Earlier(tbl, Tail(q)[i], Tail(q)[j])
  BY <1>1, <1>2, <1>3
<1>5. \A i \in 1..Len(Tail(q)) : Earlier(tbl, Head(q), Tail(q)[i])
  BY <1>1, <1>2, <1>3
<1> QED
  BY <1>2, <1>4, <1>5 DEF Rising, InList

(***************************************************************************)
(* Where the ticks of a ticker are, in order: sent, collected by the one   *)
(* goroutine that advances, in the heap.                                   *)
(***************************************************************************)
TicksAhead ==
  /\ \A p \in Procs : pc[p] \in {"drain", "fire"} => p \in Advancers
  /\ \A e \in entries : Unsent(entry, lastSent, e)
  /\ \A p \in Procs : \A e \in InList(fires[p]) : Unsent(entry, lastSent, e)
  /\ \A p \in Procs : \A e \in InList(fires[p]) : \A f \in entries : Earlier(entry, e, f)
  /\ \A p \in Procs : fires[p] \in Rising(entry)

\* A step that leaves the lists alone and puts no tick in the heap but the first
\* one of a new ticker.
LEMMA TicksFrame ==
  ASSUME Base, Order, TicksAhead, fires' = fires,
         \A p \in Procs : pc'[p] \in {"drain", "fire"} => p \in Advancers,
         \A e \in 1..nextID : /\ entry'[e].obj = entry[e].obj
                              /\ entry'[e].deadline = entry[e].deadline,
         \A h \in Tickers \cap made : lastSent'[h] = lastSent[h],
         \A f \in entries' : \/ f \in entries
                             \/ /\ entry'[f].obj \notin Tickers \cap made
                                /\ Unsent(entry', lastSent', f)
  PROVE  TicksAhead'
<1>1. /\ \A p \in Procs : \A e \in InList(fires[p]) : e \in 1..nextID
      /\ \A e \in entries : e \in 1..nextID
      /\ \A e \in 1..nextID : entry[e].obj \in made
  BY DEF Base, TypeOK, Order
<1>2. \A e \in 1..nextID : Unsent(entry, lastSent, e) => Unsent(entry', lastSent', e)
  BY <1>1 DEF Unsent
<1>3. \A e \in entries' : Unsent(entry', lastSent', e)
  BY <1>1, <1>2 DEF TicksAhead
<1>4. \A p \in Procs : \A e \in InList(fires[p]) : Unsent(entry', lastSent', e)
  BY <1>1, <1>2 DEF TicksAhead
<1>5. ASSUME NEW p \in Procs, NEW e \in InList(fires[p]), NEW f \in entries'
      PROVE  Earlier(entry', e, f)
  <2>1. e \in 1..nextID /\ entry[e].obj \in made
    BY <1>1
  <2>2. CASE f \in entries
    <3>1. Earlier(entry, e, f) /\ f \in 1..nextID
      BY <1>1, <2>2 DEF TicksAhead
    <3> QED
      BY <2>1, <3>1 DEF Earlier
  <2>3. CASE entry'[f].obj \notin Tickers \cap made
    BY <2>1, <2>3 DEF Earlier
  <2> QED
    BY <2>2, <2>3
<1>6. \A p \in Procs : fires[p] \in Rising(entry')
  BY <1>1, RisingKept DEF TicksAhead
<1> QED
  BY <1>3, <1>4, <1>5, <1>6 DEF TicksAhead

\* A step that collects the entry e, the only one of its ticker, and puts at most
\* the ticker's next one in the heap.
LEMMA TicksCollect ==
  ASSUME Base, Order, TicksAhead, NEW p \in Procs, NEW e \in entries,
         pc' = pc, fires' = [fires EXCEPT ![p] = Append(@, e)], lastSent' = lastSent,
         \A f \in 1..nextID : entry'[f] = entry[f],
         entry[e].obj \in Tickers => \A f \in entries : entry[f].obj = entry[e].obj => f = e,
         \A f \in entries' : \/ f \in entries \ {e}
                             \/ /\ entry'[f].obj = entry[e].obj /\ entry'[f].deadline \in Int
                                /\ entry[e].deadline < entry'[f].deadline
  PROVE  TicksAhead'
<1>1. /\ e \in 1..nextID /\ e \in Nat
      /\ \A f \in entries : f \in 1..nextID
      /\ \A q \in Procs : \A x \in InList(fires[q]) : x \in 1..nextID
      /\ \A f \in 1..nextID : entry[f].deadline \in Int /\ entry[f].obj \in made
      /\ \A h \in Tickers : lastSent[h] \in Int
      /\ fires[p] \in Seq(Nat)
  <2>1. e \in 1..nextID /\ nextID \in Nat /\ \A f \in entries : f \in 1..nextID
    BY DEF Base, TypeOK
  <2>2. fires[p] \in Seq(Nat) /\ \A q \in Procs : \A x \in InList(fires[q]) : x \in 1..nextID
    BY DEF Order, Sorted
  <2>3. \A f \in 1..nextID : entry[f].deadline \in Int
    BY DEF Base, TypeOK, Entry
  <2>4. \A f \in 1..nextID : entry[f].obj \in made
    BY DEF Order
  <2>5. \A h \in Tickers : lastSent[h] \in Int
    BY DEF Base, TypeOK
  <2>6. e \in 1..nextID /\ e \in Nat
    BY <2>1
  <2> QED
    BY <2>1, <2>2, <2>3, <2>4, <2>5, <2>6
<1>2. /\ \A q \in Procs \ {p} : fires'[q] = fires[q]
      /\ fires'[p] = Append(fires[p], e)
  BY DEF Base, TypeOK
<1>3. InList(fires'[p]) = InList(fires[p]) \cup {e}
  BY <1>1, <1>2, AppendFacts
<1>4. \A q \in Procs : \A x \in InList(fires'[q]) : x \in InList(fires[q]) \/ (q = p /\ x = e)
  BY <1>2, <1>3
<1>5. ASSUME NEW f \in entries' PROVE Unsent(entry', lastSent, f)
  <2>1. CASE f \in entries \ {e}
    <3>1. Unsent(entry, lastSent, f) /\ f \in 1..nextID
      BY <1>1, <2>1 DEF TicksAhead
    <3> QED
      BY <3>1 DEF Unsent
  <2>2. CASE /\ entry'[f].obj = entry[e].obj /\ entry'[f].deadline \in Int
             /\ entry[e].deadline < entry'[f].deadline
    <3>1. Unsent(entry, lastSent, e) /\ entry[e].deadline \in Int
      BY <1>1 DEF TicksAhead
    <3> QED
      BY <1>1, <2>2, <3>1 DEF Unsent
  <2> QED
    BY <2>1, <2>2
<1>6. ASSUME NEW q \in Procs, NEW x \in InList(fires'[q]) PROVE Unsent(entry', lastSent, x)
  <2>1. Unsent(entry, lastSent, x) /\ x \in 1..nextID
    BY <1>1, <1>4 DEF TicksAhead
  <2> QED
    BY <2>1 DEF Unsent
<1>7. ASSUME NEW q \in Procs, NEW x \in InList(fires'[q]), NEW f \in entries'
      PROVE  Earlier(entry', x, f)
  <2>1. CASE f \in entries \ {e}
    <3>1. CASE x \in InList(fires[q])
      <4>1. Earlier(entry, x, f) /\ x \in 1..nextID /\ f \in 1..nextID
        BY <1>1, <2>1, <3>1 DEF TicksAhead
      <4> QED
        BY <4>1 DEF Earlier
    <3>2. CASE x = e
      BY <1>1, <2>1, <3>2 DEF Earlier
    <3> QED
      BY <1>4, <3>1, <3>2
  <2>2. CASE /\ entry'[f].obj = entry[e].obj /\ entry'[f].deadline \in Int
             /\ entry[e].deadline < entry'[f].deadline
    <3>1. CASE x \in InList(fires[q])
      <4>1. Earlier(entry, x, e) /\ x \in 1..nextID
        BY <1>1, <3>1 DEF TicksAhead
      <4>2. entry'[x] = entry[x] /\ entry[x].deadline \in Int /\ entry[e].deadline \in Int
        BY <1>1, <4>1
      <4> QED
        BY <2>2, <4>1, <4>2 DEF Earlier
    <3>2. CASE x = e
      BY <1>1, <2>2, <3>2 DEF Earlier
    <3> QED
      BY <1>4, <3>1, <3>2
  <2> QED
    BY <2>1, <2>2
<1>8. ASSUME NEW q \in Procs PROVE fires'[q] \in Rising(entry')
  <2>1. fires[q] \in Rising(entry')
    BY <1>1, RisingKept DEF TicksAhead
  <2>2. \A x \in InList(fires[q]) : Earlier(entry', x, e)
    <3>1. \A x \in InList(fires[q]) : Earlier(entry, x, e) /\ x \in 1..nextID
      BY <1>1 DEF TicksAhead
    <3> QED
      BY <1>1, <3>1 DEF Earlier
  <2>3. Append(fires[q], e) \in Rising(entry')
    BY <1>1, <2>1, <2>2, AppendRising
  <2> QED
    BY <1>2, <2>1, <2>3
<1>9. \A q \in Procs : pc'[q] \in {"drain", "fire"} => q \in Advancers
  BY DEF TicksAhead
<1> QED
  BY <1>5, <1>6, <1>7, <1>8, <1>9 DEF TicksAhead

\* A step that delivers the head of the only list there is.
LEMMA TicksDeliver ==
  ASSUME \A p, q \in Advancers : p = q,
         Base, Order, TicksAhead, NEW p \in Procs, pc[p] = "fire",
         fires' = [fires EXCEPT ![p] = Tail(@)],
         \A q \in Procs : pc'[q] \in {"drain", "fire"} => pc[q] \in {"drain", "fire"},
         UNCHANGED <<entry, entries, nextID, made>>,
         \/ lastSent' = lastSent
         \/ /\ entry[Head(fires[p])].obj \in Tickers
            /\ lastSent' = [lastSent EXCEPT ![entry[Head(fires[p])].obj] =
                                               entry[Head(fires[p])].deadline]
  PROVE  /\ TicksAhead'
         /\ \A h \in Tickers \cap made : lastSent'[h] # lastSent[h] => lastSent'[h] > lastSent[h]
<1> DEFINE e == Head(fires[p])
           q == Tail(fires[p])
<1>1. /\ fires[p] \in Seq(1..nextID) /\ fires[p] # <<>> /\ fires[p] \in Seq(Nat)
      /\ \A f \in 1..nextID : entry[f].deadline \in Int /\ entry[f].obj \in made
      /\ \A f \in entries : f \in 1..nextID
      /\ lastSent \in [Tickers -> Int]
      /\ InList(fires[p]) \subseteq 1..nextID
  BY DEF Base, TypeOK, Control, Order, Sorted, Entry
<1>2. /\ fires'[p] = q /\ q \in Rising(entry)
      /\ \A x \in InList(q) : Earlier(entry, e, x)
      /\ InList(q) \subseteq InList(fires[p])
      /\ e \in InList(fires[p]) /\ e \in 1..nextID
  <2>1. fires'[p] = q
    BY DEF Base, TypeOK
  <2>2. fires[p] \in Rising(entry)
    BY DEF TicksAhead
  <2>3. InList(q) \subseteq InList(fires[p])
    BY <1>1, TailElements
  <2>4. e = fires[p][1] /\ 1 \in 1..Len(fires[p])
    BY <1>1
  <2>5. e \in InList(fires[p])
    BY <2>4 DEF InList
  <2> QED
    BY <1>1, <2>1, <2>2, <2>3, <2>5, TailRising
<1>3. \A r \in Procs \ {p} : fires'[r] = <<>>
  <2>1. \A r \in Procs \ {p} : fires'[r] = fires[r] /\ pc[r] \notin {"drain", "fire"}
    BY DEF Base, TypeOK, TicksAhead
  <2> QED
    BY <2>1 DEF Order
<1>4. \/ lastSent' = lastSent
      \/ entry[e].obj \in Tickers /\ lastSent' = [lastSent EXCEPT ![entry[e].obj] = entry[e].deadline]
  OBVIOUS
<1> HIDE DEF e, q
<1>5. Unsent(entry, lastSent, e)
  BY <1>2 DEF TicksAhead
<1>6. \A h \in Tickers : \/ lastSent'[h] = lastSent[h]
                         \/ /\ entry[e].obj = h /\ lastSent'[h] = entry[e].deadline
                            /\ lastSent[h] < entry[e].deadline
  BY <1>1, <1>4, <1>5 DEF Unsent
<1>7. ASSUME NEW f \in 1..nextID, Unsent(entry, lastSent, f), Earlier(entry, e, f)
      PROVE  Unsent(entry, lastSent', f)
  BY <1>6, <1>7 DEF Unsent, Earlier
<1>8. \A f \in entries : Unsent(entry, lastSent', f)
  BY <1>1, <1>2, <1>7 DEF TicksAhead
<1>9. \A f \in InList(q) : Unsent(entry, lastSent', f)
  BY <1>1, <1>2, <1>7 DEF TicksAhead
<1>10. \A r \in Procs : \A f \in InList(fires'[r]) : r = p /\ f \in InList(q)
  <2>1. InList(<<>>) = {}
    BY DEF InList
  <2> QED
    BY <1>2, <1>3, <2>1
<1>11. \A f \in InList(q) : \A g \in entries : Earlier(entry, f, g)
  BY <1>2 DEF TicksAhead
<1>12. \A r \in Procs : fires'[r] \in Rising(entry)
  <2>1. <<>> \in Rising(entry)
    BY DEF Rising
  <2> QED
    BY <1>2, <1>3, <2>1
<1>13. \A r \in Procs : pc'[r] \in {"drain", "fire"} => r \in Advancers
  BY DEF TicksAhead
<1>14. TicksAhead'
  BY <1>8, <1>9, <1>10, <1>11, <1>12, <1>13 DEF TicksAhead
<1>15. ASSUME NEW h \in Tickers, lastSent'[h] # lastSent[h] PROVE lastSent'[h] > lastSent[h]
  BY <1>1, <1>2, <1>6, <1>15
<1> QED
  BY <1>14, <1>15

LEMMA TicksStep ==
  ASSUME \A p, q \in Advancers : p = q
  PROVE  Base /\ Order /\ Refs /\ Regular /\ TicksAhead /\ [Next]_vars =>
           /\ TicksAhead'
           /\ \A h \in Tickers \cap made : lastSent'[h] # lastSent[h] => lastSent'[h] > lastSent[h]
<1> DEFINE Up == \A h \in Tickers \cap made : lastSent'[h] # lastSent[h] => lastSent'[h] > lastSent[h]
<1> SUFFICES ASSUME Base, Order, Refs, Regular, TicksAhead, [Next]_vars PROVE TicksAhead' /\ Up
  OBVIOUS
<1> USE SchedulerAssumption DEF Handles
<1>0. /\ nextID \in Nat /\ now \in Int /\ Durations \subseteq Int
      /\ lastSent \in [Tickers -> Int] /\ period \in [Tickers -> Int]
      /\ \A e \in entries : e \in 1..nextID /\ entry[e].obj \in made
      /\ \A p \in Procs : pc[p] \in {"drain", "fire"} => p \in Advancers
      /\ nextID + 1 \notin 1..nextID
      /\ entry \in [1..nextID -> Entry] /\ entries \in SUBSET (1..nextID)
      /\ pc \in [Procs -> {"idle", "cancel", "reset", "store", "drain", "fire"}]
  BY DEF Base, TypeOK, Order, TicksAhead
<1>1. ASSUME NEW h \in Tickers, NEW d \in Durations, NewTicker(h, d) PROVE TicksAhead' /\ Up
  <2> DEFINE t == now + d
  <2>1. /\ Push(entry, entries, h, t) /\ h \notin made /\ h \in Handles /\ t \in Int /\ now < t
        /\ lastSent' = [lastSent EXCEPT ![h] = now] /\ UNCHANGED <<pc, fires>>
    BY <1>0, <1>1 DEF NewTicker, frame
  <2> HIDE DEF t
  <2>2. /\ nextID' = nextID + 1 /\ entries' = entries \cup {nextID'}
        /\ \A e \in 1..nextID : entry'[e] = entry[e]
        /\ entry'[nextID'].obj = h /\ entry'[nextID'].deadline = t
    <3>pushed. Pushed(entry, entries, h, t)
      BY <1>0, <2>1, PushFacts DEF Base
    <3> QED
      BY <1>0, <2>1, <3>pushed DEF Pushed
  <2>3. /\ \A g \in Tickers \cap made : lastSent'[g] = lastSent[g]
        /\ lastSent'[h] = now
    BY <1>0, <2>1
  <2>4. TicksAhead'
    <3>1. Unsent(entry', lastSent', nextID')
      BY <2>1, <2>2, <2>3 DEF Unsent
    <3> QED
      BY <1>0, <2>1, <2>2, <2>3, <3>1, TicksFrame
  <2> QED
    BY <2>3, <2>4
<1>2. ASSUME NEW h \in Timers \cup Afters, NEW d \in Durations, AfterFunc(h, d) \/ After(h, d)
      PROVE  TicksAhead' /\ Up
  <2>1. /\ Push(entry, entries, h, now + d) /\ now + d \in Int /\ h \in Handles
        /\ UNCHANGED <<pc, fires, lastSent>>
    BY <1>0, <1>2 DEF AfterFunc, After, frame, ghost
  <2>2. /\ nextID' = nextID + 1 /\ entries' = entries \cup {nextID'}
        /\ \A e \in 1..nextID : entry'[e] = entry[e]
        /\ entry'[nextID'].obj = h
    <3>pushed. Pushed(entry, entries, h, now + d)
      BY <1>0, <2>1, PushFacts DEF Base
    <3> QED
      BY <1>0, <2>1, <3>pushed DEF Pushed
  <2>3. h \notin Tickers
    OBVIOUS
  <2>4. TicksAhead'
    BY <1>0, <2>1, <2>2, <2>3, TicksFrame DEF Unsent
  <2> QED
    BY <2>1, <2>4
<1>3. ASSUME NEW p \in Procs, NEW d \in Durations, ResetTimer(p, d) PROVE TicksAhead' /\ Up
  <2> DEFINE g == timer[p]
             k == ref[g]
             t == now + d
  <2>1. g \in Timers /\ k \in 1..nextID /\ t \in Int /\ g \in Handles
    BY <1>0, <1>3 DEF Base, TypeOK, Control, ResetTimer, OnTimer, NoTimer
  <2>2. /\ Push(Kill(k), entries, g, t) /\ UNCHANGED <<fires, lastSent>>
        /\ pc' = [pc EXCEPT ![p] = "store"]
    BY <1>3 DEF ResetTimer
  <2> HIDE DEF g, k, t
  <2>3. /\ Kill(k) \in [1..nextID -> Entry]
        /\ \A e \in 1..nextID : /\ Kill(k)[e].obj = entry[e].obj
                                /\ Kill(k)[e].deadline = entry[e].deadline
    BY <2>1, KillFacts DEF Base
  <2>4. /\ nextID' = nextID + 1 /\ entries' = entries \cup {nextID'}
        /\ \A e \in 1..nextID : entry'[e] = Kill(k)[e]
        /\ entry'[nextID'].obj = g
    <3>pushed. Pushed(Kill(k), entries, g, t)
      BY <1>0, <2>1, <2>2, <2>3, PushFacts DEF Base
    <3> QED
      BY <1>0, <2>1, <2>2, <2>3, <3>pushed DEF Pushed
  <2>5. g \notin Tickers
    BY <2>1
  <2>6. \A q \in Procs : pc'[q] \in {"drain", "fire"} => q \in Advancers
    BY <1>0, <2>2
  <2>7. TicksAhead'
    BY <1>0, <2>2, <2>3, <2>4, <2>5, <2>6, TicksFrame DEF Unsent
  <2> QED
    BY <2>2, <2>7
<1>4. ASSUME NEW p \in Procs, Cancel(p) PROVE TicksAhead' /\ Up
  <2>1. timer[p] \in Timers /\ ref[timer[p]] \in 1..nextID
    BY <1>4 DEF Base, TypeOK, Control, Cancel, OnTimer, NoTimer
  <2>2. /\ entry' = Kill(ref[timer[p]])
        /\ UNCHANGED <<entries, fires, lastSent>>
        /\ pc' = [pc EXCEPT ![p] = "idle"]
    BY <1>4 DEF Cancel, UnlockTimer
  <2>3. \A q \in Procs : pc'[q] \in {"drain", "fire"} => q \in Advancers
    BY <1>0, <2>2
  <2>4. TicksAhead'
    BY <2>1, <2>2, <2>3, KillFacts, TicksFrame DEF Base
  <2> QED
    BY <2>2, <2>4
<1>5. ASSUME NEW p \in Procs, NEW e \in entries, CollectTick(p, e) PROVE TicksAhead' /\ Up
  <2> DEFINE h == entry[e].obj
             t == entry[e].deadline + period[h]
             rest == entries \ {e}
  <2>1. /\ Push(entry, rest, h, t) /\ h \in Tickers /\ pc[p] = "drain"
        /\ UNCHANGED <<made, pc, lastSent>>
        /\ fires' = [fires EXCEPT ![p] = Append(@, e)]
    BY <1>5 DEF CollectTick, NextDeadline, PopHeap, tick, Queue, Due
  <2>2. /\ ~stopped[h] /\ h \in Tickers \cap made /\ h \in Handles
        /\ t \in Int /\ rest \in SUBSET (1..nextID)
        /\ entry[e].deadline \in Int /\ entry[e].deadline < t
    BY <1>0, <1>5 DEF CollectTick, Skipped, Entry, Order
  <2>3. \A f \in entries : entry[f].obj = h => f = e
    BY <2>2 DEF Regular
  <2>4. entry[e].obj = h
    OBVIOUS
  <2> HIDE DEF h, t, rest
  <2>5. /\ nextID' = nextID + 1 /\ entries' = rest \cup {nextID'}
        /\ \A f \in 1..nextID : entry'[f] = entry[f]
        /\ entry'[nextID'].obj = h /\ entry'[nextID'].deadline = t
    <3>pushed. Pushed(entry, rest, h, t)
      BY <1>0, <2>1, <2>2, PushFacts DEF Base
    <3> QED
      BY <1>0, <2>1, <2>2, <3>pushed DEF Pushed
  <2>6. \A f \in entries' : \/ f \in entries \ {e}
                            \/ /\ entry'[f].obj = entry[e].obj /\ entry'[f].deadline \in Int
                               /\ entry[e].deadline < entry'[f].deadline
    BY <2>2, <2>4, <2>5 DEF rest
  <2>7. entry[e].obj \in Tickers => \A f \in entries : entry[f].obj = entry[e].obj => f = e
    BY <2>3, <2>4
  <2>8. TicksAhead'
    BY <2>1, <2>5, <2>6, <2>7, TicksCollect
  <2> QED
    BY <2>1, <2>8
<1>6. ASSUME NEW p \in Procs, NEW e \in entries, Collect(p, e) PROVE TicksAhead' /\ Up
  <2>1. /\ entries' = entries \ {e} /\ UNCHANGED <<entry, made, pc, lastSent>>
        /\ fires' = [fires EXCEPT ![p] = Append(@, e)]
        /\ pc[p] = "drain" /\ entry[e].obj \notin Tickers
    BY <1>6 DEF Collect, PopHeap, tick, Queue, Due
  <2>2. TicksAhead'
    BY <2>1, TicksCollect
  <2> QED
    BY <2>1, <2>2
<1>7. ASSUME NEW p \in Procs, Deliver(p) PROVE TicksAhead' /\ Up
  <2>1. /\ UNCHANGED <<entry, entries, nextID, made>>
        /\ NextFire(p)
    BY <1>7 DEF Deliver, SendTick, SendAfter, Launch, sched, tick
  <2>2. /\ pc[p] = "fire" /\ fires' = [fires EXCEPT ![p] = Tail(@)]
        /\ \A q \in Procs : pc'[q] \in {"drain", "fire"} => pc[q] \in {"drain", "fire"}
    BY <1>0, <2>1 DEF NextFire, Firing
  <2>3. \/ lastSent' = lastSent
        \/ /\ entry[Head(fires[p])].obj \in Tickers
           /\ lastSent' = [lastSent EXCEPT ![entry[Head(fires[p])].obj] =
                                              entry[Head(fires[p])].deadline]
    BY <1>7 DEF Deliver, SendTick, SendAfter, Launch, ghost
  <2> QED
    BY <2>1, <2>2, <2>3, TicksDeliver
<1>8. ASSUME \/ \E h \in Tickers : StopTicker(h)
             \/ \E t \in SetTimes : Set(t)
             \/ \E c \in Chans : Receive(c)
             \/ \E p \in Procs : \E e \in entries : Drop(p, e)
             \/ \E p \in Procs : \E h \in Timers : Stop(p, h) \/ Reset(p, h)
             \/ \E p \in Procs : \E d \in Steps : Advance(p, d)
             \/ \E p \in Procs : StoreRef(p) \/ Release(p)
             \/ UNCHANGED vars
      PROVE  TicksAhead' /\ Up
  <2>1. /\ UNCHANGED <<entry, fires, lastSent>> /\ entries' \subseteq entries
    BY <1>8 DEF StopTicker, Set, Receive, Drop, PopHeap, Stop, Reset, LockTimer, Advance, StoreRef,
       Release, vars, sched, tick, locks, frame, ghost
  <2>2. \A q \in Procs : pc'[q] \in {"drain", "fire"} =>
          pc[q] \in {"drain", "fire"} \/ q \in Advancers
    BY <1>0, <1>8 DEF StopTicker, Set, Receive, Drop, Stop, Reset, LockTimer, Advance, StoreRef,
       UnlockTimer, Release, vars, frame
  <2>3. TicksAhead'
    BY <1>0, <2>1, <2>2, TicksFrame
  <2> QED
    BY <2>1, <2>3
<1> QED
  BY <1>1, <1>2, <1>3, <1>4, <1>5, <1>6, <1>7, <1>8 DEF Next, Drain

\* With one goroutine that advances, the times sent on a ticker's channel go up,
\* also when a full channel drops some of them. (Two goroutines deliver what they
\* have collected independently, and the later ticks may come first.)
THEOREM TicksAreInOrder ==
  ASSUME \A p, q \in Advancers : p = q
  PROVE  Spec => TicksInOrder
<1>1. Init => Order /\ Refs /\ Regular /\ TicksAhead
  BY DEF Init, Order, Sorted, InList, Refs, Regular, TicksAhead, Rising
<1>2. Base /\ Order /\ Refs /\ Regular /\ TicksAhead /\ [Next]_vars =>
        /\ TicksAhead'
        /\ [\A h \in Tickers \cap made : lastSent'[h] # lastSent[h] => lastSent'[h] > lastSent[h]]_vars
  BY TicksStep
<1> QED
  BY <1>1, <1>2, BaseInit, BaseStep, OrderStep, RefsStep, RegularStep, PTL DEF Spec, TicksInOrder

=============================================================================
