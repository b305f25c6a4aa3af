# cli-toolkit in TLA+

A verification development for `github.com/jlrickert/cli-toolkit`: TLA+ models of
the parts of the toolkit whose behaviour depends on the order of steps, TLC
configurations that check them on small instances, and theorems proved with
TLAPS. Paths below are relative to the repository root.

## 1. The system

| Component | State it keeps | Operations | How it meets the others | What is hard |
| --- | --- | --- | --- | --- |
| **TestClock and scheduler** (`clock/clock.go`, `clock/scheduler.go`) | the time, a heap of entries with tombstones, ticker states shared by re-inserted entries, a pointer per timer to its current entry, two levels of mutex | `NewTicker`, `After`, `AfterFunc`, `Ticker.Stop`, `Timer.Stop`, `Timer.Reset`, `Set`, `Advance` | goroutines share it; `Advance` sends on channels and starts callbacks, which may call it again | everything that was collected under the lock is delivered after it; `Stop` and `Reset` race with that and with each other |
| **OsClock** (`clock/scheduling.go`) | none | the same, by package `time` | | nothing: thin wrappers |
| **Process** (`sandbox/process.go`) | the configured streams, three pipes, two capture buffers | setters, `Write`, `Close`, `Run`, `RunWithIO` | runs a Runner on a clone of a Runtime; goroutines write its stdin and read its pipes | synchronous pipes: whoever is not read or not closed waits |
| **Pipeline** (`sandbox/pipeline.go`) | the stages, the capture buffers | `Run`, `RunWithTimeout` | wires and joins Processes | a chain of blocking stages, errors and a deadline |
| **Sandbox harness** (`sandbox/sandbox.go`) | a Runtime, its clock and logger, fixtures | options, `Setwd`, file helpers | composes the parts below for tests | order of options; fixtures go to the host past the Runtime |
| **Runtime** (`toolkit/runtime.go`) | jail, environment, file system, clock, logger, stream | `SetJail`, `Setwd`, `Clone`, file operations | forwards to environment and file system | three copies of jail and working directory kept together through errors and clones |
| **OsFS** (`toolkit/filesystem/os_fs.go`) | jail, working directory | path resolution, file operations | called by Runtime | resolve-then-use while the jail changes |
| **Atomic write** (`toolkit/filesystem/filesystem.go`) | temporary and target file | `atomicWriteFile` | called by OsFS | crash and error between steps, two writers |
| **TestEnv** (`toolkit/env/test_env.go`) | variables, `HOME`, `PWD`, user, jail | `Set`, `Unset`, `SetHome`, `Setwd`, `SetJail`, `Clone` | called by Runtime | values kept twice, rebased by `SetJail` |
| **Jail paths** (`toolkit/jail`) | none | `IsInJail`, `ResolvePath`, `RemoveJailPrefix` | used by all of the above | inverses, `..`, the jail root itself |
| **Environment interface** (`toolkit/env/env.go`), **user paths** (`toolkit/user.go`) | none | `ExpandEnv`, `ExpandPath`, `User*Path`, `Edit` | Runtime resolves every path through them | the same expansion written out four times; a home known under two names |
| **cfgcascade** | ranked layers | `Resolve`, providers | providers read files and variables through the Runtime | ties of rank, missing and broken layers, layers that change meanwhile |
| **appctx** | the derived `AppPaths` | `NewAppPaths`, `NewGitAppPaths`, `FindGitRoot` | calls Runtime and git | git answers with paths of the host |
| **mylog: captured logs** (`mylog/logger_testutils.go`) | entries, handlers that share them | `Handle`, `WithAttrs`, `WithGroup`, `RequireEntry`, `FindEntries` | any goroutine logs through any handler | a filter used outside the lock, polling against a deadline |
| **mylog: logger** (`mylog/logger.go`) | none | constructors, `SlogWriter.Write` | lines written become entries | |
| **OsEnv**, streams, tty, hash | none | | package `os` | stateless or pure I/O |

`PROJECT.json` lists the components with their status and, under `hazards`, every
place where this code can go wrong in a way a test would hardly reach, at its
line, with the property that covers it or the reason why none does yet.

## 2. The modules

| Module | What it is |
| --- | --- |
| `TimerService` | the abstract schedule: one deadline per handle, expired in order |
| `Scheduler` | `clock.TestClock` and its scheduler, one step per critical section; implements `TimerService` |
| `SchedulerProofs` | TLAPS proofs about `Scheduler`: types and locks, the current entry of a timer, nothing overdue, nothing fires twice, order, regular and stopped tickers, ticks in order, the refinement |
| `Process` | `sandbox.Process` with the goroutines around it |
| `ProcessProofs` | TLAPS proofs about `Process`: types, no output is lost; and the lemmas its composition needs |
| `Pipeline` | `sandbox.Pipeline`; extends `Process` and composes its actions |
| `PipelineProofs` | TLAPS proofs about `Pipeline`: what the end of an input means, the outcome; extends `ProcessProofs` |
| `JailPath` | package `toolkit/jail`: virtual and host paths |
| `JailPathProofs` | lemmas about `JailPath`, and the principles of induction that the proofs about paths share |
| `Runtime` | `toolkit.Runtime` over a `TestEnv` and an `OsFS` that clones share; uses `JailPath` |
| `RuntimeProofs` | TLAPS proofs about `Runtime` |
| `HostTree` | the host's file system as package `os` shows it (external); uses `JailPath` |
| `AtomicFile` | what an atomic write promises: one file is replaced in one step, or never |
| `OsFS` | resolution with links and the file operations of `OsFS`, as `Runtime` calls them, and `atomicWriteFile` one system call at a time, which implements `AtomicFile`; extends `HostTree` |
| `OsFSProofs` | TLAPS proofs about `HostTree` and `OsFS`: how links are followed, what each system call changes, where paths lead, atomic writes and the refinement |
| `TestLog` | `mylog.TestHandler` with its derived handlers, `SlogWriter`, and a test in `RequireEntry` |
| `TestLogProofs` | TLAPS proofs about `TestLog` |
| `EnvPaths` | paths as a program writes them: expansion, the ways to resolve them, the user's directories; extends `HostTree` |
| `Cascade` | `cfgcascade.Cascade.Resolve`, one provider after the other |
| `Startup` | a sandbox set up, used and configured: `sandbox.go`, `appctx`, `Edit`; extends `EnvPaths` and `Cascade`, takes the resolution of paths from `OsFS` |
| `StartupProofs` | TLAPS proofs about `EnvPaths`, about `Cascade`, and about both within `Startup` |
| `MCScheduler`, `MCProcess`, `MCPipeline`, `MCRuntime`, `MCOsFS`, `MCTestLog`, `MCStartup` | the small instances that TLC checks |

In every module, definitions introduced by "Faulty variant" are not part of the
specification. Each is what a mapped definition would be with a plausible bug; it
documents what the properties guard against, and `mutants` in `PROJECT.json` says
which property notices it.

### Scheduler

*State.* `entry` is the table of all `schedEntry` values ever allocated, indexed by
`id`; `entries` is the set of ids in the heap, and `IsTop` is the entry `heap.Pop`
returns, because (deadline, id) is a total order: the array layout of the heap is
abstracted. `ref` is `*testTimer.entryRef`, `tmMu` the mutex that guards it, `mu` the
scheduler's mutex. `period`, `stopped`, `ch` are `tickerState`. `pc`, `target`, `fires`,
`timer`, `fresh` are the locals of a goroutine inside `Advance`, `Stop` or `Reset`.
`fired`, `launched`, `reported`, `lastDue`, `lastSent` are history, read by
properties only. `kind` is the kind of handle an entry belongs to.

*Actions.* A call that is one critical section is one action (`NewTicker`, `After`,
`AfterFunc`, `StopTicker`, `Set`). `Timer.Stop` is `Stop` (take `tm.mu`) and `Cancel`
(`scheduler.cancel`); `Timer.Reset` is `Reset`, `ResetTimer`
(`scheduler.resetTimer`) and `StoreRef`. `scheduler.advance` is `Advance` (lock),
one `Drop`, `Collect` or `CollectTick` per iteration of the drain loop, `Release`
(unlock), and then without the lock one `SendTick`, `SendAfter` or `Launch` per event.
`Receive` is a goroutine reading a channel.

Time is an integer relative to the seed; `id` is a natural number (the `uint64`
counter is out of reach of any run of the program). `Now` and `Since` read under the
mutex and are left out. `scheduler.remove` has no caller.

*What it promises.* `TimerService` has one deadline per handle, no heap, tombstones,
pointers or shared ticker states. `ImplementsSchedule` maps a handle's deadline to its
only live entry and the number of owed deliveries to the events some `Advance` has
collected and not delivered. Under this mapping a lost tombstone, a lost or doubled
re-insertion, or an event fired out of order is a step `TimerService` does not have.

### Process and Pipeline

*State.* `in`, `out`, `outBuf` are the fields of each `Process`; `pipes` says which pipes
exist (`stdinW`, `stdoutW` are not nil), `closed` which writers are closed, `offer` the
message a blocked write holds out. `src` and `dst` are the streams `Run` picked; `pc` is
where `Run` and its runner are. `sent`, `got`, `eof` are what the runner did;
`tried`, `acked`, `wpc` belong to the goroutine that calls `Write` and `Close`, `tail`,
`tailEOF` to the one that reads `StdoutPipe`. `Pipeline` adds `ppc`, `expired` and the
result.

*Actions.* The setters, `Write` (its locked part and the offer), `WriteReturns`, `Close`,
`RunFails` (the early returns), `RunStart` (the locked part that picks the streams),
`RunCloses` (closing the writers) and `RunEnd` (taking the output), with steps of other
goroutines between the two. The runner is not toolkit code: it reads, writes and returns in
any order. In `Pipeline`, `Start` is everything `Run` does before it waits, `Collect` everything after, `Expire` the deadline, `Cancelled` a runner
that gives up because of it. `Prepare` is a caller who configured the first or last
process before (`StageWithName`).

*Abstractions.* `io.Pipe` is external: a write waits until it is read or the writer is
closed. One write is one message and is taken by one read. Stderr is treated by the
code exactly as stdout and is left out. Exit codes are reduced to error or not. A
process runs once, and one pipeline is run once. `Close` is called when there is a
writer (see section 6 for a call that comes before).

### JailPath and Runtime

*State.* A path is the sequence of its components, `NoJail` the empty jail. `rt` is
`Runtime.jail` and `Runtime.wd`; `envOf` is the pointer `Runtime.env` and `env` the
`TestEnv` values it may point to (jail, home, and `PWD` and `TMPDIR` of the data map);
`fs` is the one `OsFS` of a runtime and all its clones. `pc` and `call` are where a
goroutine is inside `Setwd` or `SetJail` and its locals. `raced` is history: whether
another runtime moved `fs.wd` between this one's `fs.Setwd` and its `fs.Getwd`.

*Actions.* `Setwd` is the resolution of the argument against runtime and home;
`SetJail` stores the jail in the runtime, the file system and the environment and
then applies the working directory. Both go through `applyWorkingDir`: `StatDir`
(`OsFS.Setwd` up to the write lock), `MoveFS` (under it), `Adopt` (`env.Setwd` and
`fs.Getwd`). `FallBack` is `SetJail` trying `/`, `Fail` the error that is returned.
`SetHome`, `SetTemp` and `Unset` change the environment, `Set("PWD")` is `Setwd`.
`Clone` copies runtime and environment. `Init` is what `NewTestRuntime` with a jail
arrives at.

*Abstractions.* The environment is a `TestEnv`, not an `OsEnv`, which changes the
directory of the whole process. The host's tree is fixed and has no links: a
directory is refused when it is outside the jail or there is a file on the way.
Calls that fail before they change anything, calls that only read, and `USER` are
left out. The three stores of `SetJail` are one step: the runtime and its environment
belong to the calling goroutine, only the file system is shared. `OsFS.Setwd` reads
the jail in `resolve` and once more for `os.Stat`; the two are one read.

### HostTree and OsFS

*State.* `tree` is a function from the host paths that exist to nodes: a directory, a file
with its data, or a link with its text. `jail` is `OsFS.jail`. A client calls one
operation after the other; `pending` is where `Runtime.WriteFile`, `AppendFile` or
`OpenFile` is between making the parent directory and calling the file system. A writer
is a call of `AtomicWriteFile`: `pc` is the system call it comes to, `path` its argument and
`host` what that was resolved to. `moved` and `cleared` are history: whether a directory or a
link has changed since then, and whether a file, or a link that leads to no directory, was on
the way to `host` and is no longer.

*Operators.* `Followed` is `resolveHost(path, true)`, `Lexical` the same without following,
`ForCreate` is `resolveHostForCreate`, `ForOpen` is `resolveHostForOpen`. On these rest
`ReadFile`, `Stat`, `ReadDir` and `Glob`, and `Place`, where `Chmod`, `Chown`, `Lchown` and
`Chtimes` act. `Glob` is that of patterns whose one wildcard is the last component.

*Actions.* `MakeParent` and then `WriteFile`, `AppendFile` or `OpenFile`; `Mkdir` and `Remove_` with and without `all`;
`Rename`, `Symlink`. An atomic write is `Resolve`, `MakeDirs`, `CreateTemp`, `WriteTemp` or
`WriteFails`, `Install` (which may fail), and `RemoveTemp`, the deferred remove. `Crash` ends the process
anywhere in between, and another one goes on with the tree it left.

*Abstractions.* The jail is fixed here; `Runtime` is the module where it changes. Arguments
are absolute. Links are absolute, as the toolkit makes them, and the host follows
`MaxLinks` of them. A crash is that of the process: what was written stays written. (The
code does not sync, and the model says nothing of a power loss.) A client's operation
is one step after its resolution; the window between the two is modelled for atomic
writes. A file contains the sequence of what was written to it. `OpenFile` creates or
truncates, and what the caller then writes through the handle is left out. The name that
`os.CreateTemp` picks is new, and nobody else uses it. Modes and owners are left out, so
that `os.Chmod` of the temporary file, whose error is ignored, is no step.

*What an atomic write promises.* `AtomicFile` has the files without the temporary ones
(`Visible`), and a phase of each call. A call goes forward and shows nothing, but for two steps:
`MakeParents` adds directories, `Replace` makes one file what the call writes, as a whole. It may end
before any of them. Everybody else may do anything in between, so that nothing is assumed of the client;
where the file is, when somebody moves the directories meanwhile, is what `ChangesInside` and
`ReadsBack` are about. `ReplacesAtOnce` says that `OsFS` implements this. A write in place, a partial
write that is installed, an old file that is removed before the new one is there, and a deferred remove
that hits another file are each a step `AtomicFile` does not have.

### TestLog

*State.* `parent`, `attrs`, `entries`, `filter` are the fields of each `TestHandler`; one
attribute is followed and `attrs` is the value a handler gives it. `pc`, `via`, `todo`,
`own` are where a goroutine is in `Handle`, of which handler, with which lines to come
and which value of its record. `wpc`, `deadline`, `wake`, `result` are `RequireEntry`.
`chain`, `logged`, `before`, `seen` are history.

*Actions.* `WithAttrs` and `WithGroup` make a handler. `Log` is a call of the logger, `Write`
of a `SlogWriter`; each line is then `Capture` (the critical section of `Handle`) and
`CallFilter` (what follows the unlock). `RequireEntry`, `Poll`, `CheckDeadline` and
`WakeUp` are one round each of its loop. `Tick` lets time pass between any two steps, so
that the waiting test may be late anywhere.

*Abstractions.* Time is counted in pauses between two polls. What a record has beside
message and attribute is left out. The filter always says no, and nothing is echoed.
The two goroutines that store it in a race store the same function.

### EnvPaths, Cascade and Startup

*State.* A text is a path as it is written: absolute, relative, below `~` or below
`$VAR`, followed by names and `..`. The environment `e` is jail, working directory, home
and the other variables; `RuntimeProofs` shows that the copies of the first three agree
for a runtime of its own (`Coherent`, `HomeInJail`), so that there is one of each here. `tree` is the
host's, as in `OsFS`; `app` the `AppPaths`. `sorted`, `next`, `resolved` are the locals of
`Resolve`. `written` and `given` are history: what was last written to a path, and what
the `Load` of each layer asked by this `Resolve` returned.

*Operators.* `AbsPath`, `ResolvePath`, `RelativePath`, `RuntimeRel` are the methods of
`Runtime`, `EnvResolvePath` that of `TestEnv`, each as its own code has it.
A variable in the value of a variable is not expanded: `Literal` is the name that it is then.
`UserConfigPath` and the others are `user.go`. `WithVar` is `Runtime.Set`.

*Actions.* `WithEnv`, `WithEnvMap` (in any order of the map), `WithWdOption`, `WithFixture`
are the options of `NewSandbox`, of which one that fails ends the test; `Begin` the
return of `NewSandbox`. Then `Set`, `Unset`, `Setwd`, `WriteFile`, `AtomicWriteFile`, `Edit`,
`NewAppPaths`, `NewGitAppPaths` come in any order, and `ResolveConfig` is one step of
`Cascade`, with any of these between two providers. The layers are what a program of the
toolkit has: a default, the user's file, the project's (of one rank, to have a
tie), the environment.

*Abstractions.* A file operation is one step and returns: `OsFS` has its steps. One that fails
leaves the parents it had made. Modes are
left out. A configuration is a value for each of two settings. Git, run on the host,
prints any of `GitTops` or nothing. The editor writes the file it is given once. The
branches for Windows are left out, as is a variable anywhere but in front.

## 3. What is checked

| Run | Question | Instance |
| --- | --- | --- |
| `SchedulerRefines` | Does the scheduler implement the schedule, keep only the current entry of a timer alive and fire nothing twice, with two goroutines that both stop, reset and advance, and `Set`? | 1 ticker, 1 timer, durations 0 and 1, 3 ids; `Set` back to 0, and forward to 2 past what is pending |
| `SchedulerTicks` | Are tickers regular, one `Advance` sorted, nothing overdue, stopped tickers quiet, ticks increasing? Do all calls return, although nobody need read a channel? | 1 ticker, 1 timer, 1 After channel, steps 1 and 2 |
| `ProcessStreams` | Is no output lost, does every `Write` that began before the close, every reader and every `Run` come to an end, whatever setters are called meanwhile? | a fed and tailed process, a broken one, 2 messages each way; setters at any time, also of the stdin of the process that is fed |
| `PipelineRuns` | Does each stage see what the one before wrote, is the outcome complete, does `Run` return? | three stages, 2 messages, a deadline |
| `RuntimeState` | Do the copies of jail and working directory stay together through errors, do home and temporary directory follow the jail, are a clone's variables its own? | a runtime and its clone; jails `/a`, `/b`, none |
| `Files` | Does every operation act in the jail, whatever links there are, and on the file the others mean by that name, `Glob` and `ReadDir` included? Is a file under an atomic write old or new at any moment, and is nothing left behind? | jail a directory, a link to it, missing, or none; trees with a directory, with links out of the jail, and with one to the jail; two writers and a client |
| `LogCapture` | Are all lines captured, once, in order, with the attributes of the whole chain of handlers? Is a failed `RequireEntry` right, and does every one end? | three handlers, two goroutines, a test that waits |
| `Startup` | Is what anybody wrote to a path what the Runtime reads there? Do all ways to resolve a path agree? Does the most specific layer win, whatever changes while `Resolve` runs? | a jail that is a directory or a link; three texts, one option, three operations |
| `StopAfterFire`, `TickAfterStop`, `PipelineDeadline`, `CloneRace` | see section 6 | smallest instance that shows it |

*Bounds.* `MaxID = 3` bounds registrations and new `Reset`s (ticker re-insertions and a
`Reset` already begun go beyond it), `Horizon` bounds time. Three ids allow a timer to
be reset while its predecessor is still in the heap and a ticker beside it; a step of
2 with period 1 re-inserts a ticker twice in one `Advance`, and the proofs cover any
number; a duration of 0 puts a
deadline at the current time, and a period equal to a timer's duration gives ties. Two
goroutines suffice for every pair of critical sections to interleave, and the proofs
cover any number for what they prove. In the pipeline three stages give a first, an
inner and a last one; two messages distinguish order, prefix and all. In `RuntimeState`
the host path `/a/h` is a file, so the home `/h` can be entered in one jail and not in
the other, and without a jail a directory inside the second is a usable one; one
name begins with `..`, which the code mistakes for a parent. `MaxDepth = 1` bounds the
length of working directories and homes: any component can be gained or lost by a
jail, and the proofs cover every length. Two runtimes give a clone that moves the
file system at any point of a call. They are interchangeable and the properties are
invariants and action properties, so symmetry between them is sound.

In `Files` the links to begin with lead to a directory and to a file outside the jail; the
client makes links within it, to links, to what is missing and to themselves. `MaxOps =
3` bounds the atomic writes and the client's operations that change the tree, together:
two writers and an operation between any two of their steps, one writer and two
operations (remove a directory, put a link in its place), or three operations (a link,
a link to it, a write through both). Operations that change nothing are not bounded. Two
names below the jail give a parent and a child, the third begins with `..`. Not every
jail is combined with each of the three trees (`MCWorlds`), only those where it matters: a jail
that is missing has a parent that is missing too, and in one tree a link leads to the jail itself. Writers are
interchangeable.

In `LogCapture` a handler of the logger, which is derived itself, and one more give a
chain of two derivations; two values tell the latest from an older one. `MaxLogs = 2`
entries are one from each goroutine, or two of one `Write`, in every interleaving with a
wait that has a timeout of 0 or 1. `Horizon = 2` is when time ends: a wait starts only if it can
time out before.

In `Startup` one option and three operations are enough to move the home or the working
directory, write a file by one way and another by a second, or to derive the directories, write
a layer's file and change a variable while `Resolve` is under way. The texts are a file below
`~`, a relative one, and one below `$XDG_CONFIG_HOME`. That variable is a path, or empty, or the
text `$HOME/../p`, which is not expanded again when it is a value and of which cleaning leaves
the relative `p`. `PWD` is set to the same text and expanded, which in a jail is a place
`~/../p` is not. On one host there is a repository in the home, and a file where a directory is
asked for, so that options fail, `Setwd` is refused and a layer cannot be read; on the other the
jail is a link, as a temporary directory is on macOS.

*What a property excepts.* `ChangesInside`, `ReadsBack` and `NoLitter` say nothing of an atomic
write whose way was changed after it was resolved (`moved`): the code checks paths, then
uses them, and cannot promise more. For the same reason `ChangesInside` leaves out one whose
way was blocked when it was resolved and is not any more (`cleared`): where a link that leads
out of the jail and to nothing stopped `os.MkdirAll`, somebody may have made what it leads to.
That takes four operations in a tree with such a link, one of them an atomic write whose way was
moved, so that `Files` does not reach it and only the proof needs it. `ChangesInside` leaves out
two more things the code does: an atomic write through a link to the jail makes its temporary
file beside the jail (section 6), and `MakeParent` makes a jail that is missing, with the
directories above it (`MadeForJail`). `OnlyTempsArePartial` and `ReplacesAtOnce` hold for
these too. `FailureIsHonest` speaks of the last poll: an entry captured between it and
the look at the deadline is missed. `PathsAgree` compares `TestEnv.ResolvePath` for texts
without a variable, which it does not expand, and when there is a home. `WrittenIsRead`
is about the data last written with success. `WritesReturn` is about a `Write` that begins before
`Run` closes the writers, of a process that has a runner: a first `Write` after that makes a pipe
that nobody reads or closes, which is easy to come by when `SetStdin` was called and `Run` made none,
and a `Run` that returns early closes nothing; in both cases the `Write` waits for ever.

*Conditions some runs need.* `NothingOverdue` supposes positive durations and no `Set`,
`TicksInOrder` one advancing goroutine: `Set` into the past or the future leaves
deadlines behind on purpose, and two concurrent `Advance` calls deliver
independently, so that ticks may overtake each other. The configurations choose the
constants accordingly, while `SchedulerRefines` checks both situations.

*Deadlock* is not checked: the clock may stay unused, a process that is done stops, and
so does a test.
That nobody waits for ever is what the liveness properties say.

*Fairness.* Go's runtime runs every runnable goroutine, hence weak fairness of the
steps of a call in progress. A `sync.Mutex` that is free again and again is granted to
a waiter in the end (its starvation mode), hence strong fairness of `Cancel` and
`ResetTimer`. A runner that can go on does, a feeding goroutine closes in the end, a
tailing goroutine reads. In `TestLog` time passes and the goroutine in `RequireEntry` runs
on; those that log need not, so that `RequireReturns` does not lean on them. No fairness is assumed for calls nobody owes: setters,
registrations, `Advance`, `Receive`, `Pipeline.Run`, the deadline.

## 4. What is proved

`SchedulerProofs` proves, for any finite or infinite sets of handles and goroutines and
any durations, from `SchedulerAssumption` alone (handle kinds are disjoint, `NoProc` is
neither a goroutine nor a handle, durations and times are integers):

* `TypeCorrect`: `Spec => []TypeOK`;
* `OnlyCurrentEntryFires`: `Spec => []CurrentIsOnlyLive`: however `Stop`, `Reset` and
  `Advance` interleave, the only entry of a timer that can still fire is the one its
  next `Stop` or `Reset` will act on.

`TypeOK` is not inductive alone: `Cancel` and `StoreRef` read a goroutine's locals and the
timer's pointer, and `SendTick` reads the head of `fires`. The invariant `Base` adds
`Control`: a goroutine inside `Stop` or `Reset` has a timer, that timer exists and is
locked by it and by nobody else, its pointer names an entry of that timer, `fires` is not
empty while firing, and a fresh entry belongs to the timer being reset.
`CurrentIsOnlyLive` is then inductive relative to `Base`: `ResetTimer` tombstones the
entry the pointer names before it pushes a fresh one, `tm.mu` keeps everybody else from
reading the pointer until `StoreRef`, and pushing, popping and killing other entries
(`PushFacts`, `KillFacts`) changes no live entry of the timer.

Seven more rest on it, each with an invariant of its own beside `Base`:

* `AdvanceLeavesNothingOverdue` (`NothingOverdue`), for positive durations and no `Set`, as
  the run has it: while nobody holds the lock every entry of the heap lies ahead (`AllAhead`).
  `Release` is possible only when the top of the heap does, and the top is the least.
* `NothingFiresTwice` (`FiresOnce`): an entry somebody has collected is out of the heap,
  and it is in at most one goroutine's list, once (`OnceInLists`). Removing it from the
  heap in the step that collects it, and giving a re-inserted tick a new id, is what
  carries the proof.
* `OneAdvanceFiresInOrder` (`FiresSorted`): while an `Advance` holds the lock, what it
  collected lies before everything in the heap (`Order`), because periods are positive
  and a re-inserted tick comes after the one collected.
* `TickersStayRegular` (`TickerRegular`): a running ticker has exactly one entry, at
  `lastDue + period` (`Regular`). It needs `Refs`: the pointers of timers name entries of
  those timers, so that no tombstone ever lands on a ticker's entry.
* `StoppedTickersAreQuiet` (`StoppedTickerIsQuiet`): a stopped ticker is one that was made
  (`StoppedExist`), so that no registration makes it run again, and `CollectTick` drops its entry.
* `TicksAreInOrder` (`TicksInOrder`), for one goroutine that advances: what it has still to
  send to a ticker comes after what it has sent, and before what is in the heap (`TicksAhead`).
* `SchedulerImplementsSchedule` (`ImplementsSchedule`), the refinement: `FiringInv` joins the
  invariants above; a handle is armed iff it has a live entry, and then at its deadline
  (`ArmedByOne`); the deliveries a handle is owed are finitely many (`OwedFinite`), so that
  collecting an event adds one to them and delivering it takes one away. Each action is then shown
  to be the step of `TimerService` its comment names, or a stutter.

`ProcessProofs` and `PipelineProofs` hold for any number of processes and messages, and
pipelines of any length, from `ProcessAssumption`, `StreamAssumption` (the streams given from
outside are no pipes), `PipelineAssumption` (the stages are different processes) and
`FeedAssumption` (only the first stage is fed from outside).

* `ProcessTypesHold` (`ProcessTypeOK`) and `OutputIsNotLost` (`OutputNotLost`): in
  `StandaloneInv` each process knows which stream it writes to and nobody else does (`Own`); on
  that stream what was read and what is offered is what the runner began to write, and after
  the writer is closed nothing is offered (`Kept`, `Flow`). A setter may replace the field
  meanwhile, not the stream `Run` picked under the mutex.
* `EOFIsMeant` (`EOFMeansAll`) and `OutcomeIsComplete` (`OutcomeComplete`), by `PipelineInv`:
  while `Run` is under way each stage but the last writes to the pipe its successor reads (`WiredOut`, `WiredIn`),
  so `Flow` on that pipe relates what one stage sent to what the next one got (`Links`);
  the last one writes to the buffer that `Collect` takes (`Outcome`).

`TestLogProofs` proves, for any handlers, goroutines, messages and timeouts,

* `CapturedInFull` (`NothingLost`), by `LogInv`: parents lead to the root (`Family`: no
  set of handlers without the root is closed under `parent`), a handler's attribute
  is the one of its chain (`Attributes`), and what each goroutine has logged is what was
  captured of it followed by what it has still to capture (`Flow`, `Captured`);
* `FailuresAreHonest` (`FailureIsHonest`): `Waiting` says what the goroutine in `RequireEntry`
  knows at each point of a round.

`OsFSProofs` reasons about any tree, with any links, dangling, circular or out of the jail,
any jail and any arguments. `Walk`, the host following links, is a recursive function over
a path and a number of links; that it is defined is an induction over the
links left and then the components left, and everything else about it is one more such
induction: where it ends it is at a path that no link leads on from; a step that keeps what
is there (`Harmless`, `Kept`) or that changes neither directories nor links (`Ways`) leaves a walk as it
was (`StableWalk`). From `HostAssumption`, `OsFSAssumption` and `WorldsAssumption` (the arguments
are paths, a tree is one, temporary files have names and contents of their own):

* `OsFSTypesHold` (`TypeOK`), where `IsTree` is what each system call must preserve: what
  contains something is a directory. `Rename` moves a whole directory.
* `PartialDataIsTemporary` (`OnlyTempsArePartial`) and `NothingIsTakenAway` (no step of an
  atomic write takes away a file but its temporary one), by `TempOf`: between `CreateTemp` and the
  end of the call partial data is in the one file with the call's temporary name, if anywhere, and a
  file with that name has the call's data, in part or as a whole, and at `Install` as a whole.
* `AtomicWritesAreAtomic` (`ReplacesAtOnce`), the refinement, from the same invariant. `CreateTemp`,
  `WriteTemp` and `RemoveTemp` change only a file that has a temporary name, so that nothing is seen
  (`TempIsHidden`); `MakeDirs` adds directories (`MakeDirsShows`); and `Install`, if it does anything,
  moves the file with the whole data to an entry of a directory where no directory is
  (`InstallShows`), wherever by then the path leads. A crash ends the calls that are under way, and
  shows nothing; what the client does is anything.
* `TempsAreRemoved` (`NoLitter`), by `Tidy`: as long as no directory or link has changed the
  temporary name leads where it led, so that `Install` or `RemoveTemp` acts on it. It
  has one hypothesis more, that the value for a failed resolution is no tree, which TLC cannot
  evaluate for all trees.
* `ResolvedPlacesAreInside` (`PlacesInside`): a walk that goes on with more components goes
  on from where it arrived. What `Followed`, `ForOpen` and `Lexical` accept is in the canonical
  jail by their test; `ForCreate` returns a place that was, and components below it that
  do not exist, so that no link can lead away.
* `ListedNamesAreThere` (`ListedIsThere`): what `ReadDir` lists is in the directory that
  both `Glob`'s pattern and `Lexical` lead to.
* `ChangesStayInside` (`ChangesInside`). What `ForCreate` returns begins with a place in the
  canonical jail. Behind it nothing is there, so that no link leads on, and what `os.MkdirAll` makes
  is below it (`MkdirAllIsWithin`); or it is a file or a dangling link, where `os.MkdirAll`
  stops (`StoppedMkdirAll`). The client's other operations act on an entry of a directory in
  the jail, and `Rename` moves what is below such an entry (`RenameIsWithin`). For an atomic
  write the invariant is `HostIn`: while it is not astray, `host` leads straight into the jail, or
  it has still to make directories and something in the way will stop it. A step that keeps
  directories and links, and clears nothing, keeps this (`StaysStraight`, `WaysStayIn`).

`RuntimeProofs` proves every property of `RuntimeState`, for any number of runtimes and
clones, any sets of names, jails, directories and files, from `JailAssumption` (names
that begin with `..` are names, `NoJail` is no path) and `RuntimeAssumption` (the
arguments are paths, `None` is none). The lemmas `RemoveOfHost` and `HostOfRemove` of `JailPathProofs` say
that `RemoveJailPrefix` undoes `HostPath` on every path, and `HostPath` undoes it on
those in the jail. `Base` adds to `TypeOK` that every runtime points to an environment of
its own and that only live runtimes are inside a call; `EnvSteps` lists what a step may
do to the environments. On this rest

* `RuntimeTyped` (`TypeOK`), `EnvironmentsArePrivate` (`EnvPrivate`), `HomeSurvivesSetJail`
  (`HomeKept`), `TempSurvivesSetJail` (`TempFollowsJail`), `HomeStaysInJail` (`HomeInJail`);
* `WorkingDirsAgree` (`WdAgrees`), by `WdInv`: between `fs.Setwd` and `fs.Getwd` the file
  system is where the call put it unless `raced`, otherwise runtime and `PWD` agree;
* `CopiesAgree` (`Coherent`), by `Alone`: for a runtime that has the file system to itself,
  which directory each place holds at each point of `applyWorkingDir`. A call that fails
  with no attempt left has not moved the file system, or has tried the root.

`StartupProofs` proves `ConfigurationIsRight`, `Spec => []MostSpecificWins`, from
`CascadeAssumption` alone (finitely many layers, ranks are integers, `Absent` is not `Error`).
`StepIsCascadeStep` says that a step of `Startup` is one of `Resolve` or leaves its locals
alone, for any file system and environment, and `StartupProofs` shows that
`CascadeInv` is inductive for providers that return anything: before each round the layers
asked are the first ones of the sorted list (`Asked`, with `OrdersFacts`: each layer once, in order
of rank), value and provenance are right for these layers (`ValueWins`, `Provenance`), and
there is a base iff one of them contributed (`Based`). So a layer that gives a value is never
less specific than those before it (`NextLayer`), which is why overlaying is enough. When the
last is done all layers were asked, because as many different ones as there are layers were.

`PathsMeanTheSame` proves `Spec => []PathsAgree` for any jail, home and texts, from
`EnvAssumption` and `StartupAssumption` (the values are paths and texts, `..` is no name). Its hypothesis,
that no name begins with `..`, is one the code needs: `ResolvePath` refuses such a path in a jail
and `AbsPath` returns it. The invariant `Environment` says that jail, working directory, home and
variables are what they should be, whatever options and calls have set them
(`EnvironmentFirst`, `EnvironmentKept`). Then `CleanFacts` and `CleanUpAndDown` say what cleaning a
path does, `RelLeads` that the relative path leads back, `VirtualIsInJail` that a virtual path is
in the jail, so that the test in `ResolvePath` refuses nothing.

Only model-checked:

* All liveness: the installed provers do not reason about fairness and `ENABLED`.
* `ReadsBack` and `LinkLeads` of `OsFS`. They cannot be proved for every `MaxLinks`: the code
  resolves a path piece by piece, each with the full number of links the host allows, while a later
  read follows all of them at once; a link to a path that already needs `MaxLinks` links is
  one too many.
* `WrittenIsRead` of `Startup`, which speaks of paths, and two paths that are one file by a link are
  outside what it can say; the run has one link, the jail itself.

## 5. Not modelled yet, and the plan

1. Wildcards elsewhere in a pattern of `Glob`; a client operation resolved
   and used in two steps; the jail moved by a clone meanwhile.
2. A process run twice; captured inner stages and broken stages in a pipeline; exit
   codes.

Not planned: `OsClock`, `OsEnv`, tty, hash and stream helpers, the construction of
loggers (stateless or pure I/O), the dumps of `sandbox.go`, the branches for Windows.

## 6. Where code and documentation differ

* `StopAfterFire`: a fired entry is never marked dead, so `Timer.Stop` and `Reset` of a
  `TestClock` timer return true after its callback was started
  (`clock/scheduler.go:214-221, 234`); `clock/scheduling.go:18-23` says false.
* `TickAfterStop`: `Advance` delivers what it collected after unlocking
  (`clock/scheduler.go:298-305`), so a tick may follow `Ticker.Stop`;
  `clock/scheduling.go:11` says none will.
* `PipelineDeadline`: when a stage returns before it has read everything, the stage
  before it stays blocked in its pipe and `RunWithTimeout` never returns
  (`sandbox/pipeline.go:137`); line 162 promises a deadline.
* `CloneRace`: clones share the `OsFS`, and `applyWorkingDir` adopts whatever `fs.Getwd`
  returns (`toolkit/runtime.go:204-205`), so that a clone's concurrent `Setwd` becomes
  the other runtime's working directory; `toolkit/runtime_test.go:181` says that
  modifying a clone should not affect the original.

Met on the way, without a run: `Process.Close` before the first `Write` and before `Run` does
nothing (`sandbox/process.go:153`), and a runner that reads its stdin then waits for ever, where
line 149 says that it closes the stdin writer; `RemoveJailPrefix` of a path outside the jail drops the
components that both share (`toolkit/jail/path.go:35`), where
`toolkit/filepath_jail_test.go:67` tests that such paths are left alone with a path
that shares none; `TMPDIR` stays outside after `SetJail("")` and `SetJail(j)`, where the doc
of `GetTempDir` (`toolkit/env/test_env.go:289`) says that it is adjusted; the comment at
`toolkit/env/test_env.go:23` says that the stored home excludes the jail, and the code
stores it with the jail in front.
A comment at `toolkit/filesystem/os_fs.go:394` says that the rename of an atomic write
overwrites a link that the last component names; under a jail `resolveHostForOpen` has
followed it, and its target is replaced instead. Lines 397-400 say that no temporary file is created
in the wrong place; one for a link to the jail's own root is created beside the jail, before the
rename fails because the root is a directory. The comment at line 464 allows for a
jail that does not exist yet, where `resolveHostForCreate` refuses every path below it,
because the longest existing ancestor is outside (`Files` has such a jail). A file whose name
begins with `..` is listed by `ReadDir` in a jail and refused by every other operation
(`toolkit/jail/path.go:62`); `ListedIsThere` leaves such names out.

In `mylog`, `Handle` reads and stores `root.filter` after it has released the mutex
(`mylog/logger_testutils.go:114-117`), where lines 48-49 call the handler safe for concurrent
use; as the filter that is stored says no to everything, nothing is echoed to the test's
log, which lines 61-62 and 82-84 announce. In a jail `Get("HOME")` and thus `$HOME`
has the jail in front and `~` has not, so that `~/x` and `$HOME/x` are two files; the
`XDG_*` variables of a `TestEnv` do not follow `SetHome`. `NewAppPaths` makes `.` of an empty
root, where `appctx/context.go:54` says that it is inferred from the working directory;
`FindGitRoot` runs git on the host with a virtual path and believes what it prints
(`appctx/git.go:35-45`), which inside a jail is a path of the host.
