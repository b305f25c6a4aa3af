------------------------------ MODULE Runtime -------------------------------
(***************************************************************************)
(* toolkit.Runtime over a TestEnv and an OsFS, as NewTestRuntime makes it: *)
(* the jail, the working directory and the home, each kept in several      *)
(* places, through SetJail, Setwd, SetHome, Set, Unset and Clone.          *)
(*                                                                         *)
(* A runtime is used by one goroutine.  Clone copies the environment but   *)
(* shares the file system, so the clones that Process.Run gives to the     *)
(* runners of a pipeline meet in one OsFS: each of its critical sections   *)
(* is a step here.  Calls that only fail or only read are left out; the    *)
(* host's file tree is external and does not change, and has no links.     *)
(***************************************************************************)
EXTENDS JailPath

CONSTANTS
  Runtimes,  \* the *Runtime values
  Jails,     \* arguments of SetJail
  Homes,     \* arguments of NewTestRuntime
  Dirs,      \* arguments of Setwd, see Dir
  HomeDirs,  \* arguments of SetHome
  Temps,     \* values stored in TMPDIR
  Keys,      \* the variables that Unset removes, by their field
  Tmp,       \* the component "tmp"
  Files,     \* the host paths that are there and are not directories
  MaxDepth,  \* bound on the length of working directories and homes
  None       \* an unset variable

\* An argument that names a directory: absolute, relative to the working
\* directory, its parent, "~/rest", or "." (and "").
Dir == [base : {"root", "wd", "parent", "home", "here"}, rest : Path]

ASSUME RuntimeAssumption ==
  /\ Jails \subseteq Jail /\ Homes \subseteq Path /\ Dirs \cup HomeDirs \subseteq Dir
  /\ Temps \subseteq Path /\ Keys \subseteq {"home", "pwd", "tmp"}
  /\ Tmp \in Names /\ Files \subseteq Path
  /\ MaxDepth \in Nat
  /\ None \notin Path

VARIABLES
  live,    \* the runtimes that exist
  rt,      \* Runtime.jail and Runtime.wd
  envOf,   \* Runtime.env, a pointer
  env,     \* the TestEnv values: jail, home, and PWD and TMPDIR in data
  fs,      \* the OsFS all of them share
  pc,      \* where a goroutine is in Setwd or SetJail
  call,    \* its locals: the directory to apply, the attempts left
  raced    \* history: another runtime moved fs.wd between this one's last
           \* fs.Setwd and the fs.Getwd after it

NoCall == [dir |-> <<>>, left |-> 0]

vars == <<live, rt, envOf, env, fs, pc, call, raced>>

Env(r) == env[envOf[r]]

-----------------------------------------------------------------------------
(* Paths.                                                                  *)

\* OsFS.resolveVirtual without links: only a path outside the jail fails.
Escapes(v) == fs.jail # NoJail /\ ~IsInJail(fs.jail, HostPath(fs.jail, v))

\* os.Stat finds something that is no directory, there or on the way.
NotADir(host) == \E f \in Files : Len(f) <= Len(host) /\ SubSeq(host, 1, Len(f)) = f

Parent(p) == SubSeq(p, 1, Len(p) - 1)

\* TestEnv.GetHome, an error when HOME is unset.
GetHome(e) == IF e.home = None THEN None ELSE RemoveJailPrefix(e.jail, e.home)

\* A directory argument given the working directory wd and the home.
Resolved(d, wd, home) ==
  CASE d.base = "root"   -> d.rest
    [] d.base = "wd"     -> wd \o d.rest
    [] d.base = "parent" -> Parent(wd)
    [] d.base = "home"   -> home \o d.rest
    [] d.base = "here"   -> wd

-----------------------------------------------------------------------------
(* NewTestRuntime.                                                         *)

\* Faulty variant: the new jail is put before a home that still has the old one.
RebaseOnTop(path, old, new) == HostPath(new, path)

\* The same virtual path in another jail.
Rebase(path, old, new) == HostPath(new, RemoveJailPrefix(old, path))

\* Faulty variant: TMPDIR stays where it was.
HomeOnlySetJail(e, jail) ==
  [e EXCEPT !.jail = jail,
            !.home = IF @ = None THEN None ELSE Rebase(@, e.jail, jail)]

\* TestEnv.SetJail: HOME is moved from the old jail to the new one, TMPDIR
\* only if it was in an old jail.
EnvSetJail(e, jail) ==
  [e EXCEPT !.jail = jail,
            !.home = IF @ = None THEN None ELSE Rebase(@, e.jail, jail),
            !.tmp  = IF @ # None /\ e.jail # NoJail /\ IsInJail(e.jail, @)
                     THEN Rebase(@, e.jail, jail) ELSE @]

NewTestEnv(jail, home) ==
  [jail |-> jail, home |-> home, pwd |-> home, tmp |-> Append(jail, Tmp)]

\* NewRuntime's normalizeState sets the same jail once more, which brings the
\* home into it, and applies the working directory of the environment.
Init ==
  \E jail \in Jails \ {NoJail}, home \in Homes :
    /\ ~NotADir(HostPath(jail, home)) /\ IsInJail(jail, HostPath(jail, home))
    /\ \E r \in Runtimes : live = {r}
    /\ rt    = [r \in Runtimes |-> [jail |-> jail, wd |-> home]]
    /\ envOf = [r \in Runtimes |-> r]
    /\ env   = [r \in Runtimes |-> EnvSetJail(NewTestEnv(jail, home), jail)]
    /\ fs    = [jail |-> jail, wd |-> home]
    /\ pc    = [r \in Runtimes |-> "idle"]
    /\ call  = [r \in Runtimes |-> NoCall]
    /\ raced = [r \in Runtimes |-> FALSE]

-----------------------------------------------------------------------------
(* Setwd and SetJail.                                                      *)

Idle(r) == r \in live /\ pc[r] = "idle"
Return(r) == pc' = [pc EXCEPT ![r] = "idle"] /\ call' = [call EXCEPT ![r] = NoCall]

\* applyWorkingDir(dir), to be tried once, or once more with "/".
Apply(r, dir, attempts) ==
  /\ pc'   = [pc EXCEPT ![r] = "stat"]
  /\ call' = [call EXCEPT ![r] = [dir |-> dir, left |-> attempts - 1]]

\* Runtime.Setwd, and Set("PWD"): resolveWorkingDir asks the file system about
\* anything but the current directory.
Setwd(r, d) ==
  /\ Idle(r)
  /\ d.base = "home" => Env(r).home # None
  /\ LET dir == Resolved(d, rt[r].wd, GetHome(Env(r)))
     IN  /\ d.base = "here" \/ ~Escapes(dir)
         /\ Len(dir) <= MaxDepth
         /\ Apply(r, dir, 1)
  /\ UNCHANGED <<live, rt, envOf, env, fs, raced>>

\* Faulty variant: SetJail reports the error and leaves it at that.
NoFallback == 1

\* The attempts of applyWorkingDir: SetJail falls back to "/".
Attempts == 2

\* Runtime.SetJail: its own copy, the file system's, the environment's, and
\* then the working directory again.
SetJail(r, jail) ==
  /\ Idle(r)
  /\ rt'  = [rt EXCEPT ![r].jail = jail]
  /\ fs'  = [fs EXCEPT !.jail = jail]
  /\ env' = [env EXCEPT ![envOf[r]] = EnvSetJail(@, jail)]
  /\ Apply(r, rt[r].wd, Attempts)
  /\ UNCHANGED <<live, envOf, raced>>

\* OsFS.Setwd before it locks to write.
Unusable(dir) == Escapes(dir) \/ NotADir(HostPath(fs.jail, dir))

StatDir(r) ==
  /\ pc[r] = "stat" /\ ~Unusable(call[r].dir)
  /\ pc' = [pc EXCEPT ![r] = "move"]
  /\ UNCHANGED <<live, rt, envOf, env, fs, call, raced>>

\* Faulty variant: SetJail tries again as long as it fails.
FallBackForever(r) ==
  /\ pc[r] = "stat" /\ Unusable(call[r].dir)
  /\ Apply(r, <<>>, call[r].left)
  /\ UNCHANGED <<live, rt, envOf, env, fs, raced>>

FallBack(r) ==
  /\ pc[r] = "stat" /\ Unusable(call[r].dir) /\ call[r].left > 0
  /\ Apply(r, <<>>, call[r].left)
  /\ UNCHANGED <<live, rt, envOf, env, fs, raced>>

Fail(r) ==
  /\ pc[r] = "stat" /\ Unusable(call[r].dir) /\ call[r].left = 0
  /\ Return(r)
  /\ UNCHANGED <<live, rt, envOf, env, fs, raced>>

\* fs.wd = resolved, under the lock.
MoveFS(r) ==
  /\ pc[r] = "move"
  /\ fs' = [fs EXCEPT !.wd = call[r].dir]
  /\ pc' = [pc EXCEPT ![r] = "env"]
  /\ raced' = [q \in Runtimes |-> IF q = r THEN FALSE ELSE raced[q] \/ pc[q] = "env"]
  /\ UNCHANGED <<live, rt, envOf, env, call>>

\* Faulty variant: PWD is only set when it is not there.
EnvSetwdOnce(r, dir) == [env EXCEPT ![envOf[r]].pwd = IF @ = None THEN dir ELSE @]

\* TestEnv.Setwd with a clean absolute path.
EnvSetwd(r, dir) == [env EXCEPT ![envOf[r]].pwd = dir]

\* env.Setwd, then Runtime.wd becomes what fs.Getwd returns.
Adopt(r) ==
  /\ pc[r] = "env"
  /\ env' = EnvSetwd(r, call[r].dir)
  /\ rt'  = [rt EXCEPT ![r].wd = fs.wd]
  /\ Return(r)
  /\ UNCHANGED <<live, envOf, fs, raced>>

-----------------------------------------------------------------------------
(* The environment.                                                        *)

\* Faulty variant: a home is stored as it is given.
BareHome(e, path) == path

\* A home is stored with the jail in front.
StoredHome(e, path) == HostPath(e.jail, path)

\* TestEnv.SetHome, and Set("HOME"): relative to PWD; "~" without a home is
\* the working directory.
SetHome(r, d) ==
  /\ Idle(r)
  /\ LET e    == Env(r)
         home == IF e.home = None THEN e.pwd ELSE GetHome(e)
     IN  /\ d.base \in {"wd", "parent", "here"} \/ (d.base = "home" /\ e.home = None)
              => e.pwd # None
         /\ LET path == Resolved(d, e.pwd, home)
            IN  /\ Len(path) <= MaxDepth
                /\ env' = [env EXCEPT ![envOf[r]].home = StoredHome(e, path)]
  /\ UNCHANGED <<live, rt, envOf, fs, pc, call, raced>>

SetTemp(r, path) ==
  /\ Idle(r)
  /\ env' = [env EXCEPT ![envOf[r]].tmp = path]
  /\ UNCHANGED <<live, rt, envOf, fs, pc, call, raced>>

Unset(r, key) ==
  /\ Idle(r)
  /\ env' = [env EXCEPT ![envOf[r]][key] = None]
  /\ UNCHANGED <<live, rt, envOf, fs, pc, call, raced>>

\* Runtime.Clone: CloneEnv returns a new TestEnv with its own data.
CloneEnv(r, c) == [env EXCEPT ![c] = Env(r)]
\* Faulty variant: a clone shares the environment of the original.
SharedPointer(r, c) == envOf[r]

NewPointer(r, c) == c

Clone(r, c) ==
  /\ Idle(r) /\ c \in Runtimes \ live
  /\ live'  = live \cup {c}
  /\ rt'    = [rt EXCEPT ![c] = rt[r]]
  /\ env'   = CloneEnv(r, c)
  /\ envOf' = [envOf EXCEPT ![c] = NewPointer(r, c)]
  /\ raced' = [raced EXCEPT ![c] = raced[r]]
  /\ UNCHANGED <<fs, pc, call>>

-----------------------------------------------------------------------------
Next ==
  \E r \in Runtimes :
    \/ \E d \in Dirs : Setwd(r, d)
    \/ \E d \in HomeDirs : SetHome(r, d)
    \/ \E jail \in Jails : SetJail(r, jail)
    \/ StatDir(r) \/ FallBack(r) \/ Fail(r) \/ MoveFS(r) \/ Adopt(r)
    \/ \E path \in Temps : SetTemp(r, path)
    \/ \E key \in Keys : Unset(r, key)
    \/ \E c \in Runtimes : Clone(r, c)

Spec == Init /\ [][Next]_vars

-----------------------------------------------------------------------------
(* Properties.                                                             *)

Var == Path \cup {None}

TypeOK ==
  /\ live \subseteq Runtimes
  /\ rt \in [Runtimes -> [jail : Jail, wd : Path]]
  /\ envOf \in [Runtimes -> Runtimes]
  /\ env \in [Runtimes -> [jail : Jail, home : Var, pwd : Var, tmp : Var]]
  /\ fs \in [jail : Jail, wd : Path]
  /\ pc \in [Runtimes -> {"idle", "stat", "move", "env"}]
  /\ call \in [Runtimes -> [dir : Path, left : Nat]]
  /\ raced \in [Runtimes -> BOOLEAN]

\* While a runtime has the file system to itself, every copy of its jail and
\* of its working directory agrees between calls, failed ones included, and
\* the working directory is usable in the jail (doc of Runtime.jail and wd).
\* Nothing can be usable in a jail whose root is not a directory.
Coherent ==
  \A r \in live : live = {r} /\ pc[r] = "idle" =>
    /\ rt[r].jail = fs.jail /\ Env(r).jail = fs.jail
    /\ rt[r].wd = fs.wd /\ Env(r).pwd \in {fs.wd, None}
    /\ Unusable(fs.wd) => Unusable(<<>>)

\* Whatever clones do meanwhile, the runtime and its environment agree on the
\* working directory, unless a clone moved the shared file system at the very
\* moment between fs.Setwd and fs.Getwd.
WdAgrees ==
  \A r \in live : pc[r] = "idle" /\ ~raced[r] => Env(r).pwd \in {rt[r].wd, None}

\* A home that is known is inside the jail, where GetHome expects it.
HomeInJail == \A r \in live : LET e == Env(r) IN e.home # None =>
                e.home = HostPath(e.jail, GetHome(e))

\* SetJail moves the home with the jail: what GetHome returns, and "~" means,
\* survives any number of jails, no jail and clones (TestEnv.SetJail).
HomeKept ==
  [][\A r \in live : Env(r)'.jail # Env(r).jail => GetHome(Env(r))' = GetHome(Env(r))]_vars

\* A temporary directory inside the jail is inside the new one after SetJail.
TempFollowsJail ==
  [][\A r \in live : LET e == Env(r) IN
       NoJail \notin {e.jail, Env(r)'.jail} /\ e.tmp # None /\ IsInJail(e.jail, e.tmp)
       /\ Env(r)'.jail # e.jail
         => IsInJail(Env(r)'.jail, Env(r)'.tmp)]_vars

\* No step changes the environments of two runtimes: a clone's variables, home
\* and PWD are its own (doc of Runtime.Clone and TestEnv.Clone).
EnvPrivate ==
  [][\A r, c \in live : r # c => Env(r)' = Env(r) \/ Env(c)' = Env(c)]_vars

\* A clone is a runtime of its own: between calls the working directory of a
\* runtime is the one its own last Setwd applied (runtime_test.go:181,
\* "Modifying clone should not affect original").
CloneIsIsolated ==
  \A r \in live : pc[r] = "idle" => Env(r).pwd \in {rt[r].wd, None}

=============================================================================
