------------------------------- MODULE Startup -------------------------------
(***************************************************************************)
(* A test of a program built with the toolkit: sandbox.NewSandbox with its *)
(* options makes a jail, an environment and fixtures; then the test and    *)
(* the program work in it through the Runtime, appctx derives the          *)
(* program's directories, and cfgcascade resolves its configuration from a *)
(* default, the user's file, the project's file and the environment.       *)
(*                                                                         *)
(* The test and the program are one goroutine or more, each operation is   *)
(* one step (OsFS has those of the file system one system call after the   *)
(* other).  Runtime.wd, OsFS.wd and PWD are one path here, and the home is *)
(* the one GetHome returns; RuntimeProofs shows that they agree.           *)
(***************************************************************************)
EXTENDS EnvPaths, Cascade

CONSTANTS
  Worlds,      \* jails, and the trees of the host when the test begins
  Homes,       \* Options.Home
  EnvTexts,    \* per variable, the values it is given
  EnvMaps,     \* arguments of WithEnvMap
  Texts,       \* paths as the test and the program write them
  Roots,       \* arguments of NewAppPaths
  Fixtures,    \* directories of Options.Data: functions from paths to data
  FileData,    \* the configurations that files contain
  Default,     \* of the DefaultProvider
  EnvVar,      \* the variables of the EnvProvider, by the setting they hold
  GitTops,     \* what "git rev-parse --show-toplevel" may print
  App,         \* the program's name, and ".name"
  DotApp,
  MaxOptions, MaxOps,  \* bounds on options and on operations after them
  NoApp, NoPath

ASSUME StartupAssumption ==
  /\ \A world \in Worlds : world.jail \in Jail
  /\ Homes \subseteq Path /\ Texts \subseteq AnyText
  /\ \A k \in DOMAIN EnvTexts : EnvTexts[k] \subseteq AnyText
  /\ \A m \in EnvMaps : IsFiniteSet(DOMAIN m) /\ \A k \in DOMAIN m : m[k] \in AnyText

VARIABLES
  e,        \* the environment
  tree,     \* the host
  app,      \* the AppPaths
  phase,    \* "options", "run", or "failed" after t.Fatalf
  written,  \* history: what was written last, by virtual path
  ops

vars == <<e, tree, app, phase, written, ops, cascadeVars>>

FS == INSTANCE OsFS WITH
        jail <- e.jail, Args <- {}, AtomicArgs <- {}, Data <- {}, Writers <- {},
        pending <- NoPath, pc <- <<>>, path <- <<>>, host <- <<>>, moved <- <<>>,
        cleared <- <<>>

-----------------------------------------------------------------------------
(* The environment.                                                        *)

\* NewTestEnv and NewRuntime: SetJail brings the home into the jail, the
\* variables below it stay.
NewTestRuntime(jail, home) ==
  [jail |-> jail, wd |-> home, home |-> RemoveJailPrefix(jail, home),
   vars |-> [k \in Keys |->
     CASE k = "XDG_CONFIG_HOME" -> AbsText(home \o <<".config">>)
       [] k = "XDG_CACHE_HOME"  -> AbsText(home \o <<".cache">>)
       [] k = "XDG_DATA_HOME"   -> AbsText(home \o <<".local", "share">>)
       [] k = "XDG_STATE_HOME"  -> AbsText(home \o <<".local", "state">>)
       [] OTHER -> Empty]]

\* Runtime.Setwd refuses what is there and no directory.
WithWd(env, p) ==
  LET q == Walk(tree, HostPath(env.jail, p)) IN
  IF p = Failed \/ q = NotDir \/ IsFile(tree, q) THEN Failed ELSE [env EXCEPT !.wd = p]

\* Runtime.Set
WithVar(env, k, t) ==
  IF env = Failed THEN Failed
  ELSE CASE k = "HOME" -> [env EXCEPT !.home = EnvResolvePath(env, t)]
         [] k = "PWD"  -> WithWd(env, ResolveWorkingDir(env, t))
         [] OTHER      -> [env EXCEPT !.vars[k] = t]

\* Runtime.Unset, of another variable than PWD
WithoutVar(env, k) ==
  IF k = "HOME" THEN [env EXCEPT !.home = NoHome] ELSE [env EXCEPT !.vars[k] = Empty]

-----------------------------------------------------------------------------
(* Options of NewSandbox.  One that fails ends the test.                   *)

Option == phase = "options" /\ ops < MaxOptions /\ ops' = ops + 1

SetUp(env) ==
  /\ Option
  /\ IF env = Failed THEN phase' = "failed" /\ e' = e ELSE phase' = phase /\ e' = env
  /\ UNCHANGED <<tree, app, written, cascadeVars>>

WithEnv(k, t) == SetUp(WithVar(e, k, t))

WithVars(env, m, order) ==
  LET after[k \in 0..Len(order)] ==
        IF k = 0 THEN env ELSE WithVar(after[k - 1], order[k], m[order[k]])
  IN  after[Len(order)]

\* A Go map is traversed in any order.
WithEnvMap(m) == \E order \in SetToSeqs(DOMAIN m) : SetUp(WithVars(e, m, order))

\* WithWd
WithWdOption(t) == SetUp(WithWd(e, ResolvePath(e, t)))

\* Faulty variant: the virtual path is used on the host.
VirtualFixtureDir(p) == p

FixtureDir(p) == HostPath(e.jail, p)

\* copyEmbedDir
CopyFile(t, file, d) ==
  LET u == OsMkdirAll(t, Front(file)) IN
  IF t = Failed \/ u = Failed THEN Failed ELSE OsWriteFile(u, file, FileOf(d))

CopyEmbedDir(t, f, dst) ==
  FoldLeft(LAMBDA u, r : CopyFile(u, dst \o r, f[r]), t, SetToSeq(DOMAIN f))

WithFixture(f, t) ==
  /\ Option
  /\ LET p == ResolvePath(e, t)
         u == IF p = Failed THEN Failed ELSE CopyEmbedDir(tree, f, FixtureDir(p))
     IN  IF u = Failed THEN phase' = "failed" /\ UNCHANGED <<tree, written>>
         ELSE /\ phase' = phase /\ tree' = u
              /\ written' = [v \in {p \o r : r \in DOMAIN f} |->
                              f[SubSeq(v, Len(p) + 1, Len(v))]] @@ written
  /\ UNCHANGED <<e, app, cascadeVars>>

Begin ==
  /\ phase = "options" /\ phase' = "run" /\ ops' = 0
  /\ UNCHANGED <<e, tree, app, written, cascadeVars>>

-----------------------------------------------------------------------------
(* The test and the program.                                               *)

Step == phase = "run" /\ ops < MaxOps /\ ops' = ops + 1 /\ UNCHANGED <<phase, cascadeVars>>

SetEnv(env) ==
  /\ Step
  /\ e' = IF env = Failed THEN e ELSE env
  /\ UNCHANGED <<tree, app, written>>

Set(k, t) == SetEnv(WithVar(e, k, t))

Unset(k) == SetEnv(WithoutVar(e, k))

\* Sandbox.Setwd
Setwd(t) == SetEnv(WithWd(e, ResolvePath(e, t)))

\* A file operation that makes the tree u, with d at v; where it fails it has
\* made the tree w before.
Writes(v, d, w, u) ==
  /\ Step
  /\ tree' = IF u # Failed THEN u ELSE IF w # Failed THEN w ELSE tree
  /\ written' = IF u = Failed THEN written ELSE (v :> d) @@ written
  /\ UNCHANGED <<e, app>>

Failing(v) == v \in {Failed, <<>>}

\* Runtime.WriteFile makes the parent first, and leaves it when the write fails.
WriteFile(t, d) ==
  \E v \in {ResolvePath(e, t)} :
  LET w == IF Failing(v) THEN Failed ELSE OsMkdirAll(tree, FS!ForCreate(tree, Front(v)))
  IN  Writes(v, d, w, IF w = Failed THEN Failed
                      ELSE OsWriteFile(w, FS!ForOpen(w, v), FileOf(d)))

\* atomicWriteFile makes the parent too; what was there, unless a directory, is
\* replaced.
AtomicWriteFile(t, d) ==
  \E v \in {ResolvePath(e, t)} :
  LET p == IF Failing(v) THEN Failed ELSE FS!ForOpen(tree, v)
      w == IF p = Failed THEN Failed ELSE OsMkdirAll(tree, Front(p))
      q == IF w = Failed THEN NotDir ELSE EntryAt(w, p)
  IN  Writes(v, d, w, IF q \in {Missing, NotDir} \/ IsDir(w, q) THEN Failed
                      ELSE Put(w, q, FileOf(d)))

\* Edit: the editor, a process of the host, writes d to the path it is given,
\* with the links followed and the jail put in front.
Edit(t, d) ==
  \E v \in {ResolvePath(e, t)} :
  Writes(v, d, Failed, IF Failing(v) \/ t = Empty THEN Failed
                       ELSE OsWriteFile(tree, FS!Followed(tree, v), FileOf(d)))

-----------------------------------------------------------------------------
(* appctx                                                                  *)

NewAppPaths(root) ==
  LET config == UserConfigPath(e)  data  == UserDataPath(e)
      state  == UserStatePath(e)   cache == UserCachePath(e)
  IN  /\ Step
      /\ app' = IF Failed \in {config, data, state, cache} THEN NoApp
                ELSE [Root       |-> Clean(root),
                      ConfigRoot |-> Join(config, <<App>>), DataRoot  |-> Join(data, <<App>>),
                      StateRoot  |-> Join(state, <<App>>),  CacheRoot |-> Join(cache, <<App>>),
                      LocalConfigRoot |-> Join(Clean(root), <<DotApp>>)]
      /\ UNCHANGED <<e, tree, written>>

HasGit(p) == FS!Stat(tree, Append(p, ".git"), FALSE) \in {"dir", "file"}

\* The nearest directory upwards with a .git entry; "" when there is none.
FallbackRoot(start) ==
  LET found == {k \in 0..Len(start) : HasGit(SubSeq(start, 1, k))} IN
  IF found = {} THEN Empty ELSE AbsText(SubSeq(start, 1, Max(found)))

\* A file is not where the search starts.
StartDir(p) == IF FS!Stat(tree, p, FALSE) \in {"dir", Failed} THEN p ELSE Front(p)

\* FindGitRoot believes git, which is run on the host, if it prints something.
NewGitAppPaths ==
  \E top \in GitTops \cup {Empty} :
    NewAppPaths(IF top # Empty THEN top ELSE FallbackRoot(StartDir(e.wd)))

-----------------------------------------------------------------------------
(* The program's configuration.                                            *)

ConfigFile(l) == Join(IF l = "user" THEN app.ConfigRoot ELSE app.LocalConfigRoot, <<"config">>)

\* A FuncProvider that reads a file through the Runtime.
LoadFile(t) ==
  LET v == ResolvePath(e, t)
      q == IF v = Failed THEN NotDir ELSE Walk(tree, HostPath(e.jail, v))
      d == IF v = Failed THEN Failed ELSE FS!ReadFile(tree, v)
  IN  IF d # Failed THEN d
      ELSE IF q = Missing \/ (q # NotDir /\ q \notin DOMAIN tree) THEN Absent ELSE Error

Load(l) ==
  CASE l = "default" -> Default
    [] l = "env" -> LoadEnv([s \in Settings |->
                      IF s \in DOMAIN EnvVar /\ Get(e, EnvVar[s]) # Empty
                      THEN Get(e, EnvVar[s]) ELSE NoValue])
    [] l \in {"user", "local"} -> LoadFile(ConfigFile(l))
    [] OTHER -> Absent

ResolveConfig ==
  /\ phase = "run" /\ app # NoApp
  /\ \/ Resolve \/ Finish
     \/ next \in 1..Len(sorted) /\ Ask(Load(sorted[next]))
  /\ UNCHANGED <<e, tree, app, phase, written, ops>>

-----------------------------------------------------------------------------

Init ==
  /\ \E world \in Worlds, home \in Homes :
       tree = world.tree /\ e = NewTestRuntime(world.jail, home)
  /\ app = NoApp /\ phase = "options" /\ written = <<>> /\ ops = 0
  /\ CascadeInit

Options ==
  \/ \E k \in DOMAIN EnvTexts : \E t \in EnvTexts[k] : WithEnv(k, t)
  \/ \E m \in EnvMaps : WithEnvMap(m)
  \/ \E t \in Texts : WithWdOption(t) \/ \E f \in Fixtures : WithFixture(f, t)
  \/ Begin

Run ==
  \/ \E k \in DOMAIN EnvTexts : (\E t \in EnvTexts[k] : Set(k, t)) \/ (k # "PWD" /\ Unset(k))
  \/ \E t \in Texts :
       \/ Setwd(t)
       \/ \E d \in FileData : WriteFile(t, d) \/ AtomicWriteFile(t, d) \/ Edit(t, d)
  \/ (\E t \in Roots : NewAppPaths(t)) \/ NewGitAppPaths
  \/ ResolveConfig

Next == Options \/ Run

Spec == Init /\ [][Next]_vars

-----------------------------------------------------------------------------
(* Properties.                                                             *)

\* What fixtures, the test, the program or its editor wrote to a path, each by
\* a way of its own to the host, is what the Runtime reads there, whatever has
\* become of the working directory and the home since.
WrittenIsRead ==
  \A v \in DOMAIN written : FS!ReadFile(tree, v) = written[v]

\* However a path is written, AbsPath, ResolvePath, and TestEnv where it does
\* not expand variables, mean the same by it, and Rel and RelativePath lead
\* there from the working directory.
PathsAgree ==
  \A t \in Texts \ {Empty} :
    LET p == AbsPath(e, t) IN
    /\ p = ResolvePath(e, t)
    /\ t.head # "var" /\ e.home # NoHome => EnvResolvePath(e, t) = p
    /\ p # Failed => LET rel == RuntimeRel(e, Dot, t) IN
                     /\ CleanAbs(e.wd \o rel.rest) = p
                     /\ rel = RelativePath(e, Dot, t)
=============================================================================
