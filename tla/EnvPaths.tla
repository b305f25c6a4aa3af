------------------------------ MODULE EnvPaths ------------------------------
(***************************************************************************)
(* Paths as a program writes them, and what toolkit makes of them: the     *)
(* expansion of $VAR and ~, Runtime.AbsPath, ResolvePath and RelativePath, *)
(* and the directories of user.go.                                         *)
(*                                                                         *)
(* A text is absolute, relative, below "~" or below the value of a         *)
(* variable; what follows is a sequence of names and "..".  An environment *)
(* is what a Runtime and its TestEnv know: the jail, the working directory *)
(* and the home as virtual paths, and the other variables.                 *)
(***************************************************************************)
EXTENDS HostTree

CONSTANTS
  Keys,    \* environment variables other than HOME and PWD
  Literal, \* by variable, the name that "$VAR" is where it is not expanded
  NoHome   \* HOME is not set

Up == ".."
Text(head, var, rest) == [head |-> head, var |-> var, rest |-> rest]
AbsText(p)    == Text("abs", "", p)
RelText(p)    == Text("rel", "", p)
HomeText(p)   == Text("home", "", p)
VarText(k, p) == Text("var", k, p)
Empty         == Text("empty", "", <<>>)
Dot           == RelText(<<>>)

AnyText ==
  {t \in [head : {"abs", "rel", "home", "var", "empty"}, var : Keys \cup {"", "HOME", "PWD"},
          rest : Seq(Names \cup {Up})] : t.head = "var" => t.var # ""}

ASSUME EnvAssumption ==
  /\ Literal \in [Keys \cup {"HOME", "PWD"} -> Names]
  /\ Up \notin Names /\ NoHome \notin Path /\ Failed \notin AnyText
  /\ {".config", ".cache", ".local", "share", "state"} \subseteq Names

\* filepath.Clean of an absolute path: a ".." removes what is before it.
CleanAbs(p) ==
  LET cleaned[k \in 0..Len(p)] ==
        IF k = 0 THEN <<>>
        ELSE LET q == cleaned[k - 1]
             IN  IF p[k] # Up THEN Append(q, p[k]) ELSE IF q = <<>> THEN q ELSE Front(q)
  IN  cleaned[Len(p)]

\* Of a relative one: a ".." with nothing to remove stays.
CleanRel(p) ==
  FoldLeft(LAMBDA q, c : IF c # Up \/ q = <<>> \/ Last(q) = Up THEN Append(q, c) ELSE Front(q),
           <<>>, p)

\* It does not know of variables or "~": a ".." removes them like any name.
CleanBelow(t, p) ==
  IF t.head # "rel" /\ p # <<>> /\ p[1] = Up THEN RelText(Tail(p)) ELSE [t EXCEPT !.rest = p]

Clean(t) == CASE t.head = "abs" -> AbsText(CleanAbs(t.rest))
              [] t.head = "empty" -> Dot
              [] OTHER -> CleanBelow(t, CleanRel(t.rest))

Join(t, p) == IF t = Empty THEN Clean(RelText(p)) ELSE Clean([t EXCEPT !.rest = @ \o p])

-----------------------------------------------------------------------------
(* The environment.                                                        *)

\* TestEnv.Get: HOME has the jail in front, PWD has not.
Get(e, k) ==
  CASE k = "HOME" -> IF e.home = NoHome THEN Empty ELSE AbsText(HostPath(e.jail, e.home))
    [] k = "PWD"  -> AbsText(e.wd)
    [] OTHER      -> e.vars[k]

\* ExpandEnv: "$V/rest" is "/rest" when V is empty.
ExpandEnv(e, t) ==
  IF t.head # "var" THEN t
  ELSE LET v == Get(e, t.var) IN
       IF v # Empty THEN [v EXCEPT !.rest = @ \o t.rest]
       ELSE IF t.rest = <<>> THEN Empty ELSE AbsText(t.rest)

\* ExpandPath fails when there is no home.
ExpandPath(e, t) ==
  IF t.head # "home" THEN t
  ELSE IF e.home = NoHome THEN Failed ELSE AbsText(CleanAbs(e.home \o t.rest))

\* The components of a text that is expanded: a variable in the value of a
\* variable is not, and is a name.
Components(t) == IF t.head = "var" THEN <<Literal[t.var]>> \o t.rest ELSE t.rest

\* A path that is not absolute is below the working directory.
Located(e, t) ==
  IF t = Failed THEN Failed
  ELSE CleanAbs(IF t.head = "abs" THEN t.rest ELSE e.wd \o Components(t))

\* Faulty variant: variables are expanded after the working directory is put
\* in front.
LateAbsPath(e, t) ==
  CASE t = Empty       -> Failed
    [] t.head = "var"  -> Located(e, [ExpandEnv(e, t) EXCEPT !.head = "rel"])
    [] OTHER           -> Located(e, ExpandPath(e, t))

\* Runtime.AbsPath; of nothing it makes nothing.
AbsPath(e, t) ==
  IF t = Empty THEN Failed ELSE Located(e, ExpandPath(e, ExpandEnv(e, t)))

\* OsFS.ResolvePath, links not followed
InJailOnly(e, p) == IF p # Failed /\ IsInJail(e.jail, HostPath(e.jail, p)) THEN p ELSE Failed

\* Runtime.ResolvePath, links not followed
ResolvePath(e, t) ==
  IF t \in {Empty, Dot} THEN e.wd
  ELSE InJailOnly(e, Located(e, ExpandPath(e, ExpandEnv(e, t))))

\* Setwd has the same steps once more.
ResolveWorkingDir(e, t) == ResolvePath(e, t)

\* filepath.Rel of two absolute paths as a text
RelOf(b, p) == LET rel == Rel(b, p) IN RelText([i \in 1..rel.up |-> Up] \o rel.down)

\* Runtime.RelativePath, of texts that are not empty.  What cannot be expanded
\* is used as it is: two texts below an unknown home share its name, and from
\* one to a path that is absolute there is no way.
RelativePath(e, b, t) ==
  LET base == AbsPath(e, b)  target == AbsPath(e, t) IN
  CASE base # Failed /\ target # Failed -> RelOf(base, target)
    [] base = Failed /\ target = Failed -> RelOf(b.rest, t.rest)
    [] base = Failed /\ target # Failed -> AbsText(target)
    [] OTHER -> t

\* Runtime.Rel
RuntimeRel(e, b, t) ==
  LET base == ResolvePath(e, b)  target == ResolvePath(e, t) IN
  IF Failed \in {base, target} THEN Failed ELSE RelOf(base, target)

\* TestEnv.ResolvePath, of a text without a variable, which it would not
\* expand.  An unknown home is "".
EnvResolvePath(e, t) ==
  CASE t \in {Empty, Dot} -> e.wd
    [] t.head = "home" -> IF e.home # NoHome THEN CleanAbs(e.home \o t.rest)
                          ELSE CleanAbs(e.wd \o t.rest)
    [] OTHER -> Located(e, t)

-----------------------------------------------------------------------------
(* user.go                                                                 *)

\* The first variable that is set, or else below the home.
UserPath(e, names, sub) ==
  LET Set(i) == Get(e, names[i]) # Empty IN
  IF \E i \in 1..Len(names) : Set(i)
  THEN Clean(Get(e, names[CHOOSE i \in 1..Len(names) : Set(i) /\ \A j \in 1..i - 1 : ~Set(j)]))
  ELSE IF e.home = NoHome THEN Failed ELSE AbsText(CleanAbs(e.home \o sub))

UserConfigPath(e) == UserPath(e, <<"XDG_CONFIG_HOME", "APPDATA">>, <<".config">>)
UserCachePath(e)  == UserPath(e, <<"XDG_CACHE_HOME", "LOCALAPPDATA">>, <<".cache">>)
UserDataPath(e)   == UserPath(e, <<"XDG_DATA_HOME">>, <<".local", "share">>)
UserStatePath(e)  == UserPath(e, <<"XDG_STATE_HOME">>, <<".local", "state">>)

=============================================================================
