--------------------------- MODULE RuntimeProofs ---------------------------
(***************************************************************************)
(* What holds of Runtime for any number of runtimes, any directories, jails *)
(* and names, and any host tree.                                            *)
(***************************************************************************)
EXTENDS Runtime, JailPathProofs

-----------------------------------------------------------------------------
(* Package jail.                                                           *)

\* A path in one jail is in the other after SetJail: "..data" does not become
\* part of the path that is judged.
LEMMA RebaseStaysInside ==
  ASSUME NEW old \in Path, NEW new \in Path, NEW p \in Path, IsInJail(old, p)
  PROVE  IsInJail(new, Rebase(p, old, new))
<1>1. old # NoJail /\ new # NoJail /\ old \in Jail /\ new \in Jail
  BY JailAssumption DEF Path, Jail
<1> DEFINE v == RemoveJailPrefix(old, p)
<1>2. v = Rel(old, p).down /\ v \in Path
  BY <1>1, RemoveType DEF RemoveJailPrefix
<1>3. ~(v # <<>> /\ Head(v) \in DotNames)
  BY <1>1, <1>2 DEF IsInJail, StartsWithDots
<1>4. Rel(new, HostPath(new, v)) = [up |-> 0, down |-> v]
  BY <1>1, <1>2, RemoveOfHost
<1> HIDE DEF v
<1>5. ~StartsWithDots(Rel(new, HostPath(new, v)))
  BY <1>3, <1>4 DEF StartsWithDots
<1> QED
  BY <1>5 DEF v, Rebase, IsInJail

-----------------------------------------------------------------------------
(* Types.                                                                  *)

EnvType == [jail : Jail, home : Var, pwd : Var, tmp : Var]

\* What SetJail makes of an environment (TestEnv.SetJail).
LEMMA EnvSetJailFacts ==
  ASSUME NEW e \in EnvType, NEW jail \in Jail
  PROVE  /\ EnvSetJail(e, jail) \in EnvType
         /\ EnvSetJail(e, jail).jail = jail
         /\ EnvSetJail(e, jail).pwd = e.pwd
         /\ EnvSetJail(e, jail).home
              = IF e.home = None THEN None ELSE Rebase(e.home, e.jail, jail)
         /\ EnvSetJail(e, jail).tmp
              = IF e.tmp # None /\ e.jail # NoJail /\ IsInJail(e.jail, e.tmp)
                THEN Rebase(e.tmp, e.jail, jail) ELSE e.tmp
<1> DEFINE home == IF e.home = None THEN None ELSE Rebase(e.home, e.jail, jail)
           tmp  == IF e.tmp # None /\ e.jail # NoJail /\ IsInJail(e.jail, e.tmp)
                   THEN Rebase(e.tmp, e.jail, jail) ELSE e.tmp
<1>1. e.jail \in Jail /\ e.home \in Var /\ e.pwd \in Var /\ e.tmp \in Var
  BY DEF EnvType
<1>2. ASSUME NEW p \in Path PROVE Rebase(p, e.jail, jail) \in Path
  BY <1>1, RemoveType, RemoveOfHost DEF Rebase
<1>3. home \in Var /\ tmp \in Var
  BY <1>1, <1>2 DEF Var
<1>4. EnvSetJail(e, jail) = [e EXCEPT !.jail = jail, !.home = home, !.tmp = tmp]
  BY DEF EnvSetJail
<1> HIDE DEF home, tmp
<1>5. /\ EnvSetJail(e, jail) \in EnvType
      /\ EnvSetJail(e, jail).jail = jail /\ EnvSetJail(e, jail).pwd = e.pwd
      /\ EnvSetJail(e, jail).home = home /\ EnvSetJail(e, jail).tmp = tmp
  BY <1>1, <1>3, <1>4 DEF EnvType
<1> QED
  BY <1>5 DEF home, tmp

\* A directory argument names a path (resolveWorkingDir, ResolvePath).
LEMMA ResolvedType ==
  ASSUME NEW d \in Dir, NEW wd, NEW home,
         d.base \in {"wd", "parent", "here"} => wd \in Path,
         d.base = "home" => home \in Path
  PROVE  Resolved(d, wd, home) \in Path
<1>1. d.base \in {"root", "wd", "parent", "home", "here"} /\ d.rest \in Path
  BY DEF Dir
<1>2. ASSUME NEW p \in Path PROVE p \o d.rest \in Path
  BY <1>1, <1>2, ConcatProperties DEF Path
<1>3. ASSUME NEW p \in Path PROVE Parent(p) \in Path
  <2> DEFINE n == Len(p) - 1
  <2>1. n \in Int /\ 1 \in Int /\ \A i \in 1..n : p[i] \in Names
    BY <1>3, LenProperties DEF Path
  <2> HIDE DEF n
  <2>2. SubSeq(p, 1, n) \in Seq(Names)
    BY <2>1, SubSeqProperties
  <2> QED
    BY <2>2 DEF Parent, Path, n
<1>4. CASE d.base = "root"
  BY <1>1, <1>4 DEF Resolved
<1>5. CASE d.base = "wd"
  BY <1>2, <1>5 DEF Resolved
<1>6. CASE d.base = "parent"
  BY <1>3, <1>6 DEF Resolved
<1>7. CASE d.base = "home"
  BY <1>2, <1>7 DEF Resolved
<1>8. CASE d.base = "here"
  BY <1>8 DEF Resolved
<1> QED
  BY <1>1, <1>4, <1>5, <1>6, <1>7, <1>8

\* Assigning to one field keeps a record what it is.
LEMMA EnvField ==
  ASSUME NEW e \in EnvType, NEW v \in Var
  PROVE  /\ [e EXCEPT !.home = v] \in EnvType
         /\ [e EXCEPT !.pwd = v] \in EnvType
         /\ [e EXCEPT !.tmp = v] \in EnvType
BY DEF EnvType

Place == [jail : Jail, wd : Path]

LEMMA PlaceField ==
  ASSUME NEW x \in Place, NEW j \in Jail, NEW p \in Path
  PROVE  [x EXCEPT !.jail = j] \in Place /\ [x EXCEPT !.wd = p] \in Place
BY DEF Place

\* A runtime has an environment of its own, and only live ones are in a call.
Owned ==
  /\ \A r \in Runtimes : envOf[r] = r
  /\ \A r \in Runtimes \ live : pc[r] = "idle"

Base == TypeOK /\ Owned

LEMMA InitBase == Init => Base
<1> SUFFICES ASSUME NEW jail \in Jails \ {NoJail}, NEW home \in Homes,
                    \E r \in Runtimes : live = {r},
                    rt    = [r \in Runtimes |-> [jail |-> jail, wd |-> home]],
                    envOf = [r \in Runtimes |-> r],
                    env   = [r \in Runtimes |-> EnvSetJail(NewTestEnv(jail, home), jail)],
                    fs    = [jail |-> jail, wd |-> home],
                    pc    = [r \in Runtimes |-> "idle"],
                    call  = [r \in Runtimes |-> NoCall],
                    raced = [r \in Runtimes |-> FALSE]
             PROVE  Base
  BY DEF Init
<1>1. jail \in Jail /\ jail \in Path /\ home \in Path /\ Tmp \in Names
  BY RuntimeAssumption DEF Jail
<1>2. NewTestEnv(jail, home) \in EnvType
  <2>1. Append(jail, Tmp) \in Path
    BY <1>1, AppendProperties DEF Path
  <2> QED
    BY <1>1, <2>1 DEF NewTestEnv, EnvType, Var
<1>3. env \in [Runtimes -> EnvType]
  BY <1>1, <1>2, EnvSetJailFacts
<1>4. NoCall \in [dir : Path, left : Nat]
  BY EmptySeq DEF NoCall, Path
<1> QED
  BY <1>1, <1>3, <1>4 DEF Base, TypeOK, Owned, EnvType, Place

\* A home that is known is a path for its user (TestEnv.GetHome).
LEMMA GetHomeType ==
  ASSUME NEW e \in EnvType, e.home # None
  PROVE  e.home \in Path /\ GetHome(e) \in Path
BY RemoveType DEF GetHome, EnvType, Var

\* SetHome stores some path with the jail in front of it (TestEnv.SetHome).
LEMMA SetHomeStep ==
  ASSUME Base, NEW r \in Runtimes, NEW d \in HomeDirs, SetHome(r, d)
  PROVE  \E v \in Path : env' = [env EXCEPT ![r].home = HostPath(env[r].jail, v)]
<1> DEFINE e    == Env(r)
           home == IF e.home = None THEN e.pwd ELSE GetHome(e)
           path == Resolved(d, e.pwd, home)
<1>1. e \in EnvType /\ envOf[r] = r /\ e = env[r]
  BY DEF Base, TypeOK, Owned, EnvType, Env
<1>2. e.home # None => GetHome(e) \in Path
  BY <1>1, GetHomeType
<1>3. d \in Dir /\ (d.base \in {"wd", "parent", "here"} => e.pwd \in Path)
  BY <1>1, RuntimeAssumption DEF SetHome, EnvType, Var
<1>4. d.base = "home" => home \in Path
  BY <1>1, <1>2 DEF SetHome, EnvType, Var
<1>5. path \in Path
  BY <1>3, <1>4, ResolvedType
<1>6. env' = [env EXCEPT ![r].home = StoredHome(e, path)]
  BY <1>1 DEF SetHome
<1> QED
  BY <1>1, <1>5, <1>6 DEF StoredHome

LEMMA NextBase == Base /\ [Next]_vars => Base'
<1> SUFFICES ASSUME Base, [Next]_vars PROVE Base'
  OBVIOUS
<1> USE RuntimeAssumption
<1>1. /\ live \subseteq Runtimes
      /\ rt \in [Runtimes -> Place]
      /\ envOf \in [Runtimes -> Runtimes] /\ env \in [Runtimes -> EnvType]
      /\ fs \in Place
      /\ pc \in [Runtimes -> {"idle", "stat", "move", "env"}]
      /\ call \in [Runtimes -> [dir : Path, left : Nat]]
      /\ raced \in [Runtimes -> BOOLEAN]
      /\ \A r \in Runtimes : envOf[r] = r
      /\ \A r \in Runtimes \ live : pc[r] = "idle"
  BY DEF Base, TypeOK, Owned, EnvType, Place
<1>2. <<>> \in Path
  BY EmptySeq DEF Path
<1>3. ASSUME NEW r \in live, Env(r).home # None PROVE GetHome(Env(r)) \in Path
  <2>1. Env(r) \in EnvType
    BY <1>1 DEF Env
  <2> QED
    BY <1>3, <2>1, RemoveType DEF GetHome, EnvType, Var
<1>4. ASSUME NEW r \in Runtimes, NEW d \in Dirs, Setwd(r, d) PROVE Base'
  <2> DEFINE dir == Resolved(d, rt[r].wd, GetHome(Env(r)))
  <2>1. dir \in Path
    BY <1>1, <1>3, <1>4, ResolvedType DEF Setwd, Idle, Place
  <2> HIDE DEF dir
  <2>2. /\ r \in live
        /\ pc' = [pc EXCEPT ![r] = "stat"]
        /\ call' = [call EXCEPT ![r] = [dir |-> dir, left |-> 0]]
        /\ UNCHANGED <<live, rt, envOf, env, fs, raced>>
    BY <1>4 DEF Setwd, Idle, Apply, dir
  <2> QED
    BY <1>1, <2>1, <2>2 DEF Base, TypeOK, Owned, EnvType, Place
<1>5. ASSUME NEW r \in Runtimes, NEW d \in HomeDirs, SetHome(r, d) PROVE Base'
  <2>1. PICK v \in Path : env' = [env EXCEPT ![r].home = HostPath(env[r].jail, v)]
    BY <1>5, SetHomeStep
  <2>2. UNCHANGED <<live, rt, envOf, fs, pc, call, raced>>
    BY <1>5 DEF SetHome
  <2>3. HostPath(env[r].jail, v) \in Var
    BY <1>1, RemoveOfHost DEF EnvType, Var
  <2>4. [env[r] EXCEPT !.home = HostPath(env[r].jail, v)] \in EnvType
    BY <1>1, <2>3, EnvField
  <2>5. env' \in [Runtimes -> EnvType]
    BY <1>1, <2>1, <2>4
  <2> QED
    BY <1>1, <2>2, <2>5 DEF Base, TypeOK, Owned, EnvType, Place
<1>6. ASSUME NEW r \in Runtimes, NEW jail \in Jails, SetJail(r, jail) PROVE Base'
  <2>1. /\ rt' = [rt EXCEPT ![r].jail = jail] /\ fs' = [fs EXCEPT !.jail = jail]
        /\ env' = [env EXCEPT ![r] = EnvSetJail(env[r], jail)]
        /\ pc' = [pc EXCEPT ![r] = "stat"]
        /\ call' = [call EXCEPT ![r] = [dir |-> rt[r].wd, left |-> 2 - 1]]
        /\ UNCHANGED <<live, envOf, raced>> /\ r \in live
    BY <1>1, <1>6 DEF SetJail, Apply, Attempts, Idle
  <2>2. jail \in Jail /\ EnvSetJail(env[r], jail) \in EnvType
    BY <1>1, EnvSetJailFacts
  <2>3. env' \in [Runtimes -> EnvType]
    BY <1>1, <2>1, <2>2
  <2>4. rt' \in [Runtimes -> Place] /\ fs' \in Place
    <3>1. [rt[r] EXCEPT !.jail = jail] \in Place /\ [fs EXCEPT !.jail = jail] \in Place
      BY <1>1, <1>2, <2>2, PlaceField
    <3> QED
      BY <1>1, <2>1, <3>1
  <2>5. call' \in [Runtimes -> [dir : Path, left : Nat]]
    BY <1>1, <2>1 DEF Place
  <2>6. /\ pc' \in [Runtimes -> {"idle", "stat", "move", "env"}]
        /\ \A q \in Runtimes \ live' : pc'[q] = "idle"
    BY <1>1, <2>1
  <2> QED
    BY <1>1, <2>1, <2>3, <2>4, <2>5, <2>6 DEF Base, TypeOK, Owned, EnvType, Place
<1>7. ASSUME NEW r \in Runtimes, StatDir(r) PROVE Base'
  BY <1>1, <1>7 DEF StatDir, Base, TypeOK, Owned, EnvType, Place
<1>8. ASSUME NEW r \in Runtimes, FallBack(r) PROVE Base'
  BY <1>1, <1>2, <1>8 DEF FallBack, Apply, Base, TypeOK, Owned, EnvType, Place
<1>9. ASSUME NEW r \in Runtimes, Fail(r) PROVE Base'
  BY <1>1, <1>2, <1>9 DEF Fail, Return, NoCall, Base, TypeOK, Owned, EnvType, Place
<1>10. ASSUME NEW r \in Runtimes, MoveFS(r) PROVE Base'
  <2>1. /\ fs' = [fs EXCEPT !.wd = call[r].dir] /\ pc' = [pc EXCEPT ![r] = "env"]
        /\ raced' \in [Runtimes -> BOOLEAN] /\ pc[r] = "move"
        /\ UNCHANGED <<live, rt, envOf, env, call>>
    BY <1>1, <1>10 DEF MoveFS
  <2>2. fs' \in Place
    BY <1>1, <2>1, PlaceField DEF Place
  <2>3. /\ pc' \in [Runtimes -> {"idle", "stat", "move", "env"}]
        /\ \A q \in Runtimes \ live' : pc'[q] = "idle"
    BY <1>1, <2>1
  <2> QED
    BY <1>1, <2>1, <2>2, <2>3 DEF Base, TypeOK, Owned, EnvType, Place
<1>11. ASSUME NEW r \in Runtimes, Adopt(r) PROVE Base'
  <2>1. /\ env' = [env EXCEPT ![r].pwd = call[r].dir]
        /\ rt' = [rt EXCEPT ![r].wd = fs.wd]
        /\ pc' = [pc EXCEPT ![r] = "idle"] /\ call' = [call EXCEPT ![r] = NoCall]
        /\ UNCHANGED <<live, envOf, fs, raced>>
    BY <1>1, <1>11 DEF Adopt, EnvSetwd, Return
  <2>2. env' \in [Runtimes -> EnvType]
    <3>1. [env[r] EXCEPT !.pwd = call[r].dir] \in EnvType
      BY <1>1, EnvField DEF Var
    <3> QED
      BY <1>1, <2>1, <3>1
  <2>3. rt' \in [Runtimes -> Place]
    <3>1. [rt[r] EXCEPT !.wd = fs.wd] \in Place
      BY <1>1, PlaceField DEF Place
    <3> QED
      BY <1>1, <2>1, <3>1
  <2>4. call' \in [Runtimes -> [dir : Path, left : Nat]]
    BY <1>1, <1>2, <2>1 DEF NoCall
  <2> QED
    BY <1>1, <2>1, <2>2, <2>3, <2>4 DEF Base, TypeOK, Owned, EnvType, Place
<1>12. ASSUME NEW r \in Runtimes, NEW path \in Temps, SetTemp(r, path) PROVE Base'
  <2>1. /\ env' = [env EXCEPT ![r].tmp = path] /\ path \in Path
        /\ UNCHANGED <<live, rt, envOf, fs, pc, call, raced>>
    BY <1>1, <1>12 DEF SetTemp
  <2>2. env' \in [Runtimes -> EnvType]
    <3>1. [env[r] EXCEPT !.tmp = path] \in EnvType
      BY <1>1, <2>1, EnvField DEF Var
    <3> QED
      BY <1>1, <2>1, <3>1
  <2> QED
    BY <1>1, <2>1, <2>2 DEF Base, TypeOK, Owned, EnvType, Place
<1>13. ASSUME NEW r \in Runtimes, NEW key \in Keys, Unset(r, key) PROVE Base'
  <2>1. /\ env' = [env EXCEPT ![r][key] = None] /\ key \in {"home", "pwd", "tmp"}
        /\ UNCHANGED <<live, rt, envOf, fs, pc, call, raced>>
    BY <1>1, <1>13 DEF Unset
  <2>2. env' \in [Runtimes -> EnvType]
    <3>1. [env[r] EXCEPT ![key] = None] \in EnvType
      BY <1>1, <2>1, EnvField DEF Var
    <3> QED
      BY <1>1, <2>1, <3>1
  <2> QED
    BY <1>1, <2>1, <2>2 DEF Base, TypeOK, Owned, EnvType, Place
<1>14. ASSUME NEW r \in Runtimes, NEW c \in Runtimes, Clone(r, c) PROVE Base'
  <2>1. /\ live' = live \cup {c} /\ rt' = [rt EXCEPT ![c] = rt[r]]
        /\ env' = [env EXCEPT ![c] = env[r]] /\ envOf' = [envOf EXCEPT ![c] = c]
        /\ raced' = [raced EXCEPT ![c] = raced[r]]
        /\ UNCHANGED <<fs, pc, call>>
    BY <1>1, <1>14 DEF Clone, CloneEnv, NewPointer, Env
  <2> QED
    BY <1>1, <2>1 DEF Base, TypeOK, Owned, EnvType, Place
<1>15. CASE UNCHANGED vars
  BY <1>1, <1>15 DEF vars, Base, TypeOK, Owned, EnvType, Place
<1> QED
  BY <1>4, <1>5, <1>6, <1>7, <1>8, <1>9, <1>10, <1>11, <1>12, <1>13, <1>14, <1>15 DEF Next

\* Every value is of its type, whatever the calls and their arguments: no home
\* or directory is looked up where there is none (all of Runtime and TestEnv).
THEOREM RuntimeTyped == Spec => []TypeOK
<1>1. Spec => []Base
  BY InitBase, NextBase, PTL DEF Spec
<1> QED
  BY <1>1, PTL DEF Base

-----------------------------------------------------------------------------
(* The environments.                                                       *)

SetJailEnv(r, jail) == env' = [env EXCEPT ![r] = EnvSetJail(env[r], jail)]
SetHomeEnv(r, v)    == env' = [env EXCEPT ![r].home = HostPath(env[r].jail, v)]
SetEnv(r, key, v)   == env' = [env EXCEPT ![r][key] = v]

\* What a step may do to environments: nothing, a new jail, a new home, a new
\* value of PWD or TMPDIR, an unset variable, a copy for a new runtime.
EnvStep ==
  \/ env' = env /\ live' = live
  \/ \E r \in live : live' = live /\
       \/ \E jail \in Jails : SetJailEnv(r, jail)
       \/ \E v \in Path : SetHomeEnv(r, v)
       \/ \E key \in {"pwd", "tmp"}, v \in Path : SetEnv(r, key, v)
       \/ \E key \in {"home", "pwd", "tmp"} : SetEnv(r, key, None)
  \/ \E r \in live, c \in Runtimes \ live :
       live' = live \cup {c} /\ env' = [env EXCEPT ![c] = env[r]]

LEMMA EnvSteps == Base /\ [Next]_vars => EnvStep
<1> SUFFICES ASSUME Base, [Next]_vars PROVE EnvStep
  OBVIOUS
<1>1. /\ \A r \in Runtimes : envOf[r] = r /\ call[r].dir \in Path
      /\ \A r \in Runtimes : pc[r] # "idle" => r \in live
      /\ Temps \subseteq Path /\ Keys \subseteq {"home", "pwd", "tmp"}
  BY RuntimeAssumption DEF Base, TypeOK, Owned
<1>2. ASSUME NEW r \in Runtimes, NEW d \in HomeDirs, SetHome(r, d) PROVE EnvStep
  <2>1. r \in live /\ live' = live
    BY <1>2 DEF SetHome, Idle
  <2> QED
    BY <1>2, <2>1, SetHomeStep DEF EnvStep, SetHomeEnv
<1>3. ASSUME NEW r \in Runtimes, NEW jail \in Jails, SetJail(r, jail) PROVE EnvStep
  BY <1>1, <1>3 DEF SetJail, Idle, EnvStep, SetJailEnv
<1>4. ASSUME NEW r \in Runtimes, Adopt(r) PROVE EnvStep
  <2>1. live' = live /\ r \in live /\ env' = [env EXCEPT ![r].pwd = call[r].dir]
    BY <1>1, <1>4 DEF Adopt, EnvSetwd
  <2>2. SetEnv(r, "pwd", call[r].dir)
    BY <2>1 DEF SetEnv
  <2> QED
    BY <1>1, <2>1, <2>2 DEF EnvStep
<1>5. ASSUME NEW r \in Runtimes, NEW path \in Temps, SetTemp(r, path) PROVE EnvStep
  <2>1. live' = live /\ r \in live /\ env' = [env EXCEPT ![r].tmp = path]
    BY <1>1, <1>5 DEF SetTemp, Idle
  <2>2. SetEnv(r, "tmp", path) /\ path \in Path
    BY <1>1, <2>1 DEF SetEnv
  <2> QED
    BY <2>1, <2>2 DEF EnvStep
<1>6. ASSUME NEW r \in Runtimes, NEW key \in Keys, Unset(r, key) PROVE EnvStep
  <2>1. live' = live /\ r \in live /\ env' = [env EXCEPT ![r][key] = None]
    BY <1>1, <1>6 DEF Unset, Idle
  <2>2. SetEnv(r, key, None) /\ key \in {"home", "pwd", "tmp"}
    BY <1>1, <2>1 DEF SetEnv
  <2> QED
    BY <2>1, <2>2 DEF EnvStep
<1>7. ASSUME NEW r \in Runtimes, NEW c \in Runtimes, Clone(r, c) PROVE EnvStep
  BY <1>1, <1>7 DEF Clone, CloneEnv, Idle, Env, EnvStep
<1>8. ASSUME UNCHANGED <<env, live>> PROVE EnvStep
  BY <1>8 DEF EnvStep
<1>9. ASSUME NEW r \in Runtimes, NEW d \in Dirs, Setwd(r, d) PROVE EnvStep
  BY <1>8, <1>9 DEF Setwd
<1>10. ASSUME NEW r \in Runtimes, StatDir(r) \/ FallBack(r) \/ Fail(r) \/ MoveFS(r)
       PROVE  EnvStep
  BY <1>8, <1>10 DEF StatDir, FallBack, Fail, MoveFS
<1>11. CASE UNCHANGED vars
  BY <1>8, <1>11 DEF vars
<1> QED
  BY <1>2, <1>3, <1>4, <1>5, <1>6, <1>7, <1>9, <1>10, <1>11 DEF Next

LEMMA OwnEnv == Base => /\ \A r \in Runtimes : Env(r) = env[r]
                        /\ env \in [Runtimes -> EnvType] /\ live \subseteq Runtimes
BY DEF Base, TypeOK, Owned, EnvType, Env

\* A clone's variables are its own: no sequence of clones, of clones of clones
\* and of calls on them lets one call change two environments (Runtime.Clone).
THEOREM EnvironmentsArePrivate == Spec => EnvPrivate
<1>1. Base /\ Base' /\ [Next]_vars
        => \A r, c \in live : r # c => Env(r)' = Env(r) \/ Env(c)' = Env(c)
  <2> SUFFICES ASSUME Base, Base', [Next]_vars,
                      NEW r \in live, NEW c \in live, r # c
               PROVE  Env(r)' = Env(r) \/ Env(c)' = Env(c)
    OBVIOUS
  <2>1. /\ Env(r) = env[r] /\ Env(c) = env[c] /\ Env(r)' = env'[r] /\ Env(c)' = env'[c]
        /\ env \in [Runtimes -> EnvType] /\ r \in Runtimes /\ c \in Runtimes
    BY DEF Base, TypeOK, Owned, EnvType, Env
  <2>2. \/ env' = env
        \/ \E q \in Runtimes : \E e : env' = [env EXCEPT ![q] = e]
    <3>1. EnvStep /\ live \subseteq Runtimes
      BY EnvSteps, OwnEnv
    <3> QED
      BY <3>1 DEF EnvStep, SetJailEnv, SetHomeEnv, SetEnv
  <2> QED
    BY <2>1, <2>2
<1>2. Spec => []Base
  BY InitBase, NextBase, PTL DEF Spec
<1> QED
  BY <1>1, <1>2, PTL DEF Spec, EnvPrivate

\* A step that gives a live runtime's environment another jail is SetJail.
LEMMA JailChange ==
  ASSUME Base, Base', [Next]_vars, NEW r \in live, Env(r)'.jail # Env(r).jail
  PROVE  \E jail \in Jails : Env(r)' = EnvSetJail(Env(r), jail)
<1>1. Env(r) = env[r] /\ Env(r)' = env'[r] /\ env \in [Runtimes -> EnvType]
      /\ r \in Runtimes /\ live \subseteq Runtimes
  BY DEF Base, TypeOK, Owned, EnvType, Env
<1>2. CASE \E q \in live, jail \in Jails : SetJailEnv(q, jail)
  BY <1>1, <1>2 DEF SetJailEnv
<1>3. ASSUME NEW q \in live, NEW v, SetHomeEnv(q, v) PROVE FALSE
  <2>1. env'[r].jail = env[r].jail
    BY <1>1, <1>3 DEF SetHomeEnv, EnvType
  <2> QED
    BY <1>1, <2>1
<1>4. ASSUME NEW q \in live, NEW key \in {"home", "pwd", "tmp"}, NEW v, SetEnv(q, key, v)
      PROVE  FALSE
  <2>1. env'[r].jail = env[r].jail
    BY <1>1, <1>4 DEF SetEnv, EnvType
  <2> QED
    BY <1>1, <2>1
<1>5. ASSUME NEW q \in live, NEW c \in Runtimes \ live, env' = [env EXCEPT ![c] = env[q]]
      PROVE  FALSE
  BY <1>1, <1>5
<1>6. CASE env' = env
  BY <1>1, <1>6
<1> QED
  BY <1>2, <1>3, <1>4, <1>5, <1>6, EnvSteps DEF EnvStep

\* SetJail keeps what GetHome returns and "~" means, through any sequence of
\* jails, no jail, homes outside every jail, and clones (TestEnv.SetJail).
THEOREM HomeSurvivesSetJail == Spec => HomeKept
<1>1. Base /\ Base' /\ [Next]_vars
        => \A r \in live : Env(r)'.jail # Env(r).jail => GetHome(Env(r))' = GetHome(Env(r))
  <2> SUFFICES ASSUME Base, Base', [Next]_vars, NEW r \in live, Env(r)'.jail # Env(r).jail
               PROVE  GetHome(Env(r)') = GetHome(Env(r))
    BY DEF GetHome
  <2> DEFINE e == Env(r)
  <2>1. PICK jail \in Jails : Env(r)' = EnvSetJail(e, jail)
    BY JailChange
  <2>2. e \in EnvType /\ jail \in Jail /\ None \notin Path
    BY OwnEnv, RuntimeAssumption
  <2> HIDE DEF e
  <2>3. /\ EnvSetJail(e, jail).jail = jail
        /\ EnvSetJail(e, jail).home
             = IF e.home = None THEN None ELSE Rebase(e.home, e.jail, jail)
    BY <2>2, EnvSetJailFacts
  <2>4. CASE e.home = None
    BY <2>1, <2>3, <2>4 DEF GetHome, e
  <2>5. CASE e.home # None
    <3> DEFINE v == RemoveJailPrefix(e.jail, e.home)
    <3>1. v \in Path /\ GetHome(e) = v
      BY <2>2, <2>5, GetHomeType DEF GetHome
    <3> HIDE DEF v
    <3>2. HostPath(jail, v) \in Path /\ RemoveJailPrefix(jail, HostPath(jail, v)) = v
      BY <2>2, <3>1, RemoveOfHost
    <3>3. EnvSetJail(e, jail).home = HostPath(jail, v)
      BY <2>3, <2>5 DEF Rebase, v
    <3>4. GetHome(EnvSetJail(e, jail)) = v
      BY <2>2, <2>3, <3>2, <3>3 DEF GetHome
    <3> QED
      BY <2>1, <3>1, <3>4 DEF e
  <2> QED
    BY <2>4, <2>5
<1>2. Spec => []Base
  BY InitBase, NextBase, PTL DEF Spec
<1> QED
  BY <1>1, <1>2, PTL DEF Spec, HomeKept

\* A TMPDIR in the old jail is in the new one after SetJail, whatever the two
\* jails have in common (TestEnv.SetJail).
THEOREM TempSurvivesSetJail == Spec => TempFollowsJail
<1>1. Base /\ Base' /\ [Next]_vars
        => \A r \in live : LET e == Env(r) IN
             NoJail \notin {e.jail, Env(r)'.jail} /\ e.tmp # None /\ IsInJail(e.jail, e.tmp)
             /\ Env(r)'.jail # e.jail
               => IsInJail(Env(r)'.jail, Env(r)'.tmp)
  <2> SUFFICES ASSUME Base, Base', [Next]_vars, NEW r \in live,
                      NoJail # Env(r).jail, NoJail # Env(r)'.jail, Env(r).tmp # None,
                      IsInJail(Env(r).jail, Env(r).tmp), Env(r)'.jail # Env(r).jail
               PROVE  IsInJail(Env(r)'.jail, Env(r)'.tmp)
    OBVIOUS
  <2> DEFINE e == Env(r)
  <2>1. PICK jail \in Jails : Env(r)' = EnvSetJail(e, jail)
    BY JailChange
  <2>2. e \in EnvType /\ jail \in Jail
    BY OwnEnv, RuntimeAssumption
  <2>3. /\ EnvSetJail(e, jail).jail = jail
        /\ EnvSetJail(e, jail).tmp = Rebase(e.tmp, e.jail, jail)
    BY <2>2, EnvSetJailFacts
  <2>4. e.jail \in Path /\ jail \in Path /\ e.tmp \in Path
    BY <2>1, <2>2, <2>3 DEF EnvType, Jail, Var
  <2>5. IsInJail(jail, Rebase(e.tmp, e.jail, jail))
    BY <2>4, RebaseStaysInside
  <2> QED
    BY <2>1, <2>3, <2>5
<1>2. Spec => []Base
  BY InitBase, NextBase, PTL DEF Spec
<1> QED
  BY <1>1, <1>2, PTL DEF Spec, TempFollowsJail

HomeInside(e) == e.home # None => e.home = HostPath(e.jail, GetHome(e))

\* A home put into a jail is inside it.
LEMMA StoredInside ==
  ASSUME NEW e \in EnvType, NEW v \in Path, e.home = HostPath(e.jail, v)
  PROVE  HomeInside(e)
<1>1. e.jail \in Jail /\ HostPath(e.jail, v) \in Path
      /\ RemoveJailPrefix(e.jail, HostPath(e.jail, v)) = v
  BY RemoveOfHost DEF EnvType
<1>2. GetHome(e) = v
  BY <1>1, RuntimeAssumption DEF GetHome
<1> QED
  BY <1>2 DEF HomeInside

LEMMA SetJailInside ==
  ASSUME NEW e \in EnvType, NEW jail \in Jail
  PROVE  HomeInside(EnvSetJail(e, jail))
<1> DEFINE f == EnvSetJail(e, jail)
           v == RemoveJailPrefix(e.jail, e.home)
<1>1. /\ f \in EnvType /\ f.jail = jail
      /\ f.home = IF e.home = None THEN None ELSE HostPath(jail, v)
  BY EnvSetJailFacts DEF Rebase
<1>2. e.home # None => v \in Path
  BY RemoveType DEF EnvType, Var
<1> HIDE DEF f, v
<1>3. CASE e.home = None
  BY <1>1, <1>3 DEF HomeInside, f
<1>4. CASE e.home # None
  BY <1>1, <1>2, <1>4, StoredInside DEF f
<1> QED
  BY <1>3, <1>4

\* The home of a runtime is inside its jail, where GetHome looks for it, after
\* any calls of SetHome, SetJail and Clone (TestEnv.SetHome).
THEOREM HomeStaysInJail == Spec => []HomeInJail
<1> DEFINE Inv == \A c \in Runtimes : HomeInside(env[c])
<1>1. Init => Inv
  <2> SUFFICES ASSUME Init PROVE Inv
    OBVIOUS
  <2>1. PICK jail \in Jails \ {NoJail}, home \in Homes :
          env = [r \in Runtimes |-> EnvSetJail(NewTestEnv(jail, home), jail)]
    BY DEF Init
  <2>2. jail \in Jail /\ jail \in Path /\ home \in Path /\ Tmp \in Names
    BY RuntimeAssumption DEF Jail
  <2>3. Append(jail, Tmp) \in Path
    BY <2>2, AppendProperties DEF Path
  <2>4. NewTestEnv(jail, home) \in EnvType
    BY <2>2, <2>3 DEF NewTestEnv, EnvType, Var
  <2>5. HomeInside(EnvSetJail(NewTestEnv(jail, home), jail))
    BY <2>2, <2>4, SetJailInside
  <2> QED
    BY <2>1, <2>5
<1>2. Base /\ Base' /\ Inv /\ [Next]_vars => Inv'
  <2> SUFFICES ASSUME Base, Base', Inv, [Next]_vars, NEW c \in Runtimes
               PROVE  HomeInside(env'[c])
    BY DEF HomeInside, GetHome
  <2>1. /\ env \in [Runtimes -> EnvType] /\ env' \in [Runtimes -> EnvType]
        /\ live \subseteq Runtimes
    BY DEF Base, TypeOK, EnvType
  <2>2. HomeInside(env[c])
    OBVIOUS
  <2>3. CASE env'[c] = env[c]
    BY <2>2, <2>3
  <2>4. ASSUME NEW jail \in Jails, env'[c] = EnvSetJail(env[c], jail)
        PROVE  HomeInside(env'[c])
    BY <2>1, <2>4, SetJailInside, RuntimeAssumption
  <2>5. ASSUME NEW v \in Path, env'[c] = [env[c] EXCEPT !.home = HostPath(env[c].jail, v)]
        PROVE  HomeInside(env'[c])
    <3>1. env'[c] \in EnvType /\ env'[c].home = HostPath(env'[c].jail, v)
      BY <2>1, <2>5 DEF EnvType
    <3> QED
      BY <3>1, StoredInside
  <2>6. ASSUME NEW key \in {"pwd", "tmp"}, NEW v, env'[c] = [env[c] EXCEPT ![key] = v]
        PROVE  HomeInside(env'[c])
    <3>1. env'[c].home = env[c].home /\ env'[c].jail = env[c].jail
      BY <2>1, <2>6 DEF EnvType
    <3> QED
      BY <2>2, <3>1 DEF HomeInside, GetHome
  <2>7. ASSUME env'[c] = [env[c] EXCEPT !["home"] = None]
        PROVE  HomeInside(env'[c])
    <3>1. env'[c].home = None
      BY <2>1, <2>7 DEF EnvType
    <3> QED
      BY <3>1 DEF HomeInside
  <2>8. CASE \E q \in live : env'[c] = env[q]
    BY <2>1, <2>8
  <2>9. EnvStep
    BY EnvSteps
  <2>10. ASSUME NEW r \in live, NEW jail \in Jails, SetJailEnv(r, jail)
         PROVE  HomeInside(env'[c])
    BY <2>1, <2>3, <2>4, <2>10 DEF SetJailEnv
  <2>11. ASSUME NEW r \in live, NEW v \in Path, SetHomeEnv(r, v)
         PROVE  HomeInside(env'[c])
    BY <2>1, <2>3, <2>5, <2>11 DEF SetHomeEnv
  <2>12. ASSUME NEW r \in live, NEW key \in {"pwd", "tmp"}, NEW v, SetEnv(r, key, v)
         PROVE  HomeInside(env'[c])
    BY <2>1, <2>3, <2>6, <2>12 DEF SetEnv
  <2>13. ASSUME NEW r \in live, SetEnv(r, "home", None)
         PROVE  HomeInside(env'[c])
    BY <2>1, <2>3, <2>7, <2>13 DEF SetEnv
  <2>14. ASSUME NEW r \in live, NEW q \in Runtimes \ live, env' = [env EXCEPT ![q] = env[r]]
         PROVE  HomeInside(env'[c])
    BY <2>1, <2>3, <2>8, <2>14
  <2> QED
    BY <2>3, <2>9, <2>10, <2>11, <2>12, <2>13, <2>14 DEF EnvStep
<1>3. Base /\ Inv => HomeInJail
  BY OwnEnv DEF HomeInJail, HomeInside
<1> HIDE DEF Inv
<1>4. Spec => []Base
  BY InitBase, NextBase, PTL DEF Spec
<1> QED
  BY <1>1, <1>2, <1>3, <1>4, PTL DEF Spec

-----------------------------------------------------------------------------
(* The working directory.                                                  *)

\* Between fs.Setwd and fs.Getwd the file system is where the call put it, and
\* otherwise Runtime.wd and PWD agree, unless a clone came in between.
WdInv ==
  \A r \in live : ~raced[r] =>
    IF pc[r] = "env" THEN fs.wd = call[r].dir ELSE env[r].pwd \in {rt[r].wd, None}

\* Runtime and environment agree on the working directory after every call,
\* whatever any number of clones do, unless one moved the file system between
\* this runtime's fs.Setwd and its fs.Getwd (Runtime.applyWorkingDir).
THEOREM WorkingDirsAgree == Spec => []WdAgrees
<1>1. Init => WdInv
  <2> SUFFICES ASSUME NEW jail \in Jails \ {NoJail}, NEW home \in Homes,
                      \E r \in Runtimes : live = {r},
                      rt  = [r \in Runtimes |-> [jail |-> jail, wd |-> home]],
                      env = [r \in Runtimes |-> EnvSetJail(NewTestEnv(jail, home), jail)],
                      pc  = [r \in Runtimes |-> "idle"]
               PROVE  WdInv
    BY DEF Init
  <2>1. EnvSetJail(NewTestEnv(jail, home), jail).pwd = home
    BY DEF EnvSetJail, NewTestEnv
  <2> QED
    BY <2>1 DEF WdInv
<1>2. Base /\ Base' /\ WdInv /\ [Next]_vars => WdInv'
  <2> SUFFICES ASSUME Base, Base', WdInv, [Next]_vars PROVE WdInv'
    OBVIOUS
  <2>1. /\ live \subseteq Runtimes /\ rt \in [Runtimes -> Place] /\ fs \in Place
        /\ env \in [Runtimes -> EnvType]
        /\ call \in [Runtimes -> [dir : Path, left : Nat]]
        /\ pc \in [Runtimes -> {"idle", "stat", "move", "env"}]
        /\ raced \in [Runtimes -> BOOLEAN]
        /\ \A r \in Runtimes : envOf[r] = r
        /\ \A r \in Runtimes \ live : pc[r] = "idle"
    BY DEF Base, TypeOK, Owned, Place, EnvType
  \* Steps that leave the directories alone and do not enter or leave "env".
  <2>2. ASSUME \A r \in live : env'[r].pwd \in {env[r].pwd, None} /\ rt'[r].wd = rt[r].wd,
               \A r \in live : pc'[r] = "env" <=> pc[r] = "env",
               \A r \in live : pc[r] = "env" => call'[r] = call[r],
               fs'.wd = fs.wd, UNCHANGED <<live, raced>>
        PROVE  WdInv'
    BY <2>2 DEF WdInv
  <2>3. ASSUME NEW r \in Runtimes, NEW d \in Dirs, Setwd(r, d) PROVE WdInv'
    BY <2>1, <2>2, <2>3 DEF Setwd, Idle, Apply
  <2>4. ASSUME NEW r \in Runtimes, NEW d \in HomeDirs, SetHome(r, d) PROVE WdInv'
    <3>1. PICK v \in Path : env' = [env EXCEPT ![r].home = HostPath(env[r].jail, v)]
      BY <2>4, SetHomeStep
    <3>2. \A q \in live : env'[q].pwd = env[q].pwd
      BY <2>1, <3>1 DEF EnvType
    <3> QED
      BY <2>2, <2>4, <3>2 DEF SetHome
  <2>5. ASSUME NEW r \in Runtimes, NEW jail \in Jails, SetJail(r, jail) PROVE WdInv'
    <3>1. /\ env' = [env EXCEPT ![r] = EnvSetJail(env[r], jail)] /\ pc[r] = "idle"
          /\ rt' = [rt EXCEPT ![r].jail = jail] /\ fs' = [fs EXCEPT !.jail = jail]
          /\ UNCHANGED <<live, raced>> /\ pc' = [pc EXCEPT ![r] = "stat"]
          /\ \A q \in Runtimes : q # r => call'[q] = call[q]
      BY <2>1, <2>5 DEF SetJail, Idle, Apply
    <3>2. EnvSetJail(env[r], jail).pwd = env[r].pwd
      BY <2>1, EnvSetJailFacts, RuntimeAssumption
    <3>3. \A q \in live : env'[q].pwd = env[q].pwd
      BY <2>1, <3>1, <3>2
    <3>4. (\A q \in live : rt'[q].wd = rt[q].wd) /\ fs'.wd = fs.wd
      BY <2>1, <3>1 DEF Place
    <3> QED
      BY <2>1, <2>2, <3>1, <3>3, <3>4
  <2>6. ASSUME NEW r \in Runtimes, StatDir(r) \/ FallBack(r) PROVE WdInv'
    BY <2>1, <2>2, <2>6 DEF StatDir, FallBack, Apply
  <2>7. ASSUME NEW r \in Runtimes, Fail(r) PROVE WdInv'
    BY <2>1, <2>2, <2>7 DEF Fail, Return
  <2>8. ASSUME NEW r \in Runtimes, MoveFS(r) PROVE WdInv'
    <3>1. /\ fs'.wd = call[r].dir /\ pc' = [pc EXCEPT ![r] = "env"]
          /\ raced' = [q \in Runtimes |-> IF q = r THEN FALSE ELSE raced[q] \/ pc[q] = "env"]
          /\ UNCHANGED <<live, rt, env, call>>
      BY <2>1, <2>8 DEF MoveFS, Place
    <3>2. ASSUME NEW q \in live, ~raced'[q]
          PROVE  IF pc'[q] = "env" THEN fs'.wd = call'[q].dir
                                   ELSE env'[q].pwd \in {rt'[q].wd, None}
      <4>1. CASE q = r
        BY <2>1, <3>1, <4>1
      <4>2. CASE q # r
        <5>1. ~raced[q] /\ pc[q] # "env" /\ pc'[q] = pc[q]
          BY <2>1, <3>1, <3>2, <4>2
        <5> QED
          BY <3>1, <5>1 DEF WdInv
      <4> QED
        BY <4>1, <4>2
    <3> QED
      BY <3>1, <3>2 DEF WdInv
  <2>9. ASSUME NEW r \in Runtimes, Adopt(r) PROVE WdInv'
    <3>1. /\ pc[r] = "env" /\ env' = [env EXCEPT ![r].pwd = call[r].dir]
          /\ rt' = [rt EXCEPT ![r].wd = fs.wd] /\ pc' = [pc EXCEPT ![r] = "idle"]
          /\ UNCHANGED <<live, fs, raced>>
          /\ \A q \in Runtimes : q # r => call'[q] = call[q]
      BY <2>1, <2>9 DEF Adopt, EnvSetwd, Return
    <3>2. ASSUME NEW q \in live, ~raced'[q]
          PROVE  IF pc'[q] = "env" THEN fs'.wd = call'[q].dir
                                   ELSE env'[q].pwd \in {rt'[q].wd, None}
      <4>1. CASE q = r
        <5>1. fs.wd = call[r].dir
          BY <3>1, <3>2, <4>1 DEF WdInv
        <5>2. env'[r].pwd = call[r].dir /\ rt'[r].wd = fs.wd /\ pc'[r] = "idle"
          BY <2>1, <3>1 DEF EnvType, Place
        <5> QED
          BY <4>1, <5>1, <5>2
      <4>2. CASE q # r
        <5>1. env'[q] = env[q] /\ rt'[q] = rt[q] /\ pc'[q] = pc[q] /\ call'[q] = call[q]
          BY <2>1, <3>1, <4>2
        <5> QED
          BY <3>1, <3>2, <5>1 DEF WdInv
      <4> QED
        BY <4>1, <4>2
    <3> QED
      BY <3>1, <3>2 DEF WdInv
  <2>10. ASSUME NEW r \in Runtimes, NEW path \in Temps, SetTemp(r, path) PROVE WdInv'
    <3>1. \A q \in live : env'[q].pwd = env[q].pwd
      BY <2>1, <2>10 DEF SetTemp, EnvType
    <3> QED
      BY <2>2, <2>10, <3>1 DEF SetTemp
  <2>11. ASSUME NEW r \in Runtimes, NEW key \in Keys, Unset(r, key) PROVE WdInv'
    <3>1. env' = [env EXCEPT ![r][key] = None] /\ key \in {"home", "pwd", "tmp"}
      BY <2>1, <2>11, RuntimeAssumption DEF Unset
    <3>2. \A q \in live : env'[q].pwd \in {env[q].pwd, None}
      BY <2>1, <3>1 DEF EnvType
    <3> QED
      BY <2>2, <2>11, <3>2 DEF Unset
  <2>12. ASSUME NEW r \in Runtimes, NEW c \in Runtimes, Clone(r, c) PROVE WdInv'
    <3>1. /\ live' = live \cup {c} /\ rt' = [rt EXCEPT ![c] = rt[r]] /\ c \notin live
          /\ env' = [env EXCEPT ![c] = env[r]] /\ raced' = [raced EXCEPT ![c] = raced[r]]
          /\ UNCHANGED <<fs, pc, call>> /\ r \in live /\ pc[r] = "idle" /\ pc[c] = "idle"
      BY <2>1, <2>12 DEF Clone, CloneEnv, Idle, Env
    <3>2. ASSUME NEW q \in live', ~raced'[q]
          PROVE  IF pc'[q] = "env" THEN fs'.wd = call'[q].dir
                                   ELSE env'[q].pwd \in {rt'[q].wd, None}
      <4>1. CASE q = c
        BY <2>1, <3>1, <3>2, <4>1 DEF WdInv
      <4>2. CASE q # c
        <5>1. q \in live /\ ~raced[q] /\ env'[q] = env[q] /\ rt'[q] = rt[q]
          BY <2>1, <3>1, <3>2, <4>2
        <5> QED
          BY <3>1, <5>1 DEF WdInv
      <4> QED
        BY <4>1, <4>2
    <3> QED
      BY <3>2 DEF WdInv
  <2>13. CASE UNCHANGED vars
    BY <2>2, <2>13 DEF vars
  <2> QED
    BY <2>3, <2>4, <2>5, <2>6, <2>7, <2>8, <2>9, <2>10, <2>11, <2>12, <2>13 DEF Next
<1>3. Base /\ WdInv => WdAgrees
  BY OwnEnv DEF WdInv, WdAgrees
<1>4. Spec => []Base
  BY InitBase, NextBase, PTL DEF Spec
<1> QED
  BY <1>1, <1>2, <1>3, <1>4, PTL DEF Spec

\* OsFS.Setwd refuses dir under this jail: Unusable as a function of the jail.
Refused(jail, dir) ==
  \/ jail # NoJail /\ ~IsInJail(jail, HostPath(jail, dir))
  \/ NotADir(HostPath(jail, dir))

Kept == Refused(fs.jail, fs.wd) => Refused(fs.jail, <<>>)

\* While r has the file system to itself: the jails agree, and the directories
\* too until the file system moves, which it only does to a directory that it
\* does not refuse; a call that can fall back no more has left it alone, or
\* tries the root.
Alone(r) ==
  /\ rt[r].jail = fs.jail /\ env[r].jail = fs.jail
  /\ pc[r] # "env" => rt[r].wd = fs.wd /\ env[r].pwd \in {fs.wd, None}
  /\ pc[r] = "idle" => Kept
  /\ pc[r] = "stat" /\ call[r].left = 0 => Kept \/ call[r].dir = <<>>
  /\ pc[r] = "move" => ~Refused(fs.jail, call[r].dir)
  /\ pc[r] = "env" => ~Refused(fs.jail, call[r].dir) /\ fs.wd = call[r].dir

\* Every copy of the jail and of the working directory agrees between the calls
\* of a runtime that is alone, failed calls included, and the directory can be
\* used (Runtime.SetJail and its fallback, Setwd, applyWorkingDir).
THEOREM CopiesAgree == Spec => []Coherent
<1> DEFINE Inv == \A r \in Runtimes : live = {r} => Alone(r)
<1>0. \A dir : Unusable(dir) <=> Refused(fs.jail, dir)
  BY DEF Unusable, Escapes, Refused
<1>1. Init => Inv
  <2> SUFFICES ASSUME NEW jail \in Jails \ {NoJail}, NEW home \in Homes,
                      ~NotADir(HostPath(jail, home)), IsInJail(jail, HostPath(jail, home)),
                      rt  = [r \in Runtimes |-> [jail |-> jail, wd |-> home]],
                      env = [r \in Runtimes |-> EnvSetJail(NewTestEnv(jail, home), jail)],
                      fs  = [jail |-> jail, wd |-> home],
                      pc  = [r \in Runtimes |-> "idle"],
                      NEW r \in Runtimes
               PROVE  Alone(r)
    BY DEF Init
  <2>1. /\ EnvSetJail(NewTestEnv(jail, home), jail).pwd = home
        /\ EnvSetJail(NewTestEnv(jail, home), jail).jail = jail
    BY DEF EnvSetJail, NewTestEnv
  <2>2. ~Refused(jail, home)
    BY DEF Refused
  <2> QED
    BY <2>1, <2>2 DEF Alone, Kept
<1>2. Base /\ Base' /\ Inv /\ [Next]_vars => Inv'
  <2> SUFFICES ASSUME Base, Base', Inv, [Next]_vars, NEW r \in Runtimes, live' = {r}
               PROVE  Alone(r)'
    OBVIOUS
  <2>1. /\ live \subseteq Runtimes /\ rt \in [Runtimes -> Place] /\ fs \in Place
        /\ env \in [Runtimes -> EnvType]
        /\ call \in [Runtimes -> [dir : Path, left : Nat]]
        /\ pc \in [Runtimes -> {"idle", "stat", "move", "env"}]
        /\ \A q \in Runtimes : envOf[q] = q
        /\ \A q \in Runtimes \ live : pc[q] = "idle"
    BY DEF Base, TypeOK, Owned, Place, EnvType
  \* A clone makes two runtimes, so r was alone and is the one that moves.
  <2>2. ASSUME NEW q \in Runtimes, NEW c \in Runtimes, Clone(q, c) PROVE FALSE
    <3>1. q \in live /\ c \notin live /\ live' = live \cup {c}
      BY <2>2 DEF Clone, Idle
    <3> QED
      BY <3>1
  <2>3. live = {r} => Alone(r)
    OBVIOUS
  <2>4. ASSUME NEW q \in Runtimes, pc[q] # "idle" \/ q \in live, live' = live
        PROVE  q = r /\ Alone(r)
    BY <2>1, <2>3, <2>4
  <2>5. ASSUME NEW q \in Runtimes, NEW d \in Dirs, Setwd(q, d) PROVE Alone(r)'
    <3>1. q = r /\ Alone(r)
      BY <2>4, <2>5 DEF Setwd, Idle
    <3>2. pc[r] = "idle" /\ pc' = [pc EXCEPT ![r] = "stat"] /\ UNCHANGED <<rt, env, fs>>
      BY <2>5, <3>1 DEF Setwd, Idle, Apply
    <3>3. Kept /\ Kept' /\ pc'[r] = "stat"
      BY <2>1, <3>1, <3>2 DEF Alone, Kept
    <3> QED
      BY <3>1, <3>2, <3>3 DEF Alone
  <2>6. ASSUME NEW q \in Runtimes, NEW d \in HomeDirs, SetHome(q, d) PROVE Alone(r)'
    <3>1. q = r /\ Alone(r)
      BY <2>4, <2>6 DEF SetHome, Idle
    <3>2. PICK v \in Path : env' = [env EXCEPT ![r].home = HostPath(env[r].jail, v)]
      BY <2>6, <3>1, SetHomeStep
    <3>3. env'[r].jail = env[r].jail /\ env'[r].pwd = env[r].pwd
      BY <2>1, <3>2 DEF EnvType
    <3>4. UNCHANGED <<rt, fs, pc, call>>
      BY <2>6 DEF SetHome
    <3> QED
      BY <3>1, <3>3, <3>4 DEF Alone, Kept
  <2>7. ASSUME NEW q \in Runtimes, NEW jail \in Jails, SetJail(q, jail) PROVE Alone(r)'
    <3>1. q = r /\ Alone(r)
      BY <2>4, <2>7 DEF SetJail, Idle
    <3>2. /\ env' = [env EXCEPT ![r] = EnvSetJail(env[r], jail)] /\ pc[r] = "idle"
          /\ rt' = [rt EXCEPT ![r].jail = jail] /\ fs' = [fs EXCEPT !.jail = jail]
          /\ pc' = [pc EXCEPT ![r] = "stat"]
          /\ call' = [call EXCEPT ![r] = [dir |-> rt[r].wd, left |-> 2 - 1]]
      BY <2>1, <2>7, <3>1 DEF SetJail, Idle, Apply, Attempts
    <3>3. EnvSetJail(env[r], jail).pwd = env[r].pwd /\ EnvSetJail(env[r], jail).jail = jail
      BY <2>1, EnvSetJailFacts, RuntimeAssumption
    <3>4. env'[r].jail = jail /\ env'[r].pwd = env[r].pwd
      BY <2>1, <3>2, <3>3
    <3>5. rt'[r].jail = jail /\ rt'[r].wd = rt[r].wd /\ fs'.jail = jail /\ fs'.wd = fs.wd
      BY <2>1, <3>2 DEF Place
    <3>6. pc'[r] = "stat" /\ call'[r].left # 0
      BY <2>1, <3>2
    <3> QED
      BY <3>1, <3>2, <3>4, <3>5, <3>6 DEF Alone
  <2>8. ASSUME NEW q \in Runtimes, StatDir(q) PROVE Alone(r)'
    <3>1. q = r /\ Alone(r)
      BY <2>4, <2>8 DEF StatDir
    <3>2. /\ pc[r] = "stat" /\ ~Refused(fs.jail, call[r].dir) /\ pc'[r] = "move"
          /\ UNCHANGED <<rt, env, fs, call>>
      BY <1>0, <2>1, <2>8, <3>1 DEF StatDir
    <3> QED
      BY <3>1, <3>2 DEF Alone
  <2>9. ASSUME NEW q \in Runtimes, FallBack(q) PROVE Alone(r)'
    <3>1. q = r /\ Alone(r)
      BY <2>4, <2>9 DEF FallBack
    <3>2. /\ pc[r] = "stat" /\ pc'[r] = "stat" /\ call'[r].dir = <<>>
          /\ UNCHANGED <<rt, env, fs>>
      BY <2>1, <2>9, <3>1 DEF FallBack, Apply
    <3> QED
      BY <3>1, <3>2 DEF Alone
  <2>10. ASSUME NEW q \in Runtimes, Fail(q) PROVE Alone(r)'
    <3>1. q = r /\ Alone(r)
      BY <2>4, <2>10 DEF Fail
    <3>2. /\ pc[r] = "stat" /\ call[r].left = 0 /\ Refused(fs.jail, call[r].dir)
          /\ pc'[r] = "idle" /\ UNCHANGED <<rt, env, fs>>
      BY <1>0, <2>1, <2>10, <3>1 DEF Fail, Return
    <3>3. Kept
      BY <3>1, <3>2 DEF Alone, Kept
    <3>4. Kept'
      BY <3>2, <3>3 DEF Kept
    <3> QED
      BY <3>1, <3>2, <3>4 DEF Alone
  <2>11. ASSUME NEW q \in Runtimes, MoveFS(q) PROVE Alone(r)'
    <3>1. q = r /\ Alone(r)
      BY <2>4, <2>11 DEF MoveFS
    <3>2. /\ pc[r] = "move" /\ pc'[r] = "env" /\ UNCHANGED <<rt, env, call>>
          /\ fs'.wd = call[r].dir /\ fs'.jail = fs.jail
      BY <2>1, <2>11, <3>1 DEF MoveFS, Place
    <3> QED
      BY <3>1, <3>2 DEF Alone
  <2>12. ASSUME NEW q \in Runtimes, Adopt(q) PROVE Alone(r)'
    <3>1. q = r /\ Alone(r)
      BY <2>4, <2>12 DEF Adopt
    <3>2. /\ pc[r] = "env" /\ env' = [env EXCEPT ![r].pwd = call[r].dir]
          /\ rt' = [rt EXCEPT ![r].wd = fs.wd] /\ pc'[r] = "idle" /\ UNCHANGED fs
      BY <2>1, <2>12, <3>1 DEF Adopt, EnvSetwd, Return
    <3>3. /\ env'[r].pwd = call[r].dir /\ env'[r].jail = env[r].jail
          /\ rt'[r].wd = fs.wd /\ rt'[r].jail = rt[r].jail
      BY <2>1, <3>2 DEF EnvType, Place
    <3>4. Kept'
      BY <3>1, <3>2 DEF Alone, Kept
    <3> QED
      BY <3>1, <3>2, <3>3, <3>4 DEF Alone
  <2>13. ASSUME NEW q \in Runtimes, NEW path \in Temps, SetTemp(q, path) PROVE Alone(r)'
    <3>1. q = r /\ Alone(r)
      BY <2>4, <2>13 DEF SetTemp, Idle
    <3>2. env' = [env EXCEPT ![r].tmp = path] /\ UNCHANGED <<rt, fs, pc, call>>
      BY <2>1, <2>13, <3>1 DEF SetTemp
    <3>3. env'[r].jail = env[r].jail /\ env'[r].pwd = env[r].pwd
      BY <2>1, <3>2 DEF EnvType
    <3> QED
      BY <3>1, <3>2, <3>3 DEF Alone, Kept
  <2>14. ASSUME NEW q \in Runtimes, NEW key \in Keys, Unset(q, key) PROVE Alone(r)'
    <3>1. q = r /\ Alone(r)
      BY <2>4, <2>14 DEF Unset, Idle
    <3>2. /\ env' = [env EXCEPT ![r][key] = None] /\ key \in {"home", "pwd", "tmp"}
          /\ UNCHANGED <<rt, fs, pc, call>>
      BY <2>1, <2>14, <3>1, RuntimeAssumption DEF Unset
    <3>3. env'[r].jail = env[r].jail /\ env'[r].pwd \in {env[r].pwd, None}
      BY <2>1, <3>2 DEF EnvType
    <3> QED
      BY <3>1, <3>2, <3>3 DEF Alone, Kept
  <2>15. CASE UNCHANGED vars
    <3>1. Alone(r) /\ UNCHANGED <<rt, env, fs, pc, call>>
      BY <2>3, <2>15 DEF vars
    <3> QED
      BY <3>1 DEF Alone, Kept
  <2> QED
    BY <2>2, <2>5, <2>6, <2>7, <2>8, <2>9, <2>10, <2>11, <2>12, <2>13, <2>14, <2>15 DEF Next
<1>3. Base /\ Inv => Coherent
  <2> SUFFICES ASSUME Base, Inv, NEW r \in live, live = {r}, pc[r] = "idle"
               PROVE  /\ rt[r].jail = fs.jail /\ Env(r).jail = fs.jail
                      /\ rt[r].wd = fs.wd /\ Env(r).pwd \in {fs.wd, None}
                      /\ Unusable(fs.wd) => Unusable(<<>>)
    BY DEF Coherent
  <2>1. Env(r) = env[r] /\ Alone(r)
    BY OwnEnv
  <2> QED
    BY <1>0, <2>1 DEF Alone, Kept
<1> HIDE DEF Inv
<1>4. Spec => []Base
  BY InitBase, NextBase, PTL DEF Spec
<1> QED
  BY <1>1, <1>2, <1>3, <1>4, PTL DEF Spec

=============================================================================
