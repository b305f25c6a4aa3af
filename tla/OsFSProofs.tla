------------------------------ MODULE OsFSProofs ------------------------------
(***************************************************************************)
(* Theorems about OsFS and HostTree, for every tree, every jail, any       *)
(* links, and any number of writers.                                       *)
(***************************************************************************)
EXTENDS OsFS, JailPathProofs

-----------------------------------------------------------------------------
(* Paths.                                                                  *)

\* The first component of a path, and what follows.
LEMMA HeadAndTail ==
  ASSUME NEW S, NEW p \in Seq(S), p # <<>>
  PROVE  /\ Head(p) \in S /\ Tail(p) \in Seq(S) /\ Len(p) \in Nat \ {0}
         /\ Len(Tail(p)) = Len(p) - 1
         /\ \A i \in 1..Len(p) - 1 : Tail(p)[i] = p[i + 1]
  OBVIOUS

\* The last component of a path, and what comes before it.
LEMMA FrontAndLast ==
  ASSUME NEW S, NEW p \in Seq(S), p # <<>>
  PROVE  /\ Front(p) \in Seq(S) /\ Last(p) \in S /\ Len(Front(p)) = Len(p) - 1
         /\ p = Append(Front(p), Last(p))
<1>1. Len(p) \in Nat \ {0} /\ \A i \in 1..Len(p) - 1 : p[i] \in S
  OBVIOUS
<1>2. /\ Front(p) \in Seq(S) /\ Len(Front(p)) = Len(p) - 1
      /\ \A i \in 1..Len(p) - 1 : Front(p)[i] = p[i]
  <2>1. PICK n \in Int : n = Len(p) - 1
    <3>1. Len(p) - 1 \in Int
      BY <1>1
    <3> QED
      BY <3>1, Zenon
  <2>2. /\ SubSeq(p, 1, n) \in Seq(S) /\ Len(SubSeq(p, 1, n)) = IF 1 <= n THEN n - 1 + 1 ELSE 0
        /\ \A i \in 1..n - 1 + 1 : SubSeq(p, 1, n)[i] = p[1 + i - 1]
    <3>1. 1 \in 1..Len(p) + 1 /\ n \in 0..Len(p)
      BY <1>1, <2>1
    <3> QED
      BY <1>1, <3>1, SubSeqProperties
  <2> QED
    BY <1>1, <2>1, <2>2 DEF Front
<1>3. Last(p) \in S
  BY <1>1 DEF Last
<1>4. p = Append(Front(p), Last(p))
  <2>1. /\ Append(Front(p), Last(p)) \in Seq(S) /\ Len(Append(Front(p), Last(p))) = Len(p)
        /\ \A i \in 1..Len(p) : Append(Front(p), Last(p))[i] = p[i]
    BY <1>1, <1>2, <1>3 DEF Last
  <2> QED
    BY <2>1, SeqEqual, Zenon
<1> QED
  BY <1>2, <1>3, <1>4

LEMMA EntryInDir ==
  ASSUME NEW S, NEW p \in Seq(S), NEW n \in S
  PROVE  /\ Append(p, n) \in Seq(S) /\ Append(p, n) # <<>>
         /\ Front(Append(p, n)) = p /\ Last(Append(p, n)) = n
  BY DEF Front, Last

LEMMA LastingIsPath == Lasting \subseteq Path
  BY OsFSAssumption, SeqMonotonic DEF Lasting, Path

LEMMA LastOfJoin ==
  ASSUME NEW S, NEW p \in Seq(S), NEW q \in Seq(S), q # <<>>
  PROVE  /\ p \o q \in Seq(S) /\ p \o q # <<>> /\ Last(p \o q) = Last(q)
  BY DEF Last

\* A prefix, component by component.
LEMMA PrefixByComponents ==
  ASSUME NEW S, NEW e \in Seq(S), NEW p \in Seq(S)
  PROVE  IsPrefix(e, p) <=> Len(e) <= Len(p) /\ \A i \in 1..Len(e) : e[i] = p[i]
<1>1. Len(e) \in Nat /\ Len(p) \in Nat
  OBVIOUS
<1>2. SubSeq(e, 1, Len(e)) = e
  BY SubSeqFull
<1>3. CASE Len(e) <= Len(p)
  <2>1. \A i \in 1..Len(e) : p[i] \in S
    BY <1>1, <1>3
  <2>2. /\ SubSeq(p, 1, Len(e)) \in Seq(S) /\ Len(SubSeq(p, 1, Len(e))) = Len(e)
        /\ \A i \in 1..Len(e) : SubSeq(p, 1, Len(e))[i] = p[i]
    <3>1. /\ SubSeq(p, 1, Len(e)) \in Seq(S)
          /\ Len(SubSeq(p, 1, Len(e))) = IF 1 <= Len(e) THEN Len(e) - 1 + 1 ELSE 0
          /\ \A i \in 1..Len(e) - 1 + 1 : SubSeq(p, 1, Len(e))[i] = p[1 + i - 1]
      BY <1>1, <2>1, SubSeqProperties
    <3> QED
      BY <1>1, <3>1
  <2>3. ASSUME \A i \in 1..Len(e) : e[i] = p[i] PROVE e = SubSeq(p, 1, Len(e))
    BY <2>2, <2>3, SeqEqual
  <2> QED
    BY <1>2, <1>3, <2>2, <2>3 DEF IsPrefix
<1> QED
  BY <1>3 DEF IsPrefix

LEMMA PrefixOfFront ==
  ASSUME NEW S, NEW e \in Seq(S), NEW p \in Seq(S)
  PROVE  /\ IsPrefix(p, p)
         /\ p # <<>> /\ IsPrefix(e, Front(p)) => IsPrefix(e, p) /\ e # p
         /\ IsPrefix(e, p) /\ e # p => p # <<>> /\ IsPrefix(e, Front(p))
<1>1. Len(e) \in Nat /\ Len(p) \in Nat
  OBVIOUS
<1>2. IsPrefix(p, p)
  BY PrefixByComponents
<1>3. ASSUME p # <<>>
      PROVE  /\ Front(p) \in Seq(S) /\ Len(Front(p)) = Len(p) - 1
             /\ \A i \in 1..Len(p) - 1 : Front(p)[i] = p[i]
  <2>1. \A i \in 1..Len(p) - 1 : Append(Front(p), Last(p))[i] = Front(p)[i]
    BY <1>1, <1>3, FrontAndLast
  <2> QED
    BY <1>3, <2>1, FrontAndLast
<1>4. ASSUME p # <<>>, IsPrefix(e, Front(p)) PROVE IsPrefix(e, p) /\ e # p
  <2>1. Len(e) <= Len(Front(p)) /\ \A i \in 1..Len(e) : e[i] = Front(p)[i]
    BY <1>3, <1>4, PrefixByComponents
  <2>2. Len(e) <= Len(p) /\ \A i \in 1..Len(e) : e[i] = p[i]
    BY <1>1, <1>3, <1>4, <2>1
  <2>3. IsPrefix(e, p)
    BY <2>2, PrefixByComponents
  <2> QED
    BY <1>1, <1>3, <1>4, <2>1, <2>3
<1>5. ASSUME IsPrefix(e, p), e # p PROVE p # <<>> /\ IsPrefix(e, Front(p))
  <2>1. Len(e) <= Len(p) /\ \A i \in 1..Len(e) : e[i] = p[i]
    BY <1>5, PrefixByComponents
  <2>2. Len(e) # Len(p)
    BY <1>5, <2>1, SeqEqual
  <2>3. p # <<>> /\ Len(e) <= Len(p) - 1
    BY <1>1, <2>1, <2>2
  <2>4. Len(e) <= Len(Front(p)) /\ \A i \in 1..Len(e) : e[i] = Front(p)[i]
    BY <1>1, <1>3, <2>1, <2>3
  <2> QED
    BY <1>3, <2>3, <2>4, PrefixByComponents
<1> QED
  BY <1>2, <1>4, <1>5

\* What follows a prefix.
After(e, p) == SubSeq(p, Len(e) + 1, Len(p))

LEMMA AfterPrefix ==
  ASSUME NEW S, NEW e \in Seq(S), NEW p \in Seq(S), IsPrefix(e, p)
  PROVE  After(e, p) \in Seq(S) /\ p = e \o After(e, p)
<1>1. Len(e) \in Nat /\ Len(p) \in Nat
  OBVIOUS
<1>2. Len(e) <= Len(p) /\ \A i \in 1..Len(e) : e[i] = p[i]
  BY PrefixByComponents
<1>3. PICK m \in Int, n \in Int : m = Len(e) + 1 /\ n = Len(p)
  BY <1>1
<1>4. \A i \in m..n : p[i] \in S
  BY <1>1, <1>2, <1>3
<1>5. /\ SubSeq(p, m, n) \in Seq(S) /\ Len(SubSeq(p, m, n)) = IF m <= n THEN n - m + 1 ELSE 0
      /\ \A i \in 1..n - m + 1 : SubSeq(p, m, n)[i] = p[m + i - 1]
  BY <1>4, SubSeqProperties
<1>6. /\ After(e, p) \in Seq(S) /\ Len(After(e, p)) = Len(p) - Len(e)
      /\ \A i \in 1..Len(p) - Len(e) : After(e, p)[i] = p[Len(e) + i]
  BY <1>1, <1>2, <1>3, <1>5 DEF After
<1>7. /\ e \o After(e, p) \in Seq(S) /\ Len(e \o After(e, p)) = Len(p)
      /\ \A i \in 1..Len(p) : (e \o After(e, p))[i] = p[i]
  <2>1. \A i \in 1..Len(p) : (e \o After(e, p))[i] =
          IF i <= Len(e) THEN e[i] ELSE After(e, p)[i - Len(e)]
    BY <1>1, <1>2, <1>6, ConcatProperties
  <2>2. ASSUME NEW i \in 1..Len(p), i > Len(e)
        PROVE  After(e, p)[i - Len(e)] = p[i]
    <3>1. i - Len(e) \in 1..Len(p) - Len(e) /\ Len(e) + (i - Len(e)) = i
      BY <1>1, <2>2
    <3> QED
      BY <1>6, <3>1
  <2>3. \A i \in 1..Len(p) : (e \o After(e, p))[i] = p[i]
    <3>1. ASSUME NEW i \in 1..Len(p), i <= Len(e) PROVE (e \o After(e, p))[i] = p[i]
      <4>1. i \in 1..Len(e)
        BY <1>1, <3>1
      <4>2. (e \o After(e, p))[i] = e[i]
        BY <2>1, <3>1
      <4>3. e[i] = p[i]
        BY <1>2, <4>1, Zenon
      <4> QED
        BY <4>2, <4>3
    <3>2. ASSUME NEW i \in 1..Len(p), i > Len(e) PROVE (e \o After(e, p))[i] = p[i]
      <4>1. ~(i <= Len(e))
        BY <1>1, <3>2
      <4>2. (e \o After(e, p))[i] = After(e, p)[i - Len(e)]
        BY <2>1, <4>1
      <4>3. After(e, p)[i - Len(e)] = p[i]
        BY <2>2, <3>2
      <4> QED
        BY <4>2, <4>3, Zenon
    <3>3. \A i \in 1..Len(p) : i <= Len(e) \/ i > Len(e)
      BY <1>1
    <3> QED
      BY <3>1, <3>2, <3>3
  <2>4. e \o After(e, p) \in Seq(S) /\ Len(e \o After(e, p)) = Len(e) + (Len(p) - Len(e))
    BY <1>6, ConcatProperties
  <2> QED
    BY <1>1, <2>3, <2>4
<1>8. e \o After(e, p) = p
  BY <1>7, SeqEqual
<1> QED
  BY <1>6, <1>8

LEMMA AfterJoin ==
  ASSUME NEW S, NEW e \in Seq(S), NEW r \in Seq(S)
  PROVE  /\ e \o r \in Seq(S) /\ IsPrefix(e, e \o r) /\ After(e, e \o r) = r
         /\ r = <<>> => e \o r = e
         /\ r # <<>> => /\ e \o r # <<>> /\ e \o r # e
                        /\ Front(e \o r) = e \o Front(r) /\ Last(e \o r) = Last(r)
<1>1. Len(e) \in Nat /\ Len(r) \in Nat
  OBVIOUS
<1>2. /\ e \o r \in Seq(S) /\ Len(e \o r) = Len(e) + Len(r)
      /\ \A i \in 1..Len(e) + Len(r) : (e \o r)[i] = IF i <= Len(e) THEN e[i] ELSE r[i - Len(e)]
  BY ConcatProperties
<1>3. IsPrefix(e, e \o r)
  <2>1. Len(e) <= Len(e \o r) /\ \A i \in 1..Len(e) : e[i] = (e \o r)[i]
    BY <1>1, <1>2
  <2>2. e \o r \in Seq(S)
    BY <1>2
  <2> HIDE DEF IsPrefix
  <2>3. PICK p \in Seq(S) : p = e \o r
    BY <2>2
  <2>4. Len(e) <= Len(p) /\ \A i \in 1..Len(e) : e[i] = p[i]
    BY <2>1, <2>3
  <2>5. IsPrefix(e, p)
    BY <2>4, PrefixByComponents
  <2> QED
    BY <2>3, <2>5
<1>4. After(e, e \o r) = r
  <2>1. After(e, e \o r) \in Seq(S) /\ e \o r = e \o After(e, e \o r)
    BY <1>2, <1>3, AfterPrefix
  <2> QED
    BY <2>1, ConcatSimplifications
<1>5. ASSUME r # <<>>
      PROVE  Front(e \o r) = e \o Front(r) /\ Last(e \o r) = Last(r)
  <2>1. /\ Front(r) \in Seq(S) /\ Last(r) \in S /\ r = Append(Front(r), Last(r))
    BY <1>5, FrontAndLast
  <2>2. e \o r = Append(e \o Front(r), Last(r))
    BY <2>1
  <2>3. PICK d \in Seq(S) : d = e \o Front(r)
    <3>1. e \o Front(r) \in Seq(S)
      BY <2>1, ConcatProperties
    <3> QED
      BY <3>1
  <2>4. PICK n \in S : n = Last(r)
    BY <2>1
  <2>5. Front(Append(d, n)) = d /\ Last(Append(d, n)) = n
    BY EntryInDir
  <2> QED
    BY <2>2, <2>3, <2>4, <2>5
<1>6. r = <<>> => e \o r = e
  OBVIOUS
<1>7. r # <<>> => e \o r # <<>> /\ e \o r # e
  BY <1>1, <1>2
<1> QED
  BY <1>2, <1>3, <1>4, <1>5, <1>6, <1>7

LEMMA JoinPaths ==
  \A e, r \in Path :
    /\ e \o r \in Path /\ IsPrefix(e, e \o r) /\ After(e, e \o r) = r
    /\ r = <<>> => e \o r = e
    /\ r # <<>> => /\ e \o r # <<>> /\ e \o r # e
                   /\ Front(e \o r) = e \o Front(r) /\ Last(e \o r) = Last(r)
<1> SUFFICES ASSUME NEW e \in Seq(Names), NEW r \in Seq(Names)
             PROVE  /\ e \o r \in Seq(Names) /\ IsPrefix(e, e \o r) /\ After(e, e \o r) = r
                    /\ r = <<>> => e \o r = e
                    /\ r # <<>> => /\ e \o r # <<>> /\ e \o r # e
                                   /\ Front(e \o r) = e \o Front(r) /\ Last(e \o r) = Last(r)
  BY Zenon DEF Path
<1>1. e \o r \in Seq(Names)
  BY AfterJoin
<1>2. IsPrefix(e, e \o r)
  BY AfterJoin
<1>3. After(e, e \o r) = r
  BY AfterJoin
<1>4. r = <<>> => e \o r = e
  BY AfterJoin
<1>5. r # <<>> => e \o r # <<>> /\ e \o r # e
  BY AfterJoin
<1>6. r # <<>> => Front(e \o r) = e \o Front(r) /\ Last(e \o r) = Last(r)
  BY AfterJoin
<1> QED
  BY <1>1, <1>2, <1>3, <1>4, <1>5, <1>6

LEMMA JoinMore ==
  ASSUME NEW e \in Path, NEW r \in Path, r # <<>>
  PROVE  /\ e \o r \in Path /\ e \o r # <<>> /\ Front(e \o r) = e \o Front(r)
         /\ Last(e \o r) = Last(r)
<1>0. e \in Seq(Names) /\ r \in Seq(Names)
  BY DEF Path
<1>1. e \o r \in Path
  BY JoinPaths, Zenon
<1>2. e \o r # <<>>
  BY <1>0, AfterJoin
<1>3. Front(e \o r) = e \o Front(r)
  BY <1>0, AfterJoin
<1>4. Last(e \o r) = Last(r)
  BY <1>0, AfterJoin
<1> QED
  BY <1>1, <1>2, <1>3, <1>4

-----------------------------------------------------------------------------
(* Trees.                                                                  *)

LEMMA NodeKinds ==
  ASSUME NEW x, IsNode(x)
  PROVE  /\ x.kind \in {"dir", "link", "file"}
         /\ x.kind = "dir" => x = DirNode
         /\ x.kind = "link" => x = LinkTo(x.to) /\ x.to \in Lasting
         /\ x.kind = "file" => /\ x = FileOf(x.data)
                               /\ x.data \in Seq({x.data[i] : i \in DOMAIN x.data})
<1> DEFINE Content == Seq({x.data[i] : i \in DOMAIN x.data})
<1>1. \/ x = DirNode
      \/ x.kind = "link" /\ x.to \in Lasting /\ x = LinkTo(x.to)
      \/ x.kind = "file" /\ x = FileOf(x.data) /\ x.data \in Content
  BY DEF IsNode
<1>2. x = DirNode => x.kind = "dir"
  BY DEF DirNode
<1> HIDE DEF Content
<1>3. /\ x.kind \in {"dir", "link", "file"}
      /\ x.kind = "dir" => x = DirNode
      /\ x.kind = "link" => x = LinkTo(x.to) /\ x.to \in Lasting
      /\ x.kind = "file" => x = FileOf(x.data) /\ x.data \in Content
  BY <1>1, <1>2
<1> QED
  BY <1>3 DEF Content

LEMMA LinksInTree ==
  ASSUME NEW t, IsTree(t), NEW q \in DOMAIN t, t[q].kind = "link"
  PROVE  t[q].to \in Lasting
  BY NodeKinds DEF IsTree

-----------------------------------------------------------------------------
(* Walk.                                                                   *)

\* What the definition of Walk says of its function f.
Follows(t, f) ==
  f = [s \in Way |->
        IF s.rest = <<>> THEN s.at
        ELSE LET q    == Append(s.at, Head(s.rest))
                 more == Tail(s.rest)
             IN  CASE q \notin DOMAIN t -> IF more = <<>> THEN q ELSE Missing
                   [] IsLink(t, q) -> IF s.links = 0 THEN NotDir
                                      ELSE f[[at    |-> <<>>, rest |-> t[q].to \o more,
                                              links |-> s.links - 1]]
                   [] IsFile(t, q) -> IF more = <<>> THEN q ELSE NotDir
                   [] OTHER        -> f[[at |-> q, rest |-> more, links |-> s.links]]]

\* Walk as a loop: where it is after one more component, whether it goes on
\* from there and how, or what it has found.
Reached(s) == Append(s.at, Head(s.rest))

GoesOn(t, s) ==
  /\ s.rest # <<>> /\ Reached(s) \in DOMAIN t /\ ~IsFile(t, Reached(s))
  /\ IsLink(t, Reached(s)) => s.links # 0

Onward(t, s) ==
  IF IsLink(t, Reached(s))
  THEN [at |-> <<>>, rest |-> t[Reached(s)].to \o Tail(s.rest), links |-> s.links - 1]
  ELSE [at |-> Reached(s), rest |-> Tail(s.rest), links |-> s.links]

Arrival(t, s) ==
  IF s.rest = <<>> THEN s.at
  ELSE IF IsLink(t, Reached(s)) THEN NotDir
  ELSE IF Tail(s.rest) = <<>> THEN Reached(s)
  ELSE IF Reached(s) \in DOMAIN t THEN NotDir ELSE Missing

Start(p) == [at |-> <<>>, rest |-> p, links |-> MaxLinks]

Found == Path \cup {Missing, NotDir}

LEMMA StepInWay ==
  ASSUME NEW t, IsTree(t), NEW s \in Way
  PROVE  /\ s.rest # <<>> => Reached(s) \in Path
         /\ GoesOn(t, s) => Onward(t, s) \in Way
         /\ ~GoesOn(t, s) => Arrival(t, s) \in Found
<1>1. s.at \in Path /\ s.rest \in Path /\ s.links \in 0..MaxLinks /\ MaxLinks \in Nat
  BY HostAssumption DEF Way
<1>2. ASSUME s.rest # <<>> PROVE Reached(s) \in Path /\ Tail(s.rest) \in Path
  BY <1>1, <1>2, HeadAndTail DEF Reached, Path
<1>3. ASSUME GoesOn(t, s) PROVE Onward(t, s) \in Way
  <2>1. CASE IsLink(t, Reached(s))
    <3>1. t[Reached(s)].to \in Path
      BY <2>1, LinksInTree, LastingIsPath DEF IsLink
    <3>2. t[Reached(s)].to \o Tail(s.rest) \in Path /\ <<>> \in Path
      BY <1>2, <1>3, <3>1 DEF GoesOn, Path
    <3> QED
      BY <1>1, <1>3, <2>1, <3>2 DEF GoesOn, Onward, Way
  <2>2. CASE ~IsLink(t, Reached(s))
    BY <1>1, <1>2, <1>3, <2>2 DEF GoesOn, Onward, Way
  <2> QED
    BY <2>1, <2>2
<1> QED
  BY <1>1, <1>2, <1>3 DEF Arrival, Found

LEMMA FollowsAsLoop ==
  ASSUME NEW t, IsTree(t), NEW f
  PROVE  Follows(t, f) <=>
           f = [s \in Way |-> IF GoesOn(t, s) THEN f[Onward(t, s)] ELSE Arrival(t, s)]
<1> DEFINE Body(s) == 
        IF s.rest = <<>> THEN s.at
        ELSE LET q    == Append(s.at, Head(s.rest))
                 more == Tail(s.rest)
             IN  CASE q \notin DOMAIN t -> IF more = <<>> THEN q ELSE Missing
                   [] IsLink(t, q) -> IF s.links = 0 THEN NotDir
                                      ELSE f[[at    |-> <<>>, rest |-> t[q].to \o more,
                                              links |-> s.links - 1]]
                   [] IsFile(t, q) -> IF more = <<>> THEN q ELSE NotDir
                   [] OTHER        -> f[[at |-> q, rest |-> more, links |-> s.links]]
<1>1. ASSUME NEW s \in Way
      PROVE  Body(s) = IF GoesOn(t, s) THEN f[Onward(t, s)] ELSE Arrival(t, s)
  <2>1. CASE s.rest = <<>>
    BY <2>1 DEF GoesOn, Arrival
  <2>2. CASE s.rest # <<>> /\ Reached(s) \notin DOMAIN t
    BY <2>2 DEF GoesOn, Arrival, Reached, IsLink, IsFile
  <2>3. CASE s.rest # <<>> /\ IsLink(t, Reached(s))
    BY <2>3 DEF GoesOn, Arrival, Onward, Reached, IsLink, IsFile
  <2>4. CASE s.rest # <<>> /\ IsFile(t, Reached(s))
    BY <2>4 DEF GoesOn, Arrival, Onward, Reached, IsLink, IsFile
  <2>5. CASE /\ s.rest # <<>> /\ Reached(s) \in DOMAIN t
             /\ ~IsFile(t, Reached(s)) /\ ~IsLink(t, Reached(s))
    BY <2>5 DEF GoesOn, Arrival, Onward, Reached
  <2> QED
    BY <2>1, <2>2, <2>3, <2>4, <2>5 DEF IsLink, IsFile
<1>2. Follows(t, f) <=> f = [s \in Way |-> Body(s)]
  BY Zenon DEF Follows
<1> HIDE DEF Body
<1> QED
  BY <1>1, <1>2, Zenon

(***************************************************************************)
(* The function exists: a position has the answers that are in every set   *)
(* of pairs closed under the loop, and one that goes on has those of the   *)
(* position it goes on to.                                                 *)
(***************************************************************************)
LEMMA WalkIsDefined ==
  ASSUME NEW t, IsTree(t)
  PROVE  \E f : Follows(t, f)
<1> DEFINE Pairs == Way \X Found
           Closed(R) ==
             \A s \in Way, v \in Found :
               /\ ~GoesOn(t, s) /\ v = Arrival(t, s) => <<s, v>> \in R
               /\ GoesOn(t, s) /\ <<Onward(t, s), v>> \in R => <<s, v>> \in R
           Least == {x \in Pairs : \A R \in SUBSET Pairs : Closed(R) => x \in R}
           Answers(s) == {v \in Found : <<s, v>> \in Least}
           f == [s \in Way |-> IF GoesOn(t, s) THEN CHOOSE v : v \in Answers(s)
                                               ELSE Arrival(t, s)]
<1>1. Closed(Least)
  <2>1. ASSUME NEW s \in Way, NEW v \in Found, ~GoesOn(t, s), v = Arrival(t, s)
        PROVE  <<s, v>> \in Least
    <3>1. \A R \in SUBSET Pairs : Closed(R) => <<s, v>> \in R
      BY <2>1
    <3>2. <<s, v>> \in Pairs
      OBVIOUS
    <3> QED
      BY <3>1, <3>2, Zenon
  <2>2. ASSUME NEW s \in Way, NEW v \in Found, GoesOn(t, s), <<Onward(t, s), v>> \in Least
        PROVE  <<s, v>> \in Least
    <3>1. \A R \in SUBSET Pairs : Closed(R) => <<Onward(t, s), v>> \in R
      BY <2>2, Zenon
    <3>2. \A R \in SUBSET Pairs : Closed(R) => <<s, v>> \in R
      BY <2>2, <3>1
    <3>3. <<s, v>> \in Pairs
      OBVIOUS
    <3> QED
      BY <3>2, <3>3, Zenon
  <2> QED
    BY <2>1, <2>2
<1>2. ASSUME NEW s \in Way, GoesOn(t, s)
      PROVE  Answers(s) = Answers(Onward(t, s))
  <2>1. ASSUME NEW v \in Found, <<s, v>> \in Least, <<Onward(t, s), v>> \notin Least
        PROVE  FALSE
    <3> DEFINE Rest == Least \ {<<s, v>>}
    <3>1. Closed(Rest)
      <4>1. ASSUME NEW a \in Way, NEW b \in Found, ~GoesOn(t, a), b = Arrival(t, a)
            PROVE  <<a, b>> \in Rest
        <5>1. <<a, b>> \in Least
          BY <1>1, <4>1
        <5>2. a # s
          BY <1>2, <4>1
        <5> HIDE DEF Least
        <5> QED
          BY <5>1, <5>2
      <4>2. ASSUME NEW a \in Way, NEW b \in Found, GoesOn(t, a), <<Onward(t, a), b>> \in Rest
            PROVE  <<a, b>> \in Rest
        <5>1. <<Onward(t, a), b>> \in Least
          BY <4>2
        <5>2. <<a, b>> \in Least
          BY <1>1, <4>2, <5>1
        <5> HIDE DEF Least
        <5>3. ~(a = s /\ b = v)
          BY <2>1, <5>1
        <5> QED
          BY <5>2, <5>3
      <4> QED
        BY <4>1, <4>2
    <3>2. Rest \in SUBSET Pairs
      OBVIOUS
    <3>3. <<s, v>> \in Rest
      <4> HIDE DEF Rest, Closed, Pairs
      <4> QED
        BY <2>1, <3>1, <3>2
    <3> QED
      BY <3>3
  <2>2. ASSUME NEW v \in Found, <<Onward(t, s), v>> \in Least
        PROVE  <<s, v>> \in Least
    BY <1>1, <1>2, <2>2
  <2> HIDE DEF Least
  <2> QED
    BY <2>1, <2>2
<1>3. ASSUME NEW s \in Way, ~GoesOn(t, s)
      PROVE  Answers(s) = {Arrival(t, s)}
  <2>1. Arrival(t, s) \in Found
    BY <1>3, StepInWay
  <2>2. Arrival(t, s) \in Answers(s)
    BY <1>1, <1>3, <2>1
  <2>3. ASSUME NEW v \in Answers(s), v # Arrival(t, s)
        PROVE  FALSE
    <3> DEFINE Rest == Least \ {<<s, v>>}
    <3>0. v \in Found /\ <<s, v>> \in Least
      BY <2>3
    <3>1. Closed(Rest)
      <4>1. ASSUME NEW a \in Way, NEW b \in Found, ~GoesOn(t, a), b = Arrival(t, a)
            PROVE  <<a, b>> \in Rest
        <5>1. <<a, b>> \in Least
          BY <1>1, <4>1
        <5>2. ~(a = s /\ b = v)
          BY <2>3, <4>1
        <5> HIDE DEF Least
        <5> QED
          BY <5>1, <5>2
      <4>2. ASSUME NEW a \in Way, NEW b \in Found, GoesOn(t, a), <<Onward(t, a), b>> \in Rest
            PROVE  <<a, b>> \in Rest
        <5>1. <<Onward(t, a), b>> \in Least
          BY <4>2
        <5>2. <<a, b>> \in Least
          BY <1>1, <4>2, <5>1
        <5> HIDE DEF Least
        <5>3. a # s
          BY <1>3, <4>2
        <5> QED
          BY <5>2, <5>3
      <4> QED
        BY <4>1, <4>2
    <3>2. Rest \in SUBSET Pairs
      OBVIOUS
    <3>3. <<s, v>> \in Rest
      <4> HIDE DEF Rest, Closed, Pairs
      <4> QED
        BY <3>0, <3>1, <3>2
    <3> QED
      BY <3>3
  <2> HIDE DEF Answers
  <2> QED
    BY <2>2, <2>3
<1>4. \A s \in Way : ~GoesOn(t, s) => Arrival(t, s) = CHOOSE v : v \in Answers(s)
  <2> HIDE DEF Answers
  <2> QED
    BY <1>3
<1>5. \A s \in Way : f[s] = CHOOSE v : v \in Answers(s)
  <2> HIDE DEF Answers
  <2> QED
    BY <1>4
<1>6. \A s \in Way : GoesOn(t, s) => f[s] = f[Onward(t, s)]
  <2>1. \A s \in Way : GoesOn(t, s) => Onward(t, s) \in Way
    BY StepInWay
  <2> HIDE DEF Answers, f
  <2> QED
    BY <1>2, <1>5, <2>1
<1>7. f = [s \in Way |-> IF GoesOn(t, s) THEN f[Onward(t, s)] ELSE Arrival(t, s)]
  <2>1. \A s \in Way : f[s] = IF GoesOn(t, s) THEN f[Onward(t, s)] ELSE Arrival(t, s)
    <3>1. \A s \in Way : ~GoesOn(t, s) => f[s] = Arrival(t, s)
      BY Zenon
    <3> HIDE DEF f
    <3> QED
      BY <1>6, <3>1
  <2>2. f = [s \in Way |-> f[s]]
    OBVIOUS
  <2> HIDE DEF f
  <2> QED
    BY <2>1, <2>2
<1> HIDE DEF f
<1> QED
  BY <1>7, FollowsAsLoop

\* What Walk does on t, as a loop.
Loop(t, f) ==
  /\ \A s \in Way : f[s] = IF GoesOn(t, s) THEN f[Onward(t, s)] ELSE Arrival(t, s)
  /\ \A p \in Path : Walk(t, p) = f[Start(p)]

LEMMA WalkIsLoop ==
  ASSUME NEW t, IsTree(t)
  PROVE  \E f : Loop(t, f)
<1>1. PICK f : Follows(t, f) /\ \A p : p # Failed => Walk(t, p) = f[Start(p)]
  <2>1. \E f : Follows(t, f)
    BY WalkIsDefined
  <2>2. PICK g : g = CHOOSE f : Follows(t, f)
    OBVIOUS
  <2>3. Follows(t, g)
    BY <2>1, <2>2
  <2>4. \A p : p # Failed => Walk(t, p) = g[Start(p)]
    BY <2>2, Zenon DEF Walk, Follows, Start
  <2> QED
    BY <2>3, <2>4
<1>2. f = [s \in Way |-> IF GoesOn(t, s) THEN f[Onward(t, s)] ELSE Arrival(t, s)]
  BY <1>1, FollowsAsLoop
<1>3. \A s \in Way : f[s] = IF GoesOn(t, s) THEN f[Onward(t, s)] ELSE Arrival(t, s)
  <2> DEFINE Body(s) == IF GoesOn(t, s) THEN f[Onward(t, s)] ELSE Arrival(t, s)
  <2>1. f = [s \in Way |-> Body(s)]
    BY <1>2
  <2> HIDE DEF Body
  <2>2. \A s \in Way : f[s] = Body(s)
    BY <2>1
  <2> QED
    BY <2>2 DEF Body
<1>4. \A p \in Path : p # Failed
  BY HostAssumption
<1> QED
  BY <1>1, <1>3, <1>4 DEF Loop

\* Walk comes to an end: a link takes one off the links left, another component
\* one off those ahead.
LEMMA WalkEnds ==
  ASSUME NEW t, IsTree(t), NEW T \in SUBSET Way, T # {}
  PROVE  \E s \in T : ~GoesOn(t, s) \/ Onward(t, s) \notin T
<1> SUFFICES ASSUME \A s \in T : GoesOn(t, s) /\ Onward(t, s) \in T PROVE FALSE
  OBVIOUS
<1>1. \A s \in T : s.links \in Nat /\ s.rest \in Path /\ Len(s.rest) \in Nat
  BY HostAssumption DEF Way, Path
<1>2. PICK a \in T : \A s \in T : a.links <= s.links
  <2> DEFINE L == {s.links : s \in T}
  <2>1. L \in SUBSET Nat /\ L # {}
    BY <1>1
  <2>2. PICK n \in L : \A m \in L : n <= m
    <3> HIDE DEF L
    <3> QED
      BY <2>1, LeastNatural
  <2> QED
    BY <2>2
<1>3. PICK b \in T : /\ b.links = a.links
                     /\ \A s \in T : s.links = a.links => Len(b.rest) <= Len(s.rest)
  <2> DEFINE L == {Len(s.rest) : s \in {s \in T : s.links = a.links}}
  <2>1. L \in SUBSET Nat /\ L # {}
    BY <1>1, <1>2
  <2>2. PICK n \in L : \A m \in L : n <= m
    <3> HIDE DEF L
    <3> QED
      BY <2>1, LeastNatural
  <2> QED
    BY <2>2
<1>4. GoesOn(t, b) /\ Onward(t, b) \in T
  BY <1>3
<1>5. CASE IsLink(t, Reached(b))
  <2>1. Onward(t, b).links = a.links - 1
    BY <1>3, <1>5 DEF Onward
  <2> QED
    BY <1>1, <1>2, <1>4, <2>1
<1>6. CASE ~IsLink(t, Reached(b))
  <2>1. Onward(t, b).links = a.links /\ Onward(t, b).rest = Tail(b.rest)
    BY <1>3, <1>6 DEF Onward
  <2>2. Len(Tail(b.rest)) = Len(b.rest) - 1
    BY <1>1, <1>4, HeadAndTail DEF GoesOn, Path
  <2>3. Len(b.rest) <= Len(Onward(t, b).rest)
    BY <1>3, <1>4, <2>1
  <2>4. Len(b.rest) \in Nat
    BY <1>1
  <2> QED
    BY <2>1, <2>2, <2>3, <2>4
<1> QED
  BY <1>5, <1>6

\* What is found is there and is no link, or could be made; it is no temporary
\* file.
Good(t, q) ==
  /\ q \in Lasting
  /\ q \in DOMAIN t => ~IsLink(t, q)
  /\ q \notin DOMAIN t => q # <<>> /\ IsDir(t, Front(q))

LEMMA WalkArrives ==
  ASSUME NEW t, IsTree(t), NEW p \in Lasting
  PROVE  Walk(t, p) \in {Missing, NotDir} \/ Good(t, Walk(t, p))
<1>1. PICK f : Loop(t, f)
  BY WalkIsLoop
<1> DEFINE Fine(s) == s.at \in Lasting /\ s.rest \in Lasting /\ IsDir(t, s.at)
           Right(v) == v \in {Missing, NotDir} \/ Good(t, v)
           Wrong == {s \in Way : Fine(s) /\ ~Right(f[s])}
<1>2. ASSUME NEW s \in Way, Fine(s), s.rest # <<>>
      PROVE  /\ Reached(s) \in Lasting /\ Tail(s.rest) \in Lasting
             /\ Reached(s) # <<>> /\ Front(Reached(s)) = s.at
  <2>1. Head(s.rest) \in Names \ Writers /\ Tail(s.rest) \in Lasting
    BY <1>2, HeadAndTail DEF Lasting
  <2>2. s.at \in Seq(Names \ Writers)
    BY <1>2 DEF Lasting
  <2> QED
    BY <2>1, <2>2, EntryInDir DEF Lasting, Reached
<1>3. ASSUME NEW s \in Way, Fine(s), GoesOn(t, s) PROVE Fine(Onward(t, s))
  <2>1. s.rest # <<>> /\ Reached(s) \in DOMAIN t /\ IsNode(t[Reached(s)])
    BY <1>3 DEF GoesOn, IsTree
  <2>2. CASE IsLink(t, Reached(s))
    <3>1. t[Reached(s)].to \in Lasting /\ IsDir(t, <<>>) /\ <<>> \in Lasting
      BY <2>2, LinksInTree DEF IsLink, IsTree, Lasting
    <3>2. t[Reached(s)].to \o Tail(s.rest) \in Lasting
      BY <1>2, <1>3, <2>1, <3>1 DEF Lasting
    <3> QED
      BY <2>2, <3>1, <3>2 DEF Onward
  <2>3. CASE ~IsLink(t, Reached(s))
    <3>1. IsDir(t, Reached(s))
      BY <1>3, <2>1, <2>3, NodeKinds DEF GoesOn, IsDir, IsLink, IsFile
    <3> QED
      BY <1>2, <1>3, <2>1, <2>3, <3>1 DEF Onward
  <2> QED
    BY <2>2, <2>3
<1>4. ASSUME NEW s \in Way, Fine(s), ~GoesOn(t, s) PROVE Right(Arrival(t, s))
  <2>1. CASE s.rest = <<>>
    BY <1>4, <2>1 DEF Arrival, Good, IsDir, IsLink
  <2>2. CASE s.rest # <<>> /\ Arrival(t, s) \notin {Missing, NotDir}
    <3>1. Arrival(t, s) = Reached(s) /\ ~IsLink(t, Reached(s))
      BY <2>2 DEF Arrival
    <3> QED
      BY <1>2, <1>4, <2>2, <3>1 DEF Good
  <2> QED
    BY <2>1, <2>2
<1>5. Wrong = {}
  <2> SUFFICES ASSUME Wrong # {} PROVE FALSE
    OBVIOUS
  <2>1. PICK s \in Wrong : ~GoesOn(t, s) \/ Onward(t, s) \notin Wrong
    <3>1. Wrong \in SUBSET Way
      OBVIOUS
    <3> HIDE DEF Wrong
    <3> QED
      BY <3>1, WalkEnds
  <2>2. f[s] = IF GoesOn(t, s) THEN f[Onward(t, s)] ELSE Arrival(t, s)
    BY <1>1, <2>1 DEF Loop
  <2>3. CASE ~GoesOn(t, s)
    <3> HIDE DEF Right, Fine
    <3> QED
      BY <1>4, <2>1, <2>2, <2>3
  <2>4. CASE GoesOn(t, s)
    <3>1. Onward(t, s) \in Way
      BY <2>1, <2>4, StepInWay
    <3> HIDE DEF Right, Fine
    <3> QED
      BY <1>3, <2>1, <2>2, <2>4, <3>1
  <2> QED
    BY <2>3, <2>4
<1>6. Start(p) \in Way /\ Fine(Start(p)) /\ p \in Path
  <2>1. p \in Path /\ <<>> \in Path /\ <<>> \in Lasting /\ MaxLinks \in 0..MaxLinks
    BY LastingIsPath, HostAssumption DEF Path, Lasting
  <2> QED
    BY <2>1 DEF Start, Way, IsTree
<1>7. Walk(t, p) = f[Start(p)]
  BY <1>1, <1>6 DEF Loop
<1> HIDE DEF Right, Fine
<1>8. Right(f[Start(p)])
  BY <1>5, <1>6
<1> QED
  BY <1>7, <1>8 DEF Right

-----------------------------------------------------------------------------
(* What the operations do to a tree.                                       *)

\* A path of the tree has its parent in the tree, which is another path.
LEMMA ParentThere ==
  ASSUME NEW t, IsTree(t), NEW p \in DOMAIN t, p # <<>>
  PROVE  /\ p \in Path /\ Front(p) \in Path /\ Front(p) # p
         /\ Front(p) \in DOMAIN t /\ IsDir(t, Front(p)) /\ Len(Front(p)) = Len(p) - 1
<1>1. p \in Path /\ IsDir(t, Front(p))
  BY DEF IsTree
<1>2. Front(p) \in Path /\ Len(Front(p)) = Len(p) - 1 /\ Len(p) \in Nat
  BY <1>1, FrontAndLast DEF Path
<1> QED
  BY <1>1, <1>2 DEF IsDir

\* What is on the way to something that is there is a directory.
LEMMA AncestorsAreDirs ==
  ASSUME NEW t, IsTree(t), NEW e \in Path, NEW q \in DOMAIN t, IsPrefix(e, q), e # q
  PROVE  IsDir(t, e)
<1> SUFFICES ASSUME ~IsDir(t, e) PROVE FALSE
  OBVIOUS
<1> DEFINE Below == {x \in DOMAIN t : IsPrefix(e, x) /\ e # x}
           Lens == {Len(x) : x \in Below}
<1>1. \A x \in Below : x \in Path /\ Len(x) \in Nat
  BY DEF IsTree, Path
<1>2. PICK x \in Below : \A y \in Below : Len(x) <= Len(y)
  <2>1. Lens \in SUBSET Nat /\ Lens # {}
    BY <1>1
  <2>2. PICK n \in Lens : \A m \in Lens : n <= m
    <3> HIDE DEF Lens
    <3> QED
      BY <2>1, LeastNatural
  <2> QED
    BY <2>2
<1>3. x # <<>> /\ IsPrefix(e, Front(x))
  BY <1>1, <1>2, PrefixOfFront DEF Path
<1>4. Front(x) \in DOMAIN t /\ IsDir(t, Front(x)) /\ Len(Front(x)) = Len(x) - 1
  BY <1>2, <1>3, ParentThere
<1>5. Front(x) \in Below
  BY <1>3, <1>4
<1> QED
  BY <1>1, <1>2, <1>4, <1>5

LEMMA NothingBelow ==
  ASSUME NEW t, IsTree(t), NEW e \in DOMAIN t, ~IsDir(t, e)
  PROVE  Under(t, e) = {e}
<1>1. e \in Path
  BY DEF IsTree
<1>2. IsPrefix(e, e)
  BY <1>1, PrefixOfFront DEF Path
<1>3. \A q \in DOMAIN t : IsPrefix(e, q) => q = e
  BY <1>1, AncestorsAreDirs
<1> QED
  BY <1>2, <1>3 DEF Under

\* A place where something may be made or replaced.
Slot(t, e) == /\ e \in Path /\ e # <<>> /\ IsDir(t, Front(e)) /\ ~IsDir(t, e)

LEMMA PutTree ==
  ASSUME NEW t, IsTree(t), NEW e, Slot(t, e), NEW node, IsNode(node),
         NEW u, u = Put(t, e, node)
  PROVE  /\ IsTree(u) /\ u[e] = node
         /\ \A p : p \in DOMAIN u <=> (p \in DOMAIN t \/ p = e)
         /\ \A p \in DOMAIN t : p # e => u[p] = t[p]
<1>1. /\ DOMAIN u = DOMAIN t \cup {e} /\ u[e] = node
      /\ \A p \in DOMAIN t : p # e => u[p] = t[p]
  BY DEF Put
<1>2. Front(e) # e /\ \A d : IsDir(t, d) => d # e
  <2>1. Len(Front(e)) = Len(e) - 1 /\ Len(e) \in Nat
    BY FrontAndLast DEF Slot, Path
  <2> QED
    BY <2>1 DEF Slot
<1>3. \A d : IsDir(t, d) => IsDir(u, d)
  BY <1>1, <1>2 DEF IsDir
<1>4. \A p \in DOMAIN u : p \in Path /\ IsNode(u[p])
  BY <1>1 DEF IsTree, Slot
<1>5. \A p \in DOMAIN u : p # <<>> => IsDir(u, Front(p))
  BY <1>1, <1>3 DEF IsTree, Slot
<1>6. IsTree(u)
  BY <1>3, <1>4, <1>5 DEF IsTree
<1> QED
  BY <1>1, <1>6

LEMMA WithoutTree ==
  ASSUME NEW t, IsTree(t), NEW S, <<>> \notin S,
         \A p \in DOMAIN t \ S : p # <<>> => Front(p) \notin S,
         NEW u, u = Without(t, S)
  PROVE  /\ IsTree(u)
         /\ \A p : p \in DOMAIN u <=> (p \in DOMAIN t /\ p \notin S)
         /\ \A p \in DOMAIN t \ S : u[p] = t[p]
<1>1. DOMAIN u = DOMAIN t \ S /\ \A p \in DOMAIN t \ S : u[p] = t[p]
  BY DEF Without
<1>2. \A d : IsDir(t, d) /\ d \notin S => IsDir(u, d)
  BY <1>1 DEF IsDir
<1>3. IsTree(u)
  BY <1>1, <1>2 DEF IsTree
<1> QED
  BY <1>1, <1>3

\* What is under e can be taken away together.
LEMMA UnderIsClosed ==
  ASSUME NEW t, IsTree(t), NEW e \in Path, e # <<>>
  PROVE  /\ <<>> \notin Under(t, e)
         /\ \A p \in DOMAIN t \ Under(t, e) : p # <<>> => Front(p) \notin Under(t, e)
<1>1. ~IsPrefix(e, <<>>)
  <2>1. <<>> \in Path
    BY DEF Path
  <2> QED
    BY <2>1, PrefixOfFront DEF Path
<1>2. ASSUME NEW p \in DOMAIN t, p # <<>>, Front(p) \in Under(t, e)
      PROVE  p \in Under(t, e)
  <2>1. p \in Path
    BY DEF IsTree
  <2>2. IsPrefix(e, Front(p))
    BY <1>2 DEF Under
  <2>3. IsPrefix(e, p)
    BY <1>2, <2>1, <2>2, PrefixOfFront DEF Path
  <2> QED
    BY <2>3 DEF Under
<1> QED
  BY <1>1, <1>2 DEF Under

\* Moving what is no directory.
LEMMA MoveOne ==
  ASSUME NEW t, IsTree(t), NEW o, o \in DOMAIN t, ~IsDir(t, o), NEW n, Slot(t, n),
         NEW u, u = Move(t, o, n)
  PROVE  /\ IsTree(u) /\ u[n] = t[o]
         /\ \A p : p \in DOMAIN u <=> ((p \in DOMAIN t /\ p # o) \/ p = n)
         /\ \A p \in DOMAIN t \ {o, n} : u[p] = t[p]
<1>1. o \in Path /\ o # <<>> /\ n \in Path /\ Under(t, o) = {o} /\ IsNode(t[o])
  BY NothingBelow DEF IsTree, Slot
<1>2. \A x \in Path : x \o After(o, o) = x
  <2>1. IsPrefix(o, o)
    BY <1>1, PrefixOfFront DEF Path
  <2>2. After(o, o) = <<>>
    BY <1>1 DEF After, Path
  <2> QED
    BY <2>2 DEF Path
<1>3. o \o After(n, n) = o
  <2>1. After(n, n) = <<>>
    BY <1>1 DEF After, Path
  <2> QED
    BY <1>1, <2>1 DEF Path
<1> DEFINE rest == DOMAIN t \ {o, n}
           To(q) == n \o After(o, q)
           From(q) == o \o After(n, q)
<1>4. DOMAIN Without(t, Under(t, o) \cup {n}) = rest
      /\ \A q \in rest : Without(t, Under(t, o) \cup {n})[q] = t[q]
  BY <1>1 DEF Without
<1>5. u = [q \in rest \cup {To(m) : m \in Under(t, o)} |->
             IF q \in rest THEN t[q] ELSE t[From(q)]]
  <2>1. u = [q \in DOMAIN Without(t, Under(t, o) \cup {n}) \cup {To(m) : m \in Under(t, o)} |->
              IF q \in DOMAIN Without(t, Under(t, o) \cup {n})
              THEN Without(t, Under(t, o) \cup {n})[q] ELSE t[From(q)]]
    BY Zenon DEF Move, After
  <2> QED
    BY <1>4, <2>1
<1>6. {To(m) : m \in Under(t, o)} = {n}
  BY <1>1, <1>2
<1>7. /\ DOMAIN u = (DOMAIN t \ {o}) \cup {n}
      /\ u[n] = t[o] /\ \A p \in rest : u[p] = t[p]
  <2>1. DOMAIN u = rest \cup {n}
    BY <1>5, <1>6
  <2>2. rest \cup {n} = (DOMAIN t \ {o}) \cup {n}
    OBVIOUS
  <2>3. u[n] = t[From(n)]
    BY <1>5, <1>6
  <2>4. \A p \in rest : u[p] = t[p]
    BY <1>5
  <2> QED
    BY <1>3, <2>1, <2>2, <2>3, <2>4
<1>8. \A d : IsDir(t, d) => IsDir(u, d)
  <2>1. ASSUME NEW d, IsDir(t, d) PROVE d \in rest
    BY <2>1 DEF IsDir, Slot
  <2> QED
    BY <1>7, <2>1 DEF IsDir
<1>9. IsTree(u)
  <2>1. IsDir(u, <<>>)
    BY <1>8 DEF IsTree
  <2>2. \A p \in DOMAIN u : p \in Path /\ IsNode(u[p])
    BY <1>1, <1>7 DEF IsTree
  <2>3. \A p \in DOMAIN u : p # <<>> => IsDir(u, Front(p))
    BY <1>7, <1>8 DEF IsTree, Slot
  <2> QED
    BY <2>1, <2>2, <2>3 DEF IsTree
<1> QED
  BY <1>7, <1>9

\* Moving a directory with what is in it: what was m is p now.
LEMMA MoveAll ==
  ASSUME NEW t, IsTree(t), NEW o, o # <<>>, IsDir(t, o), NEW n, Slot(t, n),
         n \notin DOMAIN t, ~IsPrefix(o, n), NEW u, u = Move(t, o, n)
  PROVE  /\ IsTree(u) /\ o \notin DOMAIN u
         /\ \A p \in DOMAIN t \ Under(t, o) : p \in DOMAIN u /\ u[p] = t[p]
         /\ \A p \in DOMAIN u \ (DOMAIN t \ Under(t, o)) :
              \E m \in Under(t, o) : /\ u[p] = t[m] /\ p # <<>> /\ m # <<>>
                                     /\ m = o => p = n
                                     /\ m # o => Last(p) = Last(m)
<1> DEFINE To(q) == n \o After(o, q)
           From(q) == o \o After(n, q)
           rest == DOMAIN t \ Under(t, o)
<1>1. o \in Path /\ n \in Path /\ n # <<>> /\ o \in DOMAIN t
  BY DEF IsTree, Slot, IsDir
<1>2. \A q \in DOMAIN t : q \in Path /\ ~IsPrefix(n, q)
  <2>1. ASSUME NEW q \in DOMAIN t, IsPrefix(n, q) PROVE FALSE
    <3>1. n # q
      OBVIOUS
    <3>2. IsDir(t, n)
      BY <1>1, <2>1, <3>1, AncestorsAreDirs
    <3> QED
      BY <3>2 DEF IsDir
  <2> QED
    BY <2>1 DEF IsTree
<1>3. ASSUME NEW m \in Under(t, o)
      PROVE  /\ m \in DOMAIN t /\ m \in Path /\ m # <<>> /\ After(o, m) \in Path
             /\ m = o \o After(o, m) /\ To(m) \in Path /\ IsPrefix(n, To(m))
             /\ From(To(m)) = m /\ To(m) # <<>>
             /\ m = o => To(m) = n
             /\ m # o => /\ Last(To(m)) = Last(m)
                         /\ Front(m) \in Under(t, o) /\ Front(To(m)) = To(Front(m))
                         /\ IsDir(t, Front(m))
  <2>1. m \in DOMAIN t /\ m \in Path /\ IsPrefix(o, m) /\ m # <<>>
    <3>1. m \in DOMAIN t /\ IsPrefix(o, m) /\ m \in Path
      BY <1>2 DEF Under
    <3> QED
      BY <1>1, <3>1, UnderIsClosed
  <2>2. PICK r \in Path : r = After(o, m) /\ m = o \o r
    BY <1>1, <2>1, AfterPrefix DEF Path
  <2>3. /\ n \o r \in Path /\ IsPrefix(n, n \o r) /\ After(n, n \o r) = r
        /\ r = <<>> => n \o r = n
        /\ r # <<>> => n \o r # <<>> /\ Front(n \o r) = n \o Front(r) /\ Last(n \o r) = Last(r)
    BY <1>1, JoinPaths, Zenon
  <2>4. /\ r = <<>> => o \o r = o
        /\ r # <<>> => o \o r # o /\ Front(o \o r) = o \o Front(r) /\ Last(o \o r) = Last(r)
    BY <1>1, JoinPaths, Zenon
  <2>5. ASSUME m # o
        PROVE  /\ Last(To(m)) = Last(m) /\ Front(m) \in Under(t, o)
               /\ Front(To(m)) = To(Front(m)) /\ IsDir(t, Front(m))
    <3>1. r # <<>>
      BY <2>2, <2>4, <2>5
    <3>2. Front(r) \in Path
      BY <3>1, FrontAndLast DEF Path
    <3>3. /\ After(o, o \o Front(r)) = Front(r) /\ IsPrefix(o, o \o Front(r))
      BY <1>1, <3>2, AfterJoin DEF Path
    <3>4. Front(m) = o \o Front(r)
      BY <2>2, <2>4, <3>1
    <3>5. Front(m) \in DOMAIN t /\ IsDir(t, Front(m))
      BY <2>1, ParentThere
    <3>6. Front(m) \in Under(t, o)
      BY <3>3, <3>4, <3>5 DEF Under
    <3>7. To(Front(m)) = n \o Front(r)
      BY <3>3, <3>4
    <3>8. To(m) = n \o r
      BY <2>2
    <3> HIDE DEF To
    <3> QED
      BY <2>2, <2>3, <2>4, <3>1, <3>5, <3>6, <3>7, <3>8
  <2>6. To(m) = n \o r /\ From(To(m)) = m
    BY <2>2, <2>3
  <2>7. m = o => r = <<>>
    BY <2>2, <2>4
  <2> HIDE DEF To, From
  <2> QED
    BY <1>1, <2>1, <2>2, <2>3, <2>5, <2>6, <2>7
<1>4. ASSUME NEW m \in Under(t, o) PROVE To(m) \notin rest
  BY <1>2, <1>3
<1>5. u = [q \in rest \cup {To(m) : m \in Under(t, o)} |->
             IF q \in rest THEN t[q] ELSE t[From(q)]]
  <2>1. /\ DOMAIN Without(t, Under(t, o) \cup {n}) = rest
        /\ \A q \in rest : Without(t, Under(t, o) \cup {n})[q] = t[q]
    BY DEF Without
  <2>2. u = [q \in DOMAIN Without(t, Under(t, o) \cup {n}) \cup {To(m) : m \in Under(t, o)} |->
              IF q \in DOMAIN Without(t, Under(t, o) \cup {n})
              THEN Without(t, Under(t, o) \cup {n})[q] ELSE t[From(q)]]
    BY Zenon DEF Move, After
  <2> QED
    BY <2>1, <2>2
<1>6. /\ DOMAIN u = rest \cup {To(m) : m \in Under(t, o)}
      /\ \A p \in rest : u[p] = t[p]
  BY <1>5
<1>7. ASSUME NEW m \in Under(t, o) PROVE To(m) \in DOMAIN u /\ u[To(m)] = t[m]
  <2>1. To(m) \in DOMAIN u /\ u[To(m)] = t[From(To(m))]
    BY <1>4, <1>5
  <2> QED
    BY <1>3, <2>1
<1>8. o \notin DOMAIN u
  <2>1. o \notin rest
    <3>1. IsPrefix(o, o)
      BY <1>1, PrefixOfFront DEF Path
    <3> QED
      BY <1>1, <3>1 DEF Under
  <2>2. \A m \in Under(t, o) : To(m) # o
    BY <1>1, <1>2, <1>3
  <2> HIDE DEF To
  <2> QED
    BY <1>6, <2>1, <2>2
<1> HIDE DEF To, From
<1>9. \A p \in DOMAIN u \ rest :
        \E m \in Under(t, o) : /\ u[p] = t[m] /\ p # <<>> /\ m # <<>>
                               /\ m = o => p = n
                               /\ m # o => Last(p) = Last(m)
  <2>1. ASSUME NEW p \in DOMAIN u \ rest
        PROVE  \E m \in Under(t, o) : /\ u[p] = t[m] /\ p # <<>> /\ m # <<>>
                                      /\ m = o => p = n
                                      /\ m # o => Last(p) = Last(m)
    <3>1. PICK m \in Under(t, o) : p = To(m)
      BY <1>6, <2>1
    <3> QED
      BY <1>3, <1>7, <3>1
  <2> QED
    BY <2>1
<1>10. IsTree(u)
  <2>1. \A d : IsDir(t, d) /\ d \in rest => IsDir(u, d)
    BY <1>6 DEF IsDir
  <2>2. \A m \in Under(t, o) : IsDir(t, m) => IsDir(u, To(m))
    BY <1>7 DEF IsDir
  <2>3. <<>> \in rest
    BY <1>1, UnderIsClosed DEF IsTree, IsDir
  <2>4. ASSUME NEW p \in rest, p # <<>> PROVE IsDir(u, Front(p))
    <3>1. Front(p) \notin Under(t, o)
      BY <1>1, <2>4, UnderIsClosed
    <3>2. IsDir(t, Front(p)) /\ Front(p) \in DOMAIN t
      BY <2>4, ParentThere
    <3> QED
      BY <2>1, <3>1, <3>2
  <2>5. ASSUME NEW m \in Under(t, o) PROVE IsDir(u, Front(To(m)))
    <3>1. CASE m = o
      <4>1. IsDir(t, Front(n)) /\ Front(n) \in DOMAIN t
        BY DEF Slot, IsDir
      <4>2. ~IsPrefix(o, Front(n))
        BY <1>1, PrefixOfFront DEF Path
      <4>3. Front(n) \in rest
        BY <4>1, <4>2 DEF Under
      <4> QED
        BY <1>3, <2>1, <3>1, <4>1, <4>3
    <3>2. CASE m # o
      BY <1>3, <2>2, <3>2
    <3> QED
      BY <3>1, <3>2
  <2>6. ASSUME NEW p \in DOMAIN u
        PROVE  /\ p \in Path /\ IsNode(u[p])
               /\ p # <<>> => IsDir(u, Front(p))
    <3>1. CASE p \in rest
      BY <1>6, <2>4, <3>1 DEF IsTree
    <3>2. CASE p \notin rest
      <4>1. PICK m \in Under(t, o) : p = To(m)
        BY <1>6, <3>2
      <4> QED
        BY <1>3, <1>7, <2>5, <4>1 DEF IsTree
    <3> QED
      BY <3>1, <3>2
  <2> QED
    BY <2>1, <2>3, <2>6 DEF IsTree
<1> QED
  BY <1>6, <1>8, <1>9, <1>10

-----------------------------------------------------------------------------
(* Entries, and the operations on them.                                    *)

\* What a path names: nothing that can be used, or something in a directory.
LEMMA EntryIsPlace ==
  ASSUME NEW t, IsTree(t), NEW p \in Path, p # <<>>, Front(p) \in Lasting
  PROVE  LET e == EntryAt(t, p)
         IN  e \in {Missing, NotDir}
             \/ /\ e \in Path /\ e # <<>> /\ Last(e) = Last(p) /\ Front(e) \in Lasting
                /\ Front(e) = Walk(t, Front(p)) /\ IsDir(t, Front(e))
<1>1. p # Failed /\ Last(p) \in Names
  BY HostAssumption, FrontAndLast DEF Path
<1>2. EntryAt(t, p) = EntryOf(t, Walk(t, Front(p)), Last(p))
  BY <1>1 DEF EntryAt
<1>3. Walk(t, Front(p)) \in {Missing, NotDir} \/ Good(t, Walk(t, Front(p)))
  BY WalkArrives
<1>4. CASE Walk(t, Front(p)) \in {Missing, NotDir}
  <2>1. Walk(t, Front(p)) \notin DOMAIN t
    BY <1>4, HostAssumption DEF IsTree
  <2> QED
    BY <1>2, <1>4, <2>1 DEF EntryOf
<1>5. CASE Good(t, Walk(t, Front(p)))
  <2>1. PICK d \in Lasting : d = Walk(t, Front(p))
    BY <1>5 DEF Good
  <2>2. d \in Path /\ d \notin {Missing, NotDir}
    BY LastingIsPath, HostAssumption
  <2>3. EntryOf(t, d, Last(p)) = IF d \in DOMAIN t THEN IF IsDir(t, d) THEN Append(d, Last(p))
                                                     ELSE NotDir
                                 ELSE Missing
    BY <2>2 DEF EntryOf
  <2>4. /\ Append(d, Last(p)) \in Path /\ Append(d, Last(p)) # <<>>
        /\ Front(Append(d, Last(p))) = d /\ Last(Append(d, Last(p))) = Last(p)
    BY <1>1, <2>2, EntryInDir DEF Path
  <2> DEFINE e == EntryAt(t, p)
  <2>5. e \in {Missing, NotDir} \/ (e = Append(d, Last(p)) /\ IsDir(t, d))
    BY <1>2, <2>1, <2>3
  <2> HIDE DEF e
  <2>7. e \in {Missing, NotDir}
        \/ /\ e \in Path /\ e # <<>> /\ Last(e) = Last(p) /\ Front(e) \in Lasting
           /\ Front(e) = Walk(t, Front(p)) /\ IsDir(t, Front(e))
    BY <2>1, <2>4, <2>5
  <2> QED
    BY <2>7 DEF e
<1> QED
  BY <1>3, <1>4, <1>5

\* A path whose directory and name are no temporary file.
LEMMA LastingByParts ==
  ASSUME NEW e \in Path, e # <<>>
  PROVE  e \in Lasting <=> Front(e) \in Lasting /\ Last(e) \notin Writers
<1>1. Front(e) \in Path /\ Last(e) \in Names /\ e = Append(Front(e), Last(e))
  BY FrontAndLast DEF Path
<1>2. ASSUME e \in Lasting PROVE Front(e) \in Lasting /\ Last(e) \notin Writers
  BY <1>2, FrontAndLast DEF Lasting
<1>3. ASSUME Front(e) \in Lasting, Last(e) \notin Writers PROVE e \in Lasting
  <2>1. Append(Front(e), Last(e)) \in Lasting
    BY <1>1, <1>3, EntryInDir DEF Lasting
  <2> QED
    BY <1>1, <2>1
<1> QED
  BY <1>2, <1>3

\* More directories, and nothing else changed.
Grown(t, u) ==
  /\ IsTree(u) /\ DOMAIN t \subseteq DOMAIN u
  /\ \A p \in DOMAIN t : u[p] = t[p]
  /\ \A p \in DOMAIN u \ DOMAIN t : u[p] = DirNode /\ p \in Lasting /\ p # <<>>

LEMMA MkdirGrows ==
  ASSUME NEW t, IsTree(t), NEW p \in Lasting, OsMkdir(t, p) # Failed
  PROVE  Grown(t, OsMkdir(t, p))
<1> DEFINE e == EntryAt(t, p)
<1>1. IsNew(t, e) /\ OsMkdir(t, p) = Put(t, e, DirNode)
  BY DEF OsMkdir, PutNew
<1>2. p \in Path /\ p # <<>>
  <2>1. p \in Path /\ p # Failed
    BY LastingIsPath, HostAssumption
  <2>2. <<>> \in DOMAIN t
    BY DEF IsTree, IsDir
  <2> QED
    BY <1>1, <2>1, <2>2 DEF IsNew, EntryAt
<1>3. Front(p) \in Lasting /\ Last(p) \notin Writers
  BY <1>2, LastingByParts
<1>4. /\ e \in Path /\ e # <<>> /\ Last(e) = Last(p) /\ Front(e) \in Lasting
      /\ IsDir(t, Front(e)) /\ e \notin DOMAIN t
  BY <1>1, <1>2, <1>3, EntryIsPlace DEF IsNew
<1>5. e \in Lasting
  BY <1>3, <1>4, LastingByParts
<1>6. Slot(t, e) /\ IsNode(DirNode)
  BY <1>4 DEF Slot, IsDir, IsNode
<1>7. PICK u : u = Put(t, e, DirNode)
  OBVIOUS
<1>8. /\ IsTree(u) /\ u[e] = DirNode
      /\ \A q : q \in DOMAIN u <=> (q \in DOMAIN t \/ q = e)
      /\ \A q \in DOMAIN t : q # e => u[q] = t[q]
  <2> HIDE DEF e
  <2>1. IsTree(t) /\ Slot(t, e) /\ IsNode(DirNode) /\ u = Put(t, e, DirNode)
    BY <1>6, <1>7
  <2> QED
    BY <2>1, PutTree
<1> HIDE DEF e
<1>9. Grown(t, u)
  BY <1>4, <1>5, <1>8 DEF Grown
<1> QED
  BY <1>1, <1>7, <1>9

LEMMA GrownAgain ==
  ASSUME NEW t, NEW u, NEW v, Grown(t, u), Grown(u, v)
  PROVE  Grown(t, v)
  BY DEF Grown

\* What the definition of OsMkdirAll says of its function, up to n.
Makes(t, p, n, f) ==
  f = [k \in 0..n |-> IF k = 0 THEN t ELSE DirMade(f[k - 1], SubSeq(p, 1, k))]

LEMMA MkdirAllIsDefined ==
  ASSUME NEW t, NEW p \in Path
  PROVE  \E f : /\ \A k \in 0..Len(p) :
                     f[k] = IF k = 0 THEN t ELSE DirMade(f[k - 1], SubSeq(p, 1, k))
                /\ OsMkdirAll(t, p) = f[Len(p)]
<1>1. Len(p) \in Nat /\ p # Failed
  BY HostAssumption DEF Path
<1> DEFINE Bad == {n \in 0..Len(p) : ~ \E f : Makes(t, p, n, f)}
<1>2. Bad = {}
  <2> SUFFICES ASSUME Bad # {} PROVE FALSE
    OBVIOUS
  <2>1. PICK n \in Bad : \A m \in Bad : n <= m
    <3>1. Bad \in SUBSET Nat
      BY <1>1
    <3> HIDE DEF Bad
    <3> QED
      BY <3>1, LeastNatural
  <2>2. n # 0
    <3>1. PICK f : f = [k \in 0..0 |-> t]
      OBVIOUS
    <3>2. \A k \in 0..0 : k = 0
      OBVIOUS
    <3>3. Makes(t, p, 0, f)
      BY <3>1, <3>2, Zenon DEF Makes
    <3> QED
      BY <1>1, <3>3
  <2>3. n \in Nat /\ n - 1 \in 0..Len(p) /\ n - 1 \notin Bad
    BY <1>1, <2>1, <2>2
  <2>4. PICK f : Makes(t, p, n - 1, f)
    BY <2>3
  <2> DEFINE g == [k \in 0..n |-> IF k < n THEN f[k] ELSE DirMade(f[n - 1], SubSeq(p, 1, n))]
  <2>5. Makes(t, p, n, g)
    <3>1. \A k \in 0..(n - 1) : f[k] = IF k = 0 THEN t ELSE DirMade(f[k - 1], SubSeq(p, 1, k))
      BY <2>4 DEF Makes
    <3>2. \A k \in 0..n : k # 0 => g[k - 1] = f[k - 1]
      BY <2>3
    <3>3. \A k \in 0..n : g[k] = IF k = 0 THEN t ELSE DirMade(g[k - 1], SubSeq(p, 1, k))
      BY <2>2, <2>3, <3>1, <3>2
    <3> HIDE DEF g
    <3>4. g = [k \in 0..n |-> g[k]]
      BY DEF g
    <3> QED
      BY <3>3, <3>4 DEF Makes
  <2> QED
    BY <2>5
<1>3. PICK f : f = [k \in 0..Len(p) |-> IF k = 0 THEN t ELSE DirMade(f[k - 1], SubSeq(p, 1, k))]
               /\ OsMkdirAll(t, p) = f[Len(p)]
  <2>1. \E f : Makes(t, p, Len(p), f)
    BY <1>1, <1>2
  <2> QED
    BY <1>1, <2>1 DEF OsMkdirAll, Makes
<1>4. \A k \in 0..Len(p) : f[k] = IF k = 0 THEN t ELSE DirMade(f[k - 1], SubSeq(p, 1, k))
  BY <1>3, Zenon
<1> QED
  BY <1>3, <1>4

LEMMA PartsOfLasting ==
  ASSUME NEW p \in Lasting, NEW k \in 0..Len(p)
  PROVE  SubSeq(p, 1, k) \in Lasting
<1>1. \A i \in 1..k : p[i] \in Names \ Writers
  BY DEF Lasting
<1> QED
  BY <1>1, SubSeqProperties DEF Lasting

LEMMA MkdirAllGrows ==
  ASSUME NEW t, IsTree(t), NEW p \in Lasting, OsMkdirAll(t, p) # Failed
  PROVE  Grown(t, OsMkdirAll(t, p))
<1>1. p \in Path /\ Len(p) \in Nat
  BY LastingIsPath DEF Path
<1>2. PICK f : /\ \A k \in 0..Len(p) :
                    f[k] = IF k = 0 THEN t ELSE DirMade(f[k - 1], SubSeq(p, 1, k))
               /\ OsMkdirAll(t, p) = f[Len(p)]
  BY <1>1, MkdirAllIsDefined
<1> DEFINE Bad == {n \in 0..Len(p) : f[n] # Failed /\ ~Grown(t, f[n])}
<1>3. Bad = {}
  <2> SUFFICES ASSUME Bad # {} PROVE FALSE
    OBVIOUS
  <2>1. PICK n \in Bad : \A m \in Bad : n <= m
    <3>1. Bad \in SUBSET Nat
      BY <1>1
    <3> HIDE DEF Bad
    <3> QED
      BY <3>1, LeastNatural
  <2>2. n # 0
    <3>1. f[0] = t
      BY <1>1, <1>2
    <3> QED
      BY <2>1, <3>1 DEF Grown
  <2>3. n \in Nat /\ n - 1 \in 0..Len(p) /\ n - 1 \notin Bad /\ n \in 0..Len(p)
    BY <1>1, <2>1, <2>2
  <2>4. f[n] = DirMade(f[n - 1], SubSeq(p, 1, n)) /\ f[n] # Failed /\ ~Grown(t, f[n])
    BY <1>2, <2>1, <2>2, <2>3
  <2>5. f[n - 1] # Failed
    BY <2>4 DEF DirMade
  <2>6. Grown(t, f[n - 1])
    BY <2>3, <2>5
  <2>7. SubSeq(p, 1, n) \in Lasting /\ IsTree(f[n - 1])
    BY <2>3, <2>6, PartsOfLasting DEF Grown
  <2>8. Grown(f[n - 1], f[n])
    <3>1. CASE f[n] = f[n - 1]
      BY <2>7, <3>1 DEF Grown
    <3>2. CASE f[n] = OsMkdir(f[n - 1], SubSeq(p, 1, n))
      BY <2>4, <2>7, <3>2, MkdirGrows
    <3> QED
      BY <2>4, <3>1, <3>2 DEF DirMade
  <2> QED
    BY <2>4, <2>6, <2>8, GrownAgain
<1>4. Len(p) \in 0..Len(p)
  BY <1>1
<1> QED
  BY <1>2, <1>3, <1>4

-----------------------------------------------------------------------------
(* Where the operations act.                                               *)

JailIsPath == jail \in Lasting \cup {NoJail}

LEMMA LexicalIsPath ==
  ASSUME JailIsPath, NEW v \in Lasting, Lexical(v) # Failed
  PROVE  /\ Lexical(v) \in Lasting
         /\ jail # NoJail => Lexical(v) = jail \o v
         /\ jail = NoJail => Lexical(v) = v
         /\ v # <<>> => Lexical(v) # <<>> /\ Last(Lexical(v)) = Last(v)
<1>1. Lexical(v) = HostPath(jail, v)
  BY DEF Lexical
<1>2. CASE jail = NoJail
  BY <1>1, <1>2 DEF HostPath
<1>3. CASE jail # NoJail
  <2>1. jail \in Lasting /\ Lexical(v) = jail \o v
    BY <1>1, <1>3 DEF HostPath, JailIsPath
  <2>2. PICK j \in Lasting : j = jail
    BY <2>1
  <2>3. j \o v \in Lasting
    BY DEF Lasting
  <2>4. v # <<>> => j \o v # <<>> /\ Last(j \o v) = Last(v)
    BY LastOfJoin DEF Lasting
  <2> QED
    BY <1>3, <2>1, <2>2, <2>3, <2>4
<1> QED
  BY <1>2, <1>3

\* Something on the way to p is there: the root, if nothing else.
LEMMA ExistingInRange ==
  ASSUME NEW t, IsTree(t), NEW p \in Path, p # <<>>
  PROVE  /\ Existing(t, p) \in 0..Len(p) - 1
         /\ ~IsNotExist(t, SubSeq(p, 1, Existing(t, p)))
         /\ \A i \in Existing(t, p) + 1..Len(p) - 1 : IsNotExist(t, SubSeq(p, 1, i))
<1>1. Len(p) \in Nat \ {0}
  BY DEF Path
<1> DEFINE There(k) == ~IsNotExist(t, SubSeq(p, 1, k))
           Back == {n \in 0..Len(p) - 1 : There(Len(p) - 1 - n)}
<1>2. There(0)
  <2>1. SubSeq(p, 1, 0) = <<>>
    BY SubSeqEmpty
  <2>2. <<>> # Failed /\ <<>> \in DOMAIN t
    <3>1. <<>> \in Path
      BY DEF Path
    <3> QED
      BY <3>1, HostAssumption DEF IsTree, IsDir
  <2>3. EntryAt(t, <<>>) = <<>>
    BY <2>2 DEF EntryAt
  <2> QED
    BY <2>1, <2>2, <2>3 DEF IsNotExist
<1> HIDE DEF There
<1>3. Len(p) - 1 \in Back
  BY <1>1, <1>2
<1>4. PICK n \in Back : \A m \in Back : n <= m
  <2>1. Back \in SUBSET Nat
    BY <1>1
  <2> HIDE DEF Back
  <2>2. Back # {}
    BY <1>3
  <2> QED
    BY <2>1, <2>2, LeastNatural
<1>5. PICK k \in 0..Len(p) - 1 : k = Len(p) - 1 - n /\ There(k)
  BY <1>1, <1>4
<1>6. ASSUME NEW i \in k + 1..Len(p) - 1 PROVE ~There(i)
  <2>1. Len(p) - 1 - i \in 0..Len(p) - 1 /\ ~(n <= Len(p) - 1 - i)
    BY <1>1, <1>4, <1>5
  <2>2. Len(p) - 1 - i \notin Back
    BY <1>4, <2>1
  <2>3. Len(p) - 1 - (Len(p) - 1 - i) = i
    BY <1>1, <1>5
  <2> QED
    BY <2>1, <2>2, <2>3
<1>7. \E a \in 0..Len(p) - 1 :
        /\ ~IsNotExist(t, SubSeq(p, 1, a))
        /\ \A i \in a + 1..Len(p) - 1 : IsNotExist(t, SubSeq(p, 1, i))
  BY <1>5, <1>6 DEF There
<1> QED
  BY <1>7, Zenon DEF Existing

LEMMA EvalSymlinksIsPath ==
  ASSUME NEW t, IsTree(t), NEW p \in Lasting, EvalSymlinks(t, p) # Failed
  PROVE  /\ EvalSymlinks(t, p) \in Lasting /\ EvalSymlinks(t, p) \in DOMAIN t
         /\ EvalSymlinks(t, p) = Walk(t, p) /\ Good(t, EvalSymlinks(t, p))
<1>1. EvalSymlinks(t, p) = Walk(t, p) /\ Walk(t, p) \in DOMAIN t
  BY DEF EvalSymlinks, Exists
<1>2. Walk(t, p) \notin {Missing, NotDir}
  BY <1>1, HostAssumption DEF IsTree
<1>3. Good(t, Walk(t, p))
  BY <1>2, WalkArrives
<1> QED
  BY <1>1, <1>3 DEF Good

LEMMA ForCreateIsPath ==
  ASSUME JailIsPath, NEW t, IsTree(t), NEW v \in Lasting, ForCreate(t, v) # Failed
  PROVE  /\ ForCreate(t, v) \in Lasting
         /\ v # <<>> => ForCreate(t, v) # <<>> /\ Last(ForCreate(t, v)) = Last(v)
<1>1. Lexical(v) # Failed
  BY DEF ForCreate, ParentFollowed
<1>2. PICK p \in Lasting : /\ p = Lexical(v) /\ (jail = NoJail => p = v)
                           /\ jail # NoJail => p = jail \o v
                           /\ v # <<>> => p # <<>> /\ Last(p) = Last(v)
  BY <1>1, LexicalIsPath
<1>3. CASE jail = NoJail \/ p = jail
  BY <1>1, <1>2, <1>3 DEF ForCreate, ParentFollowed
<1>4. CASE jail # NoJail /\ p # jail
  <2>1. ForCreate(t, v) = Reattach(t, p, Existing(t, p))
    BY <1>1, <1>2, <1>4 DEF ForCreate, ParentFollowed
  <2>2. p # <<>> /\ v # <<>>
    <3>1. PICK j \in Lasting : j = jail
      BY <1>4 DEF JailIsPath
    <3>2. j \o <<>> = j
      BY DEF Lasting
    <3>3. v # <<>>
      BY <1>2, <1>4, <3>1, <3>2
    <3> QED
      BY <1>2, <3>3
  <2>3. p \in Path /\ Len(p) \in Nat \ {0}
    BY <2>2, LastingIsPath DEF Path
  <2>4. PICK k \in 0..Len(p) - 1 : k = Existing(t, p)
    BY <2>2, <2>3, ExistingInRange
  <2>5. SubSeq(p, 1, k) \in Lasting
    BY <2>3, <2>4, PartsOfLasting
  <2> DEFINE cur  == SubSeq(p, 1, k)
             base == Checked(t, OrElse(EvalSymlinks(t, cur), cur))
  <2>6. base # Failed /\ ForCreate(t, v) = base \o SubSeq(p, k + 1, Len(p))
    BY <2>1, <2>4 DEF Reattach
  <2>7. base \in Lasting
    BY <2>5, <2>6, EvalSymlinksIsPath DEF Checked, OrElse
  <2>8. PICK m \in Int : m = k + 1 /\ \A i \in m..Len(p) : p[i] \in Names \ Writers
    BY <2>3 DEF Lasting
  <2>9. PICK r : r = SubSeq(p, m, Len(p))
    OBVIOUS
  <2>10. /\ r \in Lasting /\ Len(r) = IF m <= Len(p) THEN Len(p) - m + 1 ELSE 0
         /\ \A i \in 1..Len(p) - m + 1 : r[i] = p[m + i - 1]
    BY <2>3, <2>8, <2>9, SubSeqProperties DEF Lasting
  <2>11. r # <<>> /\ Last(r) = Last(p)
    <3>1. Len(r) = Len(p) - k /\ Len(r) \in 1..Len(p) - m + 1
      BY <2>3, <2>8, <2>10
    <3>2. r[Len(r)] = p[m + Len(r) - 1]
      BY <2>10, <3>1
    <3>3. m + Len(r) - 1 = Len(p)
      BY <2>3, <2>8, <3>1
    <3> QED
      BY <3>1, <3>2, <3>3 DEF Last
  <2>12. PICK b \in Lasting : b = base
    BY <2>7
  <2>13. b \o r \in Lasting /\ b \o r # <<>> /\ Last(b \o r) = Last(r)
    BY <2>10, <2>11, LastOfJoin DEF Lasting
  <2>14. ForCreate(t, v) = b \o r
    BY <2>6, <2>8, <2>9, <2>12
  <2> QED
    BY <1>2, <2>2, <2>11, <2>13, <2>14
<1> QED
  BY <1>3, <1>4

LEMMA ForOpenIsPath ==
  ASSUME JailIsPath, NEW t, IsTree(t), NEW v \in Lasting, ForOpen(t, v) # Failed
  PROVE  ForOpen(t, v) \in Lasting
<1>1. PICK p : p = ForCreate(t, v)
  OBVIOUS
<1>2. p # Failed /\ ForOpen(t, v) = LinkFollowed(t, p)
  BY <1>1 DEF ForOpen, LinkFollowed
<1>3. p \in Lasting
  BY <1>1, <1>2, ForCreateIsPath
<1>4. ForOpen(t, v) = p \/ ForOpen(t, v) = EvalSymlinks(t, p)
  BY <1>2 DEF LinkFollowed, Checked
<1> QED
  BY <1>3, <1>4, EvalSymlinksIsPath

-----------------------------------------------------------------------------
(* What an operation does to temporary files.                              *)

\* WaysKept, of any two trees.
Ways(t, u) ==
  /\ \A p \in DOMAIN t : IsDir(t, p) => IsDir(u, p)
  /\ \A p \in DOMAIN t \cup DOMAIN u :
       IsLink(t, p) \/ IsLink(u, p) => p \in DOMAIN t \cap DOMAIN u /\ t[p] = u[p]

\* What is called as the temporary file of w was so before, somewhere else only
\* if a directory has moved, and is the same or whole; and what contains its
\* partial data was called so.
Kept(t, u, w) ==
  /\ \A p \in DOMAIN u : p # <<>> /\ Last(p) = w =>
       \E q \in DOMAIN t : /\ q # <<>> /\ Last(q) = w /\ u[p] \in {t[q], FileOf(Whole(w))}
                           /\ Ways(t, u) => q = p
  /\ \A p \in DOMAIN u : u[p] = FileOf(Part(w)) =>
       \E q \in DOMAIN t : t[q] = FileOf(Part(w)) /\ (Last(q) = w => Last(p) = w)

Harmless(t, u) == IsTree(u) /\ \A w \in Writers : Kept(t, u, w)

LEMMA KeptInPlace ==
  ASSUME NEW t, NEW u, NEW w,
         \A p \in DOMAIN u : p # <<>> /\ Last(p) = w => p \in DOMAIN t,
         \A p \in DOMAIN u : p # <<>> /\ Last(p) = w => u[p] \in {t[p], FileOf(Whole(w))},
         \A p \in DOMAIN u : u[p] = FileOf(Part(w)) => p \in DOMAIN t /\ t[p] = u[p]
  PROVE  Kept(t, u, w)
  BY DEF Kept

LEMMA SameIsHarmless ==
  ASSUME NEW t, IsTree(t) PROVE Harmless(t, t)
  BY KeptInPlace DEF Harmless

LEMMA PutKeeps ==
  ASSUME NEW t, IsTree(t), NEW e, Slot(t, e), NEW node, IsNode(node), NEW w,
         Last(e) # w, node # FileOf(Part(w)), NEW u, u = Put(t, e, node)
  PROVE  Kept(t, u, w)
<1>1. /\ u[e] = node
      /\ \A p : p \in DOMAIN u <=> (p \in DOMAIN t \/ p = e)
      /\ \A p \in DOMAIN t : p # e => u[p] = t[p]
  BY PutTree
<1>2. \A p \in DOMAIN u : p # <<>> /\ Last(p) = w => p \in DOMAIN t /\ u[p] = t[p]
  BY <1>1
<1>3. \A p \in DOMAIN u : u[p] = FileOf(Part(w)) => p \in DOMAIN t /\ t[p] = u[p]
  BY <1>1
<1> QED
  BY <1>2, <1>3, KeptInPlace DEF IsDir

LEMMA GrownIsHarmless ==
  ASSUME NEW t, NEW u, Grown(t, u)
  PROVE  Harmless(t, u)
<1>1. SUFFICES ASSUME NEW w \in Writers PROVE Kept(t, u, w)
  BY DEF Harmless, Grown
<1>2. \A p \in DOMAIN u : p # <<>> /\ Last(p) = w => p \in DOMAIN t
  <2>1. ASSUME NEW p \in DOMAIN u, p # <<>>, Last(p) = w, p \notin DOMAIN t PROVE FALSE
    <3>1. p \in Lasting
      BY <2>1 DEF Grown
    <3> QED
      BY <2>1, <3>1, LastingIsPath, LastingByParts
  <2> QED
    BY <2>1
<1>3. \A p \in DOMAIN u : p \in DOMAIN t => u[p] = t[p]
  BY DEF Grown
<1>4. \A p \in DOMAIN u : u[p] = FileOf(Part(w)) => p \in DOMAIN t /\ t[p] = u[p]
  <2>1. DirNode # FileOf(Part(w))
    BY DEF DirNode, FileOf
  <2> QED
    BY <1>3, <2>1 DEF Grown
<1> QED
  BY <1>2, <1>3, <1>4, KeptInPlace DEF IsDir

LEMMA WithoutIsHarmless ==
  ASSUME NEW t, IsTree(t), NEW S, <<>> \notin S,
         \A p \in DOMAIN t \ S : p # <<>> => Front(p) \notin S,
         NEW u, u = Without(t, S)
  PROVE  Harmless(t, u)
<1>1. /\ IsTree(u)
      /\ \A p : p \in DOMAIN u <=> (p \in DOMAIN t /\ p \notin S)
      /\ \A p \in DOMAIN t \ S : u[p] = t[p]
  BY WithoutTree
<1>2. \A p \in DOMAIN u : p \in DOMAIN t /\ u[p] = t[p]
  BY <1>1
<1> QED
  BY <1>1, <1>2, KeptInPlace DEF Harmless, IsDir

LEMMA MoveKeeps ==
  ASSUME NEW t, IsTree(t), NEW o, o # <<>>, NEW n, Slot(t, n), CanMove(t, o, n),
         NEW u, u = Move(t, o, n)
  PROVE  /\ IsTree(u)
         /\ \A w : Last(n) # w /\ (t[o] = FileOf(Part(w)) => Last(o) # w) => Kept(t, u, w)
<1>1. o \in DOMAIN t /\ (IsDir(t, o) => n \notin DOMAIN t /\ ~IsPrefix(o, n))
  BY DEF CanMove
<1>2. CASE ~IsDir(t, o)
  <2>1. /\ IsTree(u) /\ u[n] = t[o]
        /\ \A p : p \in DOMAIN u <=> ((p \in DOMAIN t /\ p # o) \/ p = n)
        /\ \A p \in DOMAIN t \ {o, n} : u[p] = t[p]
    BY <1>1, <1>2, MoveOne
  <2>2. \A p \in DOMAIN u : p # n => p \in DOMAIN t /\ u[p] = t[p]
    BY <2>1
  <2> SUFFICES ASSUME NEW w, Last(n) # w, t[o] = FileOf(Part(w)) => Last(o) # w
               PROVE  Kept(t, u, w)
    BY <2>1
  <2>3. ASSUME NEW p \in DOMAIN u, p # <<>>, Last(p) = w
        PROVE  \E q \in DOMAIN t : /\ q # <<>> /\ Last(q) = w /\ u[p] \in {t[q], FileOf(Whole(w))}
                                   /\ Ways(t, u) => q = p
    BY <2>2, <2>3 DEF IsDir
  <2>4. ASSUME NEW p \in DOMAIN u, u[p] = FileOf(Part(w))
        PROVE  \E q \in DOMAIN t : t[q] = FileOf(Part(w)) /\ (Last(q) = w => Last(p) = w)
    BY <1>1, <2>1, <2>2, <2>4
  <2> QED
    BY <2>1, <2>3, <2>4 DEF Kept
<1>3. CASE IsDir(t, o)
  <2>1. /\ IsTree(u) /\ o \notin DOMAIN u
        /\ \A p \in DOMAIN t \ Under(t, o) : p \in DOMAIN u /\ u[p] = t[p]
        /\ \A p \in DOMAIN u \ (DOMAIN t \ Under(t, o)) :
             \E m \in Under(t, o) : /\ u[p] = t[m] /\ p # <<>> /\ m # <<>>
                                    /\ m = o => p = n
                                    /\ m # o => Last(p) = Last(m)
    BY <1>1, <1>3, MoveAll
  <2>2. ~Ways(t, u)
    BY <1>1, <1>3, <2>1 DEF Ways, IsDir
  <2>3. \A m \in Under(t, o) : m \in DOMAIN t
    BY DEF Under
  <2> SUFFICES ASSUME NEW w, Last(n) # w PROVE Kept(t, u, w)
    BY <2>1
  <2>4. ASSUME NEW p \in DOMAIN u, p # <<>>, Last(p) = w
        PROVE  \E q \in DOMAIN t : /\ q # <<>> /\ Last(q) = w /\ u[p] \in {t[q], FileOf(Whole(w))}
                                   /\ Ways(t, u) => q = p
    <3>1. CASE p \in DOMAIN t \ Under(t, o)
      BY <2>1, <2>4, <3>1 DEF IsDir
    <3>2. CASE p \notin DOMAIN t \ Under(t, o)
      BY <2>1, <2>2, <2>3, <2>4, <3>2 DEF IsDir
    <3> QED
      BY <3>1, <3>2
  <2>5. ASSUME NEW p \in DOMAIN u, u[p] = FileOf(Part(w))
        PROVE  \E q \in DOMAIN t : t[q] = FileOf(Part(w)) /\ (Last(q) = w => Last(p) = w)
    <3>1. CASE p \in DOMAIN t \ Under(t, o)
      BY <2>1, <2>5, <3>1
    <3>2. CASE p \notin DOMAIN t \ Under(t, o)
      <4>1. PICK m \in Under(t, o) : /\ u[p] = t[m] /\ (m # o => Last(p) = Last(m))
        BY <2>1, <3>2
      <4>2. m # o
        BY <1>3, <2>5, <4>1 DEF IsDir, FileOf
      <4> QED
        BY <2>3, <2>5, <4>1, <4>2
    <3> QED
      BY <3>1, <3>2
  <2> QED
    BY <2>1, <2>4, <2>5 DEF Kept
<1> QED
  BY <1>2, <1>3

\* Where the host writes, or makes an entry.
LEMMA GoodIsSlot ==
  ASSUME NEW t, IsTree(t), NEW q, Good(t, q), ~IsDir(t, q)
  PROVE  Slot(t, q) /\ Last(q) \notin Writers
<1>1. q \in Path /\ q # <<>>
  BY LastingIsPath DEF Good, IsTree
<1>2. IsDir(t, Front(q))
  BY <1>1, ParentThere DEF Good
<1>3. Last(q) \notin Writers
  BY <1>1, LastingByParts DEF Good
<1> QED
  BY <1>1, <1>2, <1>3 DEF Slot

LEMMA WriteIsHarmless ==
  ASSUME NEW t, IsTree(t), NEW p \in Lasting \cup {Failed}, NEW node, IsNode(node),
         \A w \in Writers : node # FileOf(Part(w)),
         NEW u, u = OsWriteFile(t, p, node), u # Failed
  PROVE  Harmless(t, u)
<1>1. p \in Lasting /\ Walk(t, p) \notin {Missing, NotDir}
  BY DEF OsWriteFile, WriteAt, Walk
<1>2. PICK q : q = Walk(t, p) /\ Good(t, q) /\ ~IsDir(t, q) /\ u = Put(t, q, node)
  BY <1>1, WalkArrives DEF OsWriteFile, WriteAt
<1>3. Slot(t, q) /\ Last(q) \notin Writers
  BY <1>2, GoodIsSlot
<1>4. \A w \in Writers : Kept(t, u, w)
  BY <1>2, <1>3, PutKeeps
<1> QED
  BY <1>2, <1>3, <1>4, PutTree DEF Harmless

\* The entry that an operation makes, moves or removes.
LEMMA EntryToChange ==
  ASSUME NEW t, IsTree(t), NEW p \in Path, Front(p) \in Lasting, p # <<>>,
         NEW e, e = EntryAt(t, p), e \notin {Missing, NotDir}, ~IsDir(t, e)
  PROVE  Slot(t, e) /\ Last(e) = Last(p)
  BY EntryIsPlace DEF Slot

LEMMA MakeIsHarmless ==
  ASSUME NEW t, IsTree(t), NEW p \in Lasting \cup {Failed}, NEW node, IsNode(node),
         node.kind # "file",
         NEW u, u = PutNew(t, EntryAt(t, p), node), u # Failed
  PROVE  Harmless(t, u)
<1>1. PICK e : /\ e = EntryAt(t, p) /\ e \notin DOMAIN t /\ e \notin {Missing, NotDir}
               /\ u = Put(t, e, node)
  BY DEF PutNew, IsNew
<1>2. p \in Lasting /\ p # <<>>
  BY <1>1 DEF EntryAt, IsTree, IsDir
<1>3. p \in Path /\ Front(p) \in Lasting /\ Last(p) \notin Writers
  BY <1>2, LastingIsPath, LastingByParts
<1>4. Slot(t, e) /\ Last(e) = Last(p)
  BY <1>1, <1>2, <1>3, EntryToChange DEF IsDir
<1>5. \A w \in Writers : node # FileOf(Part(w))
  BY DEF FileOf
<1>6. \A w \in Writers : Kept(t, u, w)
  BY <1>1, <1>3, <1>4, <1>5, PutKeeps
<1> QED
  BY <1>1, <1>4, <1>6, PutTree DEF Harmless

\* The root is not removed while something is in it; what is removed with what
\* is below it is no root, because its name is not empty.
LEMMA RemoveIsHarmless ==
  ASSUME NEW t, IsTree(t), NEW p \in Path, p # <<>>, Front(p) \in Lasting,
         NEW u, u # Failed,
         u = OsRemove(t, p) \/ u = OsRemoveAll(t, p)
  PROVE  /\ Harmless(t, u)
         /\ u = t \/ u = Without(t, Under(t, EntryAt(t, p)))
<1>1. PICK e : e = EntryAt(t, p)
  OBVIOUS
<1>2. u = t \/ (e \in DOMAIN t /\ u = Without(t, Under(t, e)))
  BY <1>1 DEF OsRemove, OsRemoveAll, RemoveEntry, RemoveBelow
<1>3. CASE u = t
  BY <1>3, SameIsHarmless
<1>4. CASE e \in DOMAIN t /\ u = Without(t, Under(t, e))
  <2>1. e \in Path /\ e # <<>>
    <3>1. e \notin {Missing, NotDir}
      BY <1>4, HostAssumption DEF IsTree
    <3> QED
      BY <1>1, <3>1, EntryIsPlace
  <2> QED
    BY <1>1, <1>4, <2>1, UnderIsClosed, WithoutIsHarmless
<1> QED
  BY <1>2, <1>3, <1>4

LEMMA RenameKeeps ==
  ASSUME NEW t, IsTree(t), NEW p \in Path, p # <<>>, Front(p) \in Lasting,
         NEW v \in Lasting, NEW u, u = OsRename(t, p, v), u # Failed
  PROVE  /\ IsTree(u)
         /\ \A w \in Writers :
              (t[EntryAt(t, p)] = FileOf(Part(w)) => Last(p) # w) => Kept(t, u, w)
<1>1. PICK o, n : o = EntryAt(t, p) /\ n = EntryAt(t, v)
  OBVIOUS
<1>2. CanMove(t, o, n) /\ u = Move(t, o, n)
  BY <1>1 DEF OsRename, Renamed
<1>3. o \in DOMAIN t /\ n \notin {Missing, NotDir} /\ ~IsDir(t, n)
  BY <1>2 DEF CanMove
<1>4. o # <<>> /\ Last(o) = Last(p)
  <2>1. o \notin {Missing, NotDir}
    BY <1>3, HostAssumption DEF IsTree
  <2> QED
    BY <1>1, <2>1, EntryIsPlace
<1>5. v # <<>> /\ v \in Path
  <2>1. v \in Path /\ v # Failed
    BY LastingIsPath, HostAssumption
  <2> QED
    BY <1>1, <1>3, <2>1 DEF EntryAt, IsTree
<1>6. Slot(t, n) /\ Last(n) \notin Writers
  BY <1>1, <1>3, <1>5, EntryToChange, LastingByParts
<1>7. /\ IsTree(u)
      /\ \A w : Last(n) # w /\ (t[o] = FileOf(Part(w)) => Last(o) # w) => Kept(t, u, w)
  BY <1>2, <1>4, <1>6, MoveKeeps
<1> QED
  BY <1>1, <1>4, <1>6, <1>7

\* What the client writes is a sequence, and is not the partial data of an
\* atomic write.
LEMMA WrittenIsNode ==
  ASSUME NEW d \in Data, NEW E, NEW s \in Seq(E)
  PROVE  /\ IsNode(FileOf(Append(s, d)))
         /\ \A w \in Writers : FileOf(Append(s, d)) # FileOf(Part(w))
<1>1. PICK r : r = Append(s, d)
  OBVIOUS
<1>2. r \in Seq(E \cup {d}) /\ Len(r) = Len(s) + 1 /\ r[Len(r)] = d /\ Len(s) \in Nat
  BY <1>1
<1>3. r \in Seq({r[i] : i \in DOMAIN r})
  <2>1. r \in [1..Len(r) -> {r[i] : i \in DOMAIN r}] /\ Len(r) \in Nat
    BY <1>2
  <2> QED
    BY <2>1, IsASeq
<1>4. IsNode(FileOf(r))
  BY <1>3 DEF IsNode, FileOf
<1>5. ASSUME NEW w \in Writers, r = Part(w) PROVE FALSE
  <2>1. Part(w) = <<d>>
    <3>1. Len(r) = 1
      BY <1>5 DEF Part
    <3>2. r[1] = d
      BY <1>2, <3>1
    <3>3. r = <<r[1]>>
      BY <1>5 DEF Part
    <3> QED
      BY <1>5, <3>2, <3>3
  <2> QED
    BY <2>1, OsFSAssumption
<1>6. \A w \in Writers : FileOf(r) # FileOf(Part(w))
  <2>1. \A a, b : FileOf(a) = FileOf(b) => a = b
    <3>1. \A a, b : FileOf(a) = FileOf(b) => FileOf(a).data = FileOf(b).data
      OBVIOUS
    <3> QED
      BY <3>1 DEF FileOf
  <2> QED
    BY <1>5, <2>1
<1> QED
  BY <1>1, <1>4, <1>6

\* The paths the client acts on.
LEMMA ArgsAreLasting ==
  \A v \in Args \cup AtomicArgs : /\ v \in Lasting /\ v # <<>> /\ v \in Path /\ v # NoPath
                   /\ Front(v) \in Lasting /\ Last(v) \notin Writers
<1> SUFFICES ASSUME NEW v \in Args \cup AtomicArgs
             PROVE  /\ v \in Lasting /\ v # <<>> /\ v \in Path /\ v # NoPath
                    /\ Front(v) \in Lasting /\ Last(v) \notin Writers
  OBVIOUS
<1>1. v \in Lasting /\ v # <<>> /\ v \in Path
  BY OsFSAssumption, LastingIsPath
<1> QED
  BY <1>1, OsFSAssumption, LastingByParts

LEMMA ClientWriteIsHarmless ==
  ASSUME JailIsPath, NEW t, IsTree(t), NEW v \in Args, NEW u, u # Failed,
         \/ u = OsWriteFile(t, ForOpen(t, v), FileOf(<<>>))
         \/ \E d \in Data : \/ u = OsWriteFile(t, ForOpen(t, v), FileOf(<<d>>))
                            \/ u = OsAppend(t, ForOpen(t, v), d)
  PROVE  Harmless(t, u)
<1>1. ForOpen(t, v) \in Lasting \cup {Failed}
  BY ArgsAreLasting, ForOpenIsPath
<1>2. PICK p \in Lasting \cup {Failed} : p = ForOpen(t, v)
  BY <1>1
<1>3. PICK E : \E s \in Seq(E) : s = OrElse(DataAt(t, Walk(t, p)), <<>>)
  <2>1. CASE OrElse(DataAt(t, Walk(t, p)), <<>>) = <<>>
    <3>1. <<>> \in Seq({})
      OBVIOUS
    <3> QED
      BY <2>1, <3>1
  <2>2. CASE OrElse(DataAt(t, Walk(t, p)), <<>>) # <<>>
    <3>1. PICK q \in DOMAIN t : IsFile(t, q) /\ OrElse(DataAt(t, Walk(t, p)), <<>>) = t[q].data
      BY <2>2 DEF OrElse, DataAt, IsFile
    <3>2. t[q].data \in Seq({t[q].data[i] : i \in DOMAIN t[q].data})
      BY <3>1, NodeKinds DEF IsTree, IsFile
    <3> QED
      BY <3>1, <3>2
  <2> QED
    BY <2>1, <2>2
<1>4. PICK s \in Seq(E) : s = OrElse(DataAt(t, Walk(t, p)), <<>>)
  BY <1>3
<1>5. ASSUME NEW d \in Data, u = OsWriteFile(t, p, FileOf(<<d>>)) PROVE Harmless(t, u)
  <2>1. <<d>> = Append(<<>>, d) /\ <<>> \in Seq(Data)
    OBVIOUS
  <2>2. IsNode(FileOf(<<d>>)) /\ \A w \in Writers : FileOf(<<d>>) # FileOf(Part(w))
    BY <2>1, WrittenIsNode
  <2> QED
    BY <1>5, <2>2, WriteIsHarmless
<1>6. CASE u = OsWriteFile(t, p, FileOf(<<>>))
  <2>1. IsNode(FileOf(<<>>))
    <3>1. <<>> \in Seq({<<>>[i] : i \in DOMAIN <<>>})
      OBVIOUS
    <3> QED
      BY <3>1 DEF IsNode, FileOf
  <2>2. \A w \in Writers : FileOf(<<>>) # FileOf(Part(w))
    <3>1. \A w : FileOf(<<>>).data = <<>> /\ FileOf(Part(w)).data # <<>>
      BY DEF FileOf, Part
    <3> QED
      BY <3>1
  <2> QED
    BY <1>6, <2>1, <2>2, WriteIsHarmless
<1>7. ASSUME NEW d \in Data, u = OsAppend(t, p, d) PROVE Harmless(t, u)
  <2>1. u = OsWriteFile(t, p, FileOf(Append(s, d)))
    BY <1>4, <1>7 DEF OsAppend
  <2>2. IsNode(FileOf(Append(s, d))) /\ \A w \in Writers : FileOf(Append(s, d)) # FileOf(Part(w))
    BY WrittenIsNode
  <2> QED
    BY <2>1, <2>2, WriteIsHarmless
<1> QED
  BY <1>2, <1>5, <1>6, <1>7

LEMMA ForCreateOfArg ==
  ASSUME JailIsPath, NEW t, IsTree(t), NEW v \in Args
  PROVE  \/ ForCreate(t, v) = Failed
         \/ /\ ForCreate(t, v) \in Lasting /\ ForCreate(t, v) # <<>>
            /\ ForCreate(t, v) \in Path /\ Front(ForCreate(t, v)) \in Lasting
            /\ Last(ForCreate(t, v)) \notin Writers
<1>1. CASE ForCreate(t, v) # Failed
  <2>1. PICK p \in Lasting : p = ForCreate(t, v) /\ p # <<>>
    BY <1>1, ArgsAreLasting, ForCreateIsPath
  <2>2. p \in Path /\ Front(p) \in Lasting /\ Last(p) \notin Writers
    BY <2>1, LastingIsPath, LastingByParts
  <2> QED
    BY <2>1, <2>2
<1> QED
  BY <1>1

LEMMA ClientStepIsHarmless ==
  ASSUME JailIsPath, NEW t, IsTree(t), NEW v \in Args, NEW a \in Args, NEW u, u # Failed,
         \/ u = OsMkdirAll(t, ForCreate(t, Front(v)))
         \/ u = OsMkdirAll(t, ForCreate(t, v))
         \/ u = OsMkdir(t, ForCreate(t, v))
         \/ u = OsRemoveAll(t, ForCreate(t, v))
         \/ u = OsRemove(t, ForCreate(t, v))
         \/ u = OsRename(t, ForCreate(t, v), ForCreate(t, a))
         \/ u = OsSymlink(t, LinkText(v), ForCreate(t, a)) /\ LinkText(v) # Failed
  PROVE  Harmless(t, u)
<1>1. ForCreate(t, Front(v)) \in Lasting \cup {Failed}
  BY ArgsAreLasting, ForCreateIsPath
<1>2. PICK p : /\ p = ForCreate(t, v)
               /\ \/ p = Failed
                  \/ /\ p \in Lasting /\ p # <<>> /\ p \in Path /\ Front(p) \in Lasting
                     /\ Last(p) \notin Writers
  BY ForCreateOfArg
<1>3. PICK r : r = ForCreate(t, a) /\ r \in Lasting \cup {Failed}
  BY ForCreateOfArg
<1>4. CASE \E q \in Lasting \cup {Failed} : u = OsMkdirAll(t, q)
  <2>1. PICK q \in Lasting : u = OsMkdirAll(t, q)
    BY <1>4 DEF OsMkdirAll
  <2>2. OsMkdirAll(t, q) # Failed
    BY <2>1
  <2>3. Grown(t, OsMkdirAll(t, q))
    BY <2>2, MkdirAllGrows
  <2> QED
    BY <2>1, <2>3, GrownIsHarmless
<1>5. CASE u = OsMkdir(t, p)
  <2>1. IsNode(DirNode) /\ DirNode.kind # "file"
    BY DEF IsNode, DirNode
  <2> QED
    BY <1>2, <1>5, <2>1, MakeIsHarmless DEF OsMkdir
<1>6. CASE u = OsRemoveAll(t, p) \/ u = OsRemove(t, p)
  <2>1. p # Failed
    <3>1. Failed # <<>> /\ NotDir \notin DOMAIN t
      <4>1. <<>> \in Path
        BY DEF Path
      <4> QED
        BY <4>1, HostAssumption DEF IsTree
    <3>2. EntryAt(t, Failed) = NotDir
      BY <3>1 DEF EntryAt
    <3> QED
      BY <1>6, <3>1, <3>2 DEF OsRemoveAll, OsRemove, RemoveEntry, RemoveBelow
  <2> QED
    BY <1>2, <1>6, <2>1, RemoveIsHarmless
<1>7. CASE u = OsRename(t, p, r)
  <2>1. p # Failed /\ r # Failed
    BY <1>7, HostAssumption DEF OsRename, Renamed, CanMove, EntryAt, IsTree
  <2>2. /\ IsTree(u)
        /\ \A w \in Writers :
             (t[EntryAt(t, p)] = FileOf(Part(w)) => Last(p) # w) => Kept(t, u, w)
    BY <1>2, <1>3, <1>7, <2>1, RenameKeeps
  <2> QED
    BY <1>2, <2>1, <2>2 DEF Harmless
<1>8. CASE u = OsSymlink(t, LinkText(v), r) /\ LinkText(v) # Failed
  <2>1. LinkText(v) \in Lasting
    BY <1>8, ArgsAreLasting, LexicalIsPath DEF LinkText
  <2>2. IsNode(LinkTo(LinkText(v))) /\ LinkTo(LinkText(v)).kind # "file"
    BY <2>1 DEF IsNode, LinkTo
  <2> QED
    BY <1>3, <1>8, <2>2, MakeIsHarmless DEF OsSymlink
<1> QED
  BY <1>1, <1>2, <1>3, <1>4, <1>5, <1>6, <1>7, <1>8

-----------------------------------------------------------------------------
(* While directories and links stay as they are, a path that led to a      *)
(* directory leads there.                                                  *)

LEMMA SameStep ==
  ASSUME NEW t, IsTree(t), NEW u, Ways(t, u), NEW s \in Way, GoesOn(t, s)
  PROVE  GoesOn(u, s) /\ Onward(u, s) = Onward(t, s)
<1>1. /\ s.rest # <<>> /\ Reached(s) \in DOMAIN t /\ ~IsFile(t, Reached(s))
      /\ IsLink(t, Reached(s)) => s.links # 0
  BY DEF GoesOn
<1>2. IsLink(t, Reached(s)) \/ IsDir(t, Reached(s))
  BY <1>1, NodeKinds DEF IsTree, IsDir, IsLink, IsFile
<1>3. CASE IsLink(t, Reached(s))
  <2>1. Reached(s) \in DOMAIN u /\ u[Reached(s)] = t[Reached(s)]
    BY <1>3 DEF Ways, IsLink
  <2>2. t[Reached(s)].kind = "link"
    BY <1>3 DEF IsLink
  <2> QED
    BY <1>1, <2>1, <2>2 DEF GoesOn, Onward, IsFile, IsLink
<1>4. CASE IsDir(t, Reached(s))
  <2>1. Reached(s) \in DOMAIN u /\ u[Reached(s)].kind = "dir" /\ t[Reached(s)].kind = "dir"
    BY <1>4 DEF Ways, IsDir
  <2> QED
    BY <1>1, <2>1 DEF GoesOn, Onward, IsFile, IsLink
<1> QED
  BY <1>2, <1>3, <1>4

LEMMA StableWalk ==
  ASSUME NEW t, IsTree(t), NEW u, IsTree(u), Ways(t, u), NEW p \in Path,
         IsDir(t, Walk(t, p))
  PROVE  Walk(u, p) = Walk(t, p)
<1>1. PICK f : Loop(t, f)
  BY WalkIsLoop
<1>2. PICK g : Loop(u, g)
  BY WalkIsLoop
<1> DEFINE Wrong == {s \in Way : IsDir(t, f[s]) /\ g[s] # f[s]}
<1>3. ASSUME NEW s \in Way, ~GoesOn(t, s), IsDir(t, Arrival(t, s))
      PROVE  g[s] = Arrival(t, s)
  <2>1. Missing \notin DOMAIN t /\ NotDir \notin DOMAIN t
    BY HostAssumption DEF IsTree
  <2>2. s.rest = <<>>
    <3>1. ASSUME s.rest # <<>> PROVE FALSE
      <4>1. Arrival(t, s) = Reached(s) /\ Reached(s) \in DOMAIN t
        BY <1>3, <2>1, <3>1 DEF Arrival, IsDir
      <4> QED
        BY <1>3, <3>1, <4>1 DEF GoesOn, IsDir, IsFile, IsLink
    <3> QED
      BY <3>1
  <2>3. ~GoesOn(u, s) /\ Arrival(u, s) = s.at /\ Arrival(t, s) = s.at
    BY <2>2 DEF GoesOn, Arrival
  <2> QED
    BY <1>2, <2>3 DEF Loop
<1>4. Wrong = {}
  <2> SUFFICES ASSUME Wrong # {} PROVE FALSE
    OBVIOUS
  <2>1. PICK s \in Wrong : ~GoesOn(t, s) \/ Onward(t, s) \notin Wrong
    <3>1. Wrong \in SUBSET Way
      OBVIOUS
    <3> HIDE DEF Wrong
    <3> QED
      BY <3>1, WalkEnds
  <2>2. f[s] = IF GoesOn(t, s) THEN f[Onward(t, s)] ELSE Arrival(t, s)
    BY <1>1, <2>1 DEF Loop
  <2>3. CASE ~GoesOn(t, s)
    BY <1>3, <2>1, <2>2, <2>3
  <2>4. CASE GoesOn(t, s)
    <3>1. GoesOn(u, s) /\ Onward(u, s) = Onward(t, s) /\ Onward(t, s) \in Way
      BY <2>1, <2>4, SameStep, StepInWay
    <3>2. g[s] = g[Onward(t, s)]
      BY <1>2, <2>1, <3>1 DEF Loop
    <3> QED
      BY <2>1, <2>2, <2>4, <3>1, <3>2
  <2> QED
    BY <2>3, <2>4
<1>5. Start(p) \in Way
  <2>1. <<>> \in Path /\ MaxLinks \in 0..MaxLinks
    BY HostAssumption DEF Path
  <2> QED
    BY <2>1 DEF Start, Way
<1>6. Walk(t, p) = f[Start(p)] /\ Walk(u, p) = g[Start(p)]
  BY <1>1, <1>2 DEF Loop
<1> QED
  BY <1>4, <1>5, <1>6

\* So the entry that a path names is the same one.
LEMMA StableEntry ==
  ASSUME NEW t, IsTree(t), NEW u, IsTree(u), Ways(t, u), NEW p \in Path, p # <<>>,
         Front(p) \in Lasting, EntryAt(t, p) \in Path
  PROVE  EntryAt(u, p) = EntryAt(t, p)
<1>1. EntryAt(t, p) \notin {Missing, NotDir}
  BY HostAssumption
<1>2. PICK d : d = Walk(t, Front(p)) /\ IsDir(t, d)
  BY <1>1, EntryIsPlace
<1>3. Front(p) \in Path /\ d \in Path /\ d \notin {Missing, NotDir} /\ p # Failed
  <2>1. d \in Path
    BY <1>2 DEF IsTree, IsDir
  <2> QED
    BY <2>1, LastingIsPath, HostAssumption
<1>4. Walk(u, Front(p)) = d
  BY <1>2, <1>3, StableWalk
<1>5. IsDir(u, d) /\ d \in DOMAIN u /\ d \in DOMAIN t
  BY <1>2 DEF Ways, IsDir
<1>6. EntryAt(t, p) = Append(d, Last(p)) /\ EntryAt(u, p) = Append(d, Last(p))
  BY <1>2, <1>3, <1>4, <1>5 DEF EntryAt, EntryOf
<1> QED
  BY <1>6

-----------------------------------------------------------------------------
(* The invariant.                                                          *)

Stages == {"idle", "mkdir", "create", "write", "rename", "remove", "done", "crashed"}

Types ==
  /\ jail \in {world.jail : world \in Worlds} /\ IsTree(tree)
  /\ pending \in Args \cup {NoPath} /\ ops \in 0..MaxOps + 1
  /\ ops = MaxOps + 1 => pending = NoPath
  /\ pc \in [Writers -> Stages]
  /\ moved \in [Writers -> BOOLEAN] /\ cleared \in [Writers -> BOOLEAN]
  /\ DOMAIN path = Writers /\ DOMAIN host = Writers
  /\ \A w \in Writers : pc[w] \in {"mkdir", "create", "write", "rename", "remove"} =>
                          path[w] \in AtomicArgs /\ host[w] \in Lasting

\* There is no temporary file of w, or only where w put it, links followed.
NoTemp(t, w) == \A p \in DOMAIN t : p # <<>> => Last(p) # w

OneTemp(t, w, e) == \A p \in DOMAIN t : p # <<>> /\ Last(p) = w => p = EntryAt(t, e)

OwnTemps(t, w) ==
  \A p \in DOMAIN t : p # <<>> /\ Last(p) = w => t[p] \in {FileOf(Part(w)), FileOf(Whole(w))}

NoPart(t, w) == \A p \in DOMAIN t : t[p] # FileOf(Part(w))

TempOf(w) ==
  /\ pc[w] \in {"idle", "mkdir", "create"} => NoTemp(tree, w)
  /\ pc[w] \in {"write", "rename", "remove"} /\ ~moved[w] => OneTemp(tree, w, TempPath(w))
  /\ pc[w] \in {"idle", "mkdir", "create", "rename"} => NoPart(tree, w)
  /\ OwnTemps(tree, w)
  /\ \A p \in DOMAIN tree : tree[p] = FileOf(Part(w)) => Last(p) = w

OsFSInv == Types /\ \A w \in Writers : TempOf(w)

Tidy(w) == pc[w] = "done" /\ ~moved[w] => NoTemp(tree, w)

LEMMA TempPathIsPath ==
  ASSUME NEW w \in Writers, host[w] \in Lasting
  PROVE  /\ TempPath(w) \in Path /\ TempPath(w) # <<>> /\ Front(TempPath(w)) \in Lasting
         /\ Last(TempPath(w)) = w
<1>1. PICK h \in Lasting : h = host[w]
  OBVIOUS
<1>2. Front(h) \in Lasting
  <2>1. CASE h = <<>>
    <3>1. Front(h) = <<>>
      BY <2>1 DEF Front
    <3> QED
      BY <3>1 DEF Lasting
  <2>2. CASE h # <<>>
    BY <2>2, LastingIsPath, LastingByParts
  <2> QED
    BY <2>1, <2>2
<1>3. PICK d \in Lasting : d = Front(h) /\ TempPath(w) = Append(d, w)
  BY <1>1, <1>2 DEF TempPath
<1>4. d \in Path /\ w \in Names
  BY LastingIsPath, OsFSAssumption
<1> QED
  BY <1>3, <1>4, EntryInDir DEF Path

\* What a step keeps that leaves the temporary file of w where it is.
LEMMA TempIsKept ==
  ASSUME Types, NEW w \in Writers, TempOf(w), IsTree(tree)', Kept(tree, tree', w)
  PROVE  /\ NoTemp(tree, w) => NoTemp(tree', w)
         /\ NoPart(tree, w) => NoPart(tree', w)
         /\ OwnTemps(tree', w)
         /\ \A p \in DOMAIN tree' : tree'[p] = FileOf(Part(w)) => Last(p) = w
         /\ pc[w] \in {"write", "rename", "remove"} /\ ~moved[w] /\ WaysKept
              => OneTemp(tree', w, TempPath(w))
<1>1. IsTree(tree) /\ (WaysKept <=> Ways(tree, tree'))
  BY DEF Types, WaysKept, Ways
<1>2. PICK t, u : t = tree /\ u = tree'
  OBVIOUS
<1>3. /\ \A p \in DOMAIN u : p # <<>> /\ Last(p) = w =>
           \E q \in DOMAIN t : /\ q # <<>> /\ Last(q) = w /\ u[p] \in {t[q], FileOf(Whole(w))}
                               /\ Ways(t, u) => q = p
      /\ \A p \in DOMAIN u : u[p] = FileOf(Part(w)) =>
           \E q \in DOMAIN t : t[q] = FileOf(Part(w)) /\ (Last(q) = w => Last(p) = w)
  BY <1>2 DEF Kept
<1>4. NoTemp(t, w) => NoTemp(u, w)
  BY <1>3 DEF NoTemp
<1>5. NoPart(t, w) => NoPart(u, w)
  BY <1>3 DEF NoPart
<1>6. OwnTemps(u, w)
  BY <1>2, <1>3 DEF TempOf, OwnTemps
<1>7. \A p \in DOMAIN u : u[p] = FileOf(Part(w)) => Last(p) = w
  BY <1>2, <1>3 DEF TempOf
<1>8. ASSUME pc[w] \in {"write", "rename", "remove"}, ~moved[w], Ways(t, u)
      PROVE  OneTemp(u, w, TempPath(w))
  <2>1. OneTemp(t, w, TempPath(w)) /\ host[w] \in Lasting
    BY <1>2, <1>8 DEF TempOf, Types
  <2>2. ASSUME NEW p \in DOMAIN u, p # <<>>, Last(p) = w
        PROVE  p = EntryAt(u, TempPath(w))
    <3>1. p \in DOMAIN t
      BY <1>3, <1>8, <2>2
    <3>2. p = EntryAt(t, TempPath(w)) /\ p \in Path
      BY <1>1, <1>2, <2>1, <2>2, <3>1 DEF OneTemp, IsTree
    <3> QED
      BY <1>1, <1>2, <1>8, <2>1, <3>2, TempPathIsPath, StableEntry
  <2> QED
    BY <2>2 DEF OneTemp
<1>9. pc[w] \in {"write", "rename", "remove"} /\ ~moved[w] /\ WaysKept
        => OneTemp(u, w, TempPath(w))
  BY <1>1, <1>2, <1>8
<1> QED
  BY <1>2, <1>4, <1>5, <1>6, <1>7, <1>9

\* A step of somebody else, or one after which w is no further than before.
LEMMA OthersStep ==
  ASSUME Types, NEW w \in Writers, TempOf(w), IsTree(tree)', Kept(tree, tree', w),
         pc'[w] \in {pc[w], "crashed"}, host'[w] = host[w],
         moved'[w] = (moved[w] \/ (Busy(w) /\ ~WaysKept))
  PROVE  TempOf(w)' /\ (Tidy(w) => Tidy(w)')
<1>1. /\ NoTemp(tree, w) => NoTemp(tree', w)
      /\ NoPart(tree, w) => NoPart(tree', w)
      /\ OwnTemps(tree', w)
      /\ \A p \in DOMAIN tree' : tree'[p] = FileOf(Part(w)) => Last(p) = w
      /\ pc[w] \in {"write", "rename", "remove"} /\ ~moved[w] /\ WaysKept
           => OneTemp(tree', w, TempPath(w))
  BY TempIsKept
<1>2. pc'[w] \in {"write", "rename", "remove"} /\ ~moved'[w] => OneTemp(tree', w, TempPath(w)')
  BY <1>1 DEF Busy, TempPath
<1>3. /\ pc'[w] \in {"idle", "mkdir", "create"} => NoTemp(tree', w)
      /\ pc'[w] \in {"idle", "mkdir", "create", "rename"} => NoPart(tree', w)
  BY <1>1 DEF TempOf
<1>4. Tidy(w) => Tidy(w)'
  BY <1>1 DEF Tidy, NoTemp
<1> QED
  BY <1>1, <1>2, <1>3, <1>4 DEF TempOf, NoTemp, OneTemp, OwnTemps, NoPart, TempPath

LEMMA JailOfWorld ==
  ASSUME Types PROVE JailIsPath
  BY WorldsAssumption DEF Types, JailIsPath

\* An operation of the client is harmless and leaves the writers alone.
LEMMA ClientStep ==
  ASSUME Types, Client
  PROVE  /\ Harmless(tree, tree') /\ UNCHANGED <<jail, pc, path, host>>
         /\ pending' \in Args \cup {NoPath} /\ ops' \in 0..MaxOps + 1
         /\ ops' = MaxOps + 1 => pending' = NoPath
<1>1. JailIsPath /\ IsTree(tree) /\ pending \in Args \cup {NoPath} /\ ops \in 0..MaxOps + 1
      /\ (ops = MaxOps + 1 => pending = NoPath) /\ MaxOps \in Nat
  BY JailOfWorld, OsFSAssumption DEF Types
<1>2. PICK v \in Args :
        \/ MakeParent(v)
        \/ \E d \in Data : WriteFile(v, d) \/ AppendFile(v, d)
        \/ OpenFile(v)
        \/ \E all \in BOOLEAN : Mkdir(v, all) \/ Remove_(v, all)
        \/ \E a \in Args : Rename(v, a) \/ Symlink(v, a)
  BY DEF Client
<1>3. v # NoPath /\ v \in Lasting
  BY ArgsAreLasting
<1>4. ops' = ops \/ ops' = ops + 1
  BY DEF Client
<1>5. Harmless(tree, tree)
  BY <1>1, SameIsHarmless
<1>6. CASE MakeParent(v)
  <2>1. PICK u : /\ u = OsMkdirAll(tree, ForCreate(tree, Front(v)))
                 /\ tree' = IF u = Failed THEN tree ELSE u
    BY <1>6 DEF MakeParent, Becomes
  <2>2. u # Failed => Harmless(tree, u)
    BY <1>1, <2>1, ClientStepIsHarmless
  <2>3. Harmless(tree, tree')
    BY <1>5, <2>1, <2>2
  <2>4. /\ ops < MaxOps /\ pending' \in {v, NoPath} /\ UNCHANGED <<jail, pc, path, host>>
    BY <1>6 DEF MakeParent, Call
  <2> QED
    BY <1>1, <1>4, <2>3, <2>4
<1>7. CASE OpenFile(v) \/ \E d \in Data : WriteFile(v, d) \/ AppendFile(v, d)
  <2>1. pending = v /\ pending' = NoPath /\ UNCHANGED <<jail, pc, path, host>>
    BY <1>7 DEF OpenFile, WriteFile, AppendFile
  <2>2. PICK u :
          /\ tree' = IF u = Failed THEN tree ELSE u
          /\ \/ u = OsWriteFile(tree, ForOpen(tree, v), FileOf(<<>>))
             \/ \E d \in Data : \/ u = OsWriteFile(tree, ForOpen(tree, v), FileOf(<<d>>))
                                \/ u = OsAppend(tree, ForOpen(tree, v), d)
    BY <1>7 DEF WriteFile, AppendFile, OpenFile, Becomes
  <2>3. u # Failed => Harmless(tree, u)
    BY <1>1, <2>2, ClientWriteIsHarmless
  <2> QED
    BY <1>1, <1>3, <1>4, <1>5, <2>1, <2>2, <2>3
<1>8. CASE \/ \E all \in BOOLEAN : Mkdir(v, all) \/ Remove_(v, all)
           \/ \E a \in Args : Rename(v, a) \/ Symlink(v, a)
  <2>1. ops < MaxOps /\ pending = NoPath /\ UNCHANGED <<jail, pending, pc, path, host>>
    BY <1>8 DEF Mkdir, Remove_, Rename, Symlink, Call
  <2>2. PICK u, a :
          /\ a \in Args
          /\ tree' = IF u = Failed THEN tree ELSE u
          /\ \/ u = Failed
             \/ u = OsMkdirAll(tree, ForCreate(tree, v))
             \/ u = OsMkdir(tree, ForCreate(tree, v))
             \/ u = OsRemoveAll(tree, ForCreate(tree, v))
             \/ u = OsRemove(tree, ForCreate(tree, v))
             \/ u = OsRename(tree, ForCreate(tree, v), ForCreate(tree, a))
             \/ u = OsSymlink(tree, LinkText(v), ForCreate(tree, a)) /\ LinkText(v) # Failed
    <3>1. CASE \E all \in BOOLEAN : Mkdir(v, all) \/ Remove_(v, all)
      BY <3>1 DEF Mkdir, Remove_, Becomes
    <3>2. CASE \E a \in Args : Rename(v, a) \/ Symlink(v, a)
      BY <3>2 DEF Rename, Symlink, Becomes
    <3> QED
      BY <1>8, <3>1, <3>2
  <2>3. u # Failed => Harmless(tree, u)
    BY <1>1, <2>2, ClientStepIsHarmless
  <2> QED
    BY <1>1, <1>4, <1>5, <2>1, <2>2, <2>3
<1> QED
  BY <1>2, <1>6, <1>7, <1>8

\* A step of w is one of w only, and what it resolved is a path.
LEMMA WriterControl ==
  ASSUME Types, NEW w \in Writers, AtomicWriteFile(w)
  PROVE  /\ UNCHANGED <<jail, pending>> /\ ops' \in 0..MaxOps + 1
         /\ ops' = MaxOps + 1 => pending' = NoPath
         /\ pc' \in [Writers -> Stages] /\ DOMAIN path' = Writers /\ DOMAIN host' = Writers
         /\ \A x \in Writers \ {w} : pc'[x] = pc[x] /\ path'[x] = path[x] /\ host'[x] = host[x]
         /\ pc'[w] \in {"mkdir", "create", "write", "rename", "remove"}
              => path'[w] \in AtomicArgs /\ host'[w] \in Lasting
         /\ pc[w] # "idle" => host'[w] = host[w]
<1>1. /\ pc \in [Writers -> Stages] /\ DOMAIN path = Writers /\ DOMAIN host = Writers
      /\ ops \in 0..MaxOps + 1 /\ (ops = MaxOps + 1 => pending = NoPath) /\ MaxOps \in Nat
      /\ pc[w] \in {"mkdir", "create", "write", "rename", "remove"}
           => path[w] \in AtomicArgs /\ host[w] \in Lasting
  BY OsFSAssumption DEF Types
<1>2. CASE \E v \in AtomicArgs : Resolve(w, v)
  <2>1. PICK v \in AtomicArgs : Resolve(w, v)
    BY <1>2
  <2>2. PICK p : p = ForOpen(tree, v)
    OBVIOUS
  <2>3. p # Failed => p \in Lasting
    BY <2>2, JailOfWorld, ArgsAreLasting, ForOpenIsPath DEF Types
  <2>4. /\ pc[w] = "idle" /\ ops < MaxOps /\ ops' = ops + 1 /\ UNCHANGED <<jail, pending>>
        /\ \/ pc' = [pc EXCEPT ![w] = "done"] /\ UNCHANGED <<path, host>>
           \/ /\ p # Failed /\ pc' = [pc EXCEPT ![w] = "mkdir"]
              /\ path' = [path EXCEPT ![w] = v] /\ host' = [host EXCEPT ![w] = p]
    BY <2>1, <2>2 DEF Resolve, IsError, Goto
  <2>5. CASE pc' = [pc EXCEPT ![w] = "done"] /\ UNCHANGED <<path, host>>
    BY <1>1, <2>4, <2>5 DEF Stages
  <2>6. CASE /\ p # Failed /\ pc' = [pc EXCEPT ![w] = "mkdir"]
             /\ path' = [path EXCEPT ![w] = v] /\ host' = [host EXCEPT ![w] = p]
    BY <1>1, <2>3, <2>4, <2>6 DEF Stages
  <2> QED
    BY <2>4, <2>5, <2>6
<1>3. ASSUME pc[w] \in {"mkdir", "create", "write", "rename", "remove"},
             NEW l \in Stages, pc' = [pc EXCEPT ![w] = l],
             UNCHANGED <<jail, pending, path, host, ops>>
      PROVE  /\ UNCHANGED <<jail, pending>> /\ ops' \in 0..MaxOps + 1
             /\ ops' = MaxOps + 1 => pending' = NoPath
             /\ pc' \in [Writers -> Stages] /\ DOMAIN path' = Writers /\ DOMAIN host' = Writers
             /\ \A x \in Writers \ {w} :
                  pc'[x] = pc[x] /\ path'[x] = path[x] /\ host'[x] = host[x]
             /\ pc'[w] \in {"mkdir", "create", "write", "rename", "remove"}
                  => path'[w] \in AtomicArgs /\ host'[w] \in Lasting
             /\ pc[w] # "idle" => host'[w] = host[w]
  BY <1>1, <1>3
<1>4. CASE MakeDirs(w)
  <2>1. PICK l \in {"done", "create"} : pc' = [pc EXCEPT ![w] = l]
    BY <1>4 DEF MakeDirs, Goto
  <2> QED
    BY <1>3, <1>4, <2>1 DEF MakeDirs, Stages
<1>5. CASE CreateTemp(w)
  <2>1. PICK l \in {"done", "write"} : pc' = [pc EXCEPT ![w] = l]
    BY <1>5 DEF CreateTemp, Goto
  <2> QED
    BY <1>3, <1>5, <2>1 DEF CreateTemp, Stages
<1>6. CASE WriteTemp(w)
  BY <1>3, <1>6 DEF WriteTemp, Goto, Stages
<1>7. CASE WriteFails(w)
  BY <1>3, <1>7 DEF WriteFails, CleanUp, Goto, Stages
<1>8. CASE Install(w)
  BY <1>3, <1>8 DEF Install, CleanUp, Goto, Stages
<1>9. CASE RemoveTemp(w)
  BY <1>3, <1>9 DEF RemoveTemp, Goto, Stages
<1> QED
  BY <1>2, <1>4, <1>5, <1>6, <1>7, <1>8, <1>9 DEF AtomicWriteFile

LEMMA OneIsNode ==
  \A c : IsNode(FileOf(<<c>>))
<1> SUFFICES ASSUME NEW c PROVE IsNode(FileOf(<<c>>))
  OBVIOUS
<1>1. PICK r : r = <<c>>
  OBVIOUS
<1> DEFINE S == {r[i] : i \in DOMAIN r}
<1>2. c \in S
  <2>1. 1 \in DOMAIN r /\ r[1] = c
    BY <1>1
  <2> QED
    BY <2>1
<1> HIDE DEF S
<1>3. <<c>> \in Seq(S)
  BY <1>2
<1>4. r \in Seq({r[i] : i \in DOMAIN r})
  BY <1>1, <1>3 DEF S
<1> QED
  BY <1>1, <1>4 DEF IsNode, FileOf

\* A step of w that is harmless, and makes no temporary file.
LEMMA HarmlessOwnStep ==
  ASSUME Types, NEW w \in Writers, TempOf(w), Harmless(tree, tree'),
         \/ pc[w] \in {"idle", "mkdir"} /\ pc'[w] \in {"mkdir", "create", "done"}
         \/ /\ pc[w] \in {"write", "rename"} /\ pc'[w] = "remove" /\ host'[w] = host[w]
            /\ moved'[w] = (moved[w] \/ (Busy(w) /\ ~WaysKept))
         \/ pc[w] = "remove" /\ pc'[w] = "done"
  PROVE  /\ \A x \in Writers : Kept(tree, tree', x)
         /\ IsTree(tree)' /\ TempOf(w)'
         /\ pc[w] # "remove" => Tidy(w)'
<1>1. IsTree(tree)' /\ \A x \in Writers : Kept(tree, tree', x)
  BY DEF Harmless, IsTree, IsDir, IsNode, DirNode, LinkTo, FileOf
<1>2. /\ NoTemp(tree, w) => NoTemp(tree', w)
      /\ NoPart(tree, w) => NoPart(tree', w)
      /\ OwnTemps(tree', w)
      /\ \A p \in DOMAIN tree' : tree'[p] = FileOf(Part(w)) => Last(p) = w
      /\ pc[w] \in {"write", "rename", "remove"} /\ ~moved[w] /\ WaysKept
           => OneTemp(tree', w, TempPath(w))
  BY <1>1, TempIsKept
<1>3. pc'[w] \in {"write", "rename", "remove"} /\ ~moved'[w] => OneTemp(tree', w, TempPath(w)')
  BY <1>2 DEF Busy, TempPath
<1>4. /\ pc'[w] \in {"idle", "mkdir", "create"} => NoTemp(tree', w)
      /\ pc'[w] \in {"idle", "mkdir", "create", "rename"} => NoPart(tree', w)
      /\ pc[w] # "remove" /\ pc'[w] = "done" => NoTemp(tree', w)
  BY <1>2 DEF TempOf
<1>5. pc[w] # "remove" => Tidy(w)'
  BY <1>4 DEF Tidy, NoTemp
<1> QED
  BY <1>1, <1>2, <1>3, <1>4, <1>5 DEF TempOf, NoTemp, OneTemp, OwnTemps, NoPart, TempPath

LEMMA CreateTempStep ==
  ASSUME Types, NEW w \in Writers, TempOf(w), CreateTemp(w)
  PROVE  /\ \A x \in Writers \ {w} : Kept(tree, tree', x)
         /\ IsTree(tree)' /\ TempOf(w)' /\ Tidy(w)'
<1>1. /\ pc[w] = "create" /\ IsTree(tree) /\ NoTemp(tree, w) /\ NoPart(tree, w)
      /\ pc'[w] \in {"write", "done"} /\ host'[w] = host[w] /\ host[w] \in Lasting
  BY DEF CreateTemp, Goto, TempOf, Types
<1>2. PICK t, u, e : t = tree /\ u = tree' /\ e = EntryAt(t, TempPath(w))
  OBVIOUS
<1>3. CASE ~IsNew(t, e)
  <2>1. tree' = tree /\ pc'[w] = "done"
    BY <1>2, <1>3 DEF CreateTemp, Goto, Types
  <2>2. \A x \in Writers : Kept(tree, tree', x)
    BY <1>1, <2>1, SameIsHarmless DEF Harmless
  <2>3. IsTree(tree)' /\ NoTemp(tree, w)' /\ NoPart(tree, w)'
    <3>1. IsTree(tree') /\ NoTemp(tree', w) /\ NoPart(tree', w)
      BY <1>1, <2>1
    <3> QED
      BY <3>1 DEF NoTemp, NoPart, IsTree, IsDir, IsNode, DirNode, LinkTo, FileOf
  <2>4. /\ OwnTemps(tree, w)'
        /\ \A p \in DOMAIN tree' : tree'[p] = FileOf(Part(w)) => Last(p) = w
    BY <2>1 DEF TempOf, OwnTemps
  <2>5. TempOf(w)' /\ Tidy(w)'
    BY <2>1, <2>3, <2>4 DEF TempOf, Tidy
  <2> QED
    BY <2>2, <2>3, <2>5
<1>4. CASE IsNew(t, e)
  <2>1. u = Put(t, e, FileOf(Part(w))) /\ pc'[w] = "write"
    BY <1>2, <1>4 DEF CreateTemp, Goto, Types
  <2>2. /\ TempPath(w) \in Path /\ TempPath(w) # <<>> /\ Front(TempPath(w)) \in Lasting
        /\ Last(TempPath(w)) = w
    BY <1>1, TempPathIsPath
  <2>3. Slot(t, e) /\ Last(e) = w /\ e \notin DOMAIN t
    BY <1>1, <1>2, <1>4, <2>2, EntryToChange DEF IsNew, IsDir
  <2>4. IsNode(FileOf(Part(w)))
    BY OneIsNode DEF Part
  <2>5. /\ IsTree(u) /\ u[e] = FileOf(Part(w))
        /\ \A p : p \in DOMAIN u <=> (p \in DOMAIN t \/ p = e)
        /\ \A p \in DOMAIN t : p # e => u[p] = t[p]
    BY <1>1, <1>2, <2>1, <2>3, <2>4, PutTree
  <2>6. ASSUME NEW x \in Writers \ {w} PROVE Kept(t, u, x)
    <3>1. FileOf(Part(w)) # FileOf(Part(x))
      <4>1. FileOf(Part(w)).data[1].by = w /\ FileOf(Part(x)).data[1].by = x
        BY DEF FileOf, Part
      <4> QED
        BY <4>1
    <3> QED
      BY <1>1, <1>2, <2>1, <2>3, <2>4, <3>1, PutKeeps
  <2>7. Ways(t, u)
    <3>1. ~IsLink(u, e) /\ ~IsLink(t, e)
      BY <2>3, <2>5 DEF IsLink, FileOf
    <3>2. \A p : p \in DOMAIN u /\ p # e => p \in DOMAIN t /\ u[p] = t[p]
      BY <2>5
    <3>3. \A p \in DOMAIN t : IsDir(t, p) => IsDir(u, p)
      BY <2>3, <2>5 DEF IsDir
    <3> QED
      BY <2>5, <3>1, <3>2, <3>3 DEF Ways, IsLink
  <2>8. OneTemp(u, w, TempPath(w))
    <3>1. EntryAt(u, TempPath(w)) = e
      BY <1>1, <1>2, <2>2, <2>3, <2>5, <2>7, StableEntry DEF Slot
    <3> QED
      BY <1>1, <1>2, <2>5, <3>1 DEF OneTemp, NoTemp
  <2>9. /\ OwnTemps(u, w)
        /\ \A p \in DOMAIN u : u[p] = FileOf(Part(w)) => Last(p) = w
    BY <1>1, <1>2, <2>3, <2>5 DEF NoTemp, NoPart, OwnTemps
  <2>10. TempPath(w)' = TempPath(w)
    BY <1>1 DEF TempPath
  <2>11. IsTree(tree') /\ OneTemp(tree', w, TempPath(w)')
         /\ OwnTemps(tree', w)
         /\ (\A p \in DOMAIN tree' : tree'[p] = FileOf(Part(w)) => Last(p) = w)
         /\ \A x \in Writers \ {w} : Kept(tree, tree', x)
    BY <1>2, <2>5, <2>6, <2>8, <2>9, <2>10
  <2>12. IsTree(tree)'
    BY <2>11 DEF IsTree, IsDir, IsNode, DirNode, LinkTo, FileOf
  <2>13. TempOf(w)' /\ Tidy(w)'
    BY <2>1, <2>11 DEF TempOf, Tidy, NoTemp, OneTemp, OwnTemps, NoPart, TempPath
  <2> QED
    BY <2>11, <2>12, <2>13
<1> QED
  BY <1>3, <1>4

LEMMA WriteTempStep ==
  ASSUME Types, NEW w \in Writers, TempOf(w), WriteTemp(w),
         moved'[w] = (moved[w] \/ (Busy(w) /\ ~WaysKept))
  PROVE  /\ \A x \in Writers \ {w} : Kept(tree, tree', x)
         /\ IsTree(tree)' /\ TempOf(w)' /\ Tidy(w)'
<1>1. /\ pc[w] = "write" /\ IsTree(tree) /\ pc'[w] = "rename" /\ host'[w] = host[w]
  BY DEF WriteTemp, Goto, TempOf, Types
<1>2. PICK t, u : t = tree /\ u = tree'
  OBVIOUS
<1>3. /\ DOMAIN u = DOMAIN t
      /\ \A p \in DOMAIN t : u[p] = IF t[p] = FileOf(Part(w)) THEN FileOf(Whole(w)) ELSE t[p]
  BY <1>2 DEF WriteTemp
<1>4. \A x : FileOf(Whole(w)) # FileOf(Part(x))
  <2>1. \A x : FileOf(Whole(w)).data[1].whole = TRUE /\ FileOf(Part(x)).data[1].whole = FALSE
    BY DEF FileOf, Whole, Part
  <2> QED
    BY <2>1
<1>5. FileOf(Whole(w)).kind = "file" /\ FileOf(Part(w)).kind = "file"
  BY DEF FileOf
<1>6. \A d : IsDir(u, d) <=> IsDir(t, d)
  BY <1>3, <1>5 DEF IsDir
<1>7. IsTree(u)
  <2>1. IsNode(FileOf(Whole(w)))
    BY OneIsNode DEF Whole
  <2>2. \A p \in DOMAIN u : IsNode(u[p])
    BY <1>1, <1>2, <1>3, <2>1 DEF IsTree
  <2> QED
    BY <1>1, <1>2, <1>3, <1>6, <2>2 DEF IsTree
<1>8. \A x : \A p \in DOMAIN u : u[p] = FileOf(Part(x)) => t[p] = u[p]
  BY <1>3, <1>4
<1>9. \A x : Kept(t, u, x)
  <2>1. ASSUME NEW x, NEW p \in DOMAIN u, Last(p) = x
        PROVE  p \in DOMAIN t /\ u[p] \in {t[p], FileOf(Whole(x))}
    BY <1>2, <1>3, <2>1 DEF TempOf
  <2> QED
    BY <1>3, <1>8, <2>1, KeptInPlace
<1>10. NoPart(u, w)
  BY <1>3, <1>4 DEF NoPart
<1>11. IsTree(tree') /\ NoPart(tree', w) /\ \A x : Kept(tree, tree', x)
  BY <1>2, <1>7, <1>9, <1>10
<1>12. IsTree(tree)'
  BY <1>11 DEF IsTree, IsDir, IsNode, DirNode, LinkTo, FileOf
<1>13. /\ OwnTemps(tree', w)
       /\ \A p \in DOMAIN tree' : tree'[p] = FileOf(Part(w)) => Last(p) = w
       /\ pc[w] \in {"write", "rename", "remove"} /\ ~moved[w] /\ WaysKept
            => OneTemp(tree', w, TempPath(w))
  BY <1>11, <1>12, TempIsKept
<1>14. ~moved'[w] => OneTemp(tree', w, TempPath(w)')
  BY <1>1, <1>13 DEF Busy, TempPath
<1>15. TempOf(w)' /\ Tidy(w)'
  BY <1>1, <1>11, <1>13, <1>14 DEF TempOf, Tidy, OneTemp, OwnTemps, NoPart, TempPath
<1> QED
  BY <1>11, <1>12, <1>15

\* No directory has the name of a temporary file.
LEMMA TempEntry ==
  ASSUME Types, NEW w \in Writers, TempOf(w), host[w] \in Lasting,
         NEW e, e = EntryAt(tree, TempPath(w)), e \in DOMAIN tree
  PROVE  /\ e \in Path /\ e # <<>> /\ Last(e) = w /\ ~IsDir(tree, e)
         /\ Under(tree, e) = {e}
<1>1. IsTree(tree) /\ e \notin {Missing, NotDir}
  BY HostAssumption DEF Types, IsTree
<1>2. e \in Path /\ e # <<>> /\ Last(e) = w
  BY <1>1, TempPathIsPath, EntryIsPlace
<1>3. ~IsDir(tree, e)
  BY <1>2 DEF TempOf, OwnTemps, IsDir, FileOf
<1> QED
  BY <1>1, <1>2, <1>3, NothingBelow

LEMMA InstallIsHarmless ==
  ASSUME Types, NEW w \in Writers, TempOf(w), Install(w)
  PROVE  /\ Harmless(tree, tree')
         /\ \A p \in DOMAIN tree \ DOMAIN tree' : Last(p) = w
<1>1. pc[w] = "rename" /\ IsTree(tree) /\ host[w] \in Lasting /\ NoPart(tree, w)
  BY DEF Install, Types, TempOf
<1>2. PICK u : u = OsRename(tree, TempPath(w), host[w]) /\ (tree' = tree \/ (tree' = u /\ u # Failed))
  BY DEF Install, Becomes
<1>3. CASE tree' = tree
  BY <1>1, <1>3, SameIsHarmless
<1>4. CASE tree' = u /\ u # Failed
  <2>1. PICK o, n : /\ o = EntryAt(tree, TempPath(w)) /\ n = EntryAt(tree, host[w])
                    /\ CanMove(tree, o, n) /\ u = Move(tree, o, n)
    BY <1>2, <1>4 DEF OsRename, Renamed
  <2>2. o \in DOMAIN tree /\ n \notin {Missing, NotDir} /\ ~IsDir(tree, n)
    BY <2>1 DEF CanMove
  <2>3. o \in Path /\ o # <<>> /\ Last(o) = w /\ ~IsDir(tree, o)
    BY <1>1, <2>1, <2>2, TempEntry
  <2>4. /\ TempPath(w) \in Path /\ TempPath(w) # <<>> /\ Front(TempPath(w)) \in Lasting
        /\ Last(TempPath(w)) = w
    BY <1>1, TempPathIsPath
  <2>5. host[w] # <<>> /\ host[w] \in Path
    <3>1. host[w] \in Path /\ host[w] # Failed
      BY <1>1, LastingIsPath, HostAssumption
    <3> QED
      BY <1>1, <2>1, <2>2, <3>1 DEF EntryAt, IsTree
  <2>6. Slot(tree, n)
    BY <1>1, <2>1, <2>2, <2>5, EntryToChange, LastingByParts
  <2>7. /\ IsTree(u)
        /\ \A x \in Writers :
             (tree[EntryAt(tree, TempPath(w))] = FileOf(Part(x)) => Last(TempPath(w)) # x)
               => Kept(tree, u, x)
    BY <1>1, <1>2, <1>4, <2>4, RenameKeeps
  <2>8. tree[o] # FileOf(Part(w))
    BY <1>1, <2>2 DEF NoPart
  <2>9. Harmless(tree, u)
    BY <2>1, <2>4, <2>7, <2>8 DEF Harmless
  <2>10. \A p : p \in DOMAIN u <=> ((p \in DOMAIN tree /\ p # o) \/ p = n)
    BY <1>1, <2>1, <2>2, <2>3, <2>6, MoveOne
  <2> QED
    BY <1>4, <2>3, <2>9, <2>10
<1> QED
  BY <1>2, <1>3, <1>4

\* Failed is no function, so no tree either.
FailedIsNoTree == Failed # [p \in DOMAIN Failed |-> Failed[p]]

LEMMA RemoveTempIsHarmless ==
  ASSUME Types, NEW w \in Writers, TempOf(w), RemoveTemp(w), moved[w] => moved'[w]
  PROVE  /\ Harmless(tree, tree')
         /\ \A p \in DOMAIN tree \ DOMAIN tree' : Last(p) = w
         /\ FailedIsNoTree => Tidy(w)'
<1>1. pc[w] = "remove" /\ IsTree(tree) /\ host[w] \in Lasting
  BY DEF RemoveTemp, Types, TempOf
<1>2. PICK u, e : /\ e = EntryAt(tree, TempPath(w)) /\ u = RemoveEntry(tree, e)
                  /\ tree' = IF u = Failed THEN tree ELSE u
  BY DEF RemoveTemp, OsRemove, Becomes
<1>3. e \in DOMAIN tree => e \in Path /\ e # <<>> /\ Last(e) = w /\ Under(tree, e) = {e}
  BY <1>1, <1>2, TempEntry
<1>4. ~moved[w] => OneTemp(tree, w, TempPath(w))
  BY <1>1 DEF TempOf
<1>5. ASSUME ~moved[w] => NoTemp(tree', w) PROVE Tidy(w)'
  BY <1>5 DEF Tidy, NoTemp
<1>6. CASE tree' = tree /\ e \notin DOMAIN tree
  <2>1. ~moved[w] => NoTemp(tree', w)
    BY <1>2, <1>4, <1>6 DEF OneTemp, NoTemp
  <2> QED
    BY <1>1, <1>5, <1>6, <2>1, SameIsHarmless
<1>7. CASE u = Without(tree, {e}) /\ e \in DOMAIN tree
  <2>1. Harmless(tree, u) /\ DOMAIN u = DOMAIN tree \ {e}
    <3>1. /\ <<>> \notin Under(tree, e)
          /\ \A p \in DOMAIN tree \ Under(tree, e) : p # <<>> => Front(p) \notin Under(tree, e)
      BY <1>1, <1>3, <1>7, UnderIsClosed
    <3> QED
      BY <1>1, <1>3, <1>7, <3>1, WithoutIsHarmless DEF Without
  <2>2. ~moved[w] => NoTemp(u, w)
    BY <1>2, <1>4, <2>1 DEF OneTemp, NoTemp
  <2>3. FailedIsNoTree => u # Failed
    <3>1. u = [p \in DOMAIN u |-> u[p]]
      BY <1>7 DEF Without
    <3> QED
      BY <3>1 DEF FailedIsNoTree
  <2>4. FailedIsNoTree => Tidy(w)'
    BY <1>2, <1>5, <2>2, <2>3
  <2>5. Harmless(tree, tree')
    BY <1>1, <1>2, <2>1, SameIsHarmless
  <2>6. \A p \in DOMAIN tree \ DOMAIN tree' : Last(p) = w
    BY <1>2, <1>3, <1>7, <2>1
  <2> QED
    BY <2>4, <2>5, <2>6
<1>8. \/ tree' = tree /\ e \notin DOMAIN tree
      \/ u = Without(tree, {e}) /\ e \in DOMAIN tree
  BY <1>2, <1>3 DEF RemoveEntry
<1> QED
  BY <1>6, <1>7, <1>8

-----------------------------------------------------------------------------
(* Every step.                                                             *)

Moves(w) == moved'[w] = (moved[w] \/ (Busy(w) /\ ~WaysKept))

LEMMA FrontOfHost ==
  ASSUME NEW w \in Writers, host[w] \in Lasting PROVE Front(host[w]) \in Lasting
<1>1. PICK h \in Lasting : h = host[w]
  OBVIOUS
<1>2. CASE h = <<>>
  <2>1. Front(h) = <<>>
    BY <1>2 DEF Front
  <2> QED
    BY <1>1, <2>1 DEF Lasting
<1>3. CASE h # <<>>
  BY <1>1, <1>3, LastingIsPath, LastingByParts
<1> QED
  BY <1>2, <1>3

LEMMA WriterStep ==
  ASSUME OsFSInv, NEW w \in Writers, AtomicWriteFile(w), Moves(w)
  PROVE  /\ \A x \in Writers \ {w} : Kept(tree, tree', x)
         /\ IsTree(tree)' /\ TempOf(w)' /\ (FailedIsNoTree => Tidy(w)')
         /\ \A p \in DOMAIN tree \ DOMAIN tree' : Last(p) = w
<1>1. Types /\ TempOf(w) /\ IsTree(tree) /\ w \in DOMAIN pc
  BY DEF OsFSInv, Types
<1>2. moved'[w] = (moved[w] \/ (Busy(w) /\ ~WaysKept))
  BY DEF Moves
<1>3. moved[w] => moved'[w]
  BY <1>2, Zenon
<1>4. CASE \E v \in AtomicArgs : Resolve(w, v)
  <2>1. tree' = tree /\ pc[w] = "idle" /\ pc'[w] \in {"mkdir", "done"}
    BY <1>1, <1>4 DEF Resolve, Goto
  <2>2. Harmless(tree, tree')
    BY <1>1, <2>1, SameIsHarmless
  <2> QED
    BY <1>1, <2>1, <2>2, HarmlessOwnStep
<1>5. CASE MakeDirs(w)
  <2>1. PICK u : /\ u = OsMkdirAll(tree, Front(host[w]))
                 /\ tree' = IF u = Failed THEN tree ELSE u
    BY <1>5 DEF MakeDirs, Becomes
  <2>2. pc[w] = "mkdir" /\ pc'[w] \in {"done", "create"} /\ host[w] \in Lasting
    BY <1>1, <1>5 DEF MakeDirs, Goto, Types
  <2>3. Front(host[w]) \in Lasting
    BY <2>2, FrontOfHost
  <2>4. u # Failed => Grown(tree, u)
    BY <1>1, <2>1, <2>3, MkdirAllGrows
  <2>5. Harmless(tree, tree') /\ DOMAIN tree \subseteq DOMAIN tree'
    BY <1>1, <2>1, <2>4, GrownIsHarmless, SameIsHarmless DEF Grown
  <2> QED
    BY <1>1, <2>2, <2>5, HarmlessOwnStep
<1>6. CASE CreateTemp(w)
  <2>1. DOMAIN tree \subseteq DOMAIN tree'
    BY <1>6 DEF CreateTemp, Put
  <2> QED
    BY <1>1, <1>6, <2>1, CreateTempStep
<1>7. CASE WriteTemp(w)
  <2>1. DOMAIN tree' = DOMAIN tree
    BY <1>7 DEF WriteTemp
  <2> QED
    BY <1>1, <1>2, <1>7, <2>1, WriteTempStep
<1>8. CASE WriteFails(w)
  <2>1. tree' = tree /\ pc[w] = "write" /\ pc'[w] = "remove" /\ host'[w] = host[w]
    BY <1>1, <1>8 DEF WriteFails, Goto, CleanUp
  <2>2. Harmless(tree, tree')
    BY <1>1, <2>1, SameIsHarmless
  <2> QED
    BY <1>1, <1>2, <2>1, <2>2, HarmlessOwnStep
<1>9. CASE Install(w)
  <2>1. Harmless(tree, tree') /\ \A p \in DOMAIN tree \ DOMAIN tree' : Last(p) = w
    BY <1>1, <1>9, InstallIsHarmless
  <2>2. pc[w] = "rename" /\ pc'[w] = "remove" /\ host'[w] = host[w]
    BY <1>1, <1>9 DEF Install, Goto, CleanUp
  <2> QED
    BY <1>1, <1>2, <2>1, <2>2, HarmlessOwnStep
<1>10. CASE RemoveTemp(w)
  <2>1. /\ Harmless(tree, tree') /\ \A p \in DOMAIN tree \ DOMAIN tree' : Last(p) = w
        /\ FailedIsNoTree => Tidy(w)'
    BY <1>1, <1>3, <1>10, RemoveTempIsHarmless
  <2>2. pc[w] = "remove" /\ pc'[w] = "done"
    BY <1>1, <1>10 DEF RemoveTemp, Goto
  <2> QED
    BY <1>1, <2>1, <2>2, HarmlessOwnStep
<1> QED
  BY <1>4, <1>5, <1>6, <1>7, <1>8, <1>9, <1>10 DEF AtomicWriteFile

LEMMA StepKeepsInv ==
  ASSUME OsFSInv, [Next]_vars
  PROVE  /\ OsFSInv'
         /\ FailedIsNoTree /\ (\A w \in Writers : Tidy(w)) => \A w \in Writers : Tidy(w)'
<1>1. Types /\ (\A w \in Writers : TempOf(w)) /\ IsTree(tree) /\ jail \in {world.jail : world \in Worlds}
      /\ pc \in [Writers -> Stages] /\ moved \in [Writers -> BOOLEAN]
  BY DEF OsFSInv, Types
<1>2. CASE UNCHANGED vars
  <2>1. tree' = tree /\ UNCHANGED <<jail, pending, pc, path, host, moved, cleared, ops>>
    BY <1>2 DEF vars
  <2>2. IsTree(tree)' /\ \A w \in Writers : Kept(tree, tree', w)
    <3>1. Harmless(tree, tree')
      BY <1>1, <2>1, SameIsHarmless
    <3> QED
      BY <3>1 DEF Harmless, IsTree, IsDir, IsNode, DirNode, LinkTo, FileOf
  <2>3. WaysKept
    BY <2>1 DEF WaysKept, IsDir, IsLink
  <2>4. \A w \in Writers : moved'[w] = (moved[w] \/ (Busy(w) /\ ~WaysKept))
    BY <1>1, <2>1, <2>3
  <2>5. Types'
    BY <1>1, <2>1, <2>2 DEF Types
  <2>6. \A w \in Writers : TempOf(w)' /\ (Tidy(w) => Tidy(w)')
    BY <1>1, <2>1, <2>2, <2>4, OthersStep
  <2> QED
    BY <2>5, <2>6 DEF OsFSInv
<1>3. ASSUME Next
      PROVE  /\ moved' \in [Writers -> BOOLEAN] /\ cleared' \in [Writers -> BOOLEAN]
             /\ \A w \in Writers : Moves(w)
  <2>1. /\ moved'   = [w \in Writers |-> moved[w] \/ (Busy(w) /\ ~WaysKept)]
        /\ cleared' = [w \in Writers |-> cleared[w] \/ (Busy(w) /\ Clears(w))]
    BY <1>3 DEF Next
  <2> QED
    BY <2>1, Zenon DEF Moves
<1>4. CASE Next /\ Client
  <2>1. /\ Harmless(tree, tree') /\ UNCHANGED <<jail, pc, path, host>>
        /\ pending' \in Args \cup {NoPath} /\ ops' \in 0..MaxOps + 1
        /\ ops' = MaxOps + 1 => pending' = NoPath
    BY <1>1, <1>4, ClientStep
  <2>2. IsTree(tree)' /\ \A w \in Writers : Kept(tree, tree', w)
    BY <2>1 DEF Harmless, IsTree, IsDir, IsNode, DirNode, LinkTo, FileOf
  <2>3. Types'
    BY <1>1, <1>3, <1>4, <2>1, <2>2 DEF Types
  <2>4. \A w \in Writers : TempOf(w)' /\ (Tidy(w) => Tidy(w)')
    BY <1>1, <1>3, <1>4, <2>1, <2>2, OthersStep DEF Moves
  <2> QED
    BY <2>3, <2>4 DEF OsFSInv
<1>5. CASE Next /\ \E w \in Writers : AtomicWriteFile(w)
  <2>1. PICK w \in Writers : AtomicWriteFile(w)
    BY <1>5
  <2>2. /\ \A x \in Writers \ {w} : Kept(tree, tree', x)
        /\ IsTree(tree)' /\ TempOf(w)' /\ (FailedIsNoTree => Tidy(w)')
    BY <1>3, <1>5, <2>1, WriterStep
  <2>3. /\ UNCHANGED <<jail, pending>> /\ ops' \in 0..MaxOps + 1
        /\ ops' = MaxOps + 1 => pending' = NoPath
        /\ pc' \in [Writers -> Stages] /\ DOMAIN path' = Writers /\ DOMAIN host' = Writers
        /\ \A x \in Writers \ {w} : pc'[x] = pc[x] /\ path'[x] = path[x] /\ host'[x] = host[x]
        /\ pc'[w] \in {"mkdir", "create", "write", "rename", "remove"}
             => path'[w] \in AtomicArgs /\ host'[w] \in Lasting
    BY <1>1, <2>1, WriterControl
  <2>4. Types'
    BY <1>1, <1>3, <1>5, <2>2, <2>3 DEF Types
  <2>5. \A x \in Writers \ {w} : TempOf(x)' /\ (Tidy(x) => Tidy(x)')
    BY <1>1, <1>3, <1>5, <2>2, <2>3, OthersStep DEF Moves
  <2> QED
    BY <2>2, <2>4, <2>5 DEF OsFSInv
<1>6. CASE Next /\ Crash
  <2>1. /\ pc' = [w \in Writers |-> IF Busy(w) THEN "crashed" ELSE pc[w]]
        /\ pending' = NoPath /\ UNCHANGED <<jail, tree, path, host, ops>>
    BY <1>6 DEF Crash
  <2>2. IsTree(tree)' /\ \A w \in Writers : Kept(tree, tree', w)
    <3>1. Harmless(tree, tree')
      BY <1>1, <2>1, SameIsHarmless
    <3> QED
      BY <3>1 DEF Harmless, IsTree, IsDir, IsNode, DirNode, LinkTo, FileOf
  <2>3. pc' \in [Writers -> Stages] /\ \A w \in Writers : pc'[w] \in {pc[w], "crashed"}
    BY <1>1, <2>1 DEF Stages
  <2>4. Types'
    <3>1. \A w \in Writers : pc'[w] \in {"mkdir", "create", "write", "rename", "remove"} =>
                              path'[w] \in AtomicArgs /\ host'[w] \in Lasting
      BY <1>1, <2>1, <2>3 DEF Types
    <3>2. DOMAIN path' = Writers /\ DOMAIN host' = Writers /\ ops' \in 0..MaxOps + 1
      BY <1>1, <2>1 DEF Types
    <3> QED
      BY <1>1, <1>3, <1>6, <2>1, <2>2, <2>3, <3>1, <3>2 DEF Types
  <2>5. \A w \in Writers : TempOf(w)' /\ (Tidy(w) => Tidy(w)')
    BY <1>1, <1>3, <1>6, <2>1, <2>2, <2>3, OthersStep DEF Moves
  <2> QED
    BY <2>4, <2>5 DEF OsFSInv
<1> QED
  BY <1>2, <1>4, <1>5, <1>6 DEF Next

LEMMA InitHasInv ==
  ASSUME Init PROVE OsFSInv /\ \A w \in Writers : Tidy(w)
<1>1. /\ pending = NoPath /\ ops = 0 /\ MaxOps \in Nat
      /\ pc = [w \in Writers |-> "idle"] /\ path = [w \in Writers |-> NoPath]
      /\ host = [w \in Writers |-> NoPath] /\ moved = [w \in Writers |-> FALSE]
      /\ cleared = [w \in Writers |-> FALSE]
  BY OsFSAssumption DEF Init
<1>2. PICK world \in Worlds : jail = world.jail /\ tree = world.tree
  BY DEF Init
<1>3. /\ IsTree(tree)
      /\ \A p \in DOMAIN tree : p \in Lasting /\ \A w \in Writers : tree[p] # FileOf(Part(w))
  BY <1>2, WorldsAssumption
<1>4. \A w \in Writers : NoTemp(tree, w) /\ NoPart(tree, w)
  <2>1. \A p \in DOMAIN tree : p # <<>> => Last(p) \notin Writers
    BY <1>3, LastingIsPath, LastingByParts
  <2> QED
    BY <1>3, <2>1 DEF NoTemp, NoPart
<1>5. Types
  BY <1>1, <1>2, <1>3 DEF Types, Stages
<1>6. \A w \in Writers : TempOf(w) /\ Tidy(w)
  BY <1>1, <1>4 DEF TempOf, Tidy, NoTemp, OwnTemps, NoPart
<1> QED
  BY <1>5, <1>6 DEF OsFSInv

LEMMA InvHolds == Spec => []OsFSInv
<1>1. Init => OsFSInv
  BY InitHasInv
<1>2. OsFSInv /\ [Next]_vars => OsFSInv'
  BY StepKeepsInv
<1> QED
  BY <1>1, <1>2, PTL DEF Spec

\* Every variable has its type, and whatever is done to the tree it is one:
\* what contains something is a directory.
THEOREM OsFSTypesHold == Spec => []TypeOK
<1>1. OsFSInv => TypeOK
  BY LastingIsPath DEF OsFSInv, Types, TypeOK, Stages
<1> QED
  BY <1>1, InvHolds, PTL

\* However atomic writes, errors, crashes and the client's operations follow one
\* another, what is partly written has the name of the temporary file (the
\* rename of atomicWriteFile comes after the write and the close).
THEOREM PartialDataIsTemporary == Spec => []OnlyTempsArePartial
<1>1. OsFSInv => OnlyTempsArePartial
  BY DEF OsFSInv, TempOf, OnlyTempsArePartial
<1> QED
  BY <1>1, InvHolds, PTL

\* An atomic write never takes away a file that was there.
NeverMissing ==
  [][\A w \in Writers : AtomicWriteFile(w) =>
       \A p \in DOMAIN tree \ DOMAIN tree' : Last(p) = w]_vars

\* atomicWriteFile takes nothing away but its temporary file, at any step.
THEOREM NothingIsTakenAway == Spec => NeverMissing
<1>1. OsFSInv /\ [Next]_vars =>
        [\A w \in Writers : AtomicWriteFile(w) =>
           \A p \in DOMAIN tree \ DOMAIN tree' : Last(p) = w]_vars
  <2> SUFFICES ASSUME OsFSInv, Next, NEW w \in Writers, AtomicWriteFile(w)
               PROVE  \A p \in DOMAIN tree \ DOMAIN tree' : Last(p) = w
    OBVIOUS
  <2>1. moved' = [x \in Writers |-> moved[x] \/ (Busy(x) /\ ~WaysKept)]
    BY DEF Next
  <2>2. Moves(w)
    BY <2>1, Zenon DEF Moves
  <2> QED
    BY <2>2, WriterStep
<1> QED
  BY <1>1, InvHolds, PTL DEF Spec, NeverMissing

\* The deferred os.Remove finds what os.CreateTemp made, unless a directory or a
\* link on the way has changed, so that no temporary file is left.
THEOREM TempsAreRemoved ==
  ASSUME FailedIsNoTree PROVE Spec => []NoLitter
<1> DEFINE TidyInv == \A w \in Writers : Tidy(w)
<1>1. Init => TidyInv
  BY InitHasInv
<1>2. OsFSInv /\ TidyInv /\ [Next]_vars => TidyInv'
  BY StepKeepsInv
<1>3. TidyInv => NoLitter
  BY DEF Tidy, NoTemp, NoLitter
<1> HIDE DEF TidyInv
<1> QED
  BY <1>1, <1>2, <1>3, InvHolds, PTL DEF Spec

-----------------------------------------------------------------------------
(* An atomic write is one to whoever looks at files.                       *)

Hidden(p) == p # <<>> /\ Last(p) \in Writers

\* Visible, of any tree.
Shown(t) == [p \in {p \in DOMAIN t : ~Hidden(p)} |-> t[p]]

LEMMA VisibleIsShown ==
  Visible = Shown(tree) /\ Visible' = Shown(tree')
  BY DEF Visible, Shown, Hidden

LEMMA SameIsShown ==
  ASSUME NEW t, NEW u,
         \A p : ~Hidden(p) =>
           /\ p \in DOMAIN t <=> p \in DOMAIN u
           /\ p \in DOMAIN t => u[p] = t[p]
  PROVE  Shown(u) = Shown(t)
<1>1. {p \in DOMAIN t : ~Hidden(p)} = {p \in DOMAIN u : ~Hidden(p)}
  OBVIOUS
<1>2. \A p \in {p \in DOMAIN t : ~Hidden(p)} : u[p] = t[p]
  OBVIOUS
<1> QED
  BY <1>1, <1>2 DEF Shown

\* What the directories that are made show.
LEMMA GrownIsShown ==
  ASSUME NEW t, NEW u, Grown(t, u), NEW f, f = Shown(t), NEW g, g = Shown(u)
  PROVE  /\ DOMAIN f \subseteq DOMAIN g
         /\ g = [p \in DOMAIN g |-> IF p \in DOMAIN f THEN f[p] ELSE DirNode]
<1>1. /\ DOMAIN f = {p \in DOMAIN t : ~Hidden(p)} /\ DOMAIN g = {p \in DOMAIN u : ~Hidden(p)}
      /\ \A p \in DOMAIN f : f[p] = t[p]
      /\ \A p \in DOMAIN g : g[p] = u[p]
      /\ g = [p \in DOMAIN g |-> g[p]]
  BY DEF Shown
<1>2. /\ DOMAIN t \subseteq DOMAIN u /\ \A p \in DOMAIN t : u[p] = t[p]
      /\ \A p \in DOMAIN u \ DOMAIN t : u[p] = DirNode
  BY DEF Grown
<1>3. DOMAIN f \subseteq DOMAIN g
  BY <1>1, <1>2
<1>4. \A p \in DOMAIN g : g[p] = IF p \in DOMAIN f THEN f[p] ELSE DirNode
  BY <1>1, <1>2
<1> QED
  BY <1>1, <1>3, <1>4

\* One file of f is new in g: Replace, of any two trees.
Replaced(f, g, new) ==
  \E p \in DOMAIN g \ {<<>>} :
    /\ Front(p) \in DOMAIN f /\ f[Front(p)] = DirNode
    /\ ~(p \in DOMAIN f /\ f[p] = DirNode)
    /\ g = [q \in DOMAIN f \cup {p} |-> IF q = p THEN new ELSE f[q]]

\* What is shown of a rename of what is hidden to what is not.
LEMMA MoveIsShown ==
  ASSUME NEW t, IsTree(t), NEW o, o \in DOMAIN t, Hidden(o), ~IsDir(t, o),
         NEW n, Slot(t, n), ~Hidden(n), \A p : IsDir(t, p) => ~Hidden(p),
         NEW u, u = Move(t, o, n)
  PROVE  Replaced(Shown(t), Shown(u), t[o])
<1> PICK f, g : f = Shown(t) /\ g = Shown(u)
  OBVIOUS
<1>1. /\ u[n] = t[o]
      /\ \A p : p \in DOMAIN u <=> ((p \in DOMAIN t /\ p # o) \/ p = n)
      /\ \A p \in DOMAIN t \ {o, n} : u[p] = t[p]
  BY MoveOne
<1>2. /\ DOMAIN f = {p \in DOMAIN t : ~Hidden(p)} /\ DOMAIN g = {p \in DOMAIN u : ~Hidden(p)}
      /\ \A p \in DOMAIN f : f[p] = t[p]
      /\ \A p \in DOMAIN g : g[p] = u[p]
      /\ g = [p \in DOMAIN g |-> g[p]]
  BY DEF Shown
<1>3. DOMAIN g = DOMAIN f \cup {n}
  BY <1>1, <1>2
<1>4. \A q \in DOMAIN g : g[q] = IF q = n THEN t[o] ELSE f[q]
  BY <1>1, <1>2, <1>3
<1>5. n # <<>> /\ IsDir(t, Front(n)) /\ ~IsDir(t, n)
  BY DEF Slot
<1>6. \A p \in DOMAIN t : IsDir(t, p) <=> t[p] = DirNode
  <2>1. ASSUME NEW p \in DOMAIN t PROVE IsDir(t, p) <=> t[p] = DirNode
    <3>1. IsNode(t[p])
      BY DEF IsTree
    <3> QED
      BY <3>1 DEF IsNode, IsDir, DirNode, LinkTo, FileOf
  <2> QED
    BY <2>1
<1>7. Front(n) \in DOMAIN f /\ f[Front(n)] = DirNode
  BY <1>2, <1>5, <1>6 DEF IsDir
<1>8. ~(n \in DOMAIN f /\ f[n] = DirNode)
  BY <1>2, <1>5, <1>6
<1>9. g = [q \in DOMAIN f \cup {n} |-> IF q = n THEN t[o] ELSE f[q]]
  BY <1>2, <1>3, <1>4
<1>10. Replaced(f, g, t[o])
  BY <1>3, <1>5, <1>7, <1>8, <1>9 DEF Replaced
<1> QED
  BY <1>10

LEMMA PhaseGoes ==
  ASSUME Types, NEW w \in Writers, pc[w] # "crashed", NEW l, l # "crashed",
         pc' = [pc EXCEPT ![w] = l]
  PROVE  Phase[w] = pc[w] /\ Phase' = [Phase EXCEPT ![w] = l]
<1>1. pc \in [Writers -> Stages]
  BY DEF Types
<1>2. \A x \in Writers : pc'[x] = IF x = w THEN l ELSE pc[x]
  BY <1>1
<1>3. Phase = [x \in Writers |-> IF pc[x] = "crashed" THEN "done" ELSE pc[x]]
      /\ Phase' = [x \in Writers |-> IF pc'[x] = "crashed" THEN "done" ELSE pc'[x]]
  BY DEF Phase
<1> QED
  BY <1>2, <1>3

\* A step of w of which nothing is seen.
LEMMA UnseenStep ==
  ASSUME Types, NEW w \in Writers, Shown(tree') = Shown(tree),
         NEW l, pc' = [pc EXCEPT ![w] = l],
         \/ pc[w] # "crashed" /\ l = "done"
         \/ pc[w] = "idle" /\ l = "mkdir"
         \/ pc[w] = "create" /\ l = "write"
         \/ pc[w] = "write" /\ l \in {"rename", "remove"}
         \/ pc[w] = "rename" /\ l = "remove"
  PROVE  Atomic!Next
<1>1. Phase[w] = pc[w] /\ Phase' = [Phase EXCEPT ![w] = l]
  BY PhaseGoes
<1>2. Visible' = Visible
  BY VisibleIsShown
<1>3. CASE l = "done"
  <2>1. Phase' = [x \in Writers |-> IF x \in {w} THEN "done" ELSE Phase[x]]
    BY <1>1, <1>3 DEF Phase
  <2>2. Atomic!End({w})
    BY <1>2, <2>1 DEF Atomic!End
  <2> QED
    BY <2>2 DEF Atomic!Next
<1>4. CASE l # "done"
  <2>1. Atomic!Work(w)
    BY <1>1, <1>2, <1>4 DEF Atomic!Work, Atomic!Goto
  <2> QED
    BY <2>1 DEF Atomic!Next
<1> QED
  BY <1>3, <1>4

\* CreateTemp and RemoveTemp change what is hidden, WriteTemp too.
LEMMA TempIsHidden ==
  ASSUME OsFSInv, NEW w \in Writers, CreateTemp(w) \/ WriteTemp(w) \/ RemoveTemp(w)
  PROVE  Shown(tree') = Shown(tree)
<1>1. Types /\ TempOf(w) /\ IsTree(tree)
  BY DEF OsFSInv, Types
<1>2. pc[w] \in {"create", "write", "remove"} /\ host[w] \in Lasting
  BY <1>1 DEF CreateTemp, WriteTemp, RemoveTemp, Types
<1>3. PICK t, u, e : t = tree /\ u = tree' /\ e = EntryAt(t, TempPath(w))
  OBVIOUS
<1>4. CASE u = t
  BY <1>3, <1>4
<1>5. CASE CreateTemp(w) /\ u # t
  <2>1. u = Put(t, e, FileOf(Part(w))) /\ IsNew(t, e)
    BY <1>3, <1>5 DEF CreateTemp
  <2>2. /\ TempPath(w) \in Path /\ TempPath(w) # <<>> /\ Front(TempPath(w)) \in Lasting
        /\ Last(TempPath(w)) = w
    BY <1>2, TempPathIsPath
  <2>3. Slot(t, e) /\ Last(e) = w
    BY <1>1, <1>3, <2>1, <2>2, EntryToChange DEF IsNew, IsDir
  <2>4. IsNode(FileOf(Part(w)))
    BY OneIsNode DEF Part
  <2>5. /\ \A p : p \in DOMAIN u <=> (p \in DOMAIN t \/ p = e)
        /\ \A p \in DOMAIN t : p # e => u[p] = t[p]
    BY <1>1, <1>3, <2>1, <2>3, <2>4, PutTree
  <2>6. Hidden(e)
    BY <2>3 DEF Slot, Hidden
  <2>7. Shown(u) = Shown(t)
    BY <2>5, <2>6, SameIsShown
  <2> QED
    BY <1>3, <2>7
<1>6. CASE WriteTemp(w)
  <2>1. /\ DOMAIN u = DOMAIN t
        /\ \A p \in DOMAIN t : t[p] # FileOf(Part(w)) => u[p] = t[p]
    BY <1>3, <1>6 DEF WriteTemp
  <2>2. ASSUME NEW p \in DOMAIN t, t[p] = FileOf(Part(w)) PROVE Hidden(p)
    <3>1. Last(p) = w
      BY <1>1, <1>3, <2>2 DEF TempOf
    <3>2. p # <<>>
      BY <1>1, <1>3, <2>2 DEF IsTree, IsDir, FileOf
    <3> QED
      BY <3>1, <3>2 DEF Hidden
  <2>3. Shown(u) = Shown(t)
    BY <2>1, <2>2, SameIsShown
  <2> QED
    BY <1>3, <2>3
<1>7. CASE RemoveTemp(w) /\ u # t
  <2>1. u = RemoveEntry(t, e)
    BY <1>3, <1>7 DEF RemoveTemp, OsRemove, Becomes
  <2>2. u = Without(t, {e}) /\ e \in DOMAIN t
    <3>1. u # Failed
      BY <1>3, <1>7, <2>1 DEF RemoveTemp, OsRemove, Becomes
    <3>2. e \in DOMAIN t /\ Under(t, e) = {e}
      BY <2>1, <3>1 DEF RemoveEntry
    <3> QED
      BY <2>1, <3>2 DEF RemoveEntry
  <2>3. e # <<>> /\ Last(e) = w
    BY <1>1, <1>2, <1>3, <2>2, TempEntry
  <2>4. /\ \A p : p \in DOMAIN u <=> (p \in DOMAIN t /\ p # e)
        /\ \A p \in DOMAIN u : u[p] = t[p]
    BY <2>2 DEF Without
  <2>5. Hidden(e)
    BY <2>3 DEF Hidden
  <2>6. Shown(u) = Shown(t)
    BY <2>4, <2>5, SameIsShown
  <2> QED
    BY <1>3, <2>6
<1> QED
  BY <1>4, <1>5, <1>6, <1>7

\* What MakeDirs makes is what MakeParents makes.
LEMMA MakeDirsShows ==
  ASSUME OsFSInv, NEW w \in Writers, MakeDirs(w)
  PROVE  Atomic!Next
<1>1. Types /\ IsTree(tree) /\ pc[w] = "mkdir" /\ host[w] \in Lasting
  BY DEF OsFSInv, Types, MakeDirs
<1>2. PICK u : /\ u = OsMkdirAll(tree, Front(host[w]))
               /\ tree' = IF u = Failed THEN tree ELSE u
               /\ pc' = [pc EXCEPT ![w] = IF u = Failed THEN "done" ELSE "create"]
  BY DEF MakeDirs, Becomes, Goto
<1>3. CASE u = Failed
  <2>1. tree' = tree /\ pc' = [pc EXCEPT ![w] = "done"]
    BY <1>2, <1>3
  <2> QED
    BY <1>1, <2>1, UnseenStep
<1>4. CASE u # Failed
  <2>1. tree' = u /\ pc' = [pc EXCEPT ![w] = "create"]
    BY <1>2, <1>4
  <2>2. Grown(tree, u)
    BY <1>1, <1>2, <1>4, FrontOfHost, MkdirAllGrows
  <2>3. Phase[w] = "mkdir" /\ Phase' = [Phase EXCEPT ![w] = "create"]
    BY <1>1, <2>1, PhaseGoes
  <2>4. /\ DOMAIN Visible \subseteq DOMAIN Visible'
        /\ Visible' = [p \in DOMAIN Visible' |->
                         IF p \in DOMAIN Visible THEN Visible[p] ELSE DirNode]
    BY <2>1, <2>2, GrownIsShown, VisibleIsShown
  <2>5. Atomic!MakeParents(w)
    BY <2>3, <2>4 DEF Atomic!MakeParents, Atomic!Goto
  <2> QED
    BY <2>5 DEF Atomic!Next
<1> QED
  BY <1>3, <1>4

\* What os.Rename installs is what the call wrote, in one step.
LEMMA InstallShows ==
  ASSUME OsFSInv, NEW w \in Writers, Install(w)
  PROVE  Atomic!Next
<1>1. /\ Types /\ TempOf(w) /\ IsTree(tree) /\ pc[w] = "rename" /\ host[w] \in Lasting
      /\ NoPart(tree, w) /\ OwnTemps(tree, w) /\ pc' = [pc EXCEPT ![w] = "remove"]
  BY DEF OsFSInv, Types, TempOf, Install, Goto, CleanUp
<1>2. PICK u : u = OsRename(tree, TempPath(w), host[w]) /\ (tree' = tree \/ (tree' = u /\ u # Failed))
  BY DEF Install, Becomes
<1>3. CASE tree' = tree
  BY <1>1, <1>3, UnseenStep
<1>4. CASE tree' = u /\ u # Failed
  <2>1. PICK o, n : /\ o = EntryAt(tree, TempPath(w)) /\ n = EntryAt(tree, host[w])
                    /\ CanMove(tree, o, n) /\ u = Move(tree, o, n)
    BY <1>2, <1>4 DEF OsRename, Renamed
  <2>2. o \in DOMAIN tree /\ n \notin {Missing, NotDir} /\ ~IsDir(tree, n)
    BY <2>1 DEF CanMove
  <2>3. o # <<>> /\ Last(o) = w /\ ~IsDir(tree, o)
    BY <1>1, <2>1, <2>2, TempEntry
  <2>4. Hidden(o) /\ tree[o] = FileOf(Whole(w))
    BY <1>1, <2>2, <2>3 DEF Hidden, OwnTemps, NoPart
  <2>5. host[w] # <<>> /\ host[w] \in Path
    <3>1. host[w] \in Path /\ host[w] # Failed
      BY <1>1, LastingIsPath, HostAssumption
    <3> QED
      BY <1>1, <2>1, <2>2, <3>1 DEF EntryAt, IsTree
  <2>6. Slot(tree, n) /\ Last(n) \notin Writers
    BY <1>1, <2>1, <2>2, <2>5, EntryToChange, LastingByParts
  <2>7. \A p : IsDir(tree, p) => ~Hidden(p)
    <3>1. \A x \in Writers : OwnTemps(tree, x)
      BY DEF OsFSInv, TempOf
    <3> QED
      BY <3>1 DEF OwnTemps, Hidden, IsDir, FileOf
  <2>8. ~Hidden(n)
    BY <2>6 DEF Hidden
  <2>9. Replaced(Shown(tree), Shown(u), tree[o])
    BY <1>1, <2>1, <2>2, <2>3, <2>4, <2>6, <2>7, <2>8, MoveIsShown
  <2>10. WholeFiles[w] = tree[o]
    BY <2>4 DEF WholeFiles
  <2>11. Replaced(Visible, Visible', WholeFiles[w])
    BY <1>4, <2>9, <2>10, VisibleIsShown
  <2>12. Phase[w] = "rename" /\ Phase' = [Phase EXCEPT ![w] = "remove"]
    BY <1>1, PhaseGoes
  <2>13. Atomic!Replace(w)
    BY <2>11, <2>12, Zenon
       DEF Replaced, Atomic!Replace, Atomic!Goto, Atomic!IsDirAt, Atomic!Front, Front
  <2> QED
    BY <2>13 DEF Atomic!Next
<1> QED
  BY <1>2, <1>3, <1>4

LEMMA WriterShows ==
  ASSUME OsFSInv, NEW w \in Writers, AtomicWriteFile(w)
  PROVE  Atomic!Next
<1>1. Types
  BY DEF OsFSInv
<1>2. CASE \E v \in AtomicArgs : Resolve(w, v)
  <2>1. tree' = tree /\ pc[w] = "idle"
        /\ \E l \in {"done", "mkdir"} : pc' = [pc EXCEPT ![w] = l]
    BY <1>2 DEF Resolve, Goto
  <2> QED
    BY <1>1, <2>1, UnseenStep
<1>3. CASE CreateTemp(w)
  <2>1. pc[w] = "create" /\ \E l \in {"done", "write"} : pc' = [pc EXCEPT ![w] = l]
    BY <1>3 DEF CreateTemp, Goto
  <2> QED
    BY <1>1, <1>3, <2>1, TempIsHidden, UnseenStep
<1>4. CASE WriteTemp(w)
  <2>1. pc[w] = "write" /\ pc' = [pc EXCEPT ![w] = "rename"]
    BY <1>4 DEF WriteTemp, Goto
  <2> QED
    BY <1>1, <1>4, <2>1, TempIsHidden, UnseenStep
<1>5. CASE WriteFails(w)
  <2>1. tree' = tree /\ pc[w] = "write" /\ pc' = [pc EXCEPT ![w] = "remove"]
    BY <1>5 DEF WriteFails, Goto, CleanUp
  <2> QED
    BY <1>1, <2>1, UnseenStep
<1>6. CASE RemoveTemp(w)
  <2>1. pc[w] = "remove" /\ pc' = [pc EXCEPT ![w] = "done"]
    BY <1>6 DEF RemoveTemp, Goto
  <2> QED
    BY <1>1, <1>6, <2>1, TempIsHidden, UnseenStep
<1> QED
  BY <1>2, <1>3, <1>4, <1>5, <1>6, MakeDirsShows, InstallShows DEF AtomicWriteFile

\* With any number of atomic writes, errors and crashes, and whatever the client
\* does to the directories and links on their way: the temporary file aside, an
\* atomic write makes the directories above its file, and replaces one file by
\* what it writes, as a whole, in one step or never.
THEOREM AtomicWritesAreAtomic == Spec => ReplacesAtOnce
<1>1. Init => Atomic!Init
  <2> SUFFICES ASSUME Init PROVE Phase = [c \in Writers |-> "idle"]
    BY DEF Atomic!Init
  <2>1. pc = [w \in Writers |-> "idle"]
    BY DEF Init
  <2> QED
    BY <2>1 DEF Phase
<1>2. OsFSInv /\ [Next]_vars => [Atomic!Next]_<<Visible, Phase>>
  <2> SUFFICES ASSUME OsFSInv, [Next]_vars PROVE Atomic!Next
    OBVIOUS
  <2>1. CASE UNCHANGED pc
    <3>1. Phase' = Phase
      BY <2>1 DEF Phase
    <3> QED
      BY <3>1 DEF Atomic!Next, Atomic!Others
  <2>2. CASE Client
    BY <2>1, <2>2, ClientStep DEF OsFSInv
  <2>3. CASE \E w \in Writers : AtomicWriteFile(w)
    BY <2>3, WriterShows
  <2>4. CASE Crash
    <3>1. /\ pc' = [w \in Writers |-> IF Busy(w) THEN "crashed" ELSE pc[w]]
          /\ tree' = tree
      BY <2>4 DEF Crash
    <3>2. Phase' = [w \in Writers |-> IF w \in {x \in Writers : Busy(x)} THEN "done" ELSE Phase[w]]
      BY <3>1 DEF Phase
    <3>3. Visible' = Visible
      BY <3>1, VisibleIsShown
    <3>4. Atomic!End({x \in Writers : Busy(x)})
      BY <3>2, <3>3 DEF Atomic!End
    <3> QED
      BY <3>4 DEF Atomic!Next
  <2> QED
    BY <2>1, <2>2, <2>3, <2>4 DEF Next, vars
<1> QED
  BY <1>1, <1>2, InvHolds, PTL DEF Spec, ReplacesAtOnce, Atomic!Spec

-----------------------------------------------------------------------------
(* How a walk goes on.                                                     *)

LEMMA StartInWay ==
  ASSUME NEW p \in Path PROVE Start(p) \in Way
<1>1. <<>> \in Path /\ MaxLinks \in 0..MaxLinks
  BY HostAssumption DEF Path
<1> QED
  BY <1>1 DEF Start, Way

LEMMA AnswersAreNowhere ==
  ASSUME NEW t, IsTree(t)
  PROVE  Missing \notin DOMAIN t /\ NotDir \notin DOMAIN t /\ Failed \notin DOMAIN t
BY HostAssumption DEF IsTree

\* What is at and ahead, together, is split elsewhere one step on.
LEMMA NextSplit ==
  ASSUME NEW s \in Way, s.rest # <<>>
  PROVE  /\ Reached(s) \in Path /\ Reached(s) # <<>> /\ Front(Reached(s)) = s.at
         /\ Tail(s.rest) \in Path
         /\ Reached(s) \o Tail(s.rest) = s.at \o s.rest
         /\ Len(Reached(s)) = Len(s.at) + 1
         /\ Tail(s.rest) = <<>> => Reached(s) = s.at \o s.rest
<1>1. s.at \in Seq(Names) /\ s.rest \in Seq(Names)
  BY DEF Way, Path
<1>2. /\ Head(s.rest) \in Names /\ Tail(s.rest) \in Seq(Names)
      /\ s.rest = <<Head(s.rest)>> \o Tail(s.rest)
  BY <1>1
<1>3. PICK a, h, r : a = s.at /\ h = Head(s.rest) /\ r = Tail(s.rest)
  OBVIOUS
<1>4. a \in Seq(Names) /\ h \in Names /\ r \in Seq(Names) /\ s.rest = <<h>> \o r
  BY <1>1, <1>2, <1>3
<1>5. /\ Append(a, h) \in Seq(Names) /\ Append(a, h) # <<>>
      /\ Front(Append(a, h)) = a /\ Len(Append(a, h)) = Len(a) + 1
  BY <1>4, EntryInDir
<1>6. Append(a, h) = a \o <<h>> /\ <<h>> \in Seq(Names)
  BY <1>4, AppendIsConcat
<1>7. Append(a, h) \o r = a \o s.rest
  BY <1>4, <1>6, ConcatAssociative
<1>8. r = <<>> => Append(a, h) \o r = Append(a, h)
  BY <1>5
<1> QED
  BY <1>3, <1>4, <1>5, <1>7, <1>8 DEF Reached, Path

\* Where nothing but directories is on the way the host goes straight on.
LEMMA StraightOn ==
  ASSUME NEW t, IsTree(t), NEW f, Loop(t, f), NEW s \in Way, NEW q,
         q = s.at \o s.rest, q \in DOMAIN t, ~IsLink(t, q)
  PROVE  f[s] = q
<1> DEFINE T == {x \in Way : x.at \o x.rest = q /\ f[x] = f[s]}
<1>1. PICK x \in T : ~GoesOn(t, x) \/ Onward(t, x) \notin T
  <2>1. T \in SUBSET Way /\ T # {}
    OBVIOUS
  <2> HIDE DEF T
  <2> QED
    BY <2>1, WalkEnds
<1>2. q \in Path /\ x \in Way /\ x.at \o x.rest = q /\ f[x] = f[s]
  BY <1>1 DEF IsTree
<1>3. x.at \in Path /\ x.rest \in Path
  BY <1>2 DEF Way
<1>4. f[x] = IF GoesOn(t, x) THEN f[Onward(t, x)] ELSE Arrival(t, x)
  BY <1>2 DEF Loop
<1>5. CASE x.rest = <<>>
  <2>1. f[x] = x.at
    BY <1>4, <1>5 DEF GoesOn, Arrival
  <2>2. x.at = q
    BY <1>2, <1>3, <1>5, JoinPaths
  <2> QED
    BY <1>2, <2>1, <2>2
<1>6. CASE x.rest # <<>>
  <2>1. /\ Reached(x) \in Path /\ Tail(x.rest) \in Path
        /\ Reached(x) \o Tail(x.rest) = q
    BY <1>2, <1>6, NextSplit
  <2>2. CASE Tail(x.rest) = <<>>
    <3>1. Reached(x) = q
      BY <2>1, <2>2, JoinPaths
    <3>2. CASE GoesOn(t, x)
      <4>1. Onward(t, x).at = Reached(x) /\ Onward(t, x).rest = Tail(x.rest)
        BY <3>1 DEF Onward
      <4>2. q \o <<>> = q
        BY <1>2 DEF Path
      <4>3. Onward(t, x) \in Way
        BY <1>2, <3>2, StepInWay
      <4> QED
        BY <1>1, <1>2, <1>4, <2>2, <3>1, <3>2, <4>1, <4>2, <4>3
    <3>3. CASE ~GoesOn(t, x)
      BY <1>2, <1>4, <1>6, <2>2, <3>1, <3>3 DEF Arrival
    <3> QED
      BY <3>2, <3>3
  <2>3. CASE Tail(x.rest) # <<>>
    <3>1. IsPrefix(Reached(x), q) /\ Reached(x) # q
      <4>1. PICK e, r : e = Reached(x) /\ r = Tail(x.rest)
        OBVIOUS
      <4>2. e \in Path /\ r \in Path /\ r # <<>> /\ q = e \o r
        BY <2>1, <2>3, <4>1
      <4>3. IsPrefix(e, e \o r) /\ e \o r # e
        BY <4>2, JoinPaths
      <4> QED
        BY <4>1, <4>2, <4>3
    <3>2. IsDir(t, Reached(x))
      BY <1>2, <2>1, <3>1, AncestorsAreDirs
    <3>3. GoesOn(t, x) /\ ~IsLink(t, Reached(x))
      BY <1>6, <3>2 DEF GoesOn, IsDir, IsFile, IsLink
    <3>4. /\ Onward(t, x) \in Way
          /\ Onward(t, x).at = Reached(x) /\ Onward(t, x).rest = Tail(x.rest)
      BY <1>2, <3>3, StepInWay DEF Onward
    <3> QED
      BY <1>1, <1>2, <1>4, <2>1, <3>3, <3>4
  <2> QED
    BY <2>2, <2>3
<1> QED
  BY <1>5, <1>6

\* What is there, and no link, is found under its own path.
LEMMA PlaceIsItself ==
  ASSUME NEW t, IsTree(t), NEW q \in DOMAIN t, ~IsLink(t, q)
  PROVE  Walk(t, q) = q
<1>1. PICK f : Loop(t, f)
  BY WalkIsLoop
<1>2. q \in Path /\ Start(q) \in Way
  BY StartInWay DEF IsTree
<1>3. Start(q).at \o Start(q).rest = q
  BY <1>2 DEF Start, Path
<1>4. f[Start(q)] = q
  BY <1>1, <1>2, <1>3, StraightOn
<1> QED
  BY <1>1, <1>2, <1>4 DEF Loop

\* The same place with more ahead.
Longer(s, z) == [at |-> s.at, rest |-> s.rest \o z, links |-> s.links]

LEMMA StepOfLonger ==
  ASSUME NEW t, IsTree(t), NEW s \in Way, s.rest # <<>>, NEW z \in Path
  PROVE  /\ Longer(s, z) \in Way /\ Reached(Longer(s, z)) = Reached(s)
         /\ Longer(s, z).rest # <<>> /\ Tail(Longer(s, z).rest) = Tail(s.rest) \o z
         /\ Longer(s, z).links = s.links
         /\ GoesOn(t, s) => /\ GoesOn(t, Longer(s, z))
                            /\ Onward(t, Longer(s, z)) = Longer(Onward(t, s), z)
<1>1. PICK a, r, n : a = s.at /\ r = s.rest /\ n = s.links
  OBVIOUS
<1>2. a \in Path /\ r \in Seq(Names) /\ r # <<>> /\ n \in 0..MaxLinks /\ z \in Seq(Names)
  BY <1>1 DEF Way, Path
<1>3. /\ r \o z \in Seq(Names) /\ r \o z # <<>>
      /\ Head(r \o z) = Head(r) /\ Tail(r \o z) = Tail(r) \o z
  <2>1. /\ r \o z \in Seq(Names) /\ Len(r \o z) = Len(r) + Len(z)
        /\ Len(r) \in Nat \ {0} /\ Len(z) \in Nat
        /\ \A i \in 1..Len(r) + Len(z) :
             (r \o z)[i] = IF i <= Len(r) THEN r[i] ELSE z[i - Len(r)]
    BY <1>2
  <2> QED
    BY <1>2, <2>1
<1>4. /\ Longer(s, z).at = a /\ Longer(s, z).rest = r \o z /\ Longer(s, z).links = n
      /\ Longer(s, z) \in Way
  BY <1>1, <1>2, <1>3 DEF Longer, Way, Path
<1>5. Reached(Longer(s, z)) = Reached(s)
  BY <1>1, <1>3, <1>4 DEF Reached
<1>6. ASSUME GoesOn(t, s)
      PROVE  /\ GoesOn(t, Longer(s, z))
             /\ Onward(t, Longer(s, z)) = Longer(Onward(t, s), z)
  <2>1. GoesOn(t, Longer(s, z))
    BY <1>1, <1>3, <1>4, <1>5, <1>6 DEF GoesOn
  <2>2. CASE IsLink(t, Reached(s))
    <3>1. PICK l, m : l = t[Reached(s)].to /\ m = Tail(r)
      OBVIOUS
    <3>2. l \in Seq(Names) /\ m \in Seq(Names)
      BY <1>2, <2>2, <3>1, LinksInTree, LastingIsPath DEF IsLink, Path
    <3>3. l \o (m \o z) = (l \o m) \o z
      <4>1. z \in Seq(Names)
        BY <1>2
      <4> QED
        BY <3>2, <4>1, ConcatAssociative
    <3>4. Onward(t, s) = [at |-> <<>>, rest |-> l \o m, links |-> n - 1]
      BY <1>1, <2>2, <3>1 DEF Onward
    <3>5. Onward(t, Longer(s, z)) = [at |-> <<>>, rest |-> l \o (m \o z), links |-> n - 1]
      BY <1>3, <1>4, <1>5, <2>2, <3>1 DEF Onward
    <3>6. Longer(Onward(t, s), z) = [at |-> <<>>, rest |-> (l \o m) \o z, links |-> n - 1]
      BY <3>4 DEF Longer
    <3> QED
      BY <2>1, <3>3, <3>5, <3>6
  <2>3. CASE ~IsLink(t, Reached(s))
    <3>1. Onward(t, s) = [at |-> Reached(s), rest |-> Tail(r), links |-> n]
      BY <1>1, <2>3 DEF Onward
    <3>2. Onward(t, Longer(s, z)) = [at |-> Reached(s), rest |-> Tail(r) \o z, links |-> n]
      BY <1>3, <1>4, <1>5, <2>3 DEF Onward
    <3>3. Longer(Onward(t, s), z) = [at |-> Reached(s), rest |-> Tail(r) \o z, links |-> n]
      BY <3>1 DEF Longer
    <3> QED
      BY <2>1, <3>2, <3>3
  <2> QED
    BY <2>1, <2>2, <2>3
<1> QED
  BY <1>1, <1>3, <1>4, <1>5, <1>6

\* The way to p with more behind it is the way to p first: there is a last
\* moment s of the way to p, and it is one of the longer way.
LEMMA WayOfLonger ==
  ASSUME NEW t, IsTree(t), NEW f, Loop(t, f), NEW p \in Path, NEW z \in Path
  PROVE  \E s \in Way : /\ ~GoesOn(t, s) /\ Arrival(t, s) = Walk(t, p)
                        /\ Longer(s, z) \in Way /\ f[Longer(s, z)] = Walk(t, p \o z)
                        /\ IsDir(t, s.at)
<1> DEFINE T == {s \in Way : /\ f[s] = Walk(t, p) /\ IsDir(t, s.at)
                             /\ Longer(s, z) \in Way /\ f[Longer(s, z)] = Walk(t, p \o z)}
<1>1. Start(p) \in T
  <2>1. p \o z \in Path
    BY JoinPaths
  <2>2. Longer(Start(p), z) = Start(p \o z)
    BY DEF Longer, Start
  <2>3. Start(p) \in Way /\ Start(p \o z) \in Way /\ Start(p).at = <<>>
    BY <2>1, StartInWay DEF Start
  <2>4. f[Start(p)] = Walk(t, p) /\ f[Start(p \o z)] = Walk(t, p \o z)
    BY <2>1 DEF Loop
  <2> QED
    BY <2>2, <2>3, <2>4 DEF IsTree
<1>2. PICK s \in T : ~GoesOn(t, s) \/ Onward(t, s) \notin T
  <2>1. T \in SUBSET Way /\ T # {}
    BY <1>1
  <2> HIDE DEF T
  <2> QED
    BY <2>1, WalkEnds
<1>3. f[s] = IF GoesOn(t, s) THEN f[Onward(t, s)] ELSE Arrival(t, s)
  BY <1>2 DEF Loop
<1>4. ASSUME GoesOn(t, s) PROVE FALSE
  <2>1. s.rest # <<>> /\ Onward(t, s) \in Way
    BY <1>2, <1>4, StepInWay DEF GoesOn
  <2>2. /\ GoesOn(t, Longer(s, z)) /\ Longer(s, z) \in Way
        /\ Onward(t, Longer(s, z)) = Longer(Onward(t, s), z)
    BY <1>2, <1>4, <2>1, StepOfLonger
  <2>3. Longer(Onward(t, s), z) \in Way
    BY <2>2, StepInWay
  <2>4. f[Longer(s, z)] = f[Longer(Onward(t, s), z)]
    BY <2>2 DEF Loop
  <2>5. IsDir(t, Onward(t, s).at)
    <3>1. CASE IsLink(t, Reached(s))
      BY <3>1 DEF Onward, IsTree
    <3>2. CASE ~IsLink(t, Reached(s))
      <4>1. Reached(s) \in DOMAIN t /\ ~IsFile(t, Reached(s))
        BY <1>4 DEF GoesOn
      <4>2. IsDir(t, Reached(s))
        BY <3>2, <4>1, NodeKinds DEF IsTree, IsDir, IsFile, IsLink
      <4> QED
        BY <3>2, <4>2 DEF Onward
    <3> QED
      BY <3>1, <3>2
  <2> QED
    BY <1>2, <1>3, <1>4, <2>1, <2>3, <2>4, <2>5
<1> QED
  BY <1>2, <1>3, <1>4

LEMMA ArrivesAtDir ==
  ASSUME NEW t, IsTree(t), NEW s \in Way, ~GoesOn(t, s), IsDir(t, Arrival(t, s))
  PROVE  s.rest = <<>> /\ Arrival(t, s) = s.at
<1>1. Missing \notin DOMAIN t /\ NotDir \notin DOMAIN t
  BY AnswersAreNowhere
<1>2. ASSUME s.rest # <<>> PROVE FALSE
  <2>1. Arrival(t, s) = Reached(s) /\ Reached(s) \in DOMAIN t
    BY <1>1, <1>2 DEF Arrival, IsDir
  <2> QED
    BY <1>2, <2>1 DEF GoesOn, IsDir, IsFile, IsLink
<1> QED
  BY <1>2 DEF Arrival

\* A path to something with more behind it leads on from there.
LEMMA WalkExtend ==
  ASSUME NEW t, IsTree(t), NEW p \in Path, NEW z \in Path, NEW e, e = Walk(t, p),
         e \in DOMAIN t, e \o z \in DOMAIN t, ~IsLink(t, e \o z)
  PROVE  Walk(t, p \o z) = e \o z
<1>1. e \in Path
  BY DEF IsTree
<1>2. CASE z = <<>>
  BY <1>1, <1>2, JoinPaths
<1>3. CASE z # <<>>
  <2>1. PICK f : Loop(t, f)
    BY WalkIsLoop
  <2>2. PICK s \in Way : /\ ~GoesOn(t, s) /\ Arrival(t, s) = e
                         /\ Longer(s, z) \in Way /\ f[Longer(s, z)] = Walk(t, p \o z)
    BY <2>1, WayOfLonger
  <2>3. IsDir(t, e)
    <3>1. IsPrefix(e, e \o z) /\ e \o z # e
      BY <1>1, <1>3, JoinPaths
    <3> QED
      BY <1>1, <3>1, AncestorsAreDirs
  <2>4. s.rest = <<>> /\ s.at = e
    BY <2>2, <2>3, ArrivesAtDir
  <2>5. Longer(s, z).at = e /\ Longer(s, z).rest = z
    BY <2>4 DEF Longer, Path
  <2>6. PICK l \in Way : l = Longer(s, z)
    BY <2>2
  <2>7. e \o z = l.at \o l.rest
    BY <2>5, <2>6
  <2>8. f[l] = e \o z
    BY <2>1, <2>7, StraightOn
  <2> QED
    BY <2>2, <2>6, <2>8
<1> QED
  BY <1>2, <1>3

\* Behind what is no directory there is nothing.
LEMMA MoreIsNowhere ==
  ASSUME NEW t, IsTree(t), NEW p \in Path, NEW z \in Path, z # <<>>,
         ~IsDir(t, Walk(t, p))
  PROVE  Walk(t, p \o z) \in {Missing, NotDir}
<1>1. PICK f : Loop(t, f)
  BY WalkIsLoop
<1>2. PICK s \in Way : /\ ~GoesOn(t, s) /\ Arrival(t, s) = Walk(t, p)
                       /\ Longer(s, z) \in Way /\ f[Longer(s, z)] = Walk(t, p \o z)
                       /\ IsDir(t, s.at)
  BY <1>1, WayOfLonger
<1>3. s.rest # <<>>
  BY <1>2 DEF Arrival
<1>4. PICK l \in Way : l = Longer(s, z)
  BY <1>2
<1>5. /\ Reached(l) = Reached(s) /\ l.rest # <<>> /\ l.links = s.links
      /\ Tail(l.rest) = Tail(s.rest) \o z
  BY <1>2, <1>3, <1>4, StepOfLonger
<1>6. ~GoesOn(t, l)
  BY <1>2, <1>3, <1>5 DEF GoesOn
<1>7. f[l] = Arrival(t, l)
  BY <1>1, <1>6 DEF Loop
<1>8. Tail(l.rest) # <<>>
  <2>1. Tail(s.rest) \in Seq(Names) /\ z \in Seq(Names)
    BY <1>3, NextSplit DEF Path
  <2> QED
    BY <1>5, <2>1, ConcatSimplifications
<1>9. Arrival(t, l) \in {Missing, NotDir}
  BY <1>5, <1>8 DEF Arrival
<1> QED
  BY <1>2, <1>4, <1>7, <1>9

LEMMA LostStaysLost ==
  ASSUME NEW t, IsTree(t), NEW p \in Path, NEW z \in Path, Walk(t, p) \notin DOMAIN t
  PROVE  Walk(t, p \o z) \notin DOMAIN t
<1>1. z = <<>> => p \o z = p
  BY JoinPaths
<1> QED
  BY <1>1, MoreIsNowhere, AnswersAreNowhere DEF IsDir

\* Below a directory a name that is not there leads to its place.
LEMMA NewNameIsFound ==
  ASSUME NEW t, IsTree(t), NEW p \in Path, NEW d, d = Walk(t, p), IsDir(t, d),
         NEW n \in Names, Append(d, n) \notin DOMAIN t
  PROVE  Walk(t, Append(p, n)) = Append(d, n)
<1>1. PICK f : Loop(t, f)
  BY WalkIsLoop
<1>2. PICK o : o = <<n>>
  OBVIOUS
<1>3. o \in Path /\ Append(p, n) = p \o o /\ Append(p, n) \in Path
  BY <1>2, AppendIsConcat DEF Path
<1>4. PICK s \in Way : /\ ~GoesOn(t, s) /\ Arrival(t, s) = d
                       /\ Longer(s, o) \in Way /\ f[Longer(s, o)] = Walk(t, p \o o)
  BY <1>1, <1>3, WayOfLonger
<1>5. s.rest = <<>> /\ s.at = d
  BY <1>4, ArrivesAtDir
<1>6. PICK l \in Way : l = Longer(s, o)
  BY <1>4
<1>7. l.at = d /\ l.rest = o
  BY <1>3, <1>5, <1>6 DEF Longer, Path
<1>8. Head(o) = n /\ Tail(o) = <<>> /\ o # <<>>
  BY <1>2
<1>9. Reached(l) = Append(d, n)
  BY <1>7, <1>8 DEF Reached
<1>10. ~GoesOn(t, l) /\ Arrival(t, l) = Append(d, n)
  BY <1>7, <1>8, <1>9 DEF GoesOn, Arrival, IsLink
<1>11. Walk(t, p \o o) = Append(d, n)
  BY <1>1, <1>4, <1>6, <1>10 DEF Loop
<1> QED
  BY <1>3, <1>11

\* A directory without the entry n: nothing is behind that.
LEMMA NotThere ==
  ASSUME NEW t, IsTree(t), NEW p \in Path, NEW d, d = Walk(t, p), IsDir(t, d),
         NEW n \in Names, Append(d, n) \notin DOMAIN t, NEW z \in Path
  PROVE  Walk(t, Append(p, n) \o z) \notin DOMAIN t
<1>1. Walk(t, Append(p, n)) = Append(d, n) /\ Append(p, n) \in Path
  BY NewNameIsFound, AppendProperties DEF Path
<1> QED
  BY <1>1, LostStaysLost

-----------------------------------------------------------------------------
(* Places.                                                                 *)

\* A path that is in a jail is the jail and the rest (RemoveJailPrefix).
LEMMA InJailIsPrefix ==
  ASSUME NEW j \in Path, NEW p \in Path, IsInJail(j, p)
  PROVE  /\ RemoveJailPrefix(j, p) \in Path /\ p = j \o RemoveJailPrefix(j, p)
         /\ IsPrefix(j, p)
<1>1. j \in Jail /\ j # NoJail
  BY JailAssumption DEF Jail, Path
<1>2. PICK r : r = RemoveJailPrefix(j, p)
  OBVIOUS
<1>3. r \in Path /\ p = j \o r
  BY <1>1, <1>2, RemoveType, HostOfRemove DEF HostPath
<1>4. IsPrefix(j, j \o r)
  BY <1>3, JoinPaths
<1> QED
  BY <1>2, <1>3, <1>4

\* The jail with its links followed is where the jail leads, or the jail.
LEMMA JailLeadsToCanonical ==
  ASSUME JailIsPath, jail # NoJail, NEW t, IsTree(t), NEW c, c = CanonicalJail(t)
  PROVE  /\ jail \in Lasting /\ c \in Lasting /\ c \in Path
         /\ \/ Walk(t, jail) = c /\ c \in DOMAIN t
            \/ c = jail
<1>1. jail \in Lasting
  BY DEF JailIsPath
<1>2. c = OrElse(EvalSymlinks(t, jail), jail)
  BY DEF CanonicalJail
<1>3. CASE EvalSymlinks(t, jail) = Failed
  BY <1>1, <1>2, <1>3, LastingIsPath DEF OrElse
<1>4. CASE EvalSymlinks(t, jail) # Failed
  BY <1>1, <1>2, <1>4, EvalSymlinksIsPath, LastingIsPath DEF OrElse
<1> QED
  BY <1>3, <1>4

\* Following links, what is resolved is what the host finds under the path, and
\* it is there and in the jail.
LEMMA FollowedIsInside ==
  ASSUME JailIsPath, NEW t, IsTree(t), NEW v \in Lasting, Followed(t, v) # Failed
  PROVE  LET q == Place(t, v, TRUE)
         IN  /\ q = EvalSymlinks(t, Lexical(v)) /\ q = Walk(t, HostPath(jail, v))
             /\ q \in DOMAIN t /\ ~IsLink(t, q) /\ Inside(t, q)
<1>1. CASE jail = NoJail
  <2>1. PICK e : e = EvalSymlinks(t, v)
    OBVIOUS
  <2>2. Followed(t, v) = e /\ Lexical(v) = v /\ HostPath(jail, v) = v
    BY <1>1, <2>1 DEF Followed, Lexical, HostPath
  <2>3. e # Failed /\ e \in DOMAIN t /\ ~IsLink(t, e) /\ e = Walk(t, v)
    BY <2>1, <2>2, EvalSymlinksIsPath DEF Good
  <2>4. Walk(t, e) = e
    BY <2>3, PlaceIsItself
  <2> QED
    BY <1>1, <2>1, <2>2, <2>3, <2>4 DEF Place, Inside
<1>2. CASE jail # NoJail
  <2>1. PICK c, p, e : c = CanonicalJail(t) /\ p = Lexical(v) /\ e = EvalSymlinks(t, p)
    OBVIOUS
  <2>2. e # Failed /\ IsInJail(c, e) /\ Followed(t, v) = BackInJail(t, e)
    BY <1>2, <2>1 DEF Followed, BackIfChecked, Checked
  <2>3. p # Failed
    BY <2>1, <2>2, AnswersAreNowhere DEF EvalSymlinks, Exists, Walk
  <2>4. p \in Lasting /\ p = jail \o v /\ p = HostPath(jail, v)
    BY <1>2, <2>1, <2>3, LexicalIsPath DEF HostPath
  <2>5. e \in DOMAIN t /\ e \in Path /\ ~IsLink(t, e) /\ e = Walk(t, p)
    BY <2>1, <2>2, <2>4, EvalSymlinksIsPath, LastingIsPath DEF Good
  <2>6. /\ jail \in Lasting /\ c \in Path
        /\ \/ Walk(t, jail) = c /\ c \in DOMAIN t
           \/ c = jail
    BY <1>2, <2>1, JailLeadsToCanonical
  <2>7. PICK r : r = RemoveJailPrefix(c, e)
    OBVIOUS
  <2>8. r \in Path /\ e = c \o r /\ IsPrefix(c, e)
    BY <2>2, <2>5, <2>6, <2>7, InJailIsPrefix
  <2>9. Followed(t, v) = jail \o r
    BY <1>2, <2>1, <2>2, <2>7 DEF BackInJail, HostPath
  <2>10. Walk(t, jail \o r) = e
    <3>1. CASE Walk(t, jail) = c /\ c \in DOMAIN t
      <4>1. jail \in Path /\ c \o r \in DOMAIN t /\ ~IsLink(t, c \o r)
        BY <2>5, <2>6, <2>8, LastingIsPath
      <4>2. Walk(t, jail \o r) = c \o r
        BY <2>8, <3>1, <4>1, WalkExtend
      <4> QED
        BY <2>8, <4>2
    <3>2. CASE c = jail
      BY <2>5, <2>8, <3>2, PlaceIsItself
    <3> QED
      BY <2>6, <3>1, <3>2
  <2> QED
    BY <1>2, <2>1, <2>4, <2>5, <2>8, <2>9, <2>10 DEF Place, Inside
<1> QED
  BY <1>1, <1>2

\* The longest path to the parent of p that is there and what is behind it.
LEMMA SplitOfPath ==
  ASSUME NEW p \in Path, p # <<>>, NEW k \in 0..Len(p) - 1
  PROVE  LET cur == SubSeq(p, 1, k)
             r   == SubSeq(p, k + 1, Len(p))
         IN  /\ cur \in Path /\ r \in Path /\ r # <<>> /\ p = cur \o r
             /\ Head(r) \in Names /\ SubSeq(p, 1, k + 1) = Append(cur, Head(r))
             /\ Front(r) # <<>> => k + 1 <= Len(p) - 1 /\ Head(Front(r)) = Head(r)
<1>1. p \in Seq(Names) /\ Len(p) \in Nat \ {0} /\ k \in Nat /\ k < Len(p)
  BY DEF Path
<1>2. PICK cur : cur = SubSeq(p, 1, k)
  OBVIOUS
<1>3. PICK r : r = SubSeq(p, k + 1, Len(p))
  OBVIOUS
<1>4. cur \in Seq(Names) /\ Len(cur) = k /\ \A i \in 1..k : cur[i] = p[i]
  BY <1>1, <1>2
<1>5. /\ r \in Seq(Names) /\ Len(r) = Len(p) - k
      /\ \A i \in 1..Len(p) - k : r[i] = p[k + i]
  BY <1>1, <1>3
<1>6. r # <<>> /\ Head(r) = p[k + 1] /\ Head(r) \in Names
  BY <1>1, <1>5
<1>7. p = cur \o r
  <2>1. /\ cur \o r \in Seq(Names) /\ Len(cur \o r) = Len(cur) + Len(r)
        /\ \A i \in 1..Len(cur) + Len(r) :
             (cur \o r)[i] = IF i <= Len(cur) THEN cur[i] ELSE r[i - Len(cur)]
    BY <1>4, <1>5, ConcatProperties
  <2>2. Len(cur \o r) = Len(p)
    BY <1>1, <1>4, <1>5, <2>1
  <2>3. \A i \in 1..Len(p) : (cur \o r)[i] = p[i]
    BY <1>1, <1>4, <1>5, <2>1
  <2> QED
    BY <1>1, <2>1, <2>2, <2>3, SeqEqual
<1>8. SubSeq(p, 1, k + 1) = Append(cur, Head(r))
  <2>1. PICK h : h = Head(r)
    OBVIOUS
  <2>2. PICK a : a = Append(cur, h)
    OBVIOUS
  <2>3. PICK b : b = SubSeq(p, 1, k + 1)
    OBVIOUS
  <2>4. /\ a \in Seq(Names) /\ Len(a) = k + 1
        /\ \A i \in 1..k + 1 : a[i] = IF i <= k THEN cur[i] ELSE h
    BY <1>1, <1>4, <1>6, <2>1, <2>2
  <2>5. b \in Seq(Names) /\ Len(b) = k + 1 /\ \A i \in 1..k + 1 : b[i] = p[i]
    BY <1>1, <2>3
  <2>6. \A i \in 1..k + 1 : a[i] = b[i]
    BY <1>1, <1>4, <1>6, <2>1, <2>4, <2>5
  <2> QED
    BY <2>1, <2>2, <2>3, <2>4, <2>5, <2>6, SeqEqual
<1>9. ASSUME Front(r) # <<>>
      PROVE  k + 1 <= Len(p) - 1 /\ Head(Front(r)) = Head(r)
  <2>1. Front(r) \in Seq(Names) /\ Len(Front(r)) = Len(r) - 1
    BY <1>5, <1>6, FrontAndLast
  <2>2. Len(Front(r)) # 0 /\ Len(Front(r)) \in Nat
    BY <1>9, <2>1
  <2>3. k + 1 <= Len(p) - 1
    <3>1. PICK l, m, n : l = Len(Front(r)) /\ m = Len(p) /\ n = Len(r)
      OBVIOUS
    <3>2. l \in Nat \ {0} /\ l = n - 1 /\ n = m - k /\ m \in Nat
      BY <1>1, <1>5, <2>1, <2>2, <3>1
    <3> QED
      BY <1>1, <3>1, <3>2
  <2>4. Front(r) = SubSeq(r, 1, Len(r) - 1)
    BY DEF Front
  <2>5. Front(r)[1] = r[1]
    BY <1>1, <1>5, <2>1, <2>2, <2>4
  <2> QED
    BY <2>2, <2>3, <2>5
<1> QED
  BY <1>2, <1>3, <1>4, <1>5, <1>6, <1>7, <1>8, <1>9 DEF Path

\* In a jail, what is resolved to be created is a path b into the jail, which
\* leads to b, and then at least the last component, of which nothing but the
\* last may be there; or b is a link that leads nowhere.
Behind(t, b, r) ==
  \/ /\ Walk(t, b) = b /\ b \in DOMAIN t
     /\ Front(r) # <<>> => IsDir(t, b) /\ Append(b, Head(Front(r))) \notin DOMAIN t
  \/ Walk(t, b) \notin DOMAIN t /\ EntryAt(t, b) \in DOMAIN t

LEMMA ForCreateSplits ==
  ASSUME JailIsPath, jail # NoJail, NEW t, IsTree(t), NEW v \in Lasting, v # <<>>,
         NEW x, x = ForCreate(t, v), x # Failed
  PROVE  \E b, r \in Path :
           x = b \o r /\ r # <<>> /\ IsPrefix(CanonicalJail(t), b) /\ Behind(t, b, r)
<1>1. Lexical(v) # Failed
  BY DEF ForCreate, ParentFollowed
<1>2. PICK p \in Lasting : p = Lexical(v) /\ p = jail \o v /\ p # <<>>
  BY <1>1, LexicalIsPath
<1>3. p \in Path /\ p # jail /\ p # Failed
  <2>1. jail \in Path /\ v \in Path
    BY LastingIsPath DEF JailIsPath
  <2>2. jail \o v # jail
    BY <2>1, JoinPaths
  <2> QED
    BY <1>1, <1>2, <2>2, LastingIsPath
<1>4. x = Reattach(t, p, Existing(t, p))
  BY <1>2, <1>3 DEF ForCreate, ParentFollowed
<1>5. PICK k \in 0..Len(p) - 1 :
        /\ k = Existing(t, p) /\ ~IsNotExist(t, SubSeq(p, 1, k))
        /\ \A i \in k + 1..Len(p) - 1 : IsNotExist(t, SubSeq(p, 1, i))
  BY <1>2, <1>3, ExistingInRange
<1>6. PICK cur, r : cur = SubSeq(p, 1, k) /\ r = SubSeq(p, k + 1, Len(p))
  OBVIOUS
<1>7. /\ cur \in Path /\ r \in Path /\ r # <<>> /\ p = cur \o r
      /\ Head(r) \in Names /\ SubSeq(p, 1, k + 1) = Append(cur, Head(r))
      /\ Front(r) # <<>> => k + 1 <= Len(p) - 1 /\ Head(Front(r)) = Head(r)
  BY <1>2, <1>3, <1>6, SplitOfPath
<1>8. cur \in Lasting
  BY <1>3, <1>6, PartsOfLasting DEF Path
<1>9. PICK b : b = Checked(t, OrElse(EvalSymlinks(t, cur), cur))
  OBVIOUS
<1>10. b # Failed /\ x = b \o r /\ EntryAt(t, cur) # NotDir
  BY <1>4, <1>5, <1>6, <1>9 DEF Reattach
<1>11. b = OrElse(EvalSymlinks(t, cur), cur) /\ IsInJail(CanonicalJail(t), b)
  BY <1>9, <1>10 DEF Checked
<1>12. b \in Path
  BY <1>8, <1>11, EvalSymlinksIsPath, LastingIsPath DEF OrElse
<1>13. IsPrefix(CanonicalJail(t), b)
  BY <1>11, <1>12, JailLeadsToCanonical, InJailIsPrefix
<1>14. CASE EvalSymlinks(t, cur) = Failed
  <2>1. b = cur
    BY <1>11, <1>14 DEF OrElse
  <2>2. Walk(t, cur) \notin DOMAIN t
    <3>1. ASSUME Walk(t, cur) \in DOMAIN t PROVE FALSE
      BY <1>14, <3>1, AnswersAreNowhere DEF EvalSymlinks, Exists
    <3> QED
      BY <3>1
  <2>3. EntryAt(t, cur) \in DOMAIN t
    BY <1>5, <1>6, <1>10 DEF IsNotExist
  <2> QED
    BY <1>7, <1>10, <1>12, <1>13, <2>1, <2>2, <2>3 DEF Behind
<1>15. CASE EvalSymlinks(t, cur) # Failed
  <2>1. /\ b = Walk(t, cur) /\ b \in DOMAIN t /\ ~IsLink(t, b)
    BY <1>8, <1>11, <1>15, EvalSymlinksIsPath DEF OrElse, Good
  <2>2. Walk(t, b) = b
    BY <2>1, PlaceIsItself
  <2>3. ASSUME Front(r) # <<>>
        PROVE  IsDir(t, b) /\ Append(b, Head(Front(r))) \notin DOMAIN t
    <3>1. PICK n \in Names : n = Head(r) /\ n = Head(Front(r))
      BY <1>7, <2>3
    <3>2. PICK y : y = Append(cur, n)
      OBVIOUS
    <3>3. y \in Path /\ y # <<>> /\ y # Failed /\ Front(y) = cur /\ Last(y) = n
      <4>1. cur \in Seq(Names)
        BY <1>7 DEF Path
      <4>2. y \in Seq(Names) /\ y # <<>> /\ Front(y) = cur /\ Last(y) = n
        BY <3>2, <4>1, EntryInDir
      <4> QED
        BY <4>2, HostAssumption DEF Path
    <3>4. IsNotExist(t, y)
      <4>1. k + 1 \in k + 1..Len(p) - 1
        BY <1>3, <1>7, <2>3 DEF Path
      <4> QED
        BY <1>5, <1>7, <3>1, <3>2, <4>1
    <3>5. EntryAt(t, y) = EntryOf(t, b, n)
      BY <2>1, <3>3 DEF EntryAt
    <3>6. b \notin {Missing, NotDir}
      BY <2>1, AnswersAreNowhere
    <3>7. IsDir(t, b)
      BY <2>1, <3>4, <3>5, <3>6 DEF IsNotExist, EntryOf
    <3>8. EntryAt(t, y) = Append(b, n)
      BY <2>1, <3>5, <3>6, <3>7 DEF EntryOf
    <3> QED
      BY <3>1, <3>4, <3>7, <3>8 DEF IsNotExist
  <2> QED
    BY <1>7, <1>10, <1>12, <1>13, <2>1, <2>2, <2>3 DEF Behind
<1> QED
  BY <1>14, <1>15

LEMMA EntryBehind ==
  ASSUME NEW t, IsTree(t), NEW b \in Path, NEW r \in Path, r # <<>>, Behind(t, b, r),
         Front(b \o r) \in Lasting, EntryAt(t, b \o r) \notin {Missing, NotDir}
  PROVE  /\ Front(r) = <<>> /\ EntryAt(t, b \o r) = b \o r
         /\ Front(b \o r) = b /\ IsDir(t, b)
<1>0. PICK x, e : x = b \o r /\ e = EntryAt(t, x)
  OBVIOUS
<1>1. /\ x \in Path /\ x # <<>> /\ Front(x) = b \o Front(r) /\ Last(x) = Last(r)
      /\ Front(x) \in Lasting /\ e \notin {Missing, NotDir}
  <2>1. /\ b \o r \in Path /\ b \o r # <<>> /\ Front(b \o r) = b \o Front(r)
        /\ Last(b \o r) = Last(r)
    BY JoinMore
  <2>2. Front(x) \in Lasting /\ e \notin {Missing, NotDir}
    BY <1>0
  <2> QED
    BY <1>0, <2>1, <2>2
<1>2. PICK d : d = Walk(t, Front(x))
  OBVIOUS
<1>3. e \in Path /\ e # <<>> /\ Last(e) = Last(x) /\ Front(e) = d /\ IsDir(t, d)
  BY <1>0, <1>1, <1>2, EntryIsPlace
<1>4. PICK f \in Path : f = Front(r)
  <2>1. Front(r) \in Path
    BY FrontAndLast DEF Path
  <2> QED
    BY <2>1
<1>5. d = Walk(t, b \o f) /\ d \in DOMAIN t
  BY <1>1, <1>2, <1>3, <1>4 DEF IsDir
<1>6. Walk(t, b) = b /\ b \in DOMAIN t
  BY <1>4, <1>5, LostStaysLost DEF Behind
<1>7. CASE f = <<>>
  <2>1. Front(x) = b /\ d = b
    BY <1>1, <1>2, <1>4, <1>6, <1>7, JoinPaths
  <2>2. e = Append(Front(e), Last(e)) /\ x = Append(Front(x), Last(x))
    BY <1>1, <1>3, FrontAndLast DEF Path
  <2> QED
    BY <1>0, <1>3, <1>4, <1>7, <2>1, <2>2
<1>8. CASE f # <<>>
  <2>1. IsDir(t, b) /\ Append(b, Head(f)) \notin DOMAIN t
    BY <1>4, <1>5, <1>8, LostStaysLost DEF Behind
  <2>2. PICK n, z : n = Head(f) /\ z = Tail(f)
    OBVIOUS
  <2>3. n \in Names /\ z \in Seq(Names) /\ f = <<n>> \o z /\ b \in Seq(Names)
    BY <1>4, <1>8, <2>2 DEF Path
  <2>4. <<n>> \in Seq(Names) /\ Append(b, n) = b \o <<n>>
    BY <2>3, AppendIsConcat
  <2>5. Append(b, n) \o z = b \o f
    BY <2>3, <2>4, ConcatAssociative
  <2>6. Walk(t, Append(b, n) \o z) \notin DOMAIN t
    BY <1>6, <2>1, <2>2, <2>3, NotThere DEF Path
  <2> QED
    BY <1>5, <2>5, <2>6
<1> QED
  BY <1>0, <1>7, <1>8

\* In a jail, the entry that is created or changed is the path that was resolved,
\* and its directory is in the jail.
LEMMA EntryIsResolved ==
  ASSUME JailIsPath, jail # NoJail, NEW t, IsTree(t), NEW v \in Lasting, v # <<>>,
         NEW x, x = ForCreate(t, v), EntryAt(t, x) \notin {Missing, NotDir}
  PROVE  /\ EntryAt(t, x) = x /\ x \in Path /\ x # <<>> /\ IsDir(t, Front(x))
         /\ IsPrefix(CanonicalJail(t), Front(x)) /\ IsPrefix(CanonicalJail(t), x)
<1>1. x # Failed
  <2>1. Failed # <<>>
    <3>1. <<>> \in Path
      BY DEF Path
    <3> QED
      BY <3>1, HostAssumption
  <2>2. EntryAt(t, Failed) = NotDir
    BY <2>1 DEF EntryAt
  <2> QED
    BY <2>2
<1>2. PICK c : c = CanonicalJail(t)
  OBVIOUS
<1>3. c \in Path
  BY <1>2, JailLeadsToCanonical
<1>4. PICK b \in Path, r \in Path : x = b \o r /\ r # <<>> /\ IsPrefix(c, b) /\ Behind(t, b, r)
  BY <1>1, <1>2, ForCreateSplits
<1>5. x \in Lasting /\ x # <<>> /\ x \in Path
  BY <1>1, ForCreateIsPath, LastingIsPath
<1>6. Front(x) \in Lasting
  BY <1>5, FrontAndLast DEF Lasting
<1>7. EntryAt(t, x) = x /\ Front(x) = b /\ IsDir(t, b)
  <2>1. /\ Front(b \o r) \in Lasting /\ r # <<>> /\ Behind(t, b, r)
        /\ EntryAt(t, b \o r) \notin {Missing, NotDir}
    BY <1>4, <1>6
  <2>2. EntryAt(t, b \o r) = b \o r /\ Front(b \o r) = b /\ IsDir(t, b)
    BY <2>1, EntryBehind
  <2> QED
    BY <1>4, <2>2
<1>8. IsPrefix(c, x)
  BY <1>3, <1>4, <1>5, <1>7, PrefixOfFront DEF Path
<1> QED
  BY <1>2, <1>4, <1>5, <1>7, <1>8

\* PlacesInside.
LEMMA PlaceIsInside ==
  ASSUME JailIsPath, NEW t, IsTree(t), NEW v \in Lasting, v # <<>>, NEW follow \in BOOLEAN,
         NEW q, q = Place(t, v, follow)
  PROVE  /\ q \in DOMAIN t => Inside(t, q)
         /\ follow /\ Followed(t, v) # Failed => q \in DOMAIN t
<1>1. CASE follow
  <2>1. CASE Followed(t, v) = Failed
    <3>1. q = NotDir
      BY <1>1, <2>1 DEF Place, Walk
    <3> QED
      BY <2>1, <3>1, AnswersAreNowhere
  <2>2. CASE Followed(t, v) # Failed
    BY <1>1, <2>2, FollowedIsInside
  <2> QED
    BY <2>1, <2>2
<1>2. CASE ~follow
  <2>1. CASE jail = NoJail
    BY <1>2, <2>1 DEF Inside
  <2>2. CASE jail # NoJail
    <3>1. q = EntryAt(t, ForCreate(t, v))
      BY <1>2 DEF Place
    <3>2. ASSUME q \in DOMAIN t PROVE Inside(t, q)
      <4>1. q \notin {Missing, NotDir}
        BY <3>2, AnswersAreNowhere
      <4> QED
        BY <2>2, <3>1, <4>1, EntryIsResolved DEF Inside
    <3> QED
      BY <1>2, <3>2
  <2> QED
    BY <2>1, <2>2
<1> QED
  BY <1>1, <1>2

\* Whatever links there are, a path that is resolved to something that is there
\* is resolved to a place in the jail (Stat, ReadFile, Lchown).
THEOREM ResolvedPlacesAreInside == Spec => []PlacesInside
<1>1. Types => PlacesInside
  BY JailOfWorld, PlaceIsInside, ArgsAreLasting DEF Types, PlacesInside
<1> QED
  BY <1>1, InvHolds, PTL DEF OsFSInv

-----------------------------------------------------------------------------
(* Directories.                                                            *)

\* What is found under a path, links followed, is there when they are not.
LEMMA EntryOfFound ==
  ASSUME NEW t, IsTree(t), NEW p \in Path, p # <<>>, Front(p) \in Lasting,
         Walk(t, p) \in DOMAIN t
  PROVE  EntryAt(t, p) \in DOMAIN t
<1>1. PICK f, n : f = Front(p) /\ n = Last(p)
  OBVIOUS
<1>2. f \in Seq(Names) /\ n \in Names /\ p = Append(f, n)
  BY <1>1, FrontAndLast DEF Path
<1>3. PICK o : o = <<n>>
  OBVIOUS
<1>10. o \in Seq(Names) /\ o # <<>>
  BY <1>2, <1>3
<1>4. p = f \o o
  BY <1>2, <1>3, AppendIsConcat
<1>5. PICK d : d = Walk(t, f)
  OBVIOUS
<1>6. IsDir(t, d)
  <2>1. ASSUME ~IsDir(t, d) PROVE FALSE
    <3>1. Walk(t, f \o o) \in {Missing, NotDir}
      BY <1>2, <1>5, <1>10, <2>1, MoreIsNowhere DEF Path
    <3> QED
      BY <1>4, <3>1, AnswersAreNowhere
  <2> QED
    BY <2>1
<1>7. Append(d, n) \in DOMAIN t
  <2>1. ASSUME Append(d, n) \notin DOMAIN t PROVE FALSE
    <3>1. <<>> \in Path /\ Append(f, n) \o <<>> = p
      BY <1>2 DEF Path
    <3>2. Walk(t, Append(f, n) \o <<>>) \notin DOMAIN t
      BY <1>2, <1>5, <1>6, <2>1, <3>1, NotThere DEF Path
    <3> QED
      BY <3>1, <3>2
  <2> QED
    BY <2>1
<1>8. d \notin {Missing, NotDir} /\ d \in DOMAIN t /\ p # Failed
  BY <1>6, AnswersAreNowhere, HostAssumption DEF IsDir
<1>9. EntryAt(t, p) = Append(d, n)
  BY <1>1, <1>5, <1>6, <1>8 DEF EntryAt, EntryOf
<1> QED
  BY <1>7, <1>9

\* A name is in the jail unless it begins with "..".
LEMMA BelowJail ==
  ASSUME NEW j \in Path, NEW v \in Path
  PROVE  IsInJail(j, j \o v) <=> (v = <<>> \/ Head(v) \notin DotNames)
<1>1. j \in Jail /\ j # NoJail
  BY JailAssumption DEF Jail, Path
<1>2. Rel(j, j \o v) = [up |-> 0, down |-> v]
  BY <1>1, RemoveOfHost DEF HostPath
<1> QED
  BY <1>1, <1>2 DEF IsInJail, StartsWithDots

LEMMA JailIsInItself ==
  ASSUME NEW j \in Path
  PROVE  IsInJail(j, j)
<1>1. <<>> \in Path /\ j \o <<>> = j
  BY DEF Path
<1>2. IsInJail(j, j \o <<>>)
  BY <1>1, BelowJail
<1> QED
  BY <1>1, <1>2

LEMMA NameInDir ==
  ASSUME NEW v \in Path, NEW n \in Names
  PROVE  /\ Append(v, n) \in Path /\ Append(v, n) # <<>>
         /\ Front(Append(v, n)) = v /\ Last(Append(v, n)) = n
         /\ Head(Append(v, n)) = IF v = <<>> THEN n ELSE Head(v)
BY EntryInDir, HeadTailAppend DEF Path

\* A name in a directory that can be read is in the jail, and there.
LEMMA ListedIsResolved ==
  ASSUME JailIsPath, NEW t, IsTree(t), NEW v \in Lasting,
         NEW n \in NamesIn(t, Walk(t, Followed(t, v))), n \notin DotNames, n \in Names
  PROVE  EntryAt(t, ForCreate(t, Append(v, n))) \in DOMAIN t
<1>1. PICK d : d = Walk(t, Followed(t, v))
  OBVIOUS
<1>2. IsDir(t, d) /\ Append(d, n) \in DOMAIN t
  <2>1. PICK q \in DOMAIN t \ {<<>>} : IsDir(t, d) /\ Front(q) = d /\ n = Last(q)
    BY <1>1 DEF NamesIn
  <2>2. q = Append(Front(q), Last(q))
    BY <2>1, FrontAndLast DEF IsTree, Path
  <2> QED
    BY <2>1, <2>2
<1>3. Followed(t, v) # Failed
  <2>1. ASSUME Followed(t, v) = Failed PROVE FALSE
    <3>1. d = NotDir
      BY <1>1, <2>1 DEF Walk
    <3> QED
      BY <1>2, <3>1, AnswersAreNowhere DEF IsDir
  <2> QED
    BY <2>1
<1>4. d = EvalSymlinks(t, Lexical(v)) /\ d = Walk(t, HostPath(jail, v)) /\ Inside(t, d)
  BY <1>1, <1>3, FollowedIsInside DEF Place
<1>5. d \in DOMAIN t /\ d \in Path /\ d # Failed /\ d \notin {Missing, NotDir}
  BY <1>2, AnswersAreNowhere DEF IsDir, IsTree
<1>6. PICK q : q = Append(v, n)
  OBVIOUS
<1>7. /\ q \in Path /\ q # <<>> /\ Front(q) = v /\ Last(q) = n
      /\ Head(q) = IF v = <<>> THEN n ELSE Head(v)
      /\ v \in Path /\ n \in Names /\ q # Failed
  <2>1. v \in Path /\ n \in Names
    BY LastingIsPath
  <2>2. /\ q \in Path /\ q # <<>> /\ Front(q) = v /\ Last(q) = n
        /\ Head(q) = IF v = <<>> THEN n ELSE Head(v)
    BY <1>6, <2>1, NameInDir
  <2> QED
    BY <2>1, <2>2, HostAssumption
<1>9. CASE jail = NoJail
  <2>1. ForCreate(t, q) = q
    BY <1>7, <1>9 DEF ForCreate, ParentFollowed, Lexical, HostPath
  <2>2. d = Walk(t, v)
    BY <1>4, <1>9 DEF HostPath
  <2>3. EntryAt(t, q) = Append(d, n)
    BY <1>2, <1>5, <1>7, <2>2 DEF EntryAt, EntryOf
  <2> QED
    BY <1>2, <1>6, <2>1, <2>3
<1>10. CASE jail # NoJail
  <2>1. jail \in Path /\ jail \in Lasting
    BY <1>10, LastingIsPath DEF JailIsPath
  <2>2. Lexical(v) # Failed
    <3>1. ASSUME Lexical(v) = Failed PROVE FALSE
      BY <1>4, <1>5, <3>1, AnswersAreNowhere DEF EvalSymlinks, Exists, Walk
    <3> QED
      BY <3>1
  <2>3. PICK f, p : f = jail \o v /\ p = jail \o q
    OBVIOUS
  <2>4. Lexical(v) = f /\ IsInJail(jail, f)
    BY <1>10, <2>2, <2>3 DEF Lexical, HostPath
  <2>5. IsInJail(jail, p)
    BY <1>7, <2>1, <2>3, <2>4, BelowJail
  <2>6. Lexical(q) = p
    BY <1>10, <2>3, <2>5 DEF Lexical, HostPath
  <2>7. /\ p \in Path /\ p # <<>> /\ p # jail /\ Front(p) = f /\ Last(p) = n
        /\ f \in Path /\ p # Failed
    <3>1. PICK j \in Path : j = jail
      BY <2>1
    <3>2. /\ j \o q \in Path /\ j \o q # <<>> /\ j \o q # j
          /\ Front(j \o q) = j \o Front(q) /\ Last(j \o q) = Last(q)
      <4>1. q \in Path /\ q # <<>>
        BY <1>7
      <4> QED
        BY <4>1, JoinPaths
    <3>3. j \o v \in Path
      BY <1>7, JoinPaths
    <3> QED
      BY <1>7, <2>3, <3>1, <3>2, <3>3, HostAssumption
  <2>8. f \in Lasting
    BY <2>1, <2>2, <2>4, LexicalIsPath
  <2>9. EvalSymlinks(t, f) = d /\ Walk(t, f) = d
    BY <1>4, <1>10, <2>3, <2>4 DEF HostPath
  <2>10. ~IsNotExist(t, f) /\ EntryAt(t, f) # NotDir
    <3>1. CASE f = <<>>
      <4>1. EntryAt(t, f) = f
        BY <2>7, <3>1, HostAssumption DEF EntryAt
      <4> QED
        BY <3>1, <4>1, AnswersAreNowhere DEF IsNotExist, IsTree, IsDir
    <3>2. CASE f # <<>>
      <4>1. Front(f) \in Lasting
        BY <2>8, <3>2, FrontAndLast DEF Lasting
      <4>2. EntryAt(t, f) \in DOMAIN t
        BY <1>5, <2>7, <2>9, <3>2, <4>1, EntryOfFound
      <4> QED
        BY <4>2, AnswersAreNowhere DEF IsNotExist
    <3> QED
      BY <3>1, <3>2
  <2>11. PICK l : l = Len(p)
    OBVIOUS
  <2>12. l \in Nat \ {0} /\ SubSeq(p, 1, l - 1) = f
    BY <2>7, <2>11 DEF Front, Path
  <2>13. Existing(t, p) = l - 1
    <3>1. PICK k \in 0..l - 1 :
            k = Existing(t, p) /\ \A i \in k + 1..l - 1 : IsNotExist(t, SubSeq(p, 1, i))
      BY <2>7, <2>11, ExistingInRange
    <3>2. ASSUME k # l - 1 PROVE FALSE
      <4>1. l - 1 \in k + 1..l - 1
        BY <2>12, <3>1, <3>2
      <4> QED
        BY <2>10, <2>12, <3>1, <4>1
    <3> QED
      BY <3>1, <3>2
  <2>14. Checked(t, d) = d
    BY <1>3, <1>10, <2>4, <2>9 DEF Followed, BackIfChecked, Checked
  <2>15. SubSeq(p, l, l) = <<n>>
    <3>1. p \in Seq(Names) /\ p[l] = n
      BY <2>7, <2>11 DEF Last, Path
    <3>2. PICK r : r = SubSeq(p, l, l)
      OBVIOUS
    <3>3. r \in Seq(Names) /\ Len(r) = 1 /\ r[1] = p[l]
      BY <2>11, <2>12, <3>1, <3>2
    <3>4. PICK o : o = <<n>>
      OBVIOUS
    <3>5. o \in Seq(Names) /\ Len(o) = 1 /\ o[1] = n
      BY <1>7, <3>4
    <3>6. r = o
      BY <3>1, <3>3, <3>5, SeqEqual
    <3> QED
      BY <3>2, <3>4, <3>6
  <2>16. ForCreate(t, q) = d \o <<n>>
    <3>1. ForCreate(t, q) = Reattach(t, p, l - 1)
      BY <1>10, <2>6, <2>7, <2>13 DEF ForCreate, ParentFollowed
    <3>2. OrElse(EvalSymlinks(t, f), f) = d
      BY <1>5, <2>9 DEF OrElse
    <3>3. l - 1 + 1 = l
      BY <2>12
    <3> QED
      BY <1>5, <2>10, <2>11, <2>12, <2>14, <2>15, <3>1, <3>2, <3>3 DEF Reattach
  <2>17. ForCreate(t, q) = Append(d, n)
    BY <1>5, <1>7, <2>16, AppendIsConcat DEF Path
  <2>18. PICK e : e = Append(d, n)
    OBVIOUS
  <2>19. e \in Path /\ e # <<>> /\ e # Failed /\ Front(e) = d /\ Last(e) = n
    BY <1>5, <1>7, <2>18, NameInDir, HostAssumption
  <2>20. Walk(t, d) = d
    BY <1>2, <1>5, PlaceIsItself DEF IsDir, IsLink
  <2>21. EntryAt(t, e) = e
    BY <1>2, <1>5, <2>18, <2>19, <2>20 DEF EntryAt, EntryOf
  <2> QED
    BY <1>2, <1>6, <2>17, <2>18, <2>21
<1> QED
  BY <1>9, <1>10

LEMMA NamesAreNames ==
  ASSUME NEW t, IsTree(t), NEW d, NEW n \in NamesIn(t, d)
  PROVE  n \in Names /\ IsDir(t, d) /\ Append(d, n) \in DOMAIN t
<1>1. PICK q \in DOMAIN t \ {<<>>} : IsDir(t, d) /\ Front(q) = d /\ n = Last(q)
  BY DEF NamesIn
<1>2. Last(q) \in Names /\ q = Append(Front(q), Last(q))
  BY <1>1, FrontAndLast DEF IsTree, Path
<1> QED
  BY <1>1, <1>2

\* A directory that cannot be resolved is not read, and not searched either.
LEMMA NotFollowedIsEmpty ==
  ASSUME JailIsPath, NEW t, IsTree(t), NEW v \in Lasting, Followed(t, v) = Failed
  PROVE  ReadDir(t, v) = {} /\ Glob(t, v) = {}
<1>1. ReadDir(t, v) = {}
  <2>1. Walk(t, Followed(t, v)) = NotDir
    BY DEF Walk
  <2>2. ASSUME NEW n \in NamesIn(t, NotDir) PROVE FALSE
    BY <2>2, NamesAreNames, AnswersAreNowhere DEF IsDir
  <2> QED
    BY <2>1, <2>2 DEF ReadDir
<1>2. CASE ~PrefixInJail(t, v)
  BY <1>1, <1>2 DEF Glob
<1>3. CASE PrefixInJail(t, v)
  <2>1. jail = NoJail \/ v = <<>>
    BY <1>3 DEF PrefixInJail
  <2>2. PICK h : h = HostPath(jail, v)
    OBVIOUS
  <2>3. Walk(t, h) \notin DOMAIN t
    <3>1. CASE jail = NoJail
      <4>1. EvalSymlinks(t, h) = Failed
        BY <2>2, <3>1 DEF Followed, HostPath
      <4> QED
        BY <4>1, AnswersAreNowhere DEF EvalSymlinks, Exists
    <3>2. CASE jail # NoJail
      <4>1. jail \in Path /\ v = <<>> /\ jail \in Lasting
        BY <2>1, <3>2, LastingIsPath DEF JailIsPath
      <4>2. h = jail /\ IsInJail(jail, jail)
        <5>1. jail \o <<>> = jail /\ IsInJail(jail, jail)
          BY <4>1, JailIsInItself DEF Path
        <5> QED
          BY <2>2, <3>2, <4>1, <5>1 DEF HostPath
      <4>3. Lexical(v) = jail
        BY <2>2, <4>2 DEF Lexical
      <4>4. ASSUME Walk(t, jail) \in DOMAIN t PROVE FALSE
        <5>1. PICK c : c = EvalSymlinks(t, jail)
          OBVIOUS
        <5>2. c # Failed /\ c \in Path
          BY <4>4, <5>1, AnswersAreNowhere DEF EvalSymlinks, Exists, IsTree
        <5>3. CanonicalJail(t) = c
          BY <5>1, <5>2 DEF CanonicalJail, OrElse
        <5>4. IsInJail(c, c)
          BY <5>2, JailIsInItself
        <5>5. Checked(t, c) = c
          BY <5>2, <5>3, <5>4 DEF Checked
        <5>6. Followed(t, v) = HostPath(jail, RemoveJailPrefix(c, c))
          BY <3>2, <4>3, <5>1, <5>2, <5>3, <5>5 DEF Followed, BackIfChecked, BackInJail
        <5>7. RemoveJailPrefix(c, c) \in Path
          BY <5>2, RemoveType, JailAssumption DEF Jail, Path
        <5>8. HostPath(jail, RemoveJailPrefix(c, c)) \in Path
          BY <4>1, <5>7, RemoveOfHost DEF Jail
        <5> QED
          BY <5>6, <5>8, HostAssumption
      <4> QED
        BY <4>2, <4>4
    <3> QED
      BY <3>1, <3>2
  <2>4. ASSUME NEW n \in NamesIn(t, Walk(t, h)) PROVE FALSE
    BY <2>3, NamesAreNames DEF IsDir
  <2>5. NamesIn(t, Walk(t, h)) = {}
    BY <2>4
  <2> QED
    BY <1>1, <2>2, <2>5 DEF Glob
<1> QED
  BY <1>1, <1>2, <1>3

\* Glob leaves out nothing of what ReadDir lists but names that begin with "..".
LEMMA GlobIsListed ==
  ASSUME JailIsPath, NEW t, IsTree(t), NEW v \in Lasting
  PROVE  {q \in Glob(t, v) : Last(q) \notin DotNames}
           = {Append(v, n) : n \in ReadDir(t, v) \ DotNames}
<1>1. CASE Followed(t, v) = Failed
  BY <1>1, NotFollowedIsEmpty
<1>2. CASE Followed(t, v) # Failed
  <2>1. PICK h, D : h = HostPath(jail, v) /\ D = NamesIn(t, Walk(t, h))
    OBVIOUS
  <2>2. ReadDir(t, v) = D /\ PrefixInJail(t, v)
    BY <1>2, <2>1, FollowedIsInside DEF ReadDir, Place, PrefixInJail
  <2>3. \A n \in D : n \in Names
    BY <2>1, NamesAreNames
  <2>4. v \in Path
    BY LastingIsPath
  <2>5. ASSUME NEW n \in Names
        PROVE  /\ RemoveJailPrefix(jail, Append(h, n)) = Append(v, n)
               /\ Last(Append(v, n)) = n
               /\ n \notin DotNames => IsInJail(jail, Append(h, n))
    <3>1. PICK q : q = Append(v, n)
      OBVIOUS
    <3>2. /\ q \in Path /\ q # <<>> /\ Last(q) = n
          /\ Head(q) = IF v = <<>> THEN n ELSE Head(v)
      BY <2>4, <3>1, NameInDir
    <3>3. Append(h, n) = HostPath(jail, q)
      <4>1. CASE jail = NoJail
        BY <2>1, <3>1, <4>1 DEF HostPath
      <4>2. CASE jail # NoJail
        <5>1. PICK j, o : j = jail /\ o = <<n>>
          OBVIOUS
        <5>2. j \in Seq(Names) /\ o \in Seq(Names) /\ v \in Seq(Names)
          BY <2>4, <4>2, <5>1, LastingIsPath DEF JailIsPath, Path
        <5>3. j \o v \in Seq(Names)
          BY <5>2
        <5>4. Append(j \o v, n) = (j \o v) \o o /\ q = v \o o
          BY <3>1, <5>1, <5>2, <5>3, AppendIsConcat
        <5>5. (j \o v) \o o = j \o (v \o o)
          BY <5>2, ConcatAssociative
        <5> QED
          BY <2>1, <4>2, <5>1, <5>4, <5>5 DEF HostPath
      <4> QED
        BY <4>1, <4>2
    <3>4. jail \in Jail
      BY LastingIsPath DEF JailIsPath, Jail
    <3>5. RemoveJailPrefix(jail, Append(h, n)) = q
      BY <3>2, <3>3, <3>4, RemoveOfHost
    <3>6. ASSUME n \notin DotNames PROVE IsInJail(jail, Append(h, n))
      <4>1. CASE jail = NoJail
        BY <4>1 DEF IsInJail
      <4>2. CASE jail # NoJail
        <5>1. jail \in Path
          BY <3>4, <4>2 DEF Jail
        <5>2. v # <<>> => Head(v) \notin DotNames
          <6>1. EvalSymlinks(t, Lexical(v)) # Failed
            BY <1>2, <4>2 DEF Followed, BackIfChecked, Checked
          <6>2. Lexical(v) # Failed
            BY <6>1, AnswersAreNowhere DEF EvalSymlinks, Exists, Walk
          <6>3. IsInJail(jail, jail \o v)
            BY <4>2, <6>2 DEF Lexical, HostPath
          <6> QED
            BY <2>4, <5>1, <6>3, BelowJail
        <5>3. IsInJail(jail, jail \o q)
          BY <3>2, <3>6, <5>1, <5>2, BelowJail
        <5> QED
          BY <3>3, <4>2, <5>3 DEF HostPath
      <4> QED
        BY <4>1, <4>2
    <3> QED
      BY <3>1, <3>2, <3>5, <3>6
  <2>6. Glob(t, v) = {Append(v, n) : n \in {n \in D : IsInJail(jail, Append(h, n))}}
    <3>1. Glob(t, v) = {RemoveJailPrefix(jail, m) :
                          m \in {m \in {Append(h, n) : n \in D} : IsInJail(jail, m)}}
      BY <2>1, <2>2 DEF Glob
    <3>2. \A n \in D : RemoveJailPrefix(jail, Append(h, n)) = Append(v, n)
      BY <2>3, <2>5
    <3>3. PICK G : G = {n \in D : IsInJail(jail, Append(h, n))}
      OBVIOUS
    <3>4. ASSUME NEW q \in Glob(t, v) PROVE \E n \in G : q = Append(v, n)
      <4>1. PICK k : k \in {m \in {Append(h, n) : n \in D} : IsInJail(jail, m)}
                     /\ q = RemoveJailPrefix(jail, k)
        BY <3>1, <3>4, Zenon
      <4>2. PICK n \in D : k = Append(h, n) /\ IsInJail(jail, k)
        BY <4>1, Zenon
      <4> QED
        BY <3>2, <3>3, <4>1, <4>2, Zenon
    <3>5. ASSUME NEW n \in G PROVE Append(v, n) \in Glob(t, v)
      <4>1. n \in D /\ IsInJail(jail, Append(h, n))
        BY <3>3, <3>5, Zenon
      <4>2. Append(h, n) \in {m \in {Append(h, k) : k \in D} : IsInJail(jail, m)}
        BY <4>1, Zenon
      <4> QED
        BY <3>1, <3>2, <4>1, <4>2, Zenon
    <3>6. Glob(t, v) = {Append(v, n) : n \in G}
      BY <3>4, <3>5, Zenon
    <3> QED
      BY <3>3, <3>6
  <2>7. ASSUME NEW n \in D
        PROVE  Last(Append(v, n)) = n /\ (n \notin DotNames => IsInJail(jail, Append(h, n)))
    BY <2>3, <2>5
  <2>8. PICK G : G = {n \in D : IsInJail(jail, Append(h, n))}
    OBVIOUS
  <2>9. ASSUME NEW q PROVE q \in Glob(t, v) /\ Last(q) \notin DotNames
                             <=> \E n \in D \ DotNames : q = Append(v, n)
    <3>1. q \in Glob(t, v) <=> \E n \in G : q = Append(v, n)
      BY <2>6, <2>8, Zenon
    <3>2. \A n : n \in G <=> n \in D /\ IsInJail(jail, Append(h, n))
      BY <2>8, Zenon
    <3> QED
      BY <2>7, <3>1, <3>2, Zenon
  <2> QED
    BY <2>2, <2>9, Zenon
<1> QED
  BY <1>1, <1>2

\* What ReadDir lists can be looked at under the name it has, and is what Glob
\* finds, in any jail and whatever links there are.
THEOREM ListedNamesAreThere == Spec => []ListedIsThere
<1>1. ASSUME Types PROVE ListedIsThere
  <2>1. JailIsPath /\ IsTree(tree)
    BY <1>1, JailOfWorld DEF Types
  <2>2. ASSUME NEW v \in Args \cup {<<>>}
        PROVE  /\ v \in Lasting
               /\ \A q \in {Append(v, n) : n \in ReadDir(tree, v) \ DotNames} :
                    Stat(tree, q, FALSE) # Failed
    <3>1. v \in Lasting
      <4>1. <<>> \in Lasting
        BY DEF Lasting
      <4> QED
        BY <4>1, ArgsAreLasting
    <3>2. ASSUME NEW n \in ReadDir(tree, v) \ DotNames
          PROVE  Stat(tree, Append(v, n), FALSE) # Failed
      <4>1. n \in NamesIn(tree, Walk(tree, Followed(tree, v)))
        BY DEF ReadDir
      <4>2. PICK e \in DOMAIN tree : e = EntryAt(tree, ForCreate(tree, Append(v, n)))
        BY <2>1, <3>1, <4>1, NamesAreNames, ListedIsResolved
      <4>3. Stat(tree, Append(v, n), FALSE) = tree[e].kind
        BY <4>2 DEF Stat, Place, KindAt
      <4>4. tree[e].kind \in {"dir", "link", "file"}
        BY <2>1, NodeKinds DEF IsTree
      <4> QED
        BY <4>3, <4>4, HostAssumption
    <3> QED
      BY <3>1, <3>2
  <2>3. ASSUME NEW v \in Args \cup {<<>>}
        PROVE  {q \in Glob(tree, v) : Last(q) \notin DotNames}
                 = {Append(v, n) : n \in ReadDir(tree, v) \ DotNames}
    BY <2>1, <2>2, GlobIsListed
  <2> QED
    BY <2>2, <2>3 DEF ListedIsThere
<1> QED
  BY <1>1, InvHolds, PTL DEF OsFSInv

-----------------------------------------------------------------------------
(* Ways on which there is no link.                                         *)

\* Two paths on the way to the same one.
LEMMA PrefixesCompare ==
  ASSUME NEW a \in Path, NEW b \in Path, NEW p \in Path, IsPrefix(a, p), IsPrefix(b, p)
  PROVE  Len(a) <= Len(b) => IsPrefix(a, b)
<1>1. a \in Seq(Names) /\ b \in Seq(Names) /\ p \in Seq(Names)
  BY DEF Path
<1>2. /\ \A i \in 1..Len(a) : a[i] = p[i]
      /\ \A i \in 1..Len(b) : b[i] = p[i]
  BY <1>1, PrefixByComponents
<1>3. ASSUME Len(a) <= Len(b) PROVE \A i \in 1..Len(a) : a[i] = b[i]
  BY <1>1, <1>2, <1>3
<1> QED
  BY <1>1, <1>3, PrefixByComponents

LEMMA PrefixOfPrefix ==
  ASSUME NEW a \in Path, NEW b \in Path, NEW p \in Path, IsPrefix(a, b), IsPrefix(b, p)
  PROVE  IsPrefix(a, p)
<1>1. a \in Seq(Names) /\ b \in Seq(Names) /\ p \in Seq(Names)
  BY DEF Path
<1>2. /\ Len(a) <= Len(b) /\ \A i \in 1..Len(a) : a[i] = b[i]
      /\ Len(b) <= Len(p) /\ \A i \in 1..Len(b) : b[i] = p[i]
  BY <1>1, PrefixByComponents
<1>3. Len(a) <= Len(p) /\ \A i \in 1..Len(a) : a[i] = p[i]
  BY <1>1, <1>2
<1> QED
  BY <1>1, <1>3, PrefixByComponents

\* The first k components.
LEMMA FirstComponents ==
  ASSUME NEW p \in Path, NEW k \in 0..Len(p)
  PROVE  /\ SubSeq(p, 1, k) \in Path /\ Len(SubSeq(p, 1, k)) = k
         /\ IsPrefix(SubSeq(p, 1, k), p)
         /\ k = Len(p) => SubSeq(p, 1, k) = p
         /\ k = 0 => SubSeq(p, 1, k) = <<>>
         /\ k # 0 => /\ SubSeq(p, 1, k) # <<>>
                     /\ Front(SubSeq(p, 1, k)) = SubSeq(p, 1, k - 1)
<1>1. p \in Seq(Names) /\ Len(p) \in Nat
  BY DEF Path
<1>2. PICK q : q = SubSeq(p, 1, k)
  OBVIOUS
<1>3. q \in Seq(Names) /\ Len(q) = k /\ \A i \in 1..k : q[i] = p[i]
  BY <1>1, <1>2, SubSeqProperties
<1>4. IsPrefix(q, p)
  BY <1>1, <1>3, PrefixByComponents
<1>5. k = Len(p) => q = p
  BY <1>1, <1>3, SeqEqual
<1>6. k = 0 => q = <<>>
  BY <1>3, EmptySeq
<1>7. ASSUME k # 0 PROVE q # <<>> /\ Front(q) = SubSeq(p, 1, k - 1)
  <2>1. q # <<>> /\ k - 1 \in 0..Len(p)
    BY <1>1, <1>3, <1>7
  <2>2. Front(q) \in Seq(Names) /\ Len(Front(q)) = k - 1
    BY <1>3, <2>1, FrontAndLast
  <2>3. \A i \in 1..k - 1 : Front(q)[i] = q[i]
    <3>1. Front(q) = SubSeq(q, 1, Len(q) - 1)
      BY DEF Front
    <3> QED
      BY <1>1, <1>3, <1>7, <3>1
  <2>4. PICK s : s = SubSeq(p, 1, k - 1)
    OBVIOUS
  <2>5. s \in Seq(Names) /\ Len(s) = k - 1 /\ \A i \in 1..k - 1 : s[i] = p[i]
    BY <1>1, <2>1, <2>4, SubSeqProperties
  <2>6. \A i \in 1..k - 1 : Front(q)[i] = s[i]
    BY <1>1, <1>3, <2>3, <2>5
  <2>7. Front(q) = s
    BY <2>2, <2>5, <2>6, SeqEqual
  <2> QED
    BY <2>1, <2>4, <2>7
<1> QED
  BY <1>2, <1>3, <1>4, <1>5, <1>6, <1>7 DEF Path

Unlinked(t, p) == \A q \in DOMAIN t : IsPrefix(q, p) => ~IsLink(t, q)

LEMMA PlaceIsUnlinked ==
  ASSUME NEW t, IsTree(t), NEW p \in DOMAIN t, ~IsLink(t, p)
  PROVE  Unlinked(t, p)
<1> SUFFICES ASSUME NEW q \in DOMAIN t, IsPrefix(q, p) PROVE ~IsLink(t, q)
  BY DEF Unlinked
<1>1. q \in Path
  BY DEF IsTree
<1>2. CASE q = p
  BY <1>2
<1>3. CASE q # p
  BY <1>1, <1>3, AncestorsAreDirs DEF IsDir, IsLink
<1> QED
  BY <1>2, <1>3

\* Without links a way to a directory is that directory.
LEMMA UnlinkedWalk ==
  ASSUME NEW t, IsTree(t), NEW p \in Path, Unlinked(t, p), IsDir(t, Walk(t, p))
  PROVE  Walk(t, p) = p
<1>1. Len(p) \in Nat
  BY DEF Path
<1> DEFINE Bad == {k \in 0..Len(p) : ~IsDir(t, SubSeq(p, 1, k))}
<1>2. CASE Bad = {}
  <2>1. PICK n \in 0..Len(p) : n = Len(p)
    BY <1>1
  <2>2. IsDir(t, p)
    <3>1. n \notin Bad
      BY <1>2
    <3>2. SubSeq(p, 1, n) = p
      BY <2>1, FirstComponents
    <3> QED
      BY <3>1, <3>2
  <2> QED
    BY <2>2, PlaceIsItself DEF IsDir, IsLink
<1>3. CASE Bad # {}
  <2>1. PICK n \in Bad : \A m \in Bad : n <= m
    <3>1. Bad \in SUBSET Nat
      BY <1>1
    <3> HIDE DEF Bad
    <3> QED
      BY <1>3, <3>1, LeastNatural
  <2>2. n # 0
    BY <1>1, <2>1, FirstComponents DEF IsTree
  <2>3. n - 1 \in 0..Len(p) - 1 /\ n - 1 \notin Bad
    BY <1>1, <2>1, <2>2
  <2>4. PICK k \in 0..Len(p) - 1 : k = n - 1 /\ k + 1 = n
    BY <1>1, <2>1, <2>3
  <2>5. PICK q, r : q = SubSeq(p, 1, k) /\ r = SubSeq(p, k + 1, Len(p))
    OBVIOUS
  <2>6. p # <<>>
    BY <1>1, <2>4
  <2>7. /\ q \in Path /\ r \in Path /\ r # <<>> /\ p = q \o r
        /\ Head(r) \in Names /\ SubSeq(p, 1, k + 1) = Append(q, Head(r))
    BY <2>5, <2>6, SplitOfPath
  <2>8. IsDir(t, q)
    BY <1>1, <2>3, <2>4, <2>5
  <2>9. PICK a, z : a = Append(q, Head(r)) /\ z = Tail(r)
    OBVIOUS
  <2>10. a \in Path /\ z \in Path /\ p = a \o z
    <3>1. q \in Seq(Names) /\ r \in Seq(Names) /\ Head(r) \in Names /\ z \in Seq(Names)
      BY <2>7, <2>9 DEF Path
    <3>2. r = <<Head(r)>> \o z /\ a = q \o <<Head(r)>>
      BY <2>7, <2>9, <3>1, AppendIsConcat
    <3>3. PICK h : h = <<Head(r)>>
      OBVIOUS
    <3>4. h \in Seq(Names)
      BY <3>1, <3>3
    <3>5. (q \o h) \o z = q \o (h \o z)
      BY <3>1, <3>4, ConcatAssociative
    <3>6. q \o h \in Seq(Names)
      BY <3>1, <3>4
    <3> QED
      BY <2>7, <3>1, <3>2, <3>3, <3>5, <3>6 DEF Path
  <2>11. ~IsDir(t, a) /\ IsPrefix(a, p)
    <3>1. n \in 0..Len(p) /\ ~IsDir(t, SubSeq(p, 1, n))
      BY <2>1
    <3>2. a = SubSeq(p, 1, n)
      BY <2>4, <2>7, <2>9
    <3> QED
      BY <3>1, <3>2, FirstComponents
  <2>12. CASE a \in DOMAIN t
    <3>1. Walk(t, a) = a
      BY <2>11, <2>12, PlaceIsItself DEF Unlinked
    <3>2. CASE z = <<>>
      <4>1. p = a
        BY <2>10, <3>2, JoinPaths
      <4> QED
        BY <2>11, <3>1, <4>1
    <3>3. CASE z # <<>>
      <4>1. Walk(t, p) \in {Missing, NotDir}
        BY <2>10, <2>11, <3>1, <3>3, MoreIsNowhere
      <4> QED
        BY <4>1, AnswersAreNowhere DEF IsDir
    <3> QED
      BY <3>2, <3>3
  <2>13. CASE a \notin DOMAIN t
    <3>1. Walk(t, q) = q
      BY <2>8, PlaceIsItself DEF IsDir, IsLink
    <3>2. Walk(t, a \o z) \notin DOMAIN t
      BY <2>7, <2>8, <2>9, <2>10, <2>13, <3>1, NotThere
    <3> QED
      BY <2>10, <3>2 DEF IsDir
  <2> QED
    BY <2>12, <2>13
<1> QED
  BY <1>2, <1>3

LEMMA UnlinkedEntry ==
  ASSUME NEW t, IsTree(t), NEW p \in Path, p # <<>>, Front(p) \in Lasting,
         Unlinked(t, Front(p)), EntryAt(t, p) \notin {Missing, NotDir}
  PROVE  EntryAt(t, p) = p /\ IsDir(t, Front(p))
<1>1. PICK e : e = EntryAt(t, p)
  OBVIOUS
<1>2. /\ e \in Path /\ e # <<>> /\ Last(e) = Last(p)
      /\ Front(e) = Walk(t, Front(p)) /\ IsDir(t, Front(e))
  BY <1>1, EntryIsPlace
<1>3. Front(e) = Front(p)
  BY <1>2, LastingIsPath, UnlinkedWalk
<1>4. e = Append(Front(e), Last(e)) /\ p = Append(Front(p), Last(p))
  BY <1>2, FrontAndLast DEF Path
<1> QED
  BY <1>1, <1>2, <1>3, <1>4

\* What ForCreate resolves has no link before its last component.
LEMMA UnlinkedBehind ==
  ASSUME NEW t, IsTree(t), NEW b \in DOMAIN t, ~IsLink(t, b), NEW r \in Path, r # <<>>,
         Front(r) # <<>> => Append(b, Head(Front(r))) \notin DOMAIN t
  PROVE  Unlinked(t, Front(b \o r))
<1>1. b \in Path
  BY DEF IsTree
<1>2. PICK f \in Path : f = Front(r)
  <2>1. Front(r) \in Path
    BY FrontAndLast DEF Path
  <2> QED
    BY <2>1
<1>3. Front(b \o r) = b \o f /\ b \o f \in Path /\ IsPrefix(b, b \o f) /\ (f = <<>> => b \o f = b)
  <2>1. Front(b \o r) = b \o f
    BY <1>1, <1>2, JoinMore
  <2>2. b \o f \in Path /\ IsPrefix(b, b \o f) /\ (f = <<>> => b \o f = b)
    BY <1>1, <1>2, JoinPaths
  <2> QED
    BY <2>1, <2>2
<1>4. CASE f = <<>>
  BY <1>3, <1>4, PlaceIsUnlinked
<1>5. CASE f # <<>>
  <2>1. PICK n, z : n = Head(f) /\ z = Tail(f)
    OBVIOUS
  <2>2. n \in Names /\ z \in Seq(Names) /\ f = <<n>> \o z /\ b \in Seq(Names)
    BY <1>1, <1>2, <1>5, <2>1 DEF Path
  <2>3. PICK a : a = Append(b, n)
    OBVIOUS
  <2>4. a \in Path /\ a = b \o <<n>> /\ <<n>> \in Seq(Names) /\ Len(a) = Len(b) + 1
    BY <2>2, <2>3, AppendIsConcat DEF Path
  <2>5. a \o z = b \o f
    BY <2>2, <2>4, ConcatAssociative
  <2>6. IsPrefix(a, b \o f)
    <3>1. z \in Path
      BY <2>2 DEF Path
    <3> QED
      BY <2>4, <2>5, <3>1, JoinPaths
  <2>7. a \notin DOMAIN t
    BY <1>2, <1>5, <2>1, <2>3
  <2>8. ASSUME NEW q \in DOMAIN t, IsPrefix(q, b \o f) PROVE ~IsLink(t, q)
    <3>1. q \in Path /\ Len(q) \in Nat /\ Len(b) \in Nat
      BY <1>1 DEF IsTree, Path
    <3>2. CASE Len(q) <= Len(b)
      <4>1. IsPrefix(q, b)
        BY <1>1, <1>3, <2>8, <3>1, <3>2, PrefixesCompare
      <4> QED
        BY <2>8, <4>1, PlaceIsUnlinked DEF Unlinked
    <3>3. CASE ~(Len(q) <= Len(b))
      <4>1. Len(a) <= Len(q)
        BY <2>4, <3>1, <3>3
      <4>2. IsPrefix(a, q)
        BY <1>3, <2>4, <2>6, <2>8, <3>1, <4>1, PrefixesCompare
      <4>3. a # q
        BY <2>7, <2>8
      <4>4. IsDir(t, a)
        BY <2>4, <2>8, <4>2, <4>3, AncestorsAreDirs
      <4> QED
        BY <2>7, <4>4 DEF IsDir
    <3> QED
      BY <3>2, <3>3
  <2> QED
    BY <1>3, <2>8 DEF Unlinked
<1> QED
  BY <1>4, <1>5

-----------------------------------------------------------------------------
(* What os.MkdirAll makes, and where.                                      *)

LEMMA GrownIsWays ==
  ASSUME NEW t, NEW u, Grown(t, u)
  PROVE  Ways(t, u)
<1>1. \A q \in DOMAIN t : q \in DOMAIN u /\ u[q] = t[q]
  BY DEF Grown
<1>2. \A q \in DOMAIN u : q \notin DOMAIN t => u[q].kind = "dir"
  BY DEF Grown, DirNode
<1>3. ASSUME NEW q \in DOMAIN t, IsDir(t, q) PROVE IsDir(u, q)
  BY <1>1, <1>3 DEF IsDir
<1>4. ASSUME NEW q \in DOMAIN t \cup DOMAIN u, IsLink(t, q) \/ IsLink(u, q)
      PROVE  q \in DOMAIN t \cap DOMAIN u /\ t[q] = u[q]
  <2>1. q \in DOMAIN t
    BY <1>2, <1>4 DEF IsLink
  <2> QED
    BY <1>1, <2>1
<1> QED
  BY <1>3, <1>4 DEF Ways

LEMMA UnlinkedStays ==
  ASSUME NEW t, NEW u, Ways(t, u), NEW p, Unlinked(t, p)
  PROVE  Unlinked(u, p)
<1> SUFFICES ASSUME NEW q \in DOMAIN u, IsPrefix(q, p), IsLink(u, q) PROVE FALSE
  BY DEF Unlinked
<1>1. q \in DOMAIN t /\ t[q] = u[q]
  BY DEF Ways
<1> QED
  BY <1>1 DEF Unlinked, IsLink

LEMMA UnlinkedBefore ==
  ASSUME NEW t, IsTree(t), NEW p \in Path, NEW a \in Path, Unlinked(t, p), IsPrefix(a, p)
  PROVE  Unlinked(t, a)
<1> SUFFICES ASSUME NEW q \in DOMAIN t, IsPrefix(q, a) PROVE ~IsLink(t, q)
  BY DEF Unlinked
<1>1. q \in Path
  BY DEF IsTree
<1>2. IsPrefix(q, p)
  BY <1>1, PrefixOfPrefix
<1> QED
  BY <1>2 DEF Unlinked

LEMMA NameIsFound ==
  ASSUME NEW t, IsTree(t), NEW f \in Path, NEW n \in Names, NEW d, d = Walk(t, f),
         d \in DOMAIN t, Append(d, n) \in DOMAIN t, ~IsLink(t, Append(d, n))
  PROVE  Walk(t, Append(f, n)) = Append(d, n)
<1>1. PICK z : z = <<n>>
  OBVIOUS
<1>2. d \in Path
  BY DEF IsTree
<1>3. z \in Path /\ Append(f, n) = f \o z /\ Append(d, n) = d \o z
  BY <1>1, <1>2, AppendIsConcat DEF Path
<1>4. d \o z \in DOMAIN t /\ ~IsLink(t, d \o z)
  BY <1>3
<1>5. Walk(t, f \o z) = d \o z
  BY <1>3, <1>4, WalkExtend
<1> QED
  BY <1>3, <1>5

\* What leads to a directory is led to.
LEMMA EntryIsFound ==
  ASSUME NEW t, IsTree(t), NEW p \in Path, p # <<>>, Front(p) \in Lasting,
         IsDir(t, EntryAt(t, p))
  PROVE  Walk(t, p) = EntryAt(t, p)
<1>1. PICK e : e = EntryAt(t, p)
  OBVIOUS
<1>2. e \notin {Missing, NotDir} /\ IsDir(t, e) /\ e \in DOMAIN t
  BY <1>1, AnswersAreNowhere DEF IsDir
<1>3. /\ e \in Path /\ e # <<>> /\ Last(e) = Last(p)
      /\ Front(e) = Walk(t, Front(p)) /\ IsDir(t, Front(e))
  BY <1>1, <1>2, EntryIsPlace
<1>4. PICK f, d, n : f = Front(p) /\ d = Front(e) /\ n = Last(p)
  OBVIOUS
<1>5. /\ f \in Path /\ d \in Path /\ n \in Names
      /\ p = Append(f, n) /\ e = Append(d, n)
  BY <1>3, <1>4, FrontAndLast DEF Path
<1>6. d = Walk(t, f) /\ d \in DOMAIN t /\ Append(d, n) \in DOMAIN t /\ ~IsLink(t, Append(d, n))
  BY <1>2, <1>3, <1>4, <1>5 DEF IsDir, IsLink
<1>7. Walk(t, Append(f, n)) = Append(d, n)
  BY <1>5, <1>6, NameIsFound
<1> QED
  BY <1>1, <1>5, <1>7

\* The rounds of os.MkdirAll.
Rounds(t, p, f) ==
  \A k \in 0..Len(p) : f[k] = IF k = 0 THEN t ELSE DirMade(f[k - 1], SubSeq(p, 1, k))

LEMMA MkdirAllRounds ==
  ASSUME NEW t, NEW p \in Path
  PROVE  \E f : Rounds(t, p, f) /\ OsMkdirAll(t, p) = f[Len(p)]
  BY MkdirAllIsDefined DEF Rounds

\* As far as p leads to directories, they change nothing.
LEMMA RoundsOfDirs ==
  ASSUME NEW t, IsTree(t), NEW p \in Path, NEW f, Rounds(t, p, f), NEW k \in 0..Len(p),
         IsDir(t, Walk(t, SubSeq(p, 1, k)))
  PROVE  f[k] = t
<1>1. Len(p) \in Nat
  BY DEF Path
<1>2. ASSUME NEW i \in 0..k PROVE i \in 0..Len(p) /\ IsDir(t, Walk(t, SubSeq(p, 1, i)))
  <2>1. i \in 0..Len(p) /\ i <= k
    BY <1>1
  <2>2. PICK a \in Path : a = SubSeq(p, 1, i) /\ Len(a) = i /\ IsPrefix(a, p)
    BY <2>1, FirstComponents
  <2>3. PICK b \in Path : b = SubSeq(p, 1, k) /\ Len(b) = k /\ IsPrefix(b, p)
    BY FirstComponents
  <2>4. IsPrefix(a, b)
    BY <2>1, <2>2, <2>3, PrefixesCompare
  <2>5. PICK z \in Path : b = a \o z
    BY <2>4, AfterPrefix DEF Path
  <2>6. IsDir(t, Walk(t, a))
    <3>3. IsDir(t, Walk(t, b))
      BY <2>3
    <3>1. CASE z = <<>>
      <4>1. b = a
        BY <2>5, <3>1, JoinPaths
      <4> QED
        BY <3>3, <4>1
    <3>2. CASE z # <<>>
      <4>1. Walk(t, b) \notin {Missing, NotDir}
        BY <3>3, AnswersAreNowhere DEF IsDir
      <4> QED
        BY <2>5, <3>2, <4>1, MoreIsNowhere
    <3> QED
      BY <3>1, <3>2
  <2> QED
    BY <2>1, <2>2, <2>6
<1> DEFINE Bad == {n \in 0..k : f[n] # t}
<1>3. Bad = {}
  <2> SUFFICES ASSUME Bad # {} PROVE FALSE
    OBVIOUS
  <2>1. PICK n \in Bad : \A m \in Bad : n <= m
    <3>1. Bad \in SUBSET Nat
      BY <1>1
    <3> HIDE DEF Bad
    <3> QED
      BY <3>1, LeastNatural
  <2>2. n \in 0..k /\ f[n] # t /\ n \in 0..Len(p)
    BY <1>2, <2>1
  <2>3. n # 0
    BY <2>2 DEF Rounds
  <2>4. n - 1 \in 0..k /\ n - 1 \notin Bad
    BY <1>1, <2>1, <2>2, <2>3
  <2>5. f[n - 1] = t
    BY <2>4
  <2>6. f[n] = DirMade(t, SubSeq(p, 1, n))
    BY <2>2, <2>3, <2>5 DEF Rounds
  <2> QED
    BY <1>2, <2>2, <2>6 DEF DirMade
<1>4. k \in 0..k
  BY <1>1
<1> QED
  BY <1>3, <1>4

LEMMA MkdirAllIsSame ==
  ASSUME NEW t, IsTree(t), NEW p \in Path, IsDir(t, Walk(t, p))
  PROVE  OsMkdirAll(t, p) = t
<1>1. PICK f : Rounds(t, p, f) /\ OsMkdirAll(t, p) = f[Len(p)]
  BY MkdirAllRounds
<1>2. PICK k \in 0..Len(p) : k = Len(p)
  BY DEF Path
<1>3. SubSeq(p, 1, k) = p
  BY <1>2, FirstComponents
<1> QED
  BY <1>1, <1>2, <1>3, RoundsOfDirs

\* A round that failed.
LEMMA FailedRounds ==
  ASSUME NEW t, NEW p \in Path, NEW f, Rounds(t, p, f), NEW k \in 0..Len(p), f[k] = Failed
  PROVE  f[Len(p)] = Failed
<1>1. Len(p) \in Nat
  BY DEF Path
<1> DEFINE Bad == {n \in k..Len(p) : f[n] # Failed}
<1>2. Bad = {}
  <2> SUFFICES ASSUME Bad # {} PROVE FALSE
    OBVIOUS
  <2>1. PICK n \in Bad : \A m \in Bad : n <= m
    <3>1. Bad \in SUBSET Nat
      BY <1>1
    <3> HIDE DEF Bad
    <3> QED
      BY <3>1, LeastNatural
  <2>2. n \in k..Len(p) /\ f[n] # Failed
    BY <2>1
  <2>3. n # k
    BY <2>2
  <2>4. n - 1 \in k..Len(p) /\ n - 1 \notin Bad /\ n # 0 /\ n \in 0..Len(p)
    BY <1>1, <2>1, <2>2, <2>3
  <2>5. f[n - 1] = Failed
    BY <2>4
  <2>6. f[n] = DirMade(f[n - 1], SubSeq(p, 1, n))
    BY <2>4 DEF Rounds
  <2> QED
    BY <2>2, <2>5, <2>6 DEF DirMade
<1>3. Len(p) \in k..Len(p)
  BY <1>1
<1> QED
  BY <1>2, <1>3

\* Something is there that leads to no directory.
LEMMA BlockedMkdirAll ==
  ASSUME NEW t, IsTree(t), NEW p \in Lasting, NEW k \in 1..Len(p),
         EntryAt(t, SubSeq(p, 1, k)) \in DOMAIN t, ~IsDir(t, Walk(t, SubSeq(p, 1, k)))
  PROVE  OsMkdirAll(t, p) = Failed
<1>1. p \in Path /\ Len(p) \in Nat /\ k \in 0..Len(p) /\ k - 1 \in 0..Len(p) /\ k # 0
  BY LastingIsPath DEF Path
<1>2. PICK f : Rounds(t, p, f) /\ OsMkdirAll(t, p) = f[Len(p)]
  BY <1>1, MkdirAllRounds
<1>3. PICK s : s = SubSeq(p, 1, k)
  OBVIOUS
<1>4. s \in Path /\ s # <<>> /\ Front(s) = SubSeq(p, 1, k - 1) /\ Front(s) \in Lasting
  BY <1>1, <1>3, FirstComponents, PartsOfLasting
<1>5. EntryAt(t, s) \in DOMAIN t /\ ~IsDir(t, Walk(t, s)) /\ EntryAt(t, s) \notin {Missing, NotDir}
  BY <1>3, AnswersAreNowhere
<1>6. IsDir(t, Walk(t, Front(s)))
  BY <1>4, <1>5, EntryIsPlace
<1>7. f[k - 1] = t
  BY <1>1, <1>2, <1>4, <1>6, RoundsOfDirs
<1>8. f[k] = DirMade(t, s)
  BY <1>1, <1>2, <1>3, <1>7 DEF Rounds
<1>9. OsMkdir(t, s) = Failed
  BY <1>5 DEF OsMkdir, PutNew, IsNew
<1>10. f[k] = Failed
  BY <1>5, <1>8, <1>9 DEF DirMade
<1> QED
  BY <1>1, <1>2, <1>10, FailedRounds

\* The tree after a round.
LEMMA RoundGrows ==
  ASSUME NEW t, NEW s \in Lasting, NEW g, NEW u, u = DirMade(g, s),
         u # Failed, g # Failed => Grown(t, g)
  PROVE  /\ g # Failed /\ Grown(t, g) /\ Grown(g, u) /\ Grown(t, u)
         /\ \A q \in DOMAIN u \ DOMAIN g : q = EntryAt(g, s) /\ q \notin {Missing, NotDir}
<1>1. g # Failed /\ Grown(t, g) /\ IsTree(g)
  BY DEF DirMade, Grown
<1>2. u = g \/ (u = OsMkdir(g, s) /\ u = Put(g, EntryAt(g, s), DirNode)
                  /\ EntryAt(g, s) \notin {Missing, NotDir})
  BY <1>1 DEF DirMade, OsMkdir, PutNew, IsNew
<1>3. Grown(g, u)
  <2>1. CASE u = g
    BY <1>1, <2>1 DEF Grown
  <2>2. CASE u = OsMkdir(g, s)
    BY <1>1, <2>2, MkdirGrows
  <2> QED
    BY <1>2, <2>1, <2>2
<1>4. Grown(t, u)
  BY <1>1, <1>3, GrownAgain
<1>5. \A q \in DOMAIN u \ DOMAIN g : q = EntryAt(g, s) /\ q \notin {Missing, NotDir}
  <2>1. CASE u = g
    BY <2>1
  <2>2. CASE u = Put(g, EntryAt(g, s), DirNode) /\ EntryAt(g, s) \notin {Missing, NotDir}
    BY <2>2 DEF Put
  <2> QED
    BY <1>2, <2>1, <2>2
<1> QED
  BY <1>1, <1>3, <1>4, <1>5

LEMMA PartOfWay ==
  ASSUME NEW p \in Lasting, NEW k \in 1..Len(p), NEW s, s = SubSeq(p, 1, k)
  PROVE  /\ s \in Lasting /\ s \in Path /\ s # <<>> /\ Len(s) = k /\ IsPrefix(s, p)
         /\ Front(s) = SubSeq(p, 1, k - 1) /\ Front(s) \in Lasting /\ Front(s) \in Path
<1>1. p \in Path /\ Len(p) \in Nat /\ k \in 0..Len(p) /\ k - 1 \in 0..Len(p) /\ k # 0
  BY LastingIsPath DEF Path
<1>2. /\ s \in Path /\ s # <<>> /\ Len(s) = k /\ IsPrefix(s, p)
      /\ Front(s) = SubSeq(p, 1, k - 1)
  BY <1>1, FirstComponents
<1>3. s \in Lasting /\ Front(s) \in Lasting
  BY <1>1, <1>2, PartsOfLasting
<1> QED
  BY <1>2, <1>3, LastingIsPath

\* What it makes is where the way it was given leads.
LEMMA MkdirAllPlaces ==
  ASSUME NEW t, IsTree(t), NEW p \in Lasting, NEW u, u = OsMkdirAll(t, p), u # Failed
  PROVE  \A q \in DOMAIN u \ DOMAIN t :
           IsDir(u, q) /\ \E k \in 1..Len(p) : q = Walk(u, SubSeq(p, 1, k))
<1>1. p \in Path /\ Len(p) \in Nat
  BY LastingIsPath DEF Path
<1>2. PICK f : Rounds(t, p, f) /\ OsMkdirAll(t, p) = f[Len(p)]
  BY <1>1, MkdirAllRounds
<1> DEFINE On(v, n) == \A q \in DOMAIN v \ DOMAIN t :
                         \E k \in 1..n : q = EntryAt(v, SubSeq(p, 1, k))
           Bad == {n \in 0..Len(p) : f[n] # Failed /\ ~(Grown(t, f[n]) /\ On(f[n], n))}
<1>3. Bad = {}
  <2> SUFFICES ASSUME Bad # {} PROVE FALSE
    OBVIOUS
  <2>1. PICK n \in Bad : \A m \in Bad : n <= m
    <3>1. Bad \in SUBSET Nat
      BY <1>1
    <3> HIDE DEF Bad
    <3> QED
      BY <3>1, LeastNatural
  <2>2. n \in 0..Len(p) /\ f[n] # Failed /\ ~(Grown(t, f[n]) /\ On(f[n], n))
    BY <2>1
  <2>3. n # 0
    <3>1. ASSUME n = 0 PROVE FALSE
      <4>1. f[n] = t
        BY <1>1, <1>2, <2>2, <3>1 DEF Rounds
      <4> QED
        BY <2>2, <4>1 DEF Grown
    <3> QED
      BY <3>1
  <2>4. n - 1 \in 0..Len(p) /\ n - 1 \notin Bad /\ n \in 1..Len(p)
    BY <1>1, <2>1, <2>2, <2>3
  <2>5. f[n - 1] # Failed => Grown(t, f[n - 1]) /\ On(f[n - 1], n - 1)
    BY <2>4
  <2>6. PICK g, v, s : g = f[n - 1] /\ v = f[n] /\ s = SubSeq(p, 1, n)
    OBVIOUS
  <2>7. /\ g # Failed /\ Grown(t, g) /\ Grown(g, v) /\ Grown(t, v)
        /\ s \in Path /\ s # <<>> /\ Front(s) \in Lasting
        /\ \A q \in DOMAIN v \ DOMAIN g : q = EntryAt(g, s)
    <3>1. v # Failed /\ (g # Failed => Grown(t, g))
      BY <2>2, <2>5, <2>6
    <3>2. v = DirMade(g, s)
      BY <1>2, <2>2, <2>3, <2>6 DEF Rounds
    <3>3. /\ s \in Lasting /\ s \in Path /\ s # <<>> /\ Front(s) \in Lasting
          /\ Front(s) = SubSeq(p, 1, n - 1) /\ IsPrefix(s, p)
      BY <2>4, <2>6, PartOfWay
    <3>4. /\ g # Failed /\ Grown(t, g) /\ Grown(g, v) /\ Grown(t, v)
          /\ \A q \in DOMAIN v \ DOMAIN g : q = EntryAt(g, s) /\ q \notin {Missing, NotDir}
      BY <3>1, <3>2, <3>3, RoundGrows
    <3> QED
      BY <3>3, <3>4
  <2>8. On(g, n - 1)
    BY <2>5, <2>6, <2>7
  <2>9. IsTree(g) /\ IsTree(v) /\ Ways(g, v)
    BY <2>7, GrownIsWays DEF Grown
  <2>10. ASSUME NEW q \in DOMAIN v \ DOMAIN t
         PROVE  \E k \in 1..n : q = EntryAt(v, SubSeq(p, 1, k))
    <3>1. q \in Path
      BY <2>9 DEF IsTree
    <3>2. CASE q \in DOMAIN g
      <4>1. PICK k \in 1..n - 1 : q = EntryAt(g, SubSeq(p, 1, k))
        BY <2>8, <2>10, <3>2
      <4>2. k \in 0..Len(p) /\ k - 1 \in 0..Len(p) /\ k # 0 /\ k \in 1..n
        BY <1>1, <2>4, <4>1
      <4>3. PICK a : a = SubSeq(p, 1, k)
        OBVIOUS
      <4>4. a \in Path /\ a # <<>> /\ Front(a) = SubSeq(p, 1, k - 1)
        BY <1>1, <4>2, <4>3, FirstComponents
      <4>5. Front(a) \in Lasting
        BY <4>2, <4>4, PartsOfLasting
      <4>6. q = EntryAt(v, a)
        BY <2>9, <3>1, <4>1, <4>3, <4>4, <4>5, StableEntry
      <4> QED
        BY <4>2, <4>3, <4>6
    <3>3. CASE q \notin DOMAIN g
      <4>1. q = EntryAt(g, s)
        BY <2>7, <2>10, <3>3
      <4>2. q = EntryAt(v, s)
        BY <2>7, <2>9, <3>1, <4>1, StableEntry
      <4>3. n \in 1..n
        BY <2>4
      <4> QED
        BY <2>6, <4>2, <4>3
    <3> QED
      BY <3>2, <3>3
  <2>11. On(v, n)
    BY <2>10
  <2> QED
    BY <2>2, <2>6, <2>7, <2>11
<1>4. Grown(t, u) /\ On(u, Len(p))
  <2>1. Len(p) \in 0..Len(p) /\ Len(p) \notin Bad
    BY <1>1, <1>3
  <2>2. u = f[Len(p)]
    BY <1>2
  <2> QED
    BY <2>1, <2>2
<1>5. ASSUME NEW q \in DOMAIN u \ DOMAIN t
      PROVE  IsDir(u, q) /\ \E k \in 1..Len(p) : q = Walk(u, SubSeq(p, 1, k))
  <2>1. IsDir(u, q) /\ IsTree(u)
    BY <1>4, <1>5 DEF Grown, IsDir, DirNode
  <2>2. PICK k \in 1..Len(p) : q = EntryAt(u, SubSeq(p, 1, k))
    BY <1>4, <1>5
  <2>3. k \in 0..Len(p) /\ k - 1 \in 0..Len(p) /\ k # 0
    BY <1>1, <2>2
  <2>4. PICK a : a = SubSeq(p, 1, k)
    OBVIOUS
  <2>5. a \in Path /\ a # <<>> /\ Front(a) = SubSeq(p, 1, k - 1)
    BY <1>1, <2>3, <2>4, FirstComponents
  <2>6. Front(a) \in Lasting
    BY <2>3, <2>5, PartsOfLasting
  <2>7. Walk(u, a) = q
    BY <2>1, <2>2, <2>4, <2>5, <2>6, EntryIsFound
  <2> QED
    BY <2>1, <2>4, <2>7
<1> QED
  BY <1>5

\* Without links before its last component, that is on the way itself.
LEMMA MkdirAllUnlinked ==
  ASSUME NEW t, IsTree(t), NEW p \in Lasting, Unlinked(t, Front(p)),
         NEW u, u = OsMkdirAll(t, p), u # Failed
  PROVE  \A q \in DOMAIN u \ DOMAIN t : IsPrefix(q, p)
<1>1. p \in Path /\ Len(p) \in Nat
  BY LastingIsPath DEF Path
<1>2. PICK f : Rounds(t, p, f) /\ OsMkdirAll(t, p) = f[Len(p)]
  BY <1>1, MkdirAllRounds
<1> DEFINE Straight(v) == \A q \in DOMAIN v \ DOMAIN t : IsPrefix(q, p)
           Bad == {n \in 0..Len(p) : f[n] # Failed /\ ~(Grown(t, f[n]) /\ Straight(f[n]))}
<1>3. Bad = {}
  <2> SUFFICES ASSUME Bad # {} PROVE FALSE
    OBVIOUS
  <2>1. PICK n \in Bad : \A m \in Bad : n <= m
    <3>1. Bad \in SUBSET Nat
      BY <1>1
    <3> HIDE DEF Bad
    <3> QED
      BY <3>1, LeastNatural
  <2>2. n \in 0..Len(p) /\ f[n] # Failed /\ ~(Grown(t, f[n]) /\ Straight(f[n]))
    BY <2>1
  <2>3. n # 0
    <3>1. ASSUME n = 0 PROVE FALSE
      <4>1. f[n] = t
        BY <1>1, <1>2, <2>2, <3>1 DEF Rounds
      <4> QED
        BY <2>2, <4>1 DEF Grown
    <3> QED
      BY <3>1
  <2>4. n - 1 \in 0..Len(p) /\ n - 1 \notin Bad /\ n \in 1..Len(p)
    BY <1>1, <2>1, <2>2, <2>3
  <2>5. f[n - 1] # Failed => Grown(t, f[n - 1]) /\ Straight(f[n - 1])
    BY <2>4
  <2>6. PICK g, v, s : g = f[n - 1] /\ v = f[n] /\ s = SubSeq(p, 1, n)
    OBVIOUS
  <2>7. /\ g # Failed /\ Grown(t, g) /\ Grown(t, v)
        /\ s \in Path /\ s # <<>> /\ Front(s) \in Lasting /\ Front(s) = SubSeq(p, 1, n - 1)
        /\ IsPrefix(s, p)
        /\ \A q \in DOMAIN v \ DOMAIN g : q = EntryAt(g, s) /\ q \notin {Missing, NotDir}
    <3>1. v # Failed /\ (g # Failed => Grown(t, g))
      BY <2>2, <2>5, <2>6
    <3>2. v = DirMade(g, s)
      BY <1>2, <2>2, <2>3, <2>6 DEF Rounds
    <3>3. /\ s \in Lasting /\ s \in Path /\ s # <<>> /\ Front(s) \in Lasting
          /\ Front(s) = SubSeq(p, 1, n - 1) /\ IsPrefix(s, p)
      BY <2>4, <2>6, PartOfWay
    <3>4. /\ g # Failed /\ Grown(t, g) /\ Grown(g, v) /\ Grown(t, v)
          /\ \A q \in DOMAIN v \ DOMAIN g : q = EntryAt(g, s) /\ q \notin {Missing, NotDir}
      BY <3>1, <3>2, <3>3, RoundGrows
    <3> QED
      BY <3>3, <3>4
  <2>8. IsTree(g) /\ Ways(t, g)
    BY <2>7, GrownIsWays DEF Grown
  <2>9. Unlinked(g, Front(s))
    <3>1. p # <<>> /\ Len(Front(p)) = Len(p) - 1 /\ Front(p) \in Path
      BY <1>1, <2>4, FrontAndLast DEF Path
    <3>2. Front(s) \in Path /\ Len(Front(s)) = n - 1 /\ IsPrefix(Front(s), p)
      BY <1>1, <2>4, <2>7, FirstComponents
    <3>3. IsPrefix(Front(p), p)
      BY <1>1, <3>1, PrefixOfFront DEF Path
    <3>4. n - 1 <= Len(p) - 1
      BY <1>1, <2>4
    <3>5. IsPrefix(Front(s), Front(p))
      BY <1>1, <3>1, <3>2, <3>3, <3>4, PrefixesCompare
    <3>6. Unlinked(t, Front(s))
      BY <3>1, <3>2, <3>5, UnlinkedBefore
    <3> QED
      BY <2>8, <3>6, UnlinkedStays
  <2>10. ASSUME NEW q \in DOMAIN v \ DOMAIN t PROVE IsPrefix(q, p)
    <3>1. CASE q \in DOMAIN g
      BY <2>5, <2>6, <2>7, <2>10, <3>1
    <3>2. CASE q \notin DOMAIN g
      <4>1. EntryAt(g, s) \notin {Missing, NotDir} /\ q = EntryAt(g, s)
        BY <2>7, <2>10, <3>2
      <4>2. EntryAt(g, s) = s
        BY <2>7, <2>8, <2>9, <4>1, UnlinkedEntry
      <4> QED
        BY <2>7, <4>1, <4>2
    <3> QED
      BY <3>1, <3>2
  <2> QED
    BY <2>2, <2>6, <2>7, <2>10
<1>4. Straight(u)
  <2>1. Len(p) \in 0..Len(p) /\ Len(p) \notin Bad
    BY <1>1, <1>3
  <2>2. u = f[Len(p)]
    BY <1>2
  <2> QED
    BY <2>1, <2>2
<1> QED
  BY <1>4

\* What is new on the way to p is below what was there on it.
LEMMA NewIsBelow ==
  ASSUME NEW t, IsTree(t), NEW p \in Path, NEW b \in DOMAIN t, IsPrefix(b, p),
         NEW q \in Path, q \notin DOMAIN t, IsPrefix(q, p)
  PROVE  IsPrefix(b, q)
<1>1. b \in Path /\ Len(b) \in Nat /\ Len(q) \in Nat
  BY DEF IsTree, Path
<1>2. ASSUME Len(q) <= Len(b) PROVE FALSE
  <2>1. IsPrefix(q, b)
    BY <1>1, <1>2, PrefixesCompare
  <2>2. IsDir(t, q)
    BY <1>1, <2>1, AncestorsAreDirs
  <2> QED
    BY <2>2 DEF IsDir
<1> QED
  BY <1>1, <1>2, PrefixesCompare

-----------------------------------------------------------------------------
(* What an operation of the client changes is in the jail.                 *)

Within(t, u) ==
  \A p \in DOMAIN t \cup DOMAIN u :
    (p \notin DOMAIN t \cap DOMAIN u \/ t[p] # u[p]) => IsPrefix(CanonicalJail(t), p)

LEMMA PutIsWithin ==
  ASSUME NEW t, NEW e, IsPrefix(CanonicalJail(t), e), NEW node, NEW u, u = Put(t, e, node)
  PROVE  Within(t, u)
<1>1. DOMAIN u = DOMAIN t \cup {e} /\ \A p \in DOMAIN t : p # e => u[p] = t[p]
  BY DEF Put
<1> QED
  BY <1>1 DEF Within

LEMMA GrownIsWithin ==
  ASSUME NEW t, NEW u, Grown(t, u),
         \A q \in DOMAIN u \ DOMAIN t : IsPrefix(CanonicalJail(t), q)
  PROVE  Within(t, u)
  BY DEF Grown, Within

LEMMA WithoutIsWithin ==
  ASSUME NEW t, IsTree(t), NEW e \in Path, NEW c \in Path, c = CanonicalJail(t),
         IsPrefix(c, e), NEW u, u = Without(t, Under(t, e))
  PROVE  Within(t, u)
<1>1. DOMAIN u = DOMAIN t \ Under(t, e) /\ \A p \in DOMAIN u : u[p] = t[p]
  BY DEF Without
<1>2. ASSUME NEW p \in Under(t, e) PROVE IsPrefix(c, p)
  <2>1. p \in Path /\ IsPrefix(e, p)
    BY DEF Under, IsTree
  <2> QED
    BY <2>1, PrefixOfPrefix
<1> QED
  BY <1>1, <1>2 DEF Within

\* What moves comes from below o, and goes below n.
LEMMA MoveIsWithin ==
  ASSUME NEW t, IsTree(t), NEW o \in Path, NEW n \in Path, NEW c \in Path,
         c = CanonicalJail(t), IsPrefix(c, o), IsPrefix(c, n), NEW u, u = Move(t, o, n)
  PROVE  Within(t, u)
<1> DEFINE To(q) == n \o SubSeq(q, Len(o) + 1, Len(q))
           gone == Under(t, o) \cup {n}
<1>1. /\ DOMAIN u = (DOMAIN t \ gone) \cup {To(m) : m \in Under(t, o)}
      /\ \A q \in DOMAIN t \ gone : u[q] = t[q]
  BY DEF Move, Without
<1>2. ASSUME NEW q \in gone PROVE IsPrefix(c, q)
  <2>1. CASE q = n
    BY <2>1
  <2>2. CASE q \in Under(t, o)
    <3>1. q \in Path /\ IsPrefix(o, q)
      BY <2>2 DEF Under, IsTree
    <3> QED
      BY <3>1, PrefixOfPrefix
  <2> QED
    BY <2>1, <2>2
<1>3. ASSUME NEW m \in Under(t, o) PROVE IsPrefix(c, To(m))
  <2>1. m \in Path /\ IsPrefix(o, m)
    BY DEF Under, IsTree
  <2>2. PICK z : z = After(o, m)
    OBVIOUS
  <2>3. z \in Path
    BY <2>1, <2>2, AfterPrefix DEF Path
  <2>4. To(m) = n \o z
    BY <2>2 DEF After
  <2>5. n \o z \in Path /\ IsPrefix(n, n \o z)
    BY <2>3, JoinPaths
  <2>6. IsPrefix(c, n \o z)
    BY <2>5, PrefixOfPrefix
  <2> QED
    BY <2>4, <2>6
<1> HIDE DEF gone, To
<1> QED
  BY <1>1, <1>2, <1>3 DEF Within

\* Without a link at its end a path leads to its entry, there or not.
LEMMA WalkIsEntry ==
  ASSUME NEW t, IsTree(t), NEW x \in Path, x # <<>>, Front(x) \in Lasting,
         ~IsLink(t, EntryAt(t, x)), Walk(t, x) \notin {Missing, NotDir}
  PROVE  Walk(t, x) = EntryAt(t, x)
<1>1. PICK f, n, d : f = Front(x) /\ n = Last(x) /\ d = Walk(t, f)
  OBVIOUS
<1>2. f \in Path /\ n \in Names /\ x = Append(f, n)
  BY <1>1, FrontAndLast DEF Path
<1>3. IsDir(t, d)
  <2>1. ASSUME ~IsDir(t, d) PROVE FALSE
    <3>1. PICK z : z = <<n>>
      OBVIOUS
    <3>2. z \in Path /\ z # <<>> /\ Append(f, n) = f \o z
      BY <1>2, <3>1, AppendIsConcat DEF Path
    <3>3. Walk(t, f \o z) \in {Missing, NotDir}
      BY <1>1, <1>2, <2>1, <3>2, MoreIsNowhere
    <3> QED
      BY <1>2, <3>2, <3>3
  <2> QED
    BY <2>1
<1>4. d \in DOMAIN t /\ d \notin {Missing, NotDir} /\ x # Failed
  BY <1>3, AnswersAreNowhere, HostAssumption DEF IsDir
<1>5. EntryAt(t, x) = Append(d, n)
  BY <1>1, <1>3, <1>4 DEF EntryAt, EntryOf
<1>6. CASE Append(d, n) \in DOMAIN t
  <2>1. Walk(t, Append(f, n)) = Append(d, n)
    BY <1>1, <1>2, <1>4, <1>5, <1>6, NameIsFound
  <2> QED
    BY <1>2, <1>5, <2>1
<1>7. CASE Append(d, n) \notin DOMAIN t
  <2>1. Walk(t, Append(f, n)) = Append(d, n)
    BY <1>1, <1>2, <1>3, <1>7, NewNameIsFound
  <2> QED
    BY <1>2, <1>5, <2>1
<1> QED
  BY <1>6, <1>7

\* A path in something that is a prefix of it.
LEMMA PrefixIsPart ==
  ASSUME NEW b \in Path, NEW r \in Path, r # <<>>, NEW x, x = b \o r
  PROVE  Len(b) \in 0..Len(x) - 1 /\ Len(x) \in Nat /\ SubSeq(x, 1, Len(b)) = b
<1>1. Len(b) \in Nat /\ Len(r) \in Nat \ {0} /\ Len(x) = Len(b) + Len(r)
  BY DEF Path
<1>2. x \in Path /\ IsPrefix(b, x)
  BY JoinPaths
<1>3. PICK k \in 0..Len(x) : k = Len(b)
  BY <1>1
<1>4. PICK s : s = SubSeq(x, 1, k)
  OBVIOUS
<1>5. s \in Path /\ Len(s) = k /\ IsPrefix(s, x)
  BY <1>2, <1>4, FirstComponents
<1>6. IsPrefix(s, b)
  BY <1>1, <1>2, <1>3, <1>5, PrefixesCompare
<1>7. s = b
  BY <1>1, <1>3, <1>5, <1>6, PrefixByComponents, SeqEqual DEF Path
<1> QED
  BY <1>1, <1>3, <1>4, <1>7

LEMMA SubtreeOfJail ==
  ASSUME JailIsPath, jail # NoJail, NEW t, IsTree(t)
  PROVE  CanonicalJail(t) \in Path
  BY JailLeadsToCanonical

\* Mkdir, Remove and Symlink: the entry.
LEMMA EntryIsWithin ==
  ASSUME JailIsPath, jail # NoJail, NEW t, IsTree(t), NEW v \in Lasting, v # <<>>,
         NEW u, u # Failed, NEW node,
         NEW e, e = EntryAt(t, ForCreate(t, v)),
         \/ u = PutNew(t, e, node)
         \/ u = RemoveEntry(t, e)
         \/ u = RemoveBelow(t, e)
  PROVE  Within(t, u)
<1>1. CASE u = PutNew(t, e, node)
  <2>1. e \notin {Missing, NotDir} /\ u = Put(t, e, node)
    BY <1>1 DEF PutNew, IsNew
  <2>2. IsPrefix(CanonicalJail(t), e)
    BY <2>1, EntryIsResolved
  <2> QED
    BY <2>1, <2>2, PutIsWithin
<1>2. CASE u = RemoveEntry(t, e) \/ u = RemoveBelow(t, e)
  <2>1. u = t \/ (e \in DOMAIN t /\ u = Without(t, Under(t, e)))
    BY <1>2 DEF RemoveEntry, RemoveBelow
  <2>2. CASE u = t
    BY <2>2 DEF Within
  <2>3. CASE e \in DOMAIN t /\ u = Without(t, Under(t, e))
    <3>1. e \notin {Missing, NotDir}
      BY <2>3, AnswersAreNowhere
    <3>2. e \in Path /\ IsPrefix(CanonicalJail(t), e)
      BY <3>1, EntryIsResolved
    <3> QED
      BY <2>3, <3>2, SubtreeOfJail, WithoutIsWithin
  <2> QED
    BY <2>1, <2>2, <2>3
<1> QED
  BY <1>1, <1>2

LEMMA RenameIsWithin ==
  ASSUME JailIsPath, jail # NoJail, NEW t, IsTree(t), NEW v \in Lasting, v # <<>>,
         NEW a \in Lasting, a # <<>>,
         NEW u, u = OsRename(t, ForCreate(t, v), ForCreate(t, a)), u # Failed
  PROVE  Within(t, u)
<1>1. PICK o, n : o = EntryAt(t, ForCreate(t, v)) /\ n = EntryAt(t, ForCreate(t, a))
  OBVIOUS
<1>2. CanMove(t, o, n) /\ u = Move(t, o, n)
  BY <1>1 DEF OsRename, Renamed
<1>3. o \notin {Missing, NotDir} /\ n \notin {Missing, NotDir}
  BY <1>2, AnswersAreNowhere DEF CanMove
<1>4. o \in Path /\ IsPrefix(CanonicalJail(t), o)
  BY <1>1, <1>3, EntryIsResolved
<1>5. n \in Path /\ IsPrefix(CanonicalJail(t), n)
  BY <1>1, <1>3, EntryIsResolved
<1> QED
  BY <1>2, <1>4, <1>5, SubtreeOfJail, MoveIsWithin

\* What is resolved leads into the jail straight, or something is in the way.
LEMMA ForCreateIsStraight ==
  ASSUME JailIsPath, jail # NoJail, NEW t, IsTree(t), NEW v \in Lasting, v # <<>>,
         NEW x, x = ForCreate(t, v), x # Failed
  PROVE  /\ x \in Lasting /\ x \in Path /\ x # <<>>
         /\ \/ InTheWay(t, x)
            \/ \E b \in DOMAIN t :
                 /\ IsPrefix(CanonicalJail(t), b) /\ IsPrefix(b, x)
                 /\ IsDir(t, b) /\ Unlinked(t, Front(x))
<1>1. x \in Lasting /\ x \in Path /\ x # <<>>
  BY ForCreateIsPath, LastingIsPath
<1>2. PICK b \in Path, r \in Path :
        x = b \o r /\ r # <<>> /\ IsPrefix(CanonicalJail(t), b) /\ Behind(t, b, r)
  BY ForCreateSplits
<1>3. PICK k : k = Len(b)
  OBVIOUS
<1>4. k \in 0..Len(x) - 1 /\ Len(x) \in Nat /\ SubSeq(x, 1, k) = b
  BY <1>2, <1>3, PrefixIsPart
<1>5. b \in Lasting
  <2>1. k \in 0..Len(x)
    BY <1>4
  <2> QED
    BY <1>1, <1>4, <2>1, PartsOfLasting
<1>6. k # 0 => b # <<>> /\ Front(b) \in Lasting
  <2>1. ASSUME k # 0 PROVE b # <<>>
    BY <1>3, <2>1
  <2> QED
    BY <1>5, <2>1, LastingByParts
<1>7. ASSUME k # 0, EntryAt(t, b) \in DOMAIN t, ~IsDir(t, Walk(t, b)) PROVE InTheWay(t, x)
  <2>1. k \in 1..Len(x) - 1
    BY <1>4, <1>7
  <2> QED
    BY <1>4, <1>7, <2>1 DEF InTheWay
<1>8. k = 0 => IsDir(t, Walk(t, b)) /\ Walk(t, b) \in DOMAIN t
  <2>1. ASSUME k = 0 PROVE b = <<>>
    BY <1>3, <2>1, EmptySeq DEF Path
  <2>2. IsDir(t, <<>>)
    BY DEF IsTree
  <2>3. Walk(t, <<>>) = <<>>
    BY <2>2, PlaceIsItself DEF IsDir, IsLink
  <2> QED
    BY <2>1, <2>2, <2>3 DEF IsDir
<1>9. CASE Walk(t, b) \notin DOMAIN t /\ EntryAt(t, b) \in DOMAIN t
  BY <1>1, <1>7, <1>8, <1>9 DEF IsDir
<1>10. CASE /\ Walk(t, b) = b /\ b \in DOMAIN t
            /\ Front(r) # <<>> => IsDir(t, b) /\ Append(b, Head(Front(r))) \notin DOMAIN t
  <2>1. CASE IsDir(t, b)
    <3>1. ~IsLink(t, b)
      BY <2>1 DEF IsDir, IsLink
    <3>2. Unlinked(t, Front(b \o r))
      BY <1>2, <1>10, <3>1, UnlinkedBehind
    <3>3. IsPrefix(b, b \o r)
      BY JoinPaths
    <3> QED
      BY <1>1, <1>2, <1>10, <2>1, <3>2, <3>3
  <2>2. CASE ~IsDir(t, b)
    <3>1. k # 0 /\ ~IsDir(t, Walk(t, b))
      BY <1>8, <1>10, <2>2
    <3>2. EntryAt(t, b) \in DOMAIN t
      BY <1>2, <1>6, <1>10, <3>1, EntryOfFound
    <3> QED
      BY <1>1, <1>7, <3>1, <3>2
  <2> QED
    BY <2>1, <2>2
<1> QED
  BY <1>2, <1>9, <1>10 DEF Behind

\* Something in the way stops os.MkdirAll.
LEMMA StoppedMkdirAll ==
  ASSUME NEW t, IsTree(t), NEW x \in Lasting, x # <<>>, InTheWay(t, x)
  PROVE  OsMkdirAll(t, x) = Failed /\ OsMkdirAll(t, Front(x)) = Failed
<1>1. x \in Path /\ Len(x) \in Nat
  BY LastingIsPath DEF Path
<1>2. PICK k \in 1..Len(x) - 1 :
        EntryAt(t, SubSeq(x, 1, k)) \in DOMAIN t /\ ~IsDir(t, Walk(t, SubSeq(x, 1, k)))
  BY DEF InTheWay
<1>3. PICK f : f = Front(x) /\ f \in Lasting /\ f \in Path /\ Len(f) = Len(x) - 1
               /\ IsPrefix(f, x)
  <2>1. Front(x) \in Lasting /\ Len(Front(x)) = Len(x) - 1
    BY <1>1, FrontAndLast, LastingByParts DEF Path
  <2>2. Front(x) \in Path /\ IsPrefix(Front(x), x)
    BY <1>1, <2>1, LastingIsPath, PrefixOfFront DEF Path
  <2> QED
    BY <2>1, <2>2
<1>4. k \in 1..Len(x) /\ k \in 1..Len(f)
  BY <1>1, <1>2, <1>3
<1>5. SubSeq(f, 1, k) = SubSeq(x, 1, k)
  <2>1. PICK a, b : a = SubSeq(f, 1, k) /\ b = SubSeq(x, 1, k)
    OBVIOUS
  <2>2. a \in Path /\ Len(a) = k /\ IsPrefix(a, f)
    BY <1>3, <1>4, <2>1, PartOfWay
  <2>3. b \in Path /\ Len(b) = k /\ IsPrefix(b, x)
    BY <1>4, <2>1, PartOfWay
  <2>4. IsPrefix(a, x)
    BY <1>1, <1>3, <2>2, PrefixOfPrefix
  <2>5. IsPrefix(a, b)
    BY <1>1, <1>2, <2>2, <2>3, <2>4, PrefixesCompare
  <2>6. a = b
    BY <1>2, <2>2, <2>3, <2>5, PrefixByComponents, SeqEqual DEF Path
  <2> QED
    BY <2>1, <2>6
<1>6. OsMkdirAll(t, x) = Failed
  BY <1>2, <1>4, BlockedMkdirAll
<1>7. OsMkdirAll(t, f) = Failed
  BY <1>2, <1>3, <1>4, <1>5, BlockedMkdirAll
<1> QED
  BY <1>3, <1>6, <1>7

\* MkdirAll.
LEMMA MkdirAllIsWithin ==
  ASSUME JailIsPath, jail # NoJail, NEW t, IsTree(t), NEW v \in Lasting, v # <<>>,
         NEW u, u = OsMkdirAll(t, ForCreate(t, v)), u # Failed
  PROVE  Within(t, u)
<1>1. PICK x : x = ForCreate(t, v)
  OBVIOUS
<1>2. x # Failed
  BY <1>1 DEF OsMkdirAll
<1>3. x \in Lasting /\ x \in Path /\ x # <<>>
  BY <1>1, <1>2, ForCreateIsStraight
<1>4. ~InTheWay(t, x)
  BY <1>1, <1>3, StoppedMkdirAll
<1>5. PICK b \in DOMAIN t : /\ IsPrefix(CanonicalJail(t), b) /\ IsPrefix(b, x)
                            /\ IsDir(t, b) /\ Unlinked(t, Front(x))
  BY <1>1, <1>2, <1>4, ForCreateIsStraight
<1>6. Grown(t, u)
  BY <1>1, <1>3, MkdirAllGrows
<1>7. \A q \in DOMAIN u \ DOMAIN t : IsPrefix(q, x)
  BY <1>1, <1>3, <1>5, MkdirAllUnlinked
<1>8. ASSUME NEW q \in DOMAIN u \ DOMAIN t PROVE IsPrefix(CanonicalJail(t), q)
  <2>1. q \in Path /\ b \in Path
    BY <1>6, <1>8 DEF Grown, IsTree
  <2>2. IsPrefix(b, q)
    BY <1>3, <1>5, <1>7, <1>8, <2>1, NewIsBelow
  <2> QED
    BY <1>5, <2>1, <2>2, SubtreeOfJail, PrefixOfPrefix
<1> QED
  BY <1>6, <1>8, GrownIsWithin

\* The parent of a name in the root of the jail is the jail.
LEMMA ParentIsJail ==
  ASSUME JailIsPath, jail # NoJail, NEW t
  PROVE  ForCreate(t, <<>>) = jail
<1>1. jail \in Path /\ jail \o <<>> = jail /\ jail # Failed
  BY LastingIsPath, HostAssumption DEF JailIsPath, Path
<1>2. HostPath(jail, <<>>) = jail
  BY <1>1 DEF HostPath
<1>3. Lexical(<<>>) = jail
  BY <1>1, <1>2, JailIsInItself DEF Lexical
<1> QED
  BY <1>3 DEF ForCreate, ParentFollowed

\* Making a jail that is there changes nothing; one that is not is made where
\* its way leads.
LEMMA JailIsMade ==
  ASSUME JailIsPath, jail # NoJail, NEW t, IsTree(t), NEW u, u = OsMkdirAll(t, jail), u # Failed
  PROVE  \/ u = t
         \/ /\ EvalSymlinks(t, jail) = Failed
            /\ DOMAIN t \subseteq DOMAIN u /\ \A q \in DOMAIN t : u[q] = t[q]
            /\ \A q \in DOMAIN u \ DOMAIN t :
                 IsDir(u, q) /\ \E k \in 1..Len(jail) : q = Walk(u, SubSeq(jail, 1, k))
<1>1. jail \in Lasting /\ jail \in Path /\ Len(jail) \in Nat
  BY LastingIsPath DEF JailIsPath, Path
<1>2. CASE EvalSymlinks(t, jail) = Failed
  BY <1>1, <1>2, MkdirAllGrows, MkdirAllPlaces DEF Grown
<1>3. CASE EvalSymlinks(t, jail) # Failed
  <2>1. Walk(t, jail) \in DOMAIN t
    BY <1>3 DEF EvalSymlinks, Exists
  <2>2. CASE IsDir(t, Walk(t, jail))
    BY <1>1, <2>2, MkdirAllIsSame
  <2>3. CASE ~IsDir(t, Walk(t, jail))
    <3>1. jail # <<>>
      <4>1. IsDir(t, <<>>)
        BY DEF IsTree
      <4>2. Walk(t, <<>>) = <<>>
        BY <4>1, PlaceIsItself DEF IsDir, IsLink
      <4> QED
        BY <2>3, <4>1, <4>2
    <3>2. EntryAt(t, jail) \in DOMAIN t
      BY <1>1, <2>1, <3>1, EntryOfFound, LastingByParts
    <3>3. PICK k : k = Len(jail)
      OBVIOUS
    <3>4. k \in 1..Len(jail) /\ k \in 0..Len(jail)
      BY <1>1, <3>1, <3>3 DEF Path
    <3>5. SubSeq(jail, 1, k) = jail
      BY <1>1, <3>3, <3>4, FirstComponents
    <3>6. OsMkdirAll(t, jail) = Failed
      BY <1>1, <2>3, <3>2, <3>4, <3>5, BlockedMkdirAll
    <3> QED
      BY <3>6
  <2> QED
    BY <2>2, <2>3
<1> QED
  BY <1>2, <1>3

\* WriteFile, AppendFile and OpenFile.
LEMMA WriteIsWithin ==
  ASSUME JailIsPath, jail # NoJail, NEW t, IsTree(t), NEW v \in Lasting, v # <<>>,
         NEW node, NEW u, u = OsWriteFile(t, ForOpen(t, v), node), u # Failed
  PROVE  Within(t, u)
<1>1. PICK x, p, q, c : x = ForCreate(t, v) /\ p = ForOpen(t, v) /\ q = Walk(t, p)
                        /\ c = CanonicalJail(t)
  OBVIOUS
<1>2. q \notin {Missing, NotDir} /\ u = Put(t, q, node)
  BY <1>1 DEF OsWriteFile, WriteAt
<1>3. p # Failed
  BY <1>1, <1>2 DEF Walk
<1>4. x # Failed /\ p = LinkFollowed(t, x)
  BY <1>1, <1>3 DEF ForOpen, LinkFollowed
<1>5. x \in Lasting /\ x \in Path /\ x # <<>> /\ Front(x) \in Lasting
  BY <1>1, <1>4, ForCreateIsStraight, LastingByParts
<1>6. CASE IsLink(t, EntryAt(t, x))
  <2>1. p = EvalSymlinks(t, x) /\ IsInJail(c, p)
    BY <1>1, <1>3, <1>4, <1>6 DEF LinkFollowed, Checked
  <2>2. p \in DOMAIN t /\ ~IsLink(t, p) /\ p \in Path
    BY <1>3, <1>5, <2>1, EvalSymlinksIsPath, LastingIsPath DEF Good
  <2>3. q = p
    BY <1>1, <2>2, PlaceIsItself
  <2>4. IsPrefix(c, q)
    BY <1>1, <2>1, <2>2, <2>3, SubtreeOfJail, InJailIsPrefix
  <2> QED
    BY <1>1, <1>2, <2>4, PutIsWithin
<1>7. CASE ~IsLink(t, EntryAt(t, x))
  <2>1. p = x
    BY <1>4, <1>7 DEF LinkFollowed
  <2>2. q = EntryAt(t, x)
    BY <1>1, <1>2, <1>5, <1>7, <2>1, WalkIsEntry
  <2>3. IsPrefix(c, q)
    BY <1>1, <1>2, <2>2, EntryIsResolved
  <2> QED
    BY <1>1, <1>2, <2>3, PutIsWithin
<1> QED
  BY <1>6, <1>7

\* Whatever the client does.
LEMMA ClientChangesInside ==
  ASSUME Types, jail # NoJail, Client, Next
  PROVE  \/ Within(tree, tree')
         \/ /\ EvalSymlinks(tree, jail) = Failed
            /\ DOMAIN tree \subseteq DOMAIN tree' /\ \A q \in DOMAIN tree : tree'[q] = tree[q]
            /\ \A q \in DOMAIN tree' \ DOMAIN tree :
                 IsDir(tree', q) /\ \E k \in 1..Len(jail) : q = Walk(tree', SubSeq(jail, 1, k))
<1>1. JailIsPath /\ IsTree(tree)
  BY JailOfWorld DEF Types
<1>2. Within(tree, tree)
  BY DEF Within
<1>3. PICK v \in Args :
        \/ MakeParent(v)
        \/ \E d \in Data : WriteFile(v, d) \/ AppendFile(v, d)
        \/ OpenFile(v)
        \/ \E all \in BOOLEAN : Mkdir(v, all) \/ Remove_(v, all)
        \/ \E a \in Args : Rename(v, a) \/ Symlink(v, a)
  BY DEF Client
<1>4. v \in Lasting /\ v # <<>> /\ Front(v) \in Lasting
  BY ArgsAreLasting
<1>5. CASE MakeParent(v)
  <2>1. PICK u : u = OsMkdirAll(tree, ForCreate(tree, Front(v)))
                 /\ tree' = IF u = Failed THEN tree ELSE u
    BY <1>5 DEF MakeParent, Becomes
  <2>2. CASE u = Failed
    BY <1>2, <2>1, <2>2
  <2>3. CASE u # Failed /\ Front(v) # <<>>
    BY <1>1, <1>4, <2>1, <2>3, MkdirAllIsWithin
  <2>4. CASE u # Failed /\ Front(v) = <<>>
    <3>1. u = OsMkdirAll(tree, jail) /\ tree' = u
      BY <1>1, <2>1, <2>4, ParentIsJail
    <3> QED
      BY <1>1, <1>2, <2>4, <3>1, JailIsMade
  <2> QED
    BY <2>2, <2>3, <2>4
<1>6. CASE \E d \in Data : WriteFile(v, d) \/ AppendFile(v, d)
  <2>1. PICK node, u : u = OsWriteFile(tree, ForOpen(tree, v), node)
                       /\ tree' = IF u = Failed THEN tree ELSE u
    BY <1>6 DEF WriteFile, AppendFile, OsAppend, Becomes
  <2> QED
    BY <1>1, <1>2, <1>4, <2>1, WriteIsWithin
<1>7. CASE OpenFile(v)
  <2>1. PICK node, u : u = OsWriteFile(tree, ForOpen(tree, v), node)
                       /\ tree' = IF u = Failed THEN tree ELSE u
    BY <1>7 DEF OpenFile, Becomes
  <2> QED
    BY <1>1, <1>2, <1>4, <2>1, WriteIsWithin
<1>8. CASE \E all \in BOOLEAN : Mkdir(v, all)
  <2>1. PICK all \in BOOLEAN : Mkdir(v, all)
    BY <1>8
  <2>2. PICK u, e : /\ tree' = IF u = Failed THEN tree ELSE u
                    /\ e = EntryAt(tree, ForCreate(tree, v))
                    /\ u = OsMkdirAll(tree, ForCreate(tree, v)) \/ u = PutNew(tree, e, DirNode)
    BY <2>1 DEF Mkdir, Becomes, OsMkdir
  <2>3. CASE u = OsMkdirAll(tree, ForCreate(tree, v))
    BY <1>1, <1>2, <1>4, <2>2, <2>3, MkdirAllIsWithin
  <2>4. CASE u = PutNew(tree, e, DirNode)
    BY <1>1, <1>2, <1>4, <2>2, <2>4, EntryIsWithin
  <2> QED
    BY <2>2, <2>3, <2>4
<1>9. CASE \E all \in BOOLEAN : Remove_(v, all)
  <2>1. PICK all \in BOOLEAN : Remove_(v, all)
    BY <1>9
  <2>2. PICK u, e : /\ tree' = IF u = Failed THEN tree ELSE u
                    /\ e = EntryAt(tree, ForCreate(tree, v))
                    /\ u = RemoveBelow(tree, e) \/ u = RemoveEntry(tree, e)
    BY <2>1 DEF Remove_, Becomes, OsRemove, OsRemoveAll
  <2> QED
    BY <1>1, <1>2, <1>4, <2>2, EntryIsWithin
<1>10. CASE \E a \in Args : Rename(v, a)
  <2>1. PICK a \in Args : Rename(v, a)
    BY <1>10
  <2>2. PICK u : u = OsRename(tree, ForCreate(tree, v), ForCreate(tree, a))
                 /\ tree' = IF u = Failed THEN tree ELSE u
    BY <2>1 DEF Rename, Becomes
  <2> QED
    BY <1>1, <1>2, <1>4, <2>2, ArgsAreLasting, RenameIsWithin
<1>11. CASE \E a \in Args : Symlink(v, a)
  <2>1. PICK a \in Args : Symlink(v, a)
    BY <1>11
  <2>2. PICK u, e, node : /\ tree' = tree \/ (u # Failed /\ tree' = u)
                          /\ e = EntryAt(tree, ForCreate(tree, a))
                          /\ u = PutNew(tree, e, node)
    BY <2>1 DEF Symlink, Becomes, OsSymlink
  <2> QED
    BY <1>1, <1>2, <2>2, ArgsAreLasting, EntryIsWithin
<1> QED
  BY <1>3, <1>5, <1>6, <1>7, <1>8, <1>9, <1>10, <1>11

-----------------------------------------------------------------------------
(* What an atomic write changes is in the jail.                            *)

\* There is no link before the last component of h, which is in the jail, and
\* the jail is there.
StraightTo(t, h) ==
  /\ Unlinked(t, Front(h))
  /\ IsDir(t, Walk(t, jail)) /\ IsPrefix(Walk(t, jail), h)

HostIn(w) ==
  Busy(w) /\ ~moved[w] /\ ~cleared[w] /\ jail # NoJail
    => StraightTo(tree, host[w]) \/ (pc[w] = "mkdir" /\ InTheWay(tree, host[w]))

LEMMA FrontOfLasting ==
  ASSUME NEW h \in Lasting
  PROVE  /\ h \in Path /\ Front(h) \in Lasting /\ Front(h) \in Path /\ IsPrefix(Front(h), h)
<1>1. h \in Path
  BY LastingIsPath
<1>2. CASE h = <<>>
  <2>1. Front(h) = h
    BY <1>2 DEF Front
  <2> QED
    BY <1>1, <2>1, PrefixOfFront DEF Path
<1>3. CASE h # <<>>
  <2>1. Front(h) \in Lasting /\ Front(h) \in Path
    BY <1>1, <1>3, LastingByParts, LastingIsPath
  <2> QED
    BY <1>1, <1>3, <2>1, PrefixOfFront DEF Path
<1> QED
  BY <1>2, <1>3

\* A jail with a directory in it is one.
LEMMA JailIsDir ==
  ASSUME JailIsPath, jail # NoJail, NEW t, IsTree(t), NEW b, IsDir(t, b),
         IsPrefix(CanonicalJail(t), b)
  PROVE  Walk(t, jail) = CanonicalJail(t) /\ IsDir(t, CanonicalJail(t))
<1>1. PICK c : c = CanonicalJail(t)
  OBVIOUS
<1>2. c \in Path /\ (Walk(t, jail) = c \/ c = jail)
  BY <1>1, JailLeadsToCanonical
<1>3. IsDir(t, c)
  <2>1. CASE c = b
    BY <2>1
  <2>2. CASE c # b
    BY <1>1, <1>2, <2>2, AncestorsAreDirs DEF IsDir
  <2> QED
    BY <2>1, <2>2
<1>4. Walk(t, c) = c
  BY <1>3, PlaceIsItself DEF IsDir, IsLink
<1> QED
  BY <1>1, <1>2, <1>3, <1>4

LEMMA JailThere ==
  ASSUME NEW t, IsTree(t), IsDir(t, Walk(t, jail))
  PROVE  CanonicalJail(t) = Walk(t, jail) /\ Walk(t, jail) \in Path
<1>1. EvalSymlinks(t, jail) = Walk(t, jail) /\ Walk(t, jail) # Failed
  BY AnswersAreNowhere DEF EvalSymlinks, Exists, IsDir
<1> QED
  BY <1>1 DEF CanonicalJail, OrElse, IsTree, IsDir

LEMMA ForOpenIsStraight ==
  ASSUME JailIsPath, jail # NoJail, NEW t, IsTree(t), NEW v \in Lasting, v # <<>>,
         NEW h, h = ForOpen(t, v), h # Failed
  PROVE  StraightTo(t, h) \/ InTheWay(t, h)
<1>1. PICK x, c : x = ForCreate(t, v) /\ c = CanonicalJail(t)
  OBVIOUS
<1>2. x # Failed /\ h = LinkFollowed(t, x)
  BY <1>1 DEF ForOpen, LinkFollowed
<1>3. x \in Lasting /\ x \in Path /\ x # <<>> /\ c \in Path
  BY <1>1, <1>2, ForCreateIsStraight, SubtreeOfJail
<1>4. CASE IsLink(t, EntryAt(t, x))
  <2>1. h = EvalSymlinks(t, x) /\ IsInJail(c, h)
    BY <1>1, <1>2, <1>4 DEF LinkFollowed, Checked
  <2>2. h \in DOMAIN t /\ ~IsLink(t, h) /\ h \in Lasting
    BY <1>3, <2>1, EvalSymlinksIsPath DEF Good
  <2>3. EntryAt(t, x) \notin {Missing, NotDir}
    BY <1>4, AnswersAreNowhere DEF IsLink
  <2>4. IsDir(t, Front(x)) /\ IsPrefix(c, Front(x))
    BY <1>1, <2>3, EntryIsResolved
  <2>5. Walk(t, jail) = c /\ IsDir(t, c)
    BY <1>1, <2>4, JailIsDir
  <2>6. IsPrefix(c, h)
    BY <1>3, <2>1, <2>2, FrontOfLasting, InJailIsPrefix
  <2>7. Unlinked(t, Front(h))
    BY <2>2, FrontOfLasting, PlaceIsUnlinked, UnlinkedBefore
  <2> QED
    BY <2>5, <2>6, <2>7 DEF StraightTo
<1>5. CASE ~IsLink(t, EntryAt(t, x)) /\ ~InTheWay(t, x)
  <2>1. h = x
    BY <1>2, <1>5 DEF LinkFollowed
  <2>2. PICK b \in DOMAIN t : /\ IsPrefix(c, b) /\ IsPrefix(b, x)
                              /\ IsDir(t, b) /\ Unlinked(t, Front(x))
    BY <1>1, <1>2, <1>5, ForCreateIsStraight
  <2>3. Walk(t, jail) = c /\ IsDir(t, c)
    BY <1>1, <2>2, JailIsDir
  <2>4. IsPrefix(c, x)
    <3>1. b \in Path
      BY DEF IsTree
    <3> QED
      BY <1>3, <2>2, <3>1, PrefixOfPrefix
  <2> QED
    BY <2>1, <2>2, <2>3, <2>4 DEF StraightTo
<1>6. CASE ~IsLink(t, EntryAt(t, x)) /\ InTheWay(t, x)
  BY <1>2, <1>6 DEF LinkFollowed
<1> QED
  BY <1>4, <1>5, <1>6

LEMMA StaysStraight ==
  ASSUME JailIsPath, jail # NoJail, NEW t, IsTree(t), NEW u, IsTree(u), Ways(t, u),
         NEW h, StraightTo(t, h)
  PROVE  StraightTo(u, h)
<1>1. jail \in Path
  BY LastingIsPath DEF JailIsPath
<1>2. Walk(u, jail) = Walk(t, jail)
  BY <1>1, StableWalk DEF StraightTo
<1>3. IsDir(u, Walk(t, jail))
  BY DEF StraightTo, Ways, IsDir
<1> QED
  BY <1>2, <1>3, UnlinkedStays DEF StraightTo

\* What has the name of the temporary file, or of the file, is it.
LEMMA EntryOfStraight ==
  ASSUME NEW t, IsTree(t), NEW h \in Lasting, StraightTo(t, h), h # CanonicalJail(t),
         NEW p, p \in {h} \cup {Append(Front(h), n) : n \in Writers},
         NEW e, e = EntryAt(t, p), e \notin {Missing, NotDir}
  PROVE  e \in Path /\ IsPrefix(CanonicalJail(t), e)
<1>1. PICK c : c = CanonicalJail(t)
  OBVIOUS
<1>2. c = Walk(t, jail) /\ c \in Path /\ IsPrefix(c, h) /\ c # h
  BY <1>1, JailThere DEF StraightTo
<1>3. PICK f : f = Front(h) /\ f \in Lasting /\ f \in Path
  BY FrontOfLasting
<1>4. h \in Path /\ h # <<>> /\ IsPrefix(c, f)
  BY <1>2, <1>3, LastingIsPath, PrefixOfFront DEF Path
<1>5. p \in Path /\ p # <<>> /\ Front(p) = f
  <2>1. CASE p = h
    BY <1>3, <1>4, <2>1
  <2>2. CASE p \in {Append(Front(h), n) : n \in Writers}
    <3>1. PICK n \in Writers : p = Append(f, n)
      BY <1>3, <2>2
    <3> QED
      BY <1>3, <3>1, OsFSAssumption, NameInDir
  <2> QED
    BY <2>1, <2>2
<1>6. Unlinked(t, Front(p)) /\ Front(p) \in Lasting
  BY <1>3, <1>5 DEF StraightTo
<1>7. e = p
  BY <1>5, <1>6, UnlinkedEntry
<1>8. IsPrefix(c, p)
  BY <1>2, <1>4, <1>5, PrefixOfFront DEF Path
<1> QED
  BY <1>1, <1>5, <1>7, <1>8

LEMMA WriterChangesInside ==
  ASSUME OsFSInv, jail # NoJail, NEW w \in Writers, HostIn(w), AtomicWriteFile(w), ~Astray(w)
  PROVE  Within(tree, tree')
<1>1. Types /\ TempOf(w) /\ IsTree(tree) /\ JailIsPath
  BY JailOfWorld DEF OsFSInv, Types
<1>2. PICK t, u, h : t = tree /\ u = tree' /\ h = host[w]
  OBVIOUS
<1>3. ~moved[w] /\ ~cleared[w] /\ h # CanonicalJail(t) /\ IsTree(t)
  BY <1>1, <1>2 DEF Astray
<1>4. Within(t, t)
  BY DEF Within
<1>5. CASE (\E v \in AtomicArgs : Resolve(w, v)) \/ WriteFails(w)
  <2>1. u = t
    BY <1>2, <1>5 DEF Resolve, WriteFails
  <2> QED
    BY <1>2, <1>4, <2>1
<1>6. ASSUME pc[w] \in {"mkdir", "create", "write", "rename", "remove"}
      PROVE  /\ h \in Lasting /\ Busy(w)
             /\ StraightTo(t, h) \/ (pc[w] = "mkdir" /\ InTheWay(t, h))
  BY <1>1, <1>2, <1>3, <1>6 DEF HostIn, Busy, Types
<1>7. CASE MakeDirs(w)
  <2>1. pc[w] = "mkdir"
    BY <1>7 DEF MakeDirs
  <2>2. PICK m : m = OsMkdirAll(t, Front(h)) /\ u = IF m = Failed THEN t ELSE m
    BY <1>2, <1>7 DEF MakeDirs, Becomes
  <2>3. CASE m = Failed
    BY <1>2, <1>4, <2>2, <2>3
  <2>4. CASE m # Failed
    <3>1. h \in Lasting /\ h \in Path /\ Front(h) \in Lasting /\ Front(h) \in Path
          /\ Front(Front(h)) \in Path /\ IsPrefix(Front(Front(h)), Front(h))
          /\ IsPrefix(Front(h), h)
      BY <1>6, <2>1, FrontOfLasting
    <3>2. h # <<>> => ~InTheWay(t, h)
      BY <1>3, <2>2, <2>4, <3>1, StoppedMkdirAll
    <3>3. h = <<>> => ~InTheWay(t, h)
      BY DEF InTheWay
    <3>4. StraightTo(t, h)
      BY <1>6, <2>1, <3>2, <3>3
    <3>5. Unlinked(t, Front(Front(h)))
      BY <1>3, <3>1, <3>4, UnlinkedBefore DEF StraightTo
    <3>6. Grown(t, m)
      BY <1>3, <2>2, <2>4, <3>1, MkdirAllGrows
    <3>7. \A q \in DOMAIN m \ DOMAIN t : IsPrefix(q, Front(h))
      BY <1>3, <2>2, <2>4, <3>1, <3>5, MkdirAllUnlinked
    <3>8. PICK c : c = CanonicalJail(t)
      OBVIOUS
    <3>9. c = Walk(t, jail) /\ c \in Path /\ c \in DOMAIN t /\ IsPrefix(c, h)
      BY <1>3, <3>4, <3>8, JailThere DEF StraightTo, IsDir
    <3>10. ASSUME NEW q \in DOMAIN m \ DOMAIN t PROVE IsPrefix(c, q)
      <4>1. q \in Path
        BY <3>6, <3>10 DEF Grown, IsTree
      <4>2. IsPrefix(q, h)
        BY <3>1, <3>7, <3>10, <4>1, PrefixOfPrefix
      <4> QED
        BY <1>3, <3>1, <3>9, <3>10, <4>1, <4>2, NewIsBelow
    <3>11. Within(t, m)
      BY <3>6, <3>8, <3>10, GrownIsWithin
    <3> QED
      BY <1>2, <2>2, <2>4, <3>11
  <2> QED
    BY <2>3, <2>4
<1>8. ASSUME pc[w] \in {"create", "write", "rename", "remove"},
             NEW p, p \in {h, TempPath(w)}, EntryAt(t, p) \notin {Missing, NotDir}
      PROVE  EntryAt(t, p) \in Path /\ IsPrefix(CanonicalJail(t), EntryAt(t, p))
  <2>1. h \in Lasting /\ StraightTo(t, h)
    BY <1>6, <1>8
  <2>2. p \in {h} \cup {Append(Front(h), n) : n \in Writers}
    BY <1>2, <1>8 DEF TempPath
  <2> QED
    BY <1>3, <1>8, <2>1, <2>2, EntryOfStraight
<1>9. CASE CreateTemp(w)
  <2>1. pc[w] = "create"
    BY <1>9 DEF CreateTemp
  <2>2. PICK e : e = EntryAt(t, TempPath(w))
    OBVIOUS
  <2>3. CASE ~IsNew(t, e)
    <3>1. u = t
      BY <1>2, <1>9, <2>2, <2>3 DEF CreateTemp
    <3> QED
      BY <1>2, <1>4, <3>1
  <2>4. CASE IsNew(t, e)
    <3>1. u = Put(t, e, FileOf(Part(w)))
      BY <1>2, <1>9, <2>2, <2>4 DEF CreateTemp
    <3>2. IsPrefix(CanonicalJail(t), e)
      BY <1>8, <2>1, <2>2, <2>4 DEF IsNew
    <3> QED
      BY <1>2, <3>1, <3>2, PutIsWithin
  <2> QED
    BY <2>3, <2>4
<1>10. CASE WriteTemp(w)
  <2>1. pc[w] = "write" /\ u = [p \in DOMAIN t |-> IF t[p] = FileOf(Part(w)) THEN FileOf(Whole(w))
                                                   ELSE t[p]]
    BY <1>2, <1>10 DEF WriteTemp
  <2>2. ASSUME NEW p \in DOMAIN t, t[p] = FileOf(Part(w)) PROVE IsPrefix(CanonicalJail(t), p)
    <3>1. Last(p) = w
      BY <1>1, <1>2, <2>2 DEF TempOf
    <3>2. p # <<>>
      BY <1>3, <2>2 DEF IsTree, IsDir, FileOf
    <3>3. p = EntryAt(t, TempPath(w))
      BY <1>1, <1>2, <1>3, <2>1, <3>1, <3>2 DEF TempOf, OneTemp
    <3>4. EntryAt(t, TempPath(w)) \notin {Missing, NotDir}
      BY <1>3, <2>2, <3>3, AnswersAreNowhere
    <3> QED
      BY <1>8, <2>1, <3>3, <3>4
  <2>3. Within(t, u)
    BY <2>1, <2>2 DEF Within
  <2> QED
    BY <1>2, <2>3
<1>11. CASE Install(w)
  <2>1. pc[w] = "rename"
    BY <1>11 DEF Install
  <2>2. PICK m : m = OsRename(t, TempPath(w), h) /\ (u = t \/ (m # Failed /\ u = m))
    BY <1>2, <1>11 DEF Install, Becomes
  <2>3. PICK o, n : o = EntryAt(t, TempPath(w)) /\ n = EntryAt(t, h)
    OBVIOUS
  <2>4. CASE u = t
    BY <1>2, <1>4, <2>4
  <2>5. CASE m # Failed /\ u = m
    <3>1. CanMove(t, o, n) /\ u = Move(t, o, n)
      BY <2>2, <2>3, <2>5 DEF OsRename, Renamed
    <3>2. o \notin {Missing, NotDir} /\ n \notin {Missing, NotDir}
      BY <1>3, <3>1, AnswersAreNowhere DEF CanMove
    <3>3. o \in Path /\ IsPrefix(CanonicalJail(t), o)
      BY <1>8, <2>1, <2>3, <3>2
    <3>4. n \in Path /\ IsPrefix(CanonicalJail(t), n)
      BY <1>8, <2>1, <2>3, <3>2
    <3>5. CanonicalJail(t) \in Path
      BY <1>1, <1>3, SubtreeOfJail
    <3>6. Within(t, u)
      BY <1>3, <3>1, <3>3, <3>4, <3>5, MoveIsWithin
    <3> QED
      BY <1>2, <3>6
  <2> QED
    BY <2>2, <2>4, <2>5
<1>12. CASE RemoveTemp(w)
  <2>1. pc[w] = "remove"
    BY <1>12 DEF RemoveTemp
  <2>2. PICK e, m : /\ e = EntryAt(t, TempPath(w)) /\ m = RemoveEntry(t, e)
                    /\ u = t \/ (m # Failed /\ u = m)
    BY <1>2, <1>12 DEF RemoveTemp, Becomes, OsRemove
  <2>3. CASE u = t
    BY <1>2, <1>4, <2>3
  <2>4. CASE m # Failed /\ u = m
    <3>1. e \in DOMAIN t /\ u = Without(t, {e}) /\ Under(t, e) = {e}
      BY <2>2, <2>4 DEF RemoveEntry
    <3>2. e \notin {Missing, NotDir}
      BY <1>3, <3>1, AnswersAreNowhere
    <3>3. e \in Path /\ IsPrefix(CanonicalJail(t), e)
      BY <1>8, <2>1, <2>2, <3>2
    <3>4. CanonicalJail(t) \in Path
      BY <1>1, <1>3, SubtreeOfJail
    <3>5. Within(t, u)
      BY <1>3, <3>1, <3>3, <3>4, WithoutIsWithin
    <3> QED
      BY <1>2, <3>5
  <2> QED
    BY <2>2, <2>3, <2>4
<1> QED
  BY <1>5, <1>7, <1>9, <1>10, <1>11, <1>12 DEF AtomicWriteFile

\* The history variables of one atomic write.
Clearings(w) == cleared'[w] = (cleared[w] \/ (Busy(w) /\ Clears(w)))

LEMMA WaysStayIn ==
  ASSUME OsFSInv, OsFSInv', \A w \in Writers : HostIn(w), Next
  PROVE  \A w \in Writers : HostIn(w)'
<1>1. /\ moved'   = [w \in Writers |-> moved[w] \/ (Busy(w) /\ ~WaysKept)]
      /\ cleared' = [w \in Writers |-> cleared[w] \/ (Busy(w) /\ Clears(w))]
  BY DEF Next
<1>2. \A w \in Writers : Moves(w) /\ Clearings(w)
  BY <1>1, Zenon DEF Moves, Clearings
<1>3. Types /\ IsTree(tree) /\ JailIsPath /\ pc \in [Writers -> Stages]
  BY JailOfWorld DEF OsFSInv, Types
<1>4. PICK t, u : t = tree /\ u = tree'
  OBVIOUS
<1>5. IsTree(t) /\ IsTree(u) /\ (WaysKept <=> Ways(t, u))
  <2>1. IsTree(tree)'
    BY DEF OsFSInv, Types
  <2>2. IsTree(tree')
    BY <2>1 DEF IsTree, IsDir, IsNode, DirNode, LinkTo, FileOf
  <2>3. WaysKept <=> Ways(tree, tree')
    BY DEF WaysKept, Ways
  <2> QED
    BY <1>3, <1>4, <2>2, <2>3
<1>6. jail' = jail
  BY DEF Next, Client, MakeParent, WriteFile, AppendFile, OpenFile, Mkdir, Remove_, Rename,
         Symlink, AtomicWriteFile, Resolve, MakeDirs, CreateTemp, WriteTemp, WriteFails,
         Install, RemoveTemp, Crash
<1> SUFFICES ASSUME NEW w \in Writers, Busy(w)', ~moved'[w], ~cleared'[w], jail # NoJail
             PROVE  \/ StraightTo(u, host'[w])
                    \/ pc'[w] = "mkdir" /\ InTheWay(u, host'[w])
  BY <1>4, <1>6 DEF HostIn, StraightTo, Unlinked, InTheWay, IsDir, IsLink
<1>7. PICK h : h = host[w]
  OBVIOUS
<1>8. CASE \E v \in AtomicArgs : Resolve(w, v)
  <2>1. PICK v \in AtomicArgs : Resolve(w, v)
    BY <1>8
  <2>2. PICK p : p = ForOpen(t, v)
    OBVIOUS
  <2>3. pc[w] = "idle" /\ u = t
    BY <1>4, <2>1 DEF Resolve
  <2>4. p # Failed /\ pc'[w] = "mkdir" /\ host'[w] = p
    <3>1. w \in DOMAIN pc /\ w \in DOMAIN host
      BY <1>3 DEF Types
    <3>2. pc'[w] # "done"
      BY DEF Busy
    <3> QED
      BY <1>4, <2>1, <2>2, <3>1, <3>2 DEF Resolve, IsError, Goto
  <2>5. StraightTo(t, p) \/ InTheWay(t, p)
    BY <1>3, <1>5, <2>2, <2>4, ArgsAreLasting, ForOpenIsStraight
  <2> QED
    BY <2>3, <2>4, <2>5
<1>9. CASE ~(\E v \in AtomicArgs : Resolve(w, v))
  <2>1. Busy(w) /\ host'[w] = h /\ (pc'[w] = pc[w] \/ AtomicWriteFile(w))
    <3>1. CASE Client
      BY <1>7, <3>1 DEF Busy, Client, MakeParent, WriteFile, AppendFile, OpenFile, Mkdir,
                        Remove_, Rename, Symlink
    <3>2. CASE \E x \in Writers : AtomicWriteFile(x)
      <4>1. PICK x \in Writers : AtomicWriteFile(x)
        BY <3>2
      <4>2. CASE x = w
        <5>1. pc[w] \in {"mkdir", "create", "write", "rename", "remove"}
          BY <1>9, <4>1, <4>2 DEF AtomicWriteFile, MakeDirs, CreateTemp, WriteTemp, WriteFails,
                                  Install, RemoveTemp
        <5>2. host'[w] = host[w]
          BY <1>3, <4>1, <4>2, <5>1, WriterControl
        <5> QED
          BY <1>7, <4>1, <4>2, <5>1, <5>2 DEF Busy
      <4>3. CASE x # w
        <5>1. pc'[w] = pc[w] /\ host'[w] = host[w]
          BY <1>3, <4>1, <4>3, WriterControl
        <5> QED
          BY <1>7, <5>1 DEF Busy
      <4> QED
        BY <4>2, <4>3
    <3>3. CASE Crash
      <4>1. pc'[w] = IF Busy(w) THEN "crashed" ELSE pc[w]
        BY <3>3, Zenon DEF Crash
      <4>2. host' = host
        BY <3>3 DEF Crash
      <4> QED
        BY <1>7, <4>1, <4>2 DEF Busy
    <3> QED
      BY <3>1, <3>2, <3>3 DEF Next
  <2>2. ~moved[w] /\ ~cleared[w] /\ Ways(t, u) /\ ~Clears(w)
    BY <1>2, <1>5, <2>1 DEF Moves, Clearings
  <2>3. StraightTo(t, h) \/ (pc[w] = "mkdir" /\ InTheWay(t, h))
    BY <1>4, <1>7, <2>1, <2>2 DEF HostIn
  <2>4. CASE StraightTo(t, h)
    <3>1. StraightTo(u, h)
      BY <1>3, <1>5, <2>2, <2>4, StaysStraight
    <3> QED
      BY <2>1, <3>1
  <2>5. CASE pc[w] = "mkdir" /\ InTheWay(t, h)
    <3>1. InTheWay(u, h)
      BY <1>4, <1>7, <2>1, <2>2, <2>5 DEF Clears, InTheWay, IsDir
    <3>2. pc'[w] = pc[w]
      <4>1. ASSUME MakeDirs(w) PROVE FALSE
        <5>1. h \in Lasting
          BY <1>3, <1>7, <2>5 DEF Types
        <5>2. h # <<>>
          BY <2>5 DEF InTheWay
        <5>3. OsMkdirAll(t, Front(h)) = Failed
          BY <1>5, <2>5, <5>1, <5>2, StoppedMkdirAll
        <5>4. pc'[w] = "done"
          BY <1>3, <1>4, <1>7, <4>1, <5>3 DEF MakeDirs, Goto
        <5> QED
          BY <5>4 DEF Busy
      <4>2. AtomicWriteFile(w) => MakeDirs(w)
        BY <2>5 DEF AtomicWriteFile, Resolve, CreateTemp, WriteTemp, WriteFails, Install,
                    RemoveTemp
      <4> QED
        BY <2>1, <4>1, <4>2
    <3> QED
      BY <2>1, <2>5, <3>1, <3>2
  <2> QED
    BY <2>3, <2>4, <2>5
<1> QED
  BY <1>8, <1>9

\* Whatever links there are and whoever changes them meanwhile, what an
\* operation of OsFS creates, changes or removes is in the jail; a jail that is
\* not there is made, and an atomic write may go astray that replaces the jail
\* or whose way changes after resolveHostForOpen looked at it.
THEOREM ChangesStayInside == Spec => ChangesInside
<1> DEFINE WaysIn == \A w \in Writers : HostIn(w)
<1>1. Init => WaysIn
  BY DEF Init, HostIn, Busy
<1>2. OsFSInv /\ OsFSInv' /\ WaysIn /\ [Next]_vars => WaysIn'
  <2>1. CASE Next
    BY <2>1, WaysStayIn
  <2>2. CASE UNCHANGED vars
    BY <2>2 DEF vars, HostIn, Busy, StraightTo, Unlinked, InTheWay, IsDir, IsLink
  <2> QED
    BY <2>1, <2>2
<1>3. OsFSInv /\ WaysIn /\ [Next]_vars =>
        [\A p \in DOMAIN tree \cup DOMAIN tree' :
           (p \notin DOMAIN tree \cap DOMAIN tree' \/ tree[p] # tree'[p])
             => \/ Inside(tree, p) \/ MadeForJail(p)
                \/ \E w \in Writers : AtomicWriteFile(w) /\ Astray(w)]_vars
  <2> SUFFICES ASSUME OsFSInv, WaysIn, Next, NEW p \in DOMAIN tree \cup DOMAIN tree',
                      p \notin DOMAIN tree \cap DOMAIN tree' \/ tree[p] # tree'[p]
               PROVE  \/ Inside(tree, p) \/ MadeForJail(p)
                      \/ \E w \in Writers : AtomicWriteFile(w) /\ Astray(w)
    OBVIOUS
  <2>1. CASE jail = NoJail
    BY <2>1 DEF Inside
  <2>2. CASE jail # NoJail /\ Client
    <3>1. CASE Within(tree, tree')
      BY <3>1 DEF Within, Inside
    <3>2. CASE /\ EvalSymlinks(tree, jail) = Failed
               /\ DOMAIN tree \subseteq DOMAIN tree' /\ \A q \in DOMAIN tree : tree'[q] = tree[q]
               /\ \A q \in DOMAIN tree' \ DOMAIN tree :
                    IsDir(tree', q) /\ \E k \in 1..Len(jail) : q = Walk(tree', SubSeq(jail, 1, k))
      BY <3>2 DEF MadeForJail
    <3> QED
      BY <2>2, <3>1, <3>2, ClientChangesInside DEF OsFSInv
  <2>3. CASE jail # NoJail /\ \E w \in Writers : AtomicWriteFile(w)
    <3>1. PICK w \in Writers : AtomicWriteFile(w)
      BY <2>3
    <3>2. CASE ~Astray(w)
      <4>1. Within(tree, tree')
        BY <2>3, <3>1, <3>2, WriterChangesInside
      <4> QED
        BY <4>1 DEF Within, Inside
    <3> QED
      BY <3>1, <3>2
  <2>4. CASE Crash
    BY <2>4 DEF Crash
  <2> QED
    BY <2>1, <2>2, <2>3, <2>4 DEF Next
<1> QED
  BY <1>1, <1>2, <1>3, InvHolds, PTL DEF Spec, ChangesInside

=============================================================================
