---------------------------- MODULE TestLogProofs ----------------------------
(***************************************************************************)
(* Theorems about TestLog, for every tree of handlers, every number of     *)
(* goroutines and every write.                                             *)
(***************************************************************************)
EXTENDS TestLog, FiniteSetTheorems, SequenceTheorems, WellFoundedInduction, TLAPS

Opt(S) == S \cup {None}
Record == [by : Procs, msg : Msgs, attr : Opt(Vals)]

Types ==
  /\ parent \in [Handlers -> Opt(Handlers)]
  /\ attrs \in [Handlers -> Opt(Vals)]
  /\ entries \in [Handlers -> Seq(Record)]
  /\ filter \in [Handlers -> BOOLEAN]
  /\ pc \in [Procs -> {"idle", "capture", "filter"}]
  /\ via \in [Procs -> Handlers]
  /\ todo \in [Procs -> Seq(Msgs)]
  /\ own \in [Procs -> Opt(Vals)]
  /\ chain \in [Handlers -> Seq(Vals)]
  /\ logged \in [Procs -> Seq(Record)]

-----------------------------------------------------------------------------
(* Lines.                                                                  *)

\* The loop of SlogWriter.Write over the first n lines of w.
LinesUpTo(w, n, f) ==
  f = [i \in 0..n |-> IF i = 0 THEN <<>>
                      ELSE IF w[i] = Blank THEN f[i - 1] ELSE Append(f[i - 1], w[i])]

\* A set of naturals that is not empty has a least element.
LEMMA LeastNatural ==
  ASSUME NEW S \in SUBSET Nat, S # {}
  PROVE  \E n \in S : \A m \in S : n <= m
<1>1. PICK n \in S : \A m \in S : ~ (<<m, n>> \in OpToRel(<, Nat))
  BY NatLessThanWellFounded, WFMin
<1>2. \A m \in S : ~ (m < n)
  BY <1>1 DEF OpToRel
<1> QED
  BY <1>2

\* The loop is defined for every write, and gives messages.
LEMMA LinesAreMessages == \A w \in Writes : Lines(w) \in Seq(Msgs)
<1> SUFFICES ASSUME NEW w \in Writes PROVE Lines(w) \in Seq(Msgs)
  OBVIOUS
<1>1. /\ w \in Seq(Msgs \cup {Blank}) /\ Len(w) \in Nat
      /\ \A i \in 1..Len(w) : w[i] # Blank => w[i] \in Msgs
  BY TestLogAssumption
<1> DEFINE Bad == {n \in 0..Len(w) : ~ \E f : LinesUpTo(w, n, f)}
<1>2. Bad = {}
  <2> SUFFICES ASSUME Bad # {} PROVE FALSE
    OBVIOUS
  <2>0. Bad \in SUBSET Nat
    BY <1>1
  <2>1. PICK n \in Bad : \A m \in Bad : n <= m
    <3> HIDE DEF Bad
    <3> QED
      BY <2>0, LeastNatural
  <2>2. n # 0
    <3>1. PICK f : f = [i \in 0..0 |-> <<>>]
      OBVIOUS
    <3>2. \A i \in 0..0 : i = 0
      OBVIOUS
    <3>3. LinesUpTo(w, 0, f)
      BY <3>1, <3>2, Zenon DEF LinesUpTo
    <3> QED
      BY <1>1, <3>3
  <2>3. n \in Nat /\ n - 1 \in 0..Len(w) /\ n - 1 \notin Bad
    BY <1>1, <2>1, <2>2
  <2>4. PICK f : LinesUpTo(w, n - 1, f)
    BY <2>3
  <2> DEFINE g == [i \in 0..n |-> IF i < n THEN f[i]
                                  ELSE IF w[n] = Blank THEN f[n - 1] ELSE Append(f[n - 1], w[n])]
  <2>5. LinesUpTo(w, n, g)
    <3>1. \A i \in 0..(n - 1) : f[i] = IF i = 0 THEN <<>>
                      ELSE IF w[i] = Blank THEN f[i - 1] ELSE Append(f[i - 1], w[i])
      BY <2>4 DEF LinesUpTo
    <3>2. \A i \in 0..n : i # 0 => g[i - 1] = f[i - 1]
      BY <2>3
    <3>3. \A i \in 0..n : g[i] = IF i = 0 THEN <<>>
                      ELSE IF w[i] = Blank THEN g[i - 1] ELSE Append(g[i - 1], w[i])
      BY <2>2, <2>3, <3>1, <3>2
    <3> HIDE DEF g
    <3>4. g = [i \in 0..n |-> g[i]]
      BY DEF g
    <3> QED
      BY <3>3, <3>4 DEF LinesUpTo
  <2> QED
    BY <2>5
<1>3. PICK f : f = [i \in 0..Len(w) |-> IF i = 0 THEN <<>>
                      ELSE IF w[i] = Blank THEN f[i - 1] ELSE Append(f[i - 1], w[i])]
               /\ Lines(w) = f[Len(w)]
  <2>1. \E f : LinesUpTo(w, Len(w), f)
    BY <1>1, <1>2
  <2> QED
    BY <2>1 DEF Lines, LinesUpTo
<1>5. \A i \in 0..Len(w) : f[i] = IF i = 0 THEN <<>>
                      ELSE IF w[i] = Blank THEN f[i - 1] ELSE Append(f[i - 1], w[i])
  BY <1>3, Zenon
<1> DEFINE Odd == {n \in 0..Len(w) : f[n] \notin Seq(Msgs)}
<1>4. Odd = {}
  <2> SUFFICES ASSUME Odd # {} PROVE FALSE
    OBVIOUS
  <2>0. Odd \in SUBSET Nat
    BY <1>1
  <2>1. PICK n \in Odd : \A m \in Odd : n <= m
    <3> HIDE DEF Odd
    <3> QED
      BY <2>0, LeastNatural
  <2>2. n # 0
    <3>1. f[0] = <<>>
      BY <1>1, <1>5
    <3>2. f[0] \in Seq(Msgs)
      BY <3>1
    <3> QED
      BY <2>1, <3>2
  <2>3. n - 1 \in 0..Len(w) /\ f[n - 1] \in Seq(Msgs) /\ n \in 1..Len(w)
    BY <1>1, <2>1, <2>2
  <2>4. f[n] = IF w[n] = Blank THEN f[n - 1] ELSE Append(f[n - 1], w[n])
    BY <1>5, <2>1, <2>2
  <2>5. f[n] \in Seq(Msgs)
    BY <1>1, <2>3, <2>4
  <2> QED
    BY <2>1, <2>5
<1>6. Len(w) \in 0..Len(w)
  BY <1>1
<1>7. f[Len(w)] \in Seq(Msgs)
  BY <1>4, <1>6
<1> QED
  BY <1>3, <1>7

-----------------------------------------------------------------------------
(* The tree of handlers.                                                   *)

(***************************************************************************)
(* Parents exist and lead to the root: no set of handlers without it is    *)
(* closed under parent.                                                    *)
(***************************************************************************)
Family ==
  /\ parent[Root] = None
  /\ \A h \in Handlers : parent[h] # None => Made(parent[h])
  /\ \A S \in SUBSET Handlers :
       S # {} /\ Root \notin S /\ (\A h \in S : Made(h)) => \E h \in S : parent[h] \notin S

\* TestHandler.root ends, and ends at the root.
LEMMA RootIsFound ==
  ASSUME Types, Family, NEW h \in Handlers, Made(h)
  PROVE  RootOf(h) = Root
<1> USE TestLogAssumption
<1>1. \A g \in Handlers : parent[g] # None => parent[g] \in Handlers
  BY DEF Types, Opt
<1>2. PICK f : f = [g \in Handlers |-> IF Made(g) THEN Root ELSE g]
  OBVIOUS
<1>3. \A g \in Handlers : f[g] = IF parent[g] = None THEN g ELSE f[parent[g]]
  BY <1>1, <1>2 DEF Made, Family
<1>4. f = [g \in Handlers |-> IF parent[g] = None THEN g ELSE f[parent[g]]]
  <2>1. f = [g \in Handlers |-> f[g]]
    BY <1>2
  <2> QED
    BY <1>3, <2>1
<1>5. PICK up : /\ up = [g \in Handlers |-> IF parent[g] = None THEN g ELSE up[parent[g]]]
                /\ RootOf(h) = up[h]
  <2>1. \E up : up = [g \in Handlers |-> IF parent[g] = None THEN g ELSE up[parent[g]]]
    BY <1>4
  <2> QED
    BY <2>1 DEF RootOf
<1>6. \A g \in Handlers : up[g] = IF parent[g] = None THEN g ELSE up[parent[g]]
  BY <1>5, Zenon
<1>7. PICK S \in SUBSET Handlers : \A g \in Handlers : g \in S <=> Made(g) /\ up[g] # Root
  <2>1. {g \in Handlers : Made(g) /\ up[g] # Root} \in SUBSET Handlers
    OBVIOUS
  <2> QED
    BY <2>1
<1>8. Root \notin S
  BY <1>6, <1>7 DEF Family
<1>9. \A g \in S : parent[g] \in S
  <2> SUFFICES ASSUME NEW g \in S PROVE parent[g] \in S
    OBVIOUS
  <2>1. g \in Handlers /\ Made(g) /\ up[g] # Root /\ g # Root
    BY <1>7, <1>8
  <2>2. parent[g] # None /\ parent[g] \in Handlers /\ Made(parent[g])
    BY <1>1, <2>1 DEF Made, Family
  <2>3. up[g] = up[parent[g]]
    BY <1>6, <2>1, <2>2
  <2> QED
    BY <1>7, <2>1, <2>2, <2>3
<1>10. S = {}
  <2>1. \A g \in S : Made(g)
    BY <1>7
  <2> QED
    BY <1>8, <1>9, <2>1 DEF Family
<1> QED
  BY <1>5, <1>7, <1>10

\* A handler that is derived is a leaf.
LEMMA FamilyGrows ==
  ASSUME Types, Family, NEW h \in Handlers, NEW c \in Handlers, Made(h), ~Made(c),
         parent' = [parent EXCEPT ![c] = h]
  PROVE  Family'
<1> USE TestLogAssumption
<1>1. /\ \A g \in Handlers : parent'[g] = IF g = c THEN h ELSE parent[g]
      /\ h # None /\ c # Root /\ c # h /\ \A g \in Handlers : parent[g] # None => parent[g] # c
  BY DEF Types, Made, Family
<1>2. \A g \in Handlers : Made(g)' <=> Made(g) \/ g = c
  BY <1>1 DEF Made
<1>3. \A g, f \in Handlers : parent'[g] = f => Made(f)'
  BY <1>1, <1>2 DEF Family
<1>5. \A g \in Handlers : parent'[g] # None => \E f \in Handlers : parent'[g] = f
  BY <1>1 DEF Types, Opt
<1>6. \A g \in Handlers : parent'[g] # None => parent'[g] = Root \/ parent'[parent'[g]] # None
  BY <1>3, <1>5 DEF Made
<1>4. ASSUME NEW S \in SUBSET Handlers, S # {}, Root \notin S, \A g \in S : Made(g)'
      PROVE  \E g \in S : parent'[g] \notin S
  <2>1. CASE S \subseteq {c}
    BY <1>1, <1>4, <2>1
  <2>2. CASE ~ (S \subseteq {c})
    <3>1. PICK T \in SUBSET Handlers : T = S \ {c}
      OBVIOUS
    <3>2. T # {} /\ Root \notin T /\ \A g \in T : Made(g)
      BY <1>2, <1>4, <2>2, <3>1
    <3>3. PICK g \in T : parent[g] \notin T
      BY <3>2 DEF Family
    <3>4. g \in S /\ g \in Handlers /\ parent'[g] = parent[g] /\ parent[g] # c
      BY <1>1, <3>1, <3>2, <3>3 DEF Made
    <3> QED
      BY <3>1, <3>3, <3>4
  <2> QED
    BY <2>1, <2>2
<1> QED
  BY <1>1, <1>4, <1>6 DEF Family, Made

-----------------------------------------------------------------------------
(* The entries of one goroutine.                                           *)

Count(p) == Cardinality(By(p))

\* What a new entry makes of the ranks of its goroutine's.
Ranked(p, e, n) ==
  /\ n \notin By(p) /\ By(p)' = By(p) \cup {n} /\ Count(p)' = Count(p) + 1
  /\ entries'[Root][n] = e /\ Rank(p, n)' = Count(p) + 1
  /\ \A q \in Procs \ {p} : By(q)' = By(q)
  /\ \A q \in Procs : \A i \in By(q) :
       Rank(q, i)' = Rank(q, i) /\ entries'[Root][i] = entries[Root][i]

LEMMA RanksGrow ==
  ASSUME Types, NEW p \in Procs, NEW e \in Record, e.by = p,
         entries' = [entries EXCEPT ![Root] = Append(@, e)],
         NEW n \in Nat, n = Len(entries[Root]) + 1
  PROVE  Ranked(p, e, n)
<1>1. /\ entries[Root] \in Seq(Record) /\ Len(entries[Root]) = n - 1
      /\ entries'[Root] = Append(entries[Root], e)
  BY TestLogAssumption DEF Types
<1>2. /\ Len(entries'[Root]) = n /\ n >= 1 /\ entries'[Root][n] = e
      /\ \A i \in 1..(n - 1) : entries'[Root][i] = entries[Root][i]
  BY <1>1
<1>3. \A q \in Procs : By(q) \subseteq 1..(n - 1) /\ n \notin By(q)
  BY <1>1 DEF By
<1>4. By(p)' = By(p) \cup {n}
  BY <1>1, <1>2 DEF By
<1>5. \A q \in Procs \ {p} : By(q)' = By(q)
  BY <1>1, <1>2 DEF By
<1>6. IsFiniteSet(By(p))
  <2>1. IsFiniteSet(1..(n - 1))
    BY <1>2, FS_Interval
  <2> QED
    BY <1>3, <2>1, FS_Subset
<1>7. Count(p)' = Count(p) + 1
  <2>1. Cardinality(By(p) \cup {n}) = Cardinality(By(p)) + 1
    BY <1>3, <1>6, FS_AddElement
  <2> QED
    BY <1>4, <2>1 DEF Count
<1>8. ASSUME NEW q \in Procs, NEW i \in By(q)
      PROVE  Rank(q, i)' = Rank(q, i) /\ entries'[Root][i] = entries[Root][i]
  <2>1. {j \in By(q)' : j <= i} = {j \in By(q) : j <= i}
    BY <1>3, <1>4, <1>5, <1>8
  <2> QED
    BY <1>2, <1>3, <2>1 DEF Rank
<1>9. Rank(p, n)' = Count(p) + 1
  <2>1. {j \in By(p)' : j <= n} = By(p)'
    BY <1>3, <1>4
  <2> QED
    BY <1>7, <2>1 DEF Rank, Count
<1>10. \A q \in Procs : \A i \in By(q) :
         Rank(q, i)' = Rank(q, i) /\ entries'[Root][i] = entries[Root][i]
  BY <1>8
<1> QED
  BY <1>2, <1>3, <1>4, <1>5, <1>7, <1>9, <1>10 DEF Ranked

-----------------------------------------------------------------------------
(* What is captured.                                                       *)

\* Whether the head of todo is captured already.
Done(p) == IF pc[p] = "filter" THEN 1 ELSE 0

\* The attribute a handler adds is the one given last on the way to it.
Attributes == \A h \in Handlers : attrs[h] = Inherited(h)

\* What a goroutine was told to log is what it has captured, then what it has
\* still to do.
Flow ==
  \A p \in Procs :
    /\ pc[p] = "idle" => todo[p] = <<>>
    /\ pc[p] # "idle" => todo[p] # <<>> /\ Made(via[p])
    /\ Count(p) \in Nat /\ Len(logged[p]) = Count(p) + Len(todo[p]) - Done(p)
    /\ \A k \in 1..Len(todo[p]) : k > Done(p) =>
         logged[p][Count(p) + k - Done(p)] =
           [by |-> p, msg |-> todo[p][k], attr |-> Over(own[p], attrs[via[p]])]

Captured ==
  \A p \in Procs : \A i \in By(p) :
    Rank(p, i) \in 1..Count(p) /\ entries[Root][i] = logged[p][Rank(p, i)]

LogInv == Types /\ Family /\ Attributes /\ Flow /\ Captured

\* A handler is derived.
LEMMA DeriveStep ==
  ASSUME LogInv, NEW h \in Handlers, NEW c \in Handlers,
         WithGroup(h, c) \/ \E v \in Vals : WithAttrs(h, c, v)
  PROVE  LogInv'
<1> USE TestLogAssumption DEF LogInv
<1>1. PICK v \in Opt(Vals), values \in Seq(Vals) :
         /\ Derive(h, c, v, values)
         /\ v = IF values = <<>> THEN None ELSE values[Len(values)]
  <2>1. CASE WithGroup(h, c)
    <3>1. attrs[h] \in Opt(Vals) /\ chain[h] \in Seq(Vals) /\ attrs[h] = Inherited(h)
      BY DEF Types, Attributes
    <3> QED
      BY <2>1, <3>1 DEF WithGroup, Inherited
  <2>2. ASSUME NEW v \in Vals, WithAttrs(h, c, v)
        PROVE  \E u \in Opt(Vals), values \in Seq(Vals) :
                 /\ Derive(h, c, u, values)
                 /\ u = IF values = <<>> THEN None ELSE values[Len(values)]
    <3>1. NewAttrs(h, v) = v /\ v \in Opt(Vals)
      BY DEF NewAttrs, Over, Opt
    <3>2. PICK old \in Seq(Vals) : old = chain[h]
      BY DEF Types
    <3>3. /\ Append(old, v) \in Seq(Vals) /\ Append(old, v) # <<>>
          /\ Append(old, v)[Len(Append(old, v))] = v
      OBVIOUS
    <3> QED
      BY <2>2, <3>1, <3>2, <3>3 DEF WithAttrs
  <2> QED
    BY <2>1, <2>2
<1>2. /\ Made(h) /\ ~Made(c) /\ parent' = [parent EXCEPT ![c] = h]
      /\ attrs' = [attrs EXCEPT ![c] = v] /\ chain' = [chain EXCEPT ![c] = values]
      /\ UNCHANGED <<entries, filter, pc, via, todo, own, logged>>
  BY <1>1 DEF Derive
<1>3. Types'
  BY <1>2 DEF Types, Opt
<1>4. Family'
  BY <1>2, FamilyGrows
<1>5. Attributes'
  BY <1>1, <1>2 DEF Attributes, Inherited, Types
<1>6. \A p \in Procs : /\ By(p)' = By(p) /\ Count(p)' = Count(p) /\ Done(p)' = Done(p)
                       /\ \A i \in By(p) : Rank(p, i)' = Rank(p, i)
  BY <1>2 DEF By, Count, Done, Rank
<1>7. \A p \in Procs : pc[p] # "idle" => via[p] \in Handlers /\ attrs'[via[p]] = attrs[via[p]]
  BY <1>2 DEF Flow, Types
<1>8. \A g \in Handlers : Made(g) => Made(g)'
  BY <1>2 DEF Types, Made
<1>9. Flow'
  <2> SUFFICES ASSUME NEW p \in Procs
               PROVE  /\ pc[p] = "idle" => todo[p] = <<>>
                      /\ pc[p] # "idle" => todo[p] # <<>> /\ Made(via[p])'
                      /\ Count(p) \in Nat /\ Len(logged[p]) = Count(p) + Len(todo[p]) - Done(p)
                      /\ \A k \in 1..Len(todo[p]) : k > Done(p) =>
                           logged[p][Count(p) + k - Done(p)] =
                             [by |-> p, msg |-> todo[p][k], attr |-> Over(own[p], attrs'[via[p]])]
    BY <1>2, <1>6 DEF Flow
  <2>1. CASE pc[p] = "idle"
    BY <2>1 DEF Flow
  <2>2. CASE pc[p] # "idle"
    BY <1>2, <1>7, <1>8, <2>2 DEF Flow
  <2> QED
    BY <2>1, <2>2
<1>10. Captured'
  BY <1>2, <1>6 DEF Captured
<1> QED
  BY <1>3, <1>4, <1>5, <1>9, <1>10

\* A goroutine is told what to log.
LEMMA StartStep ==
  ASSUME LogInv, NEW p \in Procs, NEW h \in Handlers, NEW ms \in Seq(Msgs),
         NEW v \in Opt(Vals), Start(p, h, ms, v)
  PROVE  LogInv'
<1> USE TestLogAssumption
<1>1. Types /\ Family /\ Attributes /\ Flow /\ Captured
  BY DEF LogInv
<1>2. PICK told \in Seq(Record) :
         told = [i \in 1..Len(ms) |-> [by |-> p, msg |-> ms[i], attr |-> Over(v, Inherited(h))]]
  <2>1. Over(v, Inherited(h)) \in Opt(Vals)
    BY <1>1 DEF Over, Attributes, Types, Opt
  <2>2. \A i \in 1..Len(ms) : ms[i] \in Msgs
    OBVIOUS
  <2>3. \A i \in 1..Len(ms) : [by |-> p, msg |-> ms[i], attr |-> Over(v, Inherited(h))] \in Record
    BY <2>1, <2>2 DEF Record
  <2> PICK n \in Nat : n = Len(ms)
    OBVIOUS
  <2>4. PICK told : told = [i \in 1..n |-> [by |-> p, msg |-> ms[i],
                                          attr |-> Over(v, Inherited(h))]]
    OBVIOUS
  <2>5. \A i \in 1..n : told[i] \in Record
    BY <2>3, <2>4
  <2>6. told = [i \in 1..n |-> told[i]]
    BY <2>4
  <2>7. told \in [1..n -> Record]
    BY <2>5, <2>6
  <2>8. told \in Seq(Record)
    BY <2>7, SeqDef
  <2> QED
    BY <2>4, <2>8
<1>3. /\ Made(h) /\ pc[p] = "idle" /\ todo[p] = <<>>
      /\ via' = [via EXCEPT ![p] = h] /\ own' = [own EXCEPT ![p] = v]
      /\ todo' = [todo EXCEPT ![p] = ms]
      /\ pc' = [pc EXCEPT ![p] = IF ms = <<>> THEN "idle" ELSE "capture"]
      /\ logged' = [logged EXCEPT ![p] = @ \o told]
      /\ UNCHANGED <<parent, attrs, entries, filter, chain>>
  BY <1>1, <1>2 DEF Start, Flow
<1>4. PICK old \in Seq(Record) : old = logged[p]
  BY <1>1 DEF Types
<1>5. /\ logged'[p] = old \o told /\ old \o told \in Seq(Record)
      /\ Len(told) = Len(ms) /\ Len(old \o told) = Len(old) + Len(ms)
      /\ \A k \in 1..Len(old) : (old \o told)[k] = old[k]
      /\ \A k \in 1..Len(ms) : (old \o told)[Len(old) + k] = told[k]
  <2>1. logged'[p] = old \o told
    BY <1>1, <1>3, <1>4 DEF Types
  <2>2. Len(told) = Len(ms) /\ Len(ms) \in Nat
    BY <1>2
  <2>3. /\ old \o told \in Seq(Record) /\ Len(old \o told) = Len(old) + Len(told)
        /\ \A i \in 1..Len(old) + Len(told) :
             (old \o told)[i] = IF i <= Len(old) THEN old[i] ELSE told[i - Len(old)]
    BY ConcatProperties
  <2>4. Len(old) \in Nat
    OBVIOUS
  <2> QED
    BY <2>1, <2>2, <2>3, <2>4
<1>6. Types'
  BY <1>1, <1>3, <1>4, <1>5 DEF Types
<1>7. Family' /\ Attributes'
  BY <1>1, <1>3 DEF Family, Attributes, Made, Inherited
<1>8. \A q \in Procs : /\ By(q)' = By(q) /\ Count(q)' = Count(q)
                       /\ \A i \in By(q) : Rank(q, i)' = Rank(q, i)
  BY <1>3 DEF By, Count, Rank
<1>9. /\ Count(p) = Len(old) /\ Done(p) = 0 /\ Count(p) \in Nat /\ Done(p)' = 0
  <2>1. Len(todo[p]) = 0
    BY <1>3
  <2>2. Count(p) \in Nat /\ Len(logged[p]) = Count(p) + Len(todo[p]) - Done(p)
    BY <1>1 DEF Flow
  <2>3. Done(p) = 0 /\ Done(p)' = 0
    BY <1>1, <1>3 DEF Done, Types
  <2> QED
    BY <1>4, <2>1, <2>2, <2>3
<1>10. ASSUME NEW q \in Procs
       PROVE  /\ pc'[q] = "idle" => todo'[q] = <<>>
              /\ pc'[q] # "idle" => todo'[q] # <<>> /\ Made(via'[q])
              /\ Count(q) \in Nat /\ Len(logged'[q]) = Count(q) + Len(todo'[q]) - Done(q)'
              /\ \A k \in 1..Len(todo'[q]) : k > Done(q)' =>
                   logged'[q][Count(q) + k - Done(q)'] =
                     [by |-> q, msg |-> todo'[q][k], attr |-> Over(own'[q], attrs[via'[q]])]
  <2>1. CASE q # p
    <3>1. /\ pc'[q] = pc[q] /\ todo'[q] = todo[q] /\ via'[q] = via[q] /\ own'[q] = own[q]
          /\ logged'[q] = logged[q] /\ Done(q)' = Done(q)
      BY <1>1, <1>3, <2>1 DEF Types, Done
    <3> QED
      BY <1>1, <3>1 DEF Flow
  <2>2. CASE q = p
    <3>1. /\ pc'[p] = (IF ms = <<>> THEN "idle" ELSE "capture") /\ todo'[p] = ms
          /\ via'[p] = h /\ own'[p] = v
      BY <1>1, <1>3 DEF Types
    <3>2. attrs[h] = Inherited(h)
      BY <1>1 DEF Attributes
    <3>3. \A k \in 1..Len(ms) :
            told[k] = [by |-> p, msg |-> ms[k], attr |-> Over(v, attrs[h])]
      BY <1>2, <3>2
    <3>4. \A k \in 1..Len(ms) : logged'[p][Count(p) + k - 0] = told[k]
      BY <1>5, <1>9
    <3>5. Len(logged'[p]) = Count(p) + Len(ms) - 0
      BY <1>5, <1>9
    <3>6. /\ pc'[p] = "idle" => todo'[p] = <<>>
          /\ pc'[p] # "idle" => todo'[p] # <<>> /\ Made(via'[p])
      BY <1>3, <3>1
    <3>7. Len(logged'[p]) = Count(p) + Len(todo'[p]) - Done(p)'
      BY <1>9, <3>1, <3>5
    <3>8. \A k \in 1..Len(todo'[p]) :
            logged'[p][Count(p) + k - Done(p)'] =
              [by |-> p, msg |-> todo'[p][k], attr |-> Over(own'[p], attrs[via'[p]])]
      BY <1>9, <3>1, <3>3, <3>4
    <3> QED
      BY <1>9, <2>2, <3>6, <3>7, <3>8
  <2> QED
    BY <2>1, <2>2
<1>11. Flow'
  <2>1. parent' = parent /\ attrs' = attrs
    BY <1>3
  <2>2. \A q \in Procs : Made(via'[q]) <=> Made(via[q])'
    BY <2>1 DEF Made
  <2> QED
    BY <1>8, <1>10, <2>1, <2>2 DEF Flow
<1>12. Captured'
  <2>1. ASSUME NEW q \in Procs, NEW i \in By(q)
        PROVE  Rank(q, i) \in 1..Count(q) /\ entries[Root][i] = logged'[q][Rank(q, i)]
    <3>1. Rank(q, i) \in 1..Count(q) /\ entries[Root][i] = logged[q][Rank(q, i)]
      BY <1>1 DEF Captured
    <3>2. CASE q = p
      BY <1>4, <1>5, <1>9, <3>1, <3>2
    <3>3. CASE q # p
      BY <1>1, <1>3, <3>1, <3>3 DEF Types
    <3> QED
      BY <3>2, <3>3
  <2>2. ASSUME NEW q \in Procs, NEW i \in By(q)
        PROVE  Rank(q, i)' \in 1..Count(q)' /\ entries'[Root][i] = logged'[q][Rank(q, i)']
    <3>1. Rank(q, i)' = Rank(q, i) /\ Count(q)' = Count(q) /\ entries' = entries
      BY <1>3, <1>8
    <3> QED
      BY <2>1, <3>1
  <2> QED
    BY <1>8, <2>2 DEF Captured
<1> QED
  BY <1>6, <1>7, <1>11, <1>12 DEF LogInv

\* Handle captures the line at the head of todo.
LEMMA CaptureStep ==
  ASSUME LogInv, NEW p \in Procs, Capture(p)
  PROVE  LogInv'
<1> USE TestLogAssumption
<1>1. Types /\ Family /\ Attributes /\ Flow /\ Captured
  BY DEF LogInv
<1>2. /\ pc[p] = "capture" /\ pc' = [pc EXCEPT ![p] = "filter"]
      /\ UNCHANGED <<parent, attrs, filter, via, todo, own, chain, logged>>
  BY DEF Capture, Goto
<1>3. /\ Made(via[p]) /\ via[p] \in Handlers /\ todo[p] \in Seq(Msgs) /\ todo[p] # <<>>
      /\ Done(p) = 0 /\ Count(p) \in Nat /\ Len(logged[p]) = Count(p) + Len(todo[p])
  BY <1>1, <1>2 DEF Flow, Types, Done
<1>4. PICK e \in Record :
         e = [by |-> p, msg |-> Head(todo[p]), attr |-> Over(own[p], attrs[via[p]])]
  <2>1. Head(todo[p]) \in Msgs /\ Over(own[p], attrs[via[p]]) \in Opt(Vals)
    BY <1>1, <1>3 DEF Types, Over
  <2> QED
    BY <2>1 DEF Record
<1>5. entries' = [entries EXCEPT ![Root] = Append(@, e)]
  BY <1>1, <1>3, <1>4, RootIsFound DEF Capture
<1>6. PICK n \in Nat : n = Len(entries[Root]) + 1
  BY <1>1 DEF Types
<1>7. e.by = p
  BY <1>4
<1>8. /\ n \notin By(p) /\ By(p)' = By(p) \cup {n} /\ Count(p)' = Count(p) + 1
      /\ entries'[Root][n] = e /\ Rank(p, n)' = Count(p) + 1
      /\ \A q \in Procs \ {p} : By(q)' = By(q)
      /\ \A q \in Procs : \A i \in By(q) :
           Rank(q, i)' = Rank(q, i) /\ entries'[Root][i] = entries[Root][i]
  <2>1. Types
    BY <1>1
  <2>2. Ranked(p, e, n)
    BY <1>5, <1>6, <1>7, <2>1, RanksGrow
  <2> QED
    BY <2>2 DEF Ranked
<1>9. Types'
  <2>1. entries' \in [Handlers -> Seq(Record)]
    BY <1>1, <1>5 DEF Types
  <2> QED
    BY <1>1, <1>2, <2>1 DEF Types
<1>10. Family' /\ Attributes'
  BY <1>1, <1>2 DEF Family, Attributes, Made, Inherited
<1>11. \A q \in Procs \ {p} : Count(q)' = Count(q) /\ Done(q)' = Done(q) /\ pc'[q] = pc[q]
  BY <1>1, <1>2, <1>8 DEF Count, Done, Types
<1>12. logged[p][Count(p) + 1] = e
  <2>1. 1 \in 1..Len(todo[p]) /\ Head(todo[p]) = todo[p][1]
    BY <1>3
  <2>2. logged[p][Count(p) + 1 - Done(p)] =
          [by |-> p, msg |-> todo[p][1], attr |-> Over(own[p], attrs[via[p]])]
    BY <1>1, <1>3, <2>1 DEF Flow
  <2> QED
    BY <1>3, <1>4, <2>1, <2>2
<1>13. pc'[p] = "filter" /\ Done(p)' = 1
  BY <1>1, <1>2 DEF Types, Done
<1>14. ASSUME NEW q \in Procs
       PROVE  /\ pc'[q] = "idle" => todo[q] = <<>>
              /\ pc'[q] # "idle" => todo[q] # <<>> /\ Made(via[q])
              /\ Count(q)' \in Nat /\ Len(logged[q]) = Count(q)' + Len(todo[q]) - Done(q)'
              /\ \A k \in 1..Len(todo[q]) : k > Done(q)' =>
                   logged[q][Count(q)' + k - Done(q)'] =
                     [by |-> q, msg |-> todo[q][k], attr |-> Over(own[q], attrs[via[q]])]
  <2>1. CASE q # p
    BY <1>1, <1>11, <2>1 DEF Flow
  <2>2. CASE q = p
    <3>1. Len(todo[p]) \in Nat
      BY <1>3
    <3>2. Count(p)' \in Nat /\ Len(logged[p]) = Count(p)' + Len(todo[p]) - Done(p)'
      BY <1>3, <1>8, <1>13, <3>1
    <3>3. \A k \in 1..Len(todo[p]) :
            logged[p][Count(p) + k - Done(p)] =
              [by |-> p, msg |-> todo[p][k], attr |-> Over(own[p], attrs[via[p]])]
      BY <1>1, <1>3 DEF Flow
    <3>4. \A k \in 1..Len(todo[p]) : Count(p)' + k - Done(p)' = Count(p) + k - Done(p)
      BY <1>3, <1>8, <1>13, <3>1
    <3>5. \A k \in 1..Len(todo[p]) :
            logged[p][Count(p)' + k - Done(p)'] =
              [by |-> p, msg |-> todo[p][k], attr |-> Over(own[p], attrs[via[p]])]
      BY <3>3, <3>4
    <3> QED
      BY <1>3, <1>13, <2>2, <3>2, <3>5
  <2> QED
    BY <2>1, <2>2
<1>15. Flow'
  BY <1>2, <1>14 DEF Flow, Made
<1>16. ASSUME NEW q \in Procs, NEW i \in By(q)'
       PROVE  Rank(q, i)' \in 1..Count(q)' /\ entries'[Root][i] = logged[q][Rank(q, i)']
  <2>1. CASE i \in By(q)
    <3>1. Rank(q, i) \in 1..Count(q) /\ entries[Root][i] = logged[q][Rank(q, i)]
      BY <1>1, <2>1 DEF Captured
    <3>2. Rank(q, i)' = Rank(q, i) /\ entries'[Root][i] = entries[Root][i]
      BY <1>8, <2>1
    <3>3. Count(q) \in Nat /\ Count(q)' \in {Count(q), Count(q) + 1}
      BY <1>1, <1>8, <1>11 DEF Flow
    <3> QED
      BY <3>1, <3>2, <3>3
  <2>2. CASE i \notin By(q)
    <3>1. q = p /\ i = n
      BY <1>8, <1>16, <2>2
    <3>2. Rank(p, n)' = Count(p) + 1 /\ Count(p)' = Count(p) + 1 /\ entries'[Root][n] = e
      BY <1>8
    <3>3. Rank(p, n)' \in 1..Count(p)' /\ entries'[Root][n] = logged[p][Rank(p, n)']
      BY <1>3, <1>12, <3>2
    <3> QED
      BY <3>1, <3>3
  <2> QED
    BY <2>1, <2>2
<1>17. Captured'
  BY <1>2, <1>16 DEF Captured
<1> QED
  BY <1>9, <1>10, <1>15, <1>17 DEF LogInv

\* Handle ends and the goroutine goes on to its next line.
LEMMA FilterStep ==
  ASSUME LogInv, NEW p \in Procs, CallFilter(p)
  PROVE  LogInv'
<1> USE TestLogAssumption
<1>1. Types /\ Family /\ Attributes /\ Flow /\ Captured
  BY DEF LogInv
<1>2. PICK done \in BOOLEAN :
        /\ done <=> Len(todo[p]) = 1
        /\ pc[p] = "filter" /\ pc' = [pc EXCEPT ![p] = IF done THEN "idle" ELSE "capture"]
        /\ filter' = [filter EXCEPT ![RootOf(via[p])] = TRUE]
        /\ todo' = [todo EXCEPT ![p] = Tail(@)]
        /\ via'  = [via EXCEPT ![p] = IF done THEN Root ELSE @]
        /\ own'  = [own EXCEPT ![p] = IF done THEN None ELSE @]
        /\ UNCHANGED <<parent, attrs, entries, chain, logged>>
  BY DEF CallFilter, Goto
<1>3. /\ Made(via[p]) /\ via[p] \in Handlers /\ todo[p] \in Seq(Msgs) /\ todo[p] # <<>>
      /\ Done(p) = 1 /\ Count(p) \in Nat /\ Len(logged[p]) = Count(p) + Len(todo[p]) - 1
  BY <1>1, <1>2 DEF Flow, Types, Done
<1>4. /\ Tail(todo[p]) \in Seq(Msgs) /\ Len(Tail(todo[p])) = Len(todo[p]) - 1
      /\ Len(todo[p]) \in Nat
      /\ \A k \in 1..Len(Tail(todo[p])) : k + 1 \in 1..Len(todo[p])
      /\ \A k \in 1..Len(Tail(todo[p])) : Tail(todo[p])[k] = todo[p][k + 1]
      /\ done <=> (Tail(todo[p]) = <<>>)
  <2> PICK q \in Seq(Msgs) : q = todo[p]
    BY <1>3
  <2>0. q # <<>>
    BY <1>3
  <2>1. /\ Tail(q) \in Seq(Msgs) /\ Len(q) \in Nat /\ Len(q) >= 1 /\ Len(Tail(q)) = Len(q) - 1
        /\ \A k \in 1..Len(Tail(q)) : Tail(q)[k] = q[k + 1]
    BY <2>0, HeadTailProperties
  <2>2. \A k \in 1..Len(Tail(q)) : k + 1 \in 1..Len(q)
    BY <2>1
  <2>3. (Tail(q) = <<>>) <=> (Len(q) = 1)
    <3>1. Tail(q) # <<>> => Len(Tail(q)) \in Nat \ {0}
      BY <2>1, EmptySeq
    <3>2. Tail(q) = <<>> => Len(Tail(q)) = 0
      OBVIOUS
    <3> QED
      BY <2>1, <3>1, <3>2
  <2> QED
    BY <1>2, <2>1, <2>2, <2>3
<1>5. Types'
  BY <1>1, <1>2, <1>4 DEF Types, Opt
<1>6. Family' /\ Attributes'
  BY <1>1, <1>2 DEF Family, Attributes, Made, Inherited
<1>7. \A q \in Procs : /\ By(q)' = By(q) /\ Count(q)' = Count(q)
                       /\ \A i \in By(q) : Rank(q, i)' = Rank(q, i)
  BY <1>2 DEF By, Count, Rank
<1>8. /\ pc'[p] = (IF done THEN "idle" ELSE "capture") /\ Done(p)' = 0
      /\ todo'[p] = Tail(todo[p]) /\ logged' = logged /\ attrs' = attrs
      /\ ~done => via'[p] = via[p] /\ own'[p] = own[p]
  BY <1>1, <1>2 DEF Types, Done
<1>9. ASSUME NEW q \in Procs
       PROVE  /\ pc'[q] = "idle" => todo'[q] = <<>>
              /\ pc'[q] # "idle" => todo'[q] # <<>> /\ Made(via'[q])
              /\ Count(q) \in Nat /\ Len(logged[q]) = Count(q) + Len(todo'[q]) - Done(q)'
              /\ \A k \in 1..Len(todo'[q]) : k > Done(q)' =>
                   logged[q][Count(q) + k - Done(q)'] =
                     [by |-> q, msg |-> todo'[q][k], attr |-> Over(own'[q], attrs[via'[q]])]
  <2>1. CASE q # p
    <3>1. /\ pc'[q] = pc[q] /\ todo'[q] = todo[q] /\ via'[q] = via[q] /\ own'[q] = own[q]
          /\ Done(q)' = Done(q)
      BY <1>1, <1>2, <2>1 DEF Types, Done
    <3> QED
      BY <1>1, <3>1 DEF Flow
  <2>2. CASE q = p
    <3>1. /\ pc'[p] = "idle" => todo'[p] = <<>>
          /\ pc'[p] # "idle" => todo'[p] # <<>> /\ Made(via'[p])
      BY <1>3, <1>4, <1>8
    <3>2. Len(logged[p]) = Count(p) + Len(todo'[p]) - Done(p)'
      BY <1>3, <1>4, <1>8
    <3>3. ASSUME NEW k \in 1..Len(todo'[p])
          PROVE  logged[p][Count(p) + k - Done(p)'] =
                   [by |-> p, msg |-> todo'[p][k], attr |-> Over(own'[p], attrs[via'[p]])]
      <4>1. k + 1 \in 1..Len(todo[p]) /\ k + 1 > Done(p) /\ todo'[p][k] = todo[p][k + 1] /\ ~done
        <5>1. k \in 1..Len(Tail(todo[p])) /\ k \in Nat /\ Len(Tail(todo[p])) # 0
          BY <1>4, <1>8
        <5>2. ~done
          BY <1>2, <1>4, <5>1
        <5> QED
          BY <1>3, <1>4, <1>8, <5>1, <5>2
      <4>2. logged[p][Count(p) + (k + 1) - Done(p)] =
              [by |-> p, msg |-> todo[p][k + 1], attr |-> Over(own[p], attrs[via[p]])]
        BY <1>1, <4>1 DEF Flow
      <4>3. Count(p) + (k + 1) - Done(p) = Count(p) + k - Done(p)'
        <5>1. k \in Nat
          BY <1>4, <1>8
        <5> QED
          BY <1>3, <1>8, <5>1
      <4> QED
        BY <1>8, <4>1, <4>2, <4>3
    <3> QED
      BY <1>3, <2>2, <3>1, <3>2, <3>3
  <2> QED
    BY <2>1, <2>2
<1>10. Flow'
  BY <1>2, <1>7, <1>9 DEF Flow, Made
<1>11. Captured'
  BY <1>1, <1>2, <1>7 DEF Captured
<1> QED
  BY <1>5, <1>6, <1>10, <1>11 DEF LogInv

LEMMA LogInvStep == LogInv /\ [Next]_vars => LogInv'
<1> SUFFICES ASSUME LogInv, [Next]_vars PROVE LogInv'
  OBVIOUS
<1>1. ASSUME UNCHANGED logVars PROVE LogInv'
  <2>1. UNCHANGED <<Types, Family, Attributes, Flow, Captured>>
    BY <1>1 DEF logVars, Types, Family, Attributes, Flow, Captured, Made, Inherited, Count, By,
                Rank, Done
  <2> QED
    BY <2>1 DEF LogInv
<1>2. ASSUME NEW p \in Procs, NEW h \in Handlers,
             \/ \E m \in Msgs, v \in Vals \cup {None} : Log(p, h, m, v)
             \/ \E w \in Writes : Write(p, h, w)
      PROVE  LogInv'
  <2>1. ASSUME NEW m \in Msgs, NEW v \in Vals \cup {None}, Log(p, h, m, v) PROVE LogInv'
    <3>1. <<m>> \in Seq(Msgs)
      OBVIOUS
    <3> QED
      BY <2>1, <3>1, StartStep DEF Log, Opt
  <2>2. ASSUME NEW w \in Writes, Write(p, h, w) PROVE LogInv'
    <3>1. Lines(w) \in Seq(Msgs) /\ None \in Opt(Vals)
      BY LinesAreMessages DEF Opt
    <3> QED
      BY <2>2, <3>1, StartStep DEF Write
  <2> QED
    BY <1>2, <2>1, <2>2
<1>3. ASSUME NEW p \in Procs, Handle(p) PROVE LogInv'
  BY <1>3, CaptureStep, FilterStep DEF Handle
<1>4. ASSUME \/ \E t \in Timeouts : RequireEntry(t)
             \/ Waiter \/ Tick \/ UNCHANGED vars
      PROVE  LogInv'
  <2>1. UNCHANGED logVars
    BY <1>4 DEF RequireEntry, Waiter, Poll, CheckDeadline, WakeUp, Tick, vars
  <2> QED
    BY <1>1, <2>1
<1> QED
  BY <1>2, <1>3, <1>4, DeriveStep DEF Next

LEMMA LogInvInit == Init => LogInv
<1> SUFFICES ASSUME Init PROVE LogInv
  OBVIOUS
<1> USE TestLogAssumption
<1>1. Types
  BY DEF Init, Types, Opt
<1>2. Family
  <2>1. \A h \in Handlers : parent[h] = IF h = Logger THEN Root ELSE None
    BY DEF Init
  <2>2. \A h \in Handlers : Made(h) => h = Root \/ h = Logger
    BY <2>1 DEF Made
  <2> QED
    BY <2>1, <2>2 DEF Family, Made
<1>3. Attributes
  BY DEF Init, Attributes, Inherited
<1>4. \A p \in Procs : By(p) = {} /\ Count(p) = 0 /\ Done(p) = 0
  <2>1. \A p \in Procs : By(p) = {} /\ Done(p) = 0
    BY DEF Init, By, Done
  <2> QED
    BY <2>1, FS_EmptySet DEF Count
<1>5. Flow /\ Captured
  BY <1>4 DEF Init, Flow, Captured
<1> QED
  BY <1>1, <1>2, <1>3, <1>5 DEF LogInv

\* Through whatever tree of handlers any number of goroutines log, the root
\* captures what each was told to log: all of it once its calls have returned,
\* in its order, with the attributes of the whole chain.
THEOREM CapturedInFull == Spec => []NothingLost
<1>1. LogInv => NothingLost
  <2> SUFFICES ASSUME LogInv, NEW p \in Procs
               PROVE  /\ \A i \in By(p) : /\ Rank(p, i) <= Len(logged[p])
                                          /\ entries[Root][i] = logged[p][Rank(p, i)]
                      /\ pc[p] = "idle" => Cardinality(By(p)) = Len(logged[p])
    BY DEF NothingLost
  <2>1. /\ Count(p) \in Nat /\ Len(logged[p]) = Count(p) + Len(todo[p]) - Done(p)
        /\ todo[p] \in Seq(Msgs) /\ (pc[p] = "idle" <=> todo[p] = <<>>)
    BY DEF LogInv, Flow, Types
  <2>2. Len(logged[p]) >= Count(p) /\ (pc[p] = "idle" => Len(logged[p]) = Count(p))
    <3>1. CASE todo[p] = <<>>
      BY <2>1, <3>1 DEF Done
    <3>2. CASE todo[p] # <<>>
      <4>1. Len(todo[p]) \in Nat /\ Len(todo[p]) >= 1 /\ Done(p) \in {0, 1}
        BY <2>1, <3>2 DEF Done
      <4> QED
        BY <2>1, <3>2, <4>1
    <3> QED
      BY <3>1, <3>2
  <2>3. \A i \in By(p) : Rank(p, i) \in 1..Count(p) /\ entries[Root][i] = logged[p][Rank(p, i)]
    BY DEF LogInv, Captured
  <2> QED
    BY <2>1, <2>2, <2>3 DEF Count
<1> QED
  BY <1>1, LogInvInit, LogInvStep, PTL DEF Spec

-----------------------------------------------------------------------------
(* The test that waits.                                                    *)

\* FailureIsHonest, and what the polls before it have seen.
Waiting ==
  /\ now \in Int /\ deadline \in Int /\ before \in Nat /\ seen \in Nat
  /\ entries[Root] \in Seq(Record)
  /\ before <= Len(entries[Root]) /\ seen <= Len(entries[Root])
  /\ wpc \in {"check", "sleep", "failed"} =>
       seen >= before /\ \A i \in 1..seen : entries[Root][i].msg # Wanted
  /\ wpc = "failed" => now > deadline
  /\ wpc = "found" =>
       \E i \in 1..seen : /\ entries[Root][i] = result /\ result.msg = Wanted
                          /\ \A j \in 1..i - 1 : entries[Root][j].msg # Wanted

\* Entries are only appended.
LEMMA EntriesGrow ==
  ASSUME LogInv, [Next]_vars
  PROVE  /\ entries'[Root] \in Seq(Record) /\ Len(entries[Root]) <= Len(entries'[Root])
         /\ \A i \in 1..Len(entries[Root]) : entries'[Root][i] = entries[Root][i]
<1> USE TestLogAssumption
<1>1. entries[Root] \in Seq(Record) /\ entries'[Root] \in Seq(Record)
  BY LogInvStep DEF LogInv, Types
<1>2. ASSUME NEW p \in Procs, Capture(p)
      PROVE  \E e : entries'[Root] = Append(entries[Root], e)
  <2>1. pc[p] # "idle"
    BY <1>2 DEF Capture, Goto
  <2>2. RootOf(via[p]) = Root
    BY <2>1, RootIsFound DEF LogInv, Flow, Types
  <2> QED
    BY <1>2, <2>2 DEF Capture, LogInv, Types
<1>3. ASSUME ~ \E p \in Procs : Capture(p) PROVE entries' = entries
  <2>1. ASSUME NEW h \in Handlers, NEW c \in Handlers,
               WithGroup(h, c) \/ \E v \in Vals : WithAttrs(h, c, v)
        PROVE  entries' = entries
    BY <2>1 DEF WithGroup, WithAttrs, Derive
  <2>2. ASSUME NEW p \in Procs, NEW h \in Handlers,
               \/ \E m \in Msgs, v \in Vals \cup {None} : Log(p, h, m, v)
               \/ \E w \in Writes : Write(p, h, w)
        PROVE  entries' = entries
    BY <2>2 DEF Log, Write, Start
  <2>3. ASSUME NEW p \in Procs, Handle(p) PROVE entries' = entries
    BY <1>3, <2>3 DEF Handle, CallFilter
  <2>4. ASSUME (\E t \in Timeouts : RequireEntry(t)) \/ Waiter \/ Tick \/ UNCHANGED vars
        PROVE  entries' = entries
    BY <2>4 DEF RequireEntry, Waiter, Poll, CheckDeadline, WakeUp, Tick, vars, logVars
  <2> QED
    BY <2>1, <2>2, <2>3, <2>4 DEF Next
<1> QED
  BY <1>1, <1>2, <1>3

LEMMA WaitingStep == LogInv /\ Waiting /\ [Next]_vars => Waiting'
<1> SUFFICES ASSUME LogInv, Waiting, [Next]_vars PROVE Waiting'
  OBVIOUS
<1> USE TestLogAssumption
<1>1. /\ entries[Root] \in Seq(Record) /\ entries'[Root] \in Seq(Record)
      /\ Len(entries[Root]) \in Nat /\ Len(entries'[Root]) \in Nat
      /\ Len(entries[Root]) <= Len(entries'[Root])
      /\ \A i \in 1..Len(entries[Root]) : entries'[Root][i] = entries[Root][i]
  BY EntriesGrow DEF Waiting
<1>2. ASSUME UNCHANGED <<waitVars, now>> PROVE Waiting'
  <2>1. \A i \in 1..seen : i \in 1..Len(entries[Root])
    BY <1>1 DEF Waiting
  <2>2. \A i \in 1..seen : \A j \in 1..i - 1 : j \in 1..Len(entries[Root])
    BY <1>1 DEF Waiting
  <2>3. \A i \in 1..seen : entries'[Root][i] = entries[Root][i]
    BY <1>1, <2>1
  <2>4. \A i \in 1..seen : \A j \in 1..i - 1 : entries'[Root][j] = entries[Root][j]
    BY <1>1, <2>2
  <2>5. before <= Len(entries'[Root]) /\ seen <= Len(entries'[Root])
    BY <1>1 DEF Waiting
  <2> QED
    BY <1>1, <1>2, <2>3, <2>4, <2>5 DEF Waiting, waitVars
<1>3. ASSUME NEW t \in Timeouts, RequireEntry(t) PROVE Waiting'
  BY <1>1, <1>3 DEF Waiting, RequireEntry, logVars
<1>4. ASSUME Poll PROVE Waiting'
  <2>1. /\ seen' = Len(entries[Root]) /\ before' = before /\ now' = now /\ deadline' = deadline
        /\ entries' = entries
    BY <1>4 DEF Poll, logVars
  <2>2. CASE FindEntries(Root, Wanted) = {}
    <3>1. \A i \in 1..Len(entries[Root]) : entries[Root][i].msg # Wanted
      BY <2>2 DEF FindEntries
    <3>2. wpc' = "check"
      BY <1>4, <2>2 DEF Poll, FirstMatch
    <3> QED
      BY <1>1, <2>1, <3>1, <3>2 DEF Waiting
  <2>3. CASE FindEntries(Root, Wanted) # {}
    <3>1. PICK i \in FindEntries(Root, Wanted) :
             /\ \A j \in FindEntries(Root, Wanted) : i <= j
             /\ wpc' = "found" /\ result' = entries[Root][i]
      BY <1>4, <2>3 DEF Poll, FirstMatch
    <3>2. i \in 1..Len(entries[Root]) /\ entries[Root][i].msg = Wanted
      BY <3>1 DEF FindEntries
    <3>3. \A j \in 1..i - 1 : entries[Root][j].msg # Wanted
      <4>1. \A j \in 1..i - 1 : j \in 1..Len(entries[Root]) /\ ~ (i <= j)
        BY <1>1, <3>2
      <4> QED
        BY <3>1, <4>1 DEF FindEntries
    <3> QED
      BY <1>1, <2>1, <3>1, <3>2, <3>3 DEF Waiting
  <2> QED
    BY <2>2, <2>3
<1>5. ASSUME CheckDeadline \/ WakeUp PROVE Waiting'
  BY <1>1, <1>5 DEF Waiting, CheckDeadline, WakeUp, logVars
<1>6. ASSUME Tick PROVE Waiting'
  BY <1>1, <1>6 DEF Waiting, Tick, logVars, waitVars
<1>7. ASSUME \/ \E h, c \in Handlers : WithGroup(h, c) \/ \E v \in Vals : WithAttrs(h, c, v)
             \/ \E p \in Procs, h \in Handlers :
                  \/ \E m \in Msgs, v \in Vals \cup {None} : Log(p, h, m, v)
                  \/ \E w \in Writes : Write(p, h, w)
             \/ \E p \in Procs : Handle(p)
             \/ UNCHANGED vars
      PROVE  Waiting'
  <2>1. UNCHANGED <<waitVars, now>>
    BY <1>7 DEF WithGroup, WithAttrs, Derive, Log, Write, Start, Handle, Capture, CallFilter, vars
  <2> QED
    BY <1>2, <2>1
<1> QED
  BY <1>3, <1>4, <1>5, <1>6, <1>7 DEF Next, Waiter

\* However late the test runs, RequireEntry fails only past its deadline, and
\* only when a poll that came after the call saw no match among all there was;
\* what it returns is the first match.
THEOREM FailuresAreHonest == Spec => []FailureIsHonest
<1>1. Init => Waiting
  BY TestLogAssumption DEF Init, Waiting
<1>2. Waiting => FailureIsHonest
  BY DEF Waiting, FailureIsHonest
<1> QED
  BY <1>1, <1>2, LogInvInit, LogInvStep, WaitingStep, PTL DEF Spec
=============================================================================
