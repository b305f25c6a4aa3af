---------------------------- MODULE StartupProofs ----------------------------
(***************************************************************************)
(* What Cascade.Resolve returns for any number of layers, of any ranks,    *)
(* with any ties, whatever their providers return; and so within Startup,  *)
(* whatever the test and the program do while it is resolved.  Then, that  *)
(* toolkit's ways to resolve a path as it is written agree, for any jail,  *)
(* home and texts.                                                         *)
(***************************************************************************)
EXTENDS Startup, JailPathProofs

-----------------------------------------------------------------------------
(* Resolve, between any other steps.                                       *)

\* A step of Resolve, for providers that return anything.
CascadeStep ==
  \/ Resolve \/ Finish
  \/ \E res : next \in 1..Len(sorted) /\ Ask(res)

\* Before Finish, sources are in the order in which the layers were asked.
Ascending(s) == \A i, j \in 1..Len(s) : i < j => Rank[s[i]] <= Rank[s[j]]

Typed ==
  /\ next \in Nat
  /\ resolved = [value |-> resolved.value, sources |-> resolved.sources,
                 errors |-> resolved.errors, haveBase |-> resolved.haveBase]
  /\ resolved.sources \in Seq(Layers) /\ resolved.errors \in Seq(Layers)
  /\ resolved.haveBase \in BOOLEAN
  /\ DOMAIN given \subseteq Layers

\* Resolve has asked the layers before next, and all of them in the end.
Asked ==
  /\ next # 0 => /\ sorted \in Orders
                 /\ next <= Len(sorted) + 1
                 /\ DOMAIN given = {sorted[i] : i \in 1..next - 1}
                 /\ Ascending(resolved.sources)
  /\ next = 0 /\ sorted # <<>> => DOMAIN given = Layers /\ Descending(resolved.sources)

\* The first layer that contributes is the base.
Based == resolved.haveBase <=> \E l \in DOMAIN given : Contributes(l)

CascadeInv == Typed /\ Asked /\ Based /\ ValueWins /\ Provenance

-----------------------------------------------------------------------------

\* sort.Slice returns every layer once, the less specific ones first.
LEMMA OrdersFacts ==
  ASSUME NEW s \in Orders
  PROVE  /\ s \in Seq(Layers)
         /\ Len(s) = Cardinality(Layers) /\ Len(s) \in Nat
         /\ {s[i] : i \in 1..Len(s)} = Layers
         /\ \A i, j \in 1..Len(s) : i # j => s[i] # s[j]
         /\ \A i, j \in 1..Len(s) : i < j => Rank[s[i]] <= Rank[s[j]]
<1> DEFINE n == Cardinality(Layers)
<1>1. IsFiniteSet(Layers) /\ n \in Nat
  BY CascadeAssumption, FS_CardinalityType
<1>2. /\ s \in [1..n -> Layers] /\ \A i, j \in 1..n : i # j => s[i] # s[j]
      /\ \A i, j \in 1..Len(s) : i < j => ~(Rank[s[j]] < Rank[s[i]])
  BY DEF Orders, SetToSeqs, Before
<1>3. s \in Seq(Layers) /\ Len(s) = n
  BY <1>1, <1>2
<1>4. IsFiniteSet(1..n) /\ Cardinality(1..n) = n
  <2>1. /\ IsFiniteSet(1..n)
        /\ Cardinality(1..n) = IF 1 > n THEN 0 ELSE n - 1 + 1
    BY <1>1, FS_Interval
  <2> QED
    BY <1>1, <2>1
<1>5. s \in Injection(1..n, Layers)
  BY <1>2 DEF Injection, IsInjective
<1>6. s \in Surjection(1..n, Layers)
  <2> DEFINE D == 1..n
  <2>1. s \in Injection(D, Layers) /\ Cardinality(D) = Cardinality(Layers)
    BY <1>4, <1>5
  <2> HIDE DEF D
  <2>2. Cardinality(D) = Cardinality(Layers) <=> s \in Surjection(D, Layers)
    BY <1>1, <2>1, FS_Injection
  <2> QED
    BY <2>1, <2>2 DEF D
<1>7. {s[i] : i \in 1..n} = Layers
  BY <1>2, <1>6 DEF Surjection
<1>8. \A i, j \in 1..Len(s) : i < j => Rank[s[i]] <= Rank[s[j]]
  BY <1>1, <1>2, <1>3, CascadeAssumption
<1> QED
  BY <1>1, <1>2, <1>3, <1>7, <1>8

\* Reversing the sources turns their order and keeps what they name.
LEMMA ReverseFacts ==
  ASSUME NEW s \in Seq(Layers), Ascending(s)
  PROVE  Reverse(s) \in Seq(Layers) /\ ToSet(Reverse(s)) = ToSet(s) /\ Descending(Reverse(s))
<1> DEFINE n == Len(s)
           r == [i \in 1..n |-> s[(n - i) + 1]]
<1>1. n \in Nat /\ s \in [1..n -> Layers] /\ DOMAIN s = 1..n
  OBVIOUS
<1>2. Reverse(s) = r
  BY DEF Reverse
<1>3. \A i \in 1..n : (n - i) + 1 \in 1..n /\ (n - ((n - i) + 1)) + 1 = i
  BY <1>1
<1>4. r \in Seq(Layers) /\ Len(r) = n /\ DOMAIN r = 1..n
  <2>1. r \in [1..n -> Layers]
    BY <1>1, <1>3
  <2> QED
    BY <1>1, <2>1
<1>5. ToSet(r) = ToSet(s)
  <2>1. \A i \in 1..n : r[i] \in ToSet(s)
    BY <1>1, <1>3 DEF ToSet
  <2>2. \A i \in 1..n : s[i] = r[(n - i) + 1]
    BY <1>1, <1>3
  <2> QED
    BY <1>1, <1>3, <1>4, <2>1, <2>2 DEF ToSet
<1>6. Descending(r)
  <2> SUFFICES ASSUME NEW i \in 1..n, NEW j \in 1..n, i < j
               PROVE  Rank[r[i]] >= Rank[r[j]]
    BY <1>4 DEF Descending
  <2>1. (n - j) + 1 \in 1..n /\ (n - i) + 1 \in 1..n /\ (n - j) + 1 < (n - i) + 1
    BY <1>1
  <2>2. Rank[s[(n - j) + 1]] <= Rank[s[(n - i) + 1]]
    BY <2>1 DEF Ascending
  <2>3. Rank[s[(n - j) + 1]] \in Int /\ Rank[s[(n - i) + 1]] \in Int
    BY <1>1, <2>1, CascadeAssumption
  <2> QED
    BY <2>2, <2>3
<1> QED
  BY <1>2, <1>4, <1>5, <1>6

\* A layer that is asked was not asked before, and is as specific as those
\* that were.
LEMMA NextLayer ==
  ASSUME Typed, Asked, next \in 1..Len(sorted)
  PROVE  /\ sorted[next] \in Layers \ DOMAIN given
         /\ \A m \in DOMAIN given : Rank[m] <= Rank[sorted[next]]
<1>1. sorted \in Orders /\ DOMAIN given = {sorted[i] : i \in 1..next - 1} /\ next \in Nat
  BY DEF Asked, Typed
<1>2. /\ sorted \in Seq(Layers) /\ Len(sorted) \in Nat
      /\ \A i, j \in 1..Len(sorted) : i # j => sorted[i] # sorted[j]
      /\ \A i, j \in 1..Len(sorted) : i < j => Rank[sorted[i]] <= Rank[sorted[j]]
  BY <1>1, OrdersFacts
<1>3. \A i \in 1..next - 1 : i \in 1..Len(sorted) /\ i < next /\ i # next
  BY <1>1, <1>2
<1> QED
  BY <1>1, <1>2, <1>3

-----------------------------------------------------------------------------
(* The invariant.                                                          *)

LEMMA CascadeInitial == CascadeInit => CascadeInv
<1> SUFFICES ASSUME CascadeInit PROVE CascadeInv
  OBVIOUS
<1> USE DEF CascadeInit, Zero, Nothing
<1>1. Typed
  BY DEF Typed
<1>2. Asked
  BY DEF Asked
<1>3. Based
  BY DEF Based
<1>4. ValueWins
  BY DEF ValueWins
<1>5. Provenance
  BY DEF Provenance, ToSet
<1> QED
  BY <1>1, <1>2, <1>3, <1>4, <1>5 DEF CascadeInv

LEMMA ResolveKeeps == CascadeInv /\ Resolve => CascadeInv'
<1> SUFFICES ASSUME CascadeInv, Resolve PROVE CascadeInv'
  OBVIOUS
<1> USE DEF Resolve, Zero, Nothing
<1>1. Typed'
  BY DEF Typed
<1>2. Asked'
  <2>1. Len(sorted') \in Nat /\ sorted' \in Orders
    BY OrdersFacts
  <2> QED
    BY <2>1 DEF Asked, Ascending
<1>3. Based'
  BY DEF Based
<1>4. ValueWins'
  BY DEF ValueWins
<1>5. Provenance'
  BY DEF Provenance, ToSet
<1> QED
  BY <1>1, <1>2, <1>3, <1>4, <1>5 DEF CascadeInv

LEMMA FinishKeeps == CascadeInv /\ Finish => CascadeInv'
<1> SUFFICES ASSUME CascadeInv, Finish PROVE CascadeInv'
  OBVIOUS
<1> USE DEF CascadeInv, Finish
<1>1. /\ resolved' = [value |-> resolved.value, sources |-> Reverse(resolved.sources),
                      errors |-> resolved.errors, haveBase |-> resolved.haveBase]
      /\ given' = given /\ sorted' = sorted
  BY DEF Typed
<1>2. /\ sorted \in Orders /\ Ascending(resolved.sources) /\ resolved.sources \in Seq(Layers)
      /\ DOMAIN given = {sorted[i] : i \in 1..next - 1} /\ next # 0
  BY OrdersFacts DEF Asked, Typed
<1>3. /\ Reverse(resolved.sources) \in Seq(Layers) /\ Descending(Reverse(resolved.sources))
      /\ ToSet(Reverse(resolved.sources)) = ToSet(resolved.sources)
  BY <1>2, ReverseFacts
<1>4. DOMAIN given = Layers
  <2>1. next - 1 = Len(sorted)
    BY <1>2, OrdersFacts
  <2> QED
    BY <1>2, <2>1, OrdersFacts
<1>5. Typed'
  BY <1>1, <1>3, <1>4 DEF Typed
<1>6. Asked'
  BY <1>1, <1>3, <1>4 DEF Asked, Descending
<1>7. Based'
  BY <1>1 DEF Based, Contributes
<1>8. ValueWins'
  BY <1>1 DEF ValueWins, Contributes
<1>9. Provenance'
  BY <1>1, <1>3 DEF Provenance, Contributes
<1> QED
  BY <1>5, <1>6, <1>7, <1>8, <1>9

\* A provider that returns res was asked, and what it returned is as Ask has it.
LEMMA AskKeeps ==
  ASSUME CascadeInv, NEW res, next \in 1..Len(sorted), Ask(res)
  PROVE  CascadeInv'
<1> DEFINE l == sorted[next]
           adds == res \notin {Absent, Error}
<1>1. Typed /\ Asked /\ Based /\ ValueWins /\ Provenance
  BY DEF CascadeInv
<1>2. /\ l \in Layers \ DOMAIN given
      /\ \A m \in DOMAIN given : Rank[m] <= Rank[l]
  BY <1>1, NextLayer
<1>3. /\ next' = next + 1 /\ sorted' = sorted
      /\ given' = [m \in DOMAIN given \cup {l} |-> IF m = l THEN res ELSE given[m]]
  BY DEF Ask
<1>4. /\ DOMAIN given' = DOMAIN given \cup {l} /\ given'[l] = res
      /\ \A m \in DOMAIN given : given'[m] = given[m]
  BY <1>2, <1>3
<1>5. resolved' = [value |-> IF ~adds THEN resolved.value
                             ELSE IF resolved.haveBase THEN Merge(resolved.value, res) ELSE res,
                   sources |-> IF adds THEN Append(resolved.sources, l) ELSE resolved.sources,
                   errors |-> IF res = Error THEN Append(resolved.errors, l) ELSE resolved.errors,
                   haveBase |-> adds \/ resolved.haveBase]
  <2>1. resolved = [value |-> resolved.value, sources |-> resolved.sources,
                    errors |-> resolved.errors, haveBase |-> resolved.haveBase]
        /\ resolved.haveBase \in BOOLEAN
    BY <1>1 DEF Typed
  <2>2. CASE res = Absent
    BY <2>1, <2>2, CascadeAssumption DEF Ask
  <2>3. CASE res = Error
    BY <2>1, <2>3, CascadeAssumption DEF Ask
  <2>4. CASE adds
    BY <2>1, <2>4 DEF Ask
  <2> QED
    BY <2>2, <2>3, <2>4
<1>6. /\ \A m \in DOMAIN given :
           (given'[m] \notin {Absent, Error}) <=> (given[m] \notin {Absent, Error})
      /\ (given'[l] \notin {Absent, Error}) <=> adds
  BY <1>4
<1> HIDE DEF l, adds
<1>7. resolved.sources \in Seq(Layers) /\ resolved.errors \in Seq(Layers) /\ next \in Nat
  BY <1>1 DEF Typed
<1>8. ASSUME NEW s \in Seq(Layers)
      PROVE  Append(s, l) \in Seq(Layers) /\ ToSet(Append(s, l)) = ToSet(s) \cup {l}
  <2>1. /\ Append(s, l) \in Seq(Layers) /\ DOMAIN Append(s, l) = DOMAIN s \cup {Len(s) + 1}
        /\ Append(s, l)[Len(s) + 1] = l /\ \A i \in DOMAIN s : Append(s, l)[i] = s[i]
    BY <1>2
  <2> QED
    BY <2>1 DEF ToSet
<1>9. Typed'
  <2>1. next' \in Nat /\ DOMAIN given' \subseteq Layers
    BY <1>1, <1>2, <1>3, <1>4, <1>7 DEF Typed
  <2>2. resolved.sources \in Seq(Layers) /\ resolved'.sources \in Seq(Layers)
    BY <1>5, <1>7, <1>8
  <2>3. resolved'.errors \in Seq(Layers)
    BY <1>5, <1>7, <1>8
  <2>4. resolved'.haveBase \in BOOLEAN
    BY <1>1, <1>5 DEF Typed, adds
  <2>5. resolved' = [value |-> resolved'.value, sources |-> resolved'.sources,
                     errors |-> resolved'.errors, haveBase |-> resolved'.haveBase]
    BY <1>5
  <2> QED
    BY <2>1, <2>2, <2>3, <2>4, <2>5 DEF Typed
<1>10. Ascending(resolved'.sources)
  <2>1. Ascending(resolved.sources)
    BY <1>1 DEF Asked
  <2>2. \A i \in 1..Len(resolved.sources) : resolved.sources[i] \in DOMAIN given
    BY <1>1, <1>7 DEF Provenance, ToSet
  <2>3. CASE adds
    <3> DEFINE q == resolved.sources
               n == Len(q)
    <3>1. n \in Nat /\ q \in Seq(Layers) /\ l \in Layers
      BY <1>2, <1>7
    <3>2. /\ resolved'.sources = Append(q, l) /\ Len(Append(q, l)) = n + 1
          /\ Append(q, l)[n + 1] = l /\ \A i \in 1..n : Append(q, l)[i] = q[i]
      BY <1>5, <2>3, <3>1
    <3>3. \A i \in 1..n : Rank[q[i]] <= Rank[l]
      BY <1>2, <2>2
    <3>4. \A i, j \in 1..n : i < j => Rank[q[i]] <= Rank[q[j]]
      BY <2>1 DEF Ascending
    <3> HIDE DEF q, n
    <3>5. ASSUME NEW i \in 1..n + 1, NEW j \in 1..n + 1, i < j
          PROVE  Rank[Append(q, l)[i]] <= Rank[Append(q, l)[j]]
      <4>1. i \in 1..n
        BY <3>1, <3>5
      <4>2. CASE j = n + 1
        BY <3>2, <3>3, <4>1, <4>2
      <4>3. CASE j \in 1..n
        BY <3>2, <3>4, <3>5, <4>1, <4>3
      <4>4. j = n + 1 \/ j \in 1..n
        BY <3>1
      <4> QED
        BY <4>2, <4>3, <4>4
    <3> QED
      BY <3>2, <3>5 DEF Ascending
  <2>4. CASE ~adds
    BY <1>5, <2>1, <2>4
  <2> QED
    BY <2>3, <2>4
<1>11. Asked'
  <2>1. sorted \in Orders /\ Len(sorted) \in Nat /\ DOMAIN given = {sorted[i] : i \in 1..next - 1}
    BY <1>1, OrdersFacts DEF Asked
  <2>2. DOMAIN given' = {sorted[i] : i \in 1..next' - 1}
    <3>1. 1..next' - 1 = (1..next - 1) \cup {next}
      BY <1>3, <1>7
    <3> QED
      BY <1>4, <2>1, <3>1 DEF l
  <2>3. next' # 0 /\ next' <= Len(sorted) + 1
    BY <1>3, <1>7, <2>1
  <2> QED
    BY <1>3, <1>10, <2>1, <2>2, <2>3 DEF Asked
<1>12. Based'
  <2>1. resolved'.haveBase <=> adds \/ resolved.haveBase
    BY <1>5
  <2> QED
    BY <1>1, <1>4, <1>6, <2>1 DEF Based, Contributes
<1>13. Provenance'
  <2>1. ToSet(resolved'.sources) = {m \in DOMAIN given' : given'[m] \notin {Absent, Error}}
    <3>1. ToSet(resolved'.sources)
            = IF adds THEN ToSet(resolved.sources) \cup {l} ELSE ToSet(resolved.sources)
      BY <1>5, <1>7, <1>8
    <3> QED
      BY <1>1, <1>4, <1>6, <3>1 DEF Provenance, Contributes
  <2>2. ToSet(resolved'.errors) = {m \in DOMAIN given' : given'[m] = Error}
    <3>1. ToSet(resolved'.errors)
            = IF res = Error THEN ToSet(resolved.errors) \cup {l} ELSE ToSet(resolved.errors)
      BY <1>5, <1>7, <1>8
    <3> QED
      BY <1>1, <1>4, <3>1 DEF Provenance
  <2> QED
    BY <2>1, <2>2 DEF Provenance, Contributes
<1>14. ValueWins'
  <2> SUFFICES ASSUME NEW s \in Settings
               PROVE  LET givers == {m \in DOMAIN given' : /\ given'[m] \notin {Absent, Error}
                                                           /\ given'[m][s] # NoValue} IN
                      IF givers = {} THEN resolved'.value[s] = NoValue
                      ELSE \E k \in givers : /\ resolved'.value[s] = given'[k][s]
                                             /\ \A m \in givers : Rank[m] <= Rank[k]
    BY DEF ValueWins, Contributes
  <2> DEFINE G == {m \in DOMAIN given : given[m] \notin {Absent, Error} /\ given[m][s] # NoValue}
             H == {m \in DOMAIN given' : given'[m] \notin {Absent, Error} /\ given'[m][s] # NoValue}
             Right(g, v, val) == IF g = {} THEN v = NoValue
                                 ELSE \E k \in g : v = val[k][s] /\ \A m \in g : Rank[m] <= Rank[k]
  <2>1. Right(G, resolved.value[s], given)
    BY <1>1 DEF ValueWins, Contributes
  <2>2. \A m \in G : m \in DOMAIN given /\ given'[m] = given[m]
    BY <1>4
  <2>3. CASE adds /\ res[s] # NoValue
    <3>1. H = G \cup {l}
      BY <1>4, <1>6, <2>3
    <3>2. resolved'.value[s] = given'[l][s]
      BY <1>4, <1>5, <2>3 DEF Merge
    <3>3. \A m \in H : Rank[m] <= Rank[l]
      BY <1>2, <2>2, <3>1, CascadeAssumption
    <3> QED
      BY <3>1, <3>2, <3>3
  <2>4. CASE ~(adds /\ res[s] # NoValue)
    <3>1. H = G
      BY <1>4, <1>6, <2>4
    <3>2. resolved'.value[s] = resolved.value[s]
      <4>1. CASE adds /\ ~resolved.haveBase
        <5>1. G = {}
          BY <1>1, <4>1 DEF Based, Contributes
        <5> QED
          BY <1>5, <2>1, <2>4, <4>1, <5>1
      <4>2. CASE adds /\ resolved.haveBase
        BY <1>5, <2>4, <4>2 DEF Merge
      <4>3. CASE ~adds
        BY <1>5, <4>3
      <4> QED
        BY <4>1, <4>2, <4>3
    <3>3. Right(G, resolved'.value[s], given')
      BY <2>1, <2>2, <3>2
    <3> QED
      BY <3>1, <3>3
  <2> QED
    BY <2>3, <2>4
<1> QED
  BY <1>9, <1>11, <1>12, <1>13, <1>14 DEF CascadeInv

\* Steps elsewhere leave Resolve's locals alone.
LEMMA StutterKeeps == CascadeInv /\ UNCHANGED cascadeVars => CascadeInv'
<1> SUFFICES ASSUME CascadeInv, UNCHANGED cascadeVars PROVE CascadeInv'
  OBVIOUS
<1> QED
  BY DEF cascadeVars, CascadeInv, Typed, Asked, Based, ValueWins, Provenance,
         Contributes, Ascending, Descending, Orders, Before

LEMMA CascadeKeeps == CascadeInv /\ [CascadeStep]_cascadeVars => CascadeInv'
BY ResolveKeeps, FinishKeeps, AskKeeps, StutterKeeps DEF CascadeStep

LEMMA CascadeRight == CascadeInv => MostSpecificWins
BY DEF CascadeInv, Asked, MostSpecificWins

-----------------------------------------------------------------------------
(* Within Startup.                                                         *)

\* A step of Startup is one of Resolve or none of it.
LEMMA StepIsCascadeStep == [Next]_vars => [CascadeStep]_cascadeVars
<1> SUFFICES ASSUME [Next]_vars PROVE [CascadeStep]_cascadeVars
  OBVIOUS
<1>1. CASE Options
  BY <1>1 DEF Options, WithEnv, WithEnvMap, WithWdOption, SetUp, WithFixture, Begin
<1>2. CASE ResolveConfig
  BY <1>2 DEF ResolveConfig, CascadeStep
<1>3. CASE Run /\ ~ResolveConfig
  BY <1>3 DEF Run, Set, Unset, Setwd, SetEnv, WriteFile, AtomicWriteFile, Edit, Writes,
              NewAppPaths, NewGitAppPaths, Step
<1>4. CASE UNCHANGED vars
  BY <1>4 DEF vars
<1> QED
  BY <1>1, <1>2, <1>3, <1>4 DEF Next

\* For any layers, ranks, settings, trees, jails and environments, and however
\* files and variables change between two providers, what Resolve returns is
\* the value of the most specific layer that gave one (Cascade.Resolve).
THEOREM ConfigurationIsRight == Spec => []MostSpecificWins
<1>1. Init => CascadeInv
  BY CascadeInitial DEF Init
<1>2. CascadeInv /\ [Next]_vars => CascadeInv'
  BY StepIsCascadeStep, CascadeKeeps
<1>3. CascadeInv => MostSpecificWins
  BY CascadeRight
<1> QED
  BY <1>1, <1>2, <1>3, PTL DEF Spec

-----------------------------------------------------------------------------
(* Paths that are put behind one another.                                  *)

\* The first components of a path.
LEMMA FirstOnes ==
  ASSUME NEW S, NEW a \in Seq(S), NEW k \in 1..Len(a)
  PROVE  /\ SubSeq(a, 1, k - 1) \in Seq(S) /\ SubSeq(a, 1, k) \in Seq(S) /\ a[k] \in S
         /\ Len(SubSeq(a, 1, k - 1)) = k - 1 /\ Len(SubSeq(a, 1, k)) = k /\ k \in Nat
         /\ \A i \in 1..k - 1 : SubSeq(a, 1, k - 1)[i] = a[i]
         /\ \A i \in 1..k : SubSeq(a, 1, k)[i] = a[i]
<1>1. Len(a) \in Nat /\ k \in Nat /\ \A i \in 1..Len(a) : a[i] \in S
  OBVIOUS
<1>2. PICK m \in Nat : m = k - 1
  BY <1>1
<1>3. /\ SubSeq(a, 1, m) \in Seq(S) /\ Len(SubSeq(a, 1, m)) = m
      /\ \A i \in 1..m : SubSeq(a, 1, m)[i] = a[i]
  BY <1>1, <1>2, SubSeqProperties
<1>4. /\ SubSeq(a, 1, k) \in Seq(S) /\ Len(SubSeq(a, 1, k)) = k
      /\ \A i \in 1..k : SubSeq(a, 1, k)[i] = a[i]
  BY <1>1, SubSeqProperties
<1> QED
  BY <1>1, <1>2, <1>3, <1>4

\* The next component, put behind those before it.
LEMMA OneMore ==
  ASSUME NEW S, NEW a \in Seq(S), NEW k \in 1..Len(a)
  PROVE  /\ SubSeq(a, 1, k - 1) \in Seq(S) /\ SubSeq(a, 1, k) \in Seq(S)
         /\ Append(SubSeq(a, 1, k - 1), a[k]) = SubSeq(a, 1, k)
<1>1. Len(a) \in Nat /\ k \in Nat /\ \A i \in 1..Len(a) : a[i] \in S
  OBVIOUS
<1>2. PICK m \in Nat : m = k - 1
  BY <1>1
<1>3. /\ SubSeq(a, 1, m) \in Seq(S) /\ Len(SubSeq(a, 1, m)) = m
      /\ \A i \in 1..m : SubSeq(a, 1, m)[i] = a[i]
  BY <1>2, FirstOnes
<1>4. /\ SubSeq(a, 1, k) \in Seq(S) /\ Len(SubSeq(a, 1, k)) = k
      /\ \A i \in 1..k : SubSeq(a, 1, k)[i] = a[i]
  BY FirstOnes
<1> DEFINE q == Append(SubSeq(a, 1, m), a[k])
<1>5. q \in Seq(S) /\ Len(q) = m + 1 /\ q[m + 1] = a[k] /\ \A i \in 1..m : q[i] = a[i]
  BY <1>1, <1>3
<1> HIDE DEF q
<1>6. \A i \in 1..k : q[i] = SubSeq(a, 1, k)[i]
  BY <1>2, <1>4, <1>5
<1>7. q = SubSeq(a, 1, k)
  BY <1>2, <1>4, <1>5, <1>6, SeqEqual
<1> QED
  BY <1>2, <1>3, <1>4, <1>7 DEF q

\* What is left without the last component.
LEMMA OneLess ==
  ASSUME NEW S, NEW a \in Seq(S), NEW k \in 1..Len(a)
  PROVE  SubSeq(a, 1, k) # <<>> /\ Front(SubSeq(a, 1, k)) = SubSeq(a, 1, k - 1)
<1>1. /\ SubSeq(a, 1, k - 1) \in Seq(S) /\ a[k] \in S
      /\ Append(SubSeq(a, 1, k - 1), a[k]) = SubSeq(a, 1, k)
  BY OneMore
<1>2. PICK q \in Seq(S) : q = SubSeq(a, 1, k - 1)
  BY <1>1
<1>3. Append(q, a[k]) # <<>> /\ Front(Append(q, a[k])) = q
  <2>1. Len(q) \in Nat /\ Len(Append(q, a[k])) = Len(q) + 1 /\ Append(q, a[k]) \in Seq(S)
    BY <1>1
  <2>2. PICK p \in Seq(S) : p = Append(q, a[k])
    BY <2>1
  <2>3. Len(p) = Len(q) + 1 /\ \A i \in 1..Len(q) : p[i] = q[i] /\ q[i] \in S
    BY <1>1, <2>2
  <2>4. /\ SubSeq(p, 1, Len(q)) \in Seq(S) /\ Len(SubSeq(p, 1, Len(q))) = Len(q)
        /\ \A i \in 1..Len(q) : SubSeq(p, 1, Len(q))[i] = p[i]
    BY <2>1, <2>3, SubSeqProperties
  <2>5. SubSeq(p, 1, Len(q)) = q
    BY <2>1, <2>3, <2>4, SeqEqual
  <2>6. Len(p) - 1 = Len(q) /\ p # <<>>
    BY <2>1, <2>3
  <2> QED
    BY <2>2, <2>5, <2>6 DEF Front
<1> QED
  BY <1>1, <1>2, <1>3

\* The same behind a path.
LEMMA OneMoreBehind ==
  ASSUME NEW S, NEW c \in Seq(S), NEW b \in Seq(S), NEW k \in 1..Len(b)
  PROVE  /\ c \o SubSeq(b, 1, k - 1) \in Seq(S)
         /\ Append(c \o SubSeq(b, 1, k - 1), b[k]) = c \o SubSeq(b, 1, k)
<1>1. /\ SubSeq(b, 1, k - 1) \in Seq(S) /\ SubSeq(b, 1, k) \in Seq(S) /\ b[k] \in S
      /\ Len(SubSeq(b, 1, k - 1)) = k - 1 /\ Len(SubSeq(b, 1, k)) = k /\ k \in Nat
      /\ \A i \in 1..k - 1 : SubSeq(b, 1, k - 1)[i] = b[i]
      /\ \A i \in 1..k : SubSeq(b, 1, k)[i] = b[i]
  BY FirstOnes
<1>2. PICK q \in Seq(S) : q = SubSeq(b, 1, k - 1)
  BY <1>1
<1>3. PICK u \in Seq(S) : u = SubSeq(b, 1, k)
  BY <1>1
<1> SUFFICES ASSUME NEW x, x = b[k]
             PROVE  c \o q \in Seq(S) /\ Append(c \o q, x) = c \o u
  BY <1>2, <1>3
<1>4. x \in S
  BY <1>1
<1> DEFINE d == c \o q
           r == c \o u
           t == Append(d, x)
<1>5. Len(c) \in Nat /\ Len(q) \in Nat
  OBVIOUS
<1>6. Len(u) = Len(q) + 1 /\ u[Len(q) + 1] = x /\ \A i \in 1..Len(q) : u[i] = q[i]
  <2>1. /\ k \in Nat /\ Len(q) = k - 1 /\ Len(u) = k
        /\ (\A i \in 1..k - 1 : q[i] = b[i]) /\ (\A i \in 1..k : u[i] = b[i])
    BY <1>1, <1>2, <1>3, Zenon
  <2>2. Len(q) + 1 = k /\ k \in 1..k
    BY <2>1
  <2>3. u[k] = x
    BY <2>1, <2>2, Zenon
  <2>4. \A i \in 1..Len(q) : u[i] = q[i]
    BY <2>1
  <2>5. Len(u) = Len(q) + 1 /\ u[Len(q) + 1] = x
    BY <2>1, <2>2, <2>3, Zenon
  <2> QED
    BY <2>4, <2>5, Zenon
<1>7. /\ d \in Seq(S) /\ Len(d) = Len(c) + Len(q)
      /\ \A i \in 1..Len(c) + Len(q) : d[i] = IF i <= Len(c) THEN c[i] ELSE q[i - Len(c)]
  BY ConcatProperties
<1>8. /\ r \in Seq(S) /\ Len(r) = Len(c) + Len(u)
      /\ \A i \in 1..Len(c) + Len(u) : r[i] = IF i <= Len(c) THEN c[i] ELSE u[i - Len(c)]
  BY ConcatProperties
<1> HIDE DEF d, r
<1>9. /\ t \in Seq(S) /\ Len(t) = Len(d) + 1 /\ t[Len(d) + 1] = x
      /\ \A i \in 1..Len(d) : t[i] = d[i]
  BY <1>4, <1>5, <1>7
<1> HIDE DEF t
<1>10. ASSUME NEW i \in 1..Len(t) PROVE t[i] = r[i]
  <2>1. i \in Nat /\ Len(t) = Len(c) + Len(q) + 1 /\ Len(c) + Len(u) = Len(c) + Len(q) + 1
    BY <1>5, <1>6, <1>7, <1>9
  <2>2. CASE i <= Len(c)
    <3>1. i \in 1..Len(d) /\ i \in 1..Len(c) + Len(q)
      BY <1>5, <1>7, <2>1, <2>2
    <3>2. t[i] = d[i] /\ d[i] = c[i]
      BY <1>7, <1>9, <2>2, <3>1
    <3>3. r[i] = c[i]
      BY <1>5, <1>8, <2>1, <2>2
    <3> QED
      BY <3>2, <3>3
  <2>3. CASE i > Len(c) /\ i <= Len(c) + Len(q)
    <3>1. /\ i \in 1..Len(d) /\ i \in 1..Len(c) + Len(u) /\ i - Len(c) \in 1..Len(q)
          /\ ~ (i <= Len(c))
      BY <1>5, <1>7, <2>1, <2>3
    <3>2. t[i] = d[i] /\ d[i] = q[i - Len(c)]
      BY <1>7, <1>9, <2>1, <3>1
    <3>3. r[i] = u[i - Len(c)] /\ u[i - Len(c)] = q[i - Len(c)]
      BY <1>6, <1>8, <3>1
    <3> QED
      BY <3>2, <3>3
  <2>4. CASE i = Len(c) + Len(q) + 1
    BY <1>5, <1>6, <1>7, <1>8, <1>9, <2>1, <2>4
  <2> QED
    BY <1>5, <2>1, <2>2, <2>3, <2>4
<1>11. Len(t) = Len(r)
  BY <1>5, <1>6, <1>7, <1>8, <1>9
<1>12. t = r
  BY <1>8, <1>9, <1>10, <1>11, SeqEqual
<1> QED
  BY <1>7, <1>12 DEF t, r, d

\* Nothing behind a path, and all of it.
LEMMA NothingMore ==
  ASSUME NEW S, NEW a \in Seq(S)
  PROVE  /\ SubSeq(a, 1, 0) = <<>> /\ SubSeq(a, 1, Len(a)) = a
         /\ a \o <<>> = a /\ <<>> \o a = a
<1>1. SubSeq(a, 1, 0) = <<>> /\ a \o <<>> = a /\ <<>> \o a = a
  OBVIOUS
<1>2. SubSeq(a, 1, Len(a)) = a
  <2>1. Len(a) \in Nat /\ \A i \in 1..Len(a) : a[i] \in S
    OBVIOUS
  <2>2. /\ SubSeq(a, 1, Len(a)) \in Seq(S) /\ Len(SubSeq(a, 1, Len(a))) = Len(a)
        /\ \A i \in 1..Len(a) : SubSeq(a, 1, Len(a))[i] = a[i]
    BY <2>1, SubSeqProperties
  <2> QED
    BY <2>1, <2>2, SeqEqual
<1> QED
  BY <1>1, <1>2

-----------------------------------------------------------------------------
(* filepath.Clean.                                                         *)

\* What one component does to the path that is clean so far.
Cleaned(q, c) == IF c # Up THEN Append(q, c) ELSE IF q = <<>> THEN q ELSE Front(q)

LEMMA CleanIsDefined ==
  ASSUME NEW p \in Seq(Names \cup {Up})
  PROVE  \E f \in [0..Len(p) -> Path] :
           /\ f[0] = <<>> /\ \A k \in 1..Len(p) : f[k] = Cleaned(f[k - 1], p[k])
           /\ CleanAbs(p) = f[Len(p)]
<1>0. PICK n \in Nat : n = Len(p)
  OBVIOUS
<1>1. \A k \in 1..n : p[k] \in Names \cup {Up} /\ k - 1 \in 0..n /\ k # 0
  BY <1>0
<1>2. <<>> \in Path
  BY DEF Path
<1>3. ASSUME NEW q \in Path, NEW c \in Names \cup {Up} PROVE Cleaned(q, c) \in Path
  <2>1. CASE c # Up
    BY <2>1 DEF Cleaned, Path
  <2>2. CASE c = Up /\ q = <<>>
    BY <2>2 DEF Cleaned
  <2>3. CASE c = Up /\ q # <<>>
    <3>1. Len(q) \in 1..Len(q) /\ Len(q) - 1 \in 0..Len(q) /\ \A i \in 1..Len(q) : q[i] \in Names
      BY <2>3 DEF Path
    <3>2. SubSeq(q, 1, Len(q) - 1) \in Path
      BY <3>1, SubSeqProperties DEF Path
    <3> QED
      BY <2>3, <3>2 DEF Cleaned, Front
  <2> QED
    BY <2>1, <2>2, <2>3
<1> DEFINE g == [k \in 1..n |-> [q \in Path |-> Cleaned(q, p[k])]]
<1>4. \A k \in 1..n : \A q \in Path : g[k][q] \in Path
  BY <1>1, <1>3
<1>5. \A k \in 1..n : \A q \in Path : g[k][q] = Cleaned(q, p[k])
  OBVIOUS
<1> HIDE DEF g
<1>6. PICK f \in [0..n -> Path] : f[0] = <<>> /\ \A k \in 1..n : f[k] = g[k][f[k - 1]]
  <2>1. PICK root \in Path : root = <<>>
    BY <1>2
  <2>2. \E f : Iterates(f, n, Path, root, g)
    BY <1>4, DefinedUpTo
  <2> QED
    BY <2>1, <2>2 DEF Iterates
<1>7. \A k \in 1..n : f[k - 1] \in Path /\ f[k] = Cleaned(f[k - 1], p[k])
  BY <1>1, <1>5, <1>6
<1> DEFINE Value(h, k) == IF k = 0 THEN <<>>
                          ELSE IF p[k] # Up THEN Append(h[k - 1], p[k])
                               ELSE IF h[k - 1] = <<>> THEN h[k - 1] ELSE Front(h[k - 1])
           Is(h) == h = [k \in 0..n |-> Value(h, k)]
<1>8. Is(f)
  <2>1. ASSUME NEW k \in 0..n PROVE f[k] = Value(f, k)
    <3>1. CASE k = 0
      BY <1>6, <3>1
    <3>2. CASE k # 0
      <4>1. k \in 1..n
        BY <3>2
      <4>2. f[k] = Cleaned(f[k - 1], p[k])
        BY <1>7, <4>1
      <4> QED
        BY <3>2, <4>2 DEF Cleaned
    <3> QED
      BY <3>1, <3>2
  <2> HIDE DEF Value
  <2> QED
    BY <2>1
<1>9. PICK h : Is(h) /\ CleanAbs(p) = h[n]
  <2>1. CleanAbs(p) = (CHOOSE h : Is(h))[n]
    BY <1>0 DEF CleanAbs
  <2> HIDE DEF Is
  <2>2. Is(CHOOSE h : Is(h))
    BY <1>8
  <2> QED
    BY <2>1, <2>2
<1>10. h[0] = <<>> /\ \A k \in 1..n : h[k] = Cleaned(h[k - 1], p[k])
  <2>1. ASSUME NEW k \in 0..n PROVE h[k] = Value(h, k)
    <3> HIDE DEF Value
    <3> QED
      BY <1>9
  <2>2. h[0] = <<>>
    BY <2>1
  <2>3. ASSUME NEW k \in 1..n PROVE h[k] = Cleaned(h[k - 1], p[k])
    <3>1. k \in 0..n /\ k # 0
      OBVIOUS
    <3>2. h[k] = Value(h, k)
      BY <2>1, <3>1
    <3> QED
      BY <3>1, <3>2 DEF Cleaned
  <2> QED
    BY <2>2, <2>3
<1> HIDE DEF Is
<1>11. h[n] = f[n]
  <2> DEFINE T == {i \in 0..n : h[i] = f[i]}
  <2>1. 0 \in T
    BY <1>6, <1>10
  <2>2. \A k \in 1..n : k - 1 \in T => k \in T
    BY <1>1, <1>7, <1>10
  <2> HIDE DEF T
  <2>3. \A k \in 0..n : k \in T
    BY <2>1, <2>2, UpTo
  <2>4. n \in 0..n
    OBVIOUS
  <2> QED
    BY <2>3, <2>4 DEF T
<1> QED
  BY <1>0, <1>6, <1>7, <1>9, <1>11

\* A clean path followed by a number of ".." and another clean path loses that
\* many components.
LEMMA CleanUpAndDown ==
  ASSUME NEW a \in Path, NEW b \in Path, NEW n \in 0..Len(a)
  PROVE  CleanAbs(a \o ([i \in 1..n |-> Up] \o b)) = SubSeq(a, 1, Len(a) - n) \o b
<1>1. PICK A \in Nat : A = Len(a)
  BY DEF Path
<1>2. PICK B \in Nat : B = Len(b)
  BY DEF Path
<1> DEFINE S == Names \cup {Up}
<1>0. /\ Up \in S
      /\ \A s \in Seq(Names) : s \in Seq(S)
  OBVIOUS
<1> HIDE DEF S
<1>3. PICK ups \in Seq(S) :
        ups = [i \in 1..n |-> Up] /\ Len(ups) = n /\ \A i \in 1..n : ups[i] = Up
  <2>1. PICK m \in Nat : m = n
    BY <1>1
  <2>2. [i \in 1..m |-> Up] \in [1..m -> S]
    BY <1>0
  <2>3. [i \in 1..m |-> Up] \in Seq(S) /\ Len([i \in 1..m |-> Up]) = m
    BY <1>0, <2>2
  <2> QED
    BY <2>1, <2>3
<1>4. /\ a \in Seq(Names) /\ b \in Seq(Names) /\ n \in Nat /\ n <= A
      /\ \A i \in 1..A : a[i] \in Names
      /\ \A i \in 1..B : b[i] \in Names
      /\ \A x \in Names : x # Up
  BY <1>1, <1>2, EnvAssumption DEF Path
<1>5. PICK c \in Seq(Names) : c = SubSeq(a, 1, A - n)
  <2>1. \A i \in 1..A - n : a[i] \in Names
    BY <1>4
  <2> QED
    <3>1. PICK m \in Int : m = A - n
      BY <1>4
    <3>2. SubSeq(a, 1, m) \in Seq(Names)
      BY <1>4, <2>1, <3>1, SubSeqProperties
    <3> QED
      BY <3>1, <3>2
<1>6. PICK p \in Seq(S) :
        /\ p = a \o (ups \o b)
        /\ Len(p) = A + n + B
        /\ \A i \in 1..A : p[i] = a[i]
        /\ \A i \in 1..n : p[A + i] = Up
        /\ \A i \in 1..B : p[A + n + i] = b[i]
  <2>0. a \in Seq(S) /\ b \in Seq(S)
    BY <1>0, <1>4
  <2>1. PICK q \in Seq(S) : q = ups \o b /\ Len(q) = Len(ups) + Len(b)
    BY <2>0, ConcatProperties
  <2>2. /\ Len(q) = n + B
        /\ \A i \in 1..n : q[i] = Up
        /\ \A i \in 1..B : q[n + i] = b[i]
    <3>1. Len(q) = n + B
      BY <1>2, <1>3, <2>1
    <3>2. \A i \in 1..Len(ups) + Len(b) :
            q[i] = IF i <= Len(ups) THEN ups[i] ELSE b[i - Len(ups)]
      BY <2>0, <2>1, ConcatProperties
    <3>3. \A i \in 1..n : q[i] = Up
      <4>1. \A i \in 1..n : i \in 1..n + B /\ i <= n /\ ups[i] = Up
        BY <1>3, <1>4
      <4>2. Len(ups) = n
        BY <1>3
      <4> QED
        BY <1>2, <3>2, <4>1, <4>2
    <3>4. \A i \in 1..B : q[n + i] = b[i]
      <4>1. \A i \in 1..B : n + i \in 1..n + B /\ ~(n + i <= n) /\ n + i - n = i
        BY <1>4
      <4> QED
        BY <1>2, <1>3, <3>2, <4>1
    <3> QED
      BY <3>1, <3>3, <3>4
  <2>3. PICK r \in Seq(S) :
          /\ r = a \o q /\ Len(r) = Len(a) + Len(q)
          /\ \A i \in 1..Len(a) + Len(q) : r[i] = IF i <= Len(a) THEN a[i] ELSE q[i - Len(a)]
    <3>1. PICK x \in Seq(S) : x = a
      BY <2>0
    <3>2. /\ x \o q \in Seq(S) /\ Len(x \o q) = Len(x) + Len(q)
          /\ \A i \in 1..Len(x) + Len(q) :
               (x \o q)[i] = IF i <= Len(x) THEN x[i] ELSE q[i - Len(x)]
      BY ConcatProperties
    <3> QED
      BY <3>1, <3>2
  <2>4. /\ Len(r) = A + (n + B)
        /\ \A i \in 1..A + (n + B) : r[i] = IF i <= A THEN a[i] ELSE q[i - A]
    BY <1>1, <2>2, <2>3
  <2>5. \A i \in 1..A : r[i] = a[i]
    <3>1. \A i \in 1..A : i \in 1..A + (n + B) /\ i <= A
      BY <1>4
    <3> QED
      BY <2>4, <3>1
  <2>6. \A i \in 1..n + B : r[A + i] = q[i]
    <3>1. \A i \in 1..n + B : A + i \in 1..A + (n + B) /\ ~(A + i <= A) /\ A + i - A = i
      BY <1>4
    <3> QED
      BY <2>4, <3>1
  <2>7. \A i \in 1..n : r[A + i] = Up
    <3>1. \A i \in 1..n : i \in 1..n + B
      BY <1>4
    <3> QED
      BY <2>2, <2>6, <3>1
  <2>8. \A i \in 1..B : r[A + n + i] = b[i]
    <3>1. \A i \in 1..B : n + i \in 1..n + B /\ A + n + i = A + (n + i)
      BY <1>4
    <3> QED
      BY <2>2, <2>6, <3>1
  <2>9. Len(r) = A + n + B
    BY <1>4, <2>4
  <2> QED
    BY <2>1, <2>3, <2>5, <2>7, <2>8, <2>9
<1>7. PICK f \in [0..Len(p) -> Path] :
        /\ f[0] = <<>> /\ \A k \in 1..Len(p) : f[k] = Cleaned(f[k - 1], p[k])
        /\ CleanAbs(p) = f[Len(p)]
  BY CleanIsDefined DEF S
<1>8. /\ \A k \in 1..A : f[k] = Cleaned(f[k - 1], a[k])
      /\ \A k \in 1..n : f[A + k] = Cleaned(f[A + (k - 1)], Up)
      /\ \A k \in 1..B : f[A + n + k] = Cleaned(f[A + n + (k - 1)], b[k])
      /\ f[0] = <<>> /\ CleanAbs(p) = f[A + n + B]
  <2>1. \A k \in 1..A : k \in 1..Len(p)
    BY <1>4, <1>6
  <2>2. \A k \in 1..n : A + k \in 1..Len(p) /\ (A + k) - 1 = A + (k - 1)
    BY <1>4, <1>6
  <2>3. \A k \in 1..B : A + n + k \in 1..Len(p) /\ (A + n + k) - 1 = A + n + (k - 1)
    BY <1>4, <1>6
  <2>4. \A k \in 1..A : f[k] = Cleaned(f[k - 1], a[k])
    BY <1>6, <1>7, <2>1
  <2>5. \A k \in 1..n : f[A + k] = Cleaned(f[A + (k - 1)], Up)
    BY <1>6, <1>7, <2>2
  <2>6. \A k \in 1..B : f[A + n + k] = Cleaned(f[A + n + (k - 1)], b[k])
    BY <1>6, <1>7, <2>3
  <2>7. f[0] = <<>> /\ CleanAbs(p) = f[A + n + B]
    BY <1>6, <1>7
  <2> QED
    BY <2>4, <2>5, <2>6, <2>7
<1>9. f[A] = a
  <2> DEFINE T == {k \in 0..A : f[k] = SubSeq(a, 1, k)}
  <2>1. 0 \in T
    <3>1. SubSeq(a, 1, 0) = <<>> /\ 0 \in 0..A
      BY <1>4, NothingMore
    <3>2. f[0] = SubSeq(a, 1, 0)
      BY <1>8, <3>1
    <3> QED
      BY <3>1, <3>2
  <2>2. ASSUME NEW k \in 1..A, k - 1 \in T PROVE k \in T
    <3>1. f[k - 1] = SubSeq(a, 1, k - 1)
      BY <2>2
    <3>2. f[k] = Cleaned(SubSeq(a, 1, k - 1), a[k])
      BY <1>8, <3>1
    <3>3. a[k] # Up
      BY <1>4
    <3>4. Append(SubSeq(a, 1, k - 1), a[k]) = SubSeq(a, 1, k)
      BY <1>1, <1>4, OneMore
    <3>5. f[k] = SubSeq(a, 1, k)
      BY <3>2, <3>3, <3>4, Zenon DEF Cleaned
    <3>6. k \in 0..A
      OBVIOUS
    <3> QED
      BY <3>5, <3>6
  <2> HIDE DEF T
  <2>3. \A k \in 0..A : k \in T
    BY <2>1, <2>2, UpTo
  <2>4. A \in 0..A
    OBVIOUS
  <2>5. f[A] = SubSeq(a, 1, A)
    BY <2>3, <2>4 DEF T
  <2> QED
    BY <1>1, <1>4, <2>5, NothingMore
<1>10. f[A + n] = c
  <2> DEFINE T == {k \in 0..n : f[A + k] = SubSeq(a, 1, A - k)}
  <2>1. 0 \in T
    <3>1. A + 0 = A /\ A - 0 = A /\ 0 \in 0..n
      BY <1>4
    <3>2. SubSeq(a, 1, A) = a
      BY <1>1, <1>4, NothingMore
    <3> QED
      BY <1>9, <3>1, <3>2
  <2>2. ASSUME NEW k \in 1..n, k - 1 \in T PROVE k \in T
    <3>1. PICK m \in 1..A : m = A - (k - 1)
      BY <1>4
    <3>2. m - 1 = A - k
      BY <1>4, <3>1
    <3>3. f[A + (k - 1)] = SubSeq(a, 1, m)
      BY <2>2, <3>1
    <3>4. f[A + k] = Cleaned(SubSeq(a, 1, m), Up)
      BY <1>8, <3>3
    <3>5. SubSeq(a, 1, m) # <<>> /\ Front(SubSeq(a, 1, m)) = SubSeq(a, 1, m - 1)
      BY <1>1, <1>4, OneLess
    <3>6. f[A + k] = SubSeq(a, 1, m - 1)
      BY <3>4, <3>5 DEF Cleaned
    <3> QED
      BY <3>2, <3>6
  <2> HIDE DEF T
  <2>3. \A k \in 0..n : k \in T
    BY <1>4, <2>1, <2>2, UpTo
  <2>4. n \in 0..n
    BY <1>4
  <2> QED
    BY <1>5, <2>3, <2>4 DEF T
<1>11. f[A + n + B] = c \o b
  <2> DEFINE T == {k \in 0..B : f[A + n + k] = c \o SubSeq(b, 1, k)}
  <2>1. 0 \in T
    <3>1. A + n + 0 = A + n /\ 0 \in 0..B
      BY <1>4
    <3>2. SubSeq(b, 1, 0) = <<>> /\ c \o <<>> = c
      BY <1>4, NothingMore
    <3> QED
      BY <1>10, <3>1, <3>2
  <2>2. ASSUME NEW k \in 1..B, k - 1 \in T PROVE k \in T
    <3>1. f[A + n + (k - 1)] = c \o SubSeq(b, 1, k - 1)
      BY <2>2
    <3>2. f[A + n + k] = Cleaned(c \o SubSeq(b, 1, k - 1), b[k])
      BY <1>8, <3>1
    <3>3. b[k] # Up
      BY <1>4
    <3>4. Append(c \o SubSeq(b, 1, k - 1), b[k]) = c \o SubSeq(b, 1, k)
      <4>1. k \in 1..Len(b)
        BY <1>2, Zenon
      <4>2. b \in Seq(Names) /\ c \in Seq(Names)
        BY <1>4
      <4> QED
        BY <4>1, <4>2, OneMoreBehind, Zenon
    <3>5. f[A + n + k] = c \o SubSeq(b, 1, k)
      BY <3>2, <3>3, <3>4, Zenon DEF Cleaned
    <3>6. k \in 0..B
      OBVIOUS
    <3> QED
      BY <3>5, <3>6
  <2> HIDE DEF T
  <2>3. \A k \in 0..B : k \in T
    BY <2>1, <2>2, UpTo
  <2>4. B \in 0..B
    OBVIOUS
  <2>5. f[A + n + B] = c \o SubSeq(b, 1, B)
    BY <2>3, <2>4 DEF T
  <2> QED
    BY <1>2, <1>4, <2>5, NothingMore
<1> QED
  BY <1>1, <1>3, <1>5, <1>6, <1>8, <1>11

\* Cleaning makes a path, and leaves one as it is.
LEMMA CleanFacts ==
  /\ \A p \in Seq(Names \cup {Up}) : CleanAbs(p) \in Path /\ CleanAbs(CleanAbs(p)) = CleanAbs(p)
  /\ \A a \in Path : CleanAbs(a) = a
<1>1. ASSUME NEW p \in Seq(Names \cup {Up}) PROVE CleanAbs(p) \in Path
  <2>1. PICK f \in [0..Len(p) -> Path] : CleanAbs(p) = f[Len(p)]
    BY CleanIsDefined
  <2>2. Len(p) \in 0..Len(p)
    OBVIOUS
  <2> QED
    BY <2>1, <2>2
<1>2. ASSUME NEW a \in Path PROVE CleanAbs(a) = a
  <2>1. PICK x \in Seq(Names) : x = a
    BY DEF Path
  <2>2. PICK none \in Path : none = <<>>
    <3>1. <<>> \in Path
      BY DEF Path
    <3> QED
      BY <3>1
  <2>3. 0 \in 0..Len(a) /\ Len(a) - 0 = Len(a)
    BY <2>1
  <2>4. CleanAbs(a \o ([i \in 1..0 |-> Up] \o none)) = SubSeq(a, 1, Len(a) - 0) \o none
    BY <2>3, CleanUpAndDown
  <2>5. [i \in 1..0 |-> Up] \o none = <<>>
    BY <2>2
  <2>6. SubSeq(x, 1, Len(x)) = x /\ x \o <<>> = x
    BY NothingMore
  <2> QED
    BY <2>1, <2>2, <2>3, <2>4, <2>5, <2>6
<1> QED
  BY <1>1, <1>2

\* The relative path from b to p leads from b to p (filepath.Rel).
LEMMA RelLeads ==
  ASSUME NEW b \in Path, NEW p \in Path
  PROVE  CleanAbs(b \o RelOf(b, p).rest) = p
<1>1. PICK n \in Nat : n = Shared(b, p) /\ n <= Len(b) /\ n <= Len(p)
  BY SharedFacts DEF Path
<1>2. PICK B \in Nat : B = Len(b)
  BY DEF Path
<1>3. PICK P \in Nat : P = Len(p)
  BY DEF Path
<1>4. PICK up \in 0..Len(b) : up = Rel(b, p).up /\ up = B - n
  <2>1. Rel(b, p).up = Len(b) - Shared(b, p)
    BY RelFacts
  <2> QED
    BY <1>1, <1>2, <2>1
<1>5. PICK d \in Path :
        /\ d = Rel(b, p).down /\ Len(d) = P - n
        /\ \A i \in 1..P - n : d[i] = p[n + i]
  <2>1. /\ Rel(b, p).down \in Path /\ Len(Rel(b, p).down) = Len(p) - Shared(b, p)
        /\ \A i \in 1..Len(p) - Shared(b, p) : Rel(b, p).down[i] = p[Shared(b, p) + i]
    BY RelFacts
  <2> QED
    BY <1>1, <1>3, <2>1
<1>6. RelOf(b, p).rest = [i \in 1..up |-> Up] \o d
  BY <1>4, <1>5 DEF RelOf, RelText, Text
<1>7. CleanAbs(b \o RelOf(b, p).rest) = SubSeq(b, 1, n) \o d
  <2>1. CleanAbs(b \o ([i \in 1..up |-> Up] \o d)) = SubSeq(b, 1, Len(b) - up) \o d
    BY CleanUpAndDown
  <2>2. Len(b) - up = n
    BY <1>1, <1>2, <1>4
  <2> QED
    BY <1>6, <2>1, <2>2
<1>8. PICK c \in Seq(Names) :
        c = SubSeq(b, 1, n) /\ Len(c) = n /\ \A i \in 1..n : c[i] = b[i]
  <2>1. PICK x \in Seq(Names) : x = b /\ \A i \in 1..n : x[i] \in Names
    BY <1>1 DEF Path
  <2>2. /\ SubSeq(x, 1, n) \in Seq(Names) /\ Len(SubSeq(x, 1, n)) = n
        /\ \A i \in 1..n : SubSeq(x, 1, n)[i] = x[i]
    BY <2>1, SubSeqProperties
  <2> QED
    BY <2>1, <2>2
<1>9. \A i \in 1..n : b[i] = p[i]
  BY <1>1, SharedAgree
<1>10. PICK q \in Seq(Names) :
         /\ q = c \o d /\ Len(q) = Len(c) + Len(d)
         /\ \A i \in 1..Len(c) + Len(d) : q[i] = IF i <= Len(c) THEN c[i] ELSE d[i - Len(c)]
  <2>1. PICK x \in Seq(Names) : x = d
    BY DEF Path
  <2>2. /\ c \o x \in Seq(Names) /\ Len(c \o x) = Len(c) + Len(x)
        /\ \A i \in 1..Len(c) + Len(x) :
             (c \o x)[i] = IF i <= Len(c) THEN c[i] ELSE x[i - Len(c)]
    BY ConcatProperties
  <2> QED
    BY <2>1, <2>2
<1>11. Len(q) = P
  BY <1>1, <1>3, <1>5, <1>8, <1>10
<1>12. ASSUME NEW i \in 1..P PROVE q[i] = p[i]
  <2>0. Len(c) = n /\ Len(d) = P - n /\ i \in 1..Len(c) + Len(d)
    BY <1>1, <1>3, <1>5, <1>8
  <2>1. CASE i <= n
    <3>1. i \in 1..n
      BY <2>1
    <3>2. q[i] = c[i]
      BY <1>10, <2>0, <2>1
    <3> QED
      BY <1>8, <1>9, <3>1, <3>2
  <2>2. CASE ~(i <= n)
    <3>1. i - n \in 1..P - n /\ n + (i - n) = i
      BY <2>2
    <3>2. q[i] = d[i - n]
      BY <1>10, <2>0, <2>2
    <3> QED
      BY <1>5, <3>1, <3>2
  <2> QED
    BY <2>1, <2>2
<1>13. q = p
  <2>1. p \in Seq(Names) /\ Len(p) = P
    BY <1>3 DEF Path
  <2> QED
    BY <1>11, <1>12, <2>1, SeqEqual
<1> QED
  BY <1>7, <1>8, <1>10, <1>13

-----------------------------------------------------------------------------
(* Environments and texts.                                                 *)

\* What the environment may be (TestEnv, Runtime).
Environment == [jail : Jail, wd : Path, home : Path \cup {NoHome}, vars : [Keys -> AnyText]]

\* Components behind a path, or behind a text, make a path that may be written.
LEMMA Written ==
  /\ \A p \in Path : p \in Seq(Names \cup {Up})
  /\ \A p, q \in Seq(Names \cup {Up}) : p \o q \in Seq(Names \cup {Up})
  /\ \A p \in Seq(Names \cup {Up}) : AbsText(p) \in AnyText /\ AbsText(p).head = "abs"
                                     /\ AbsText(p).rest = p
  /\ Empty \in AnyText /\ Dot \in AnyText /\ <<>> \in Seq(Names \cup {Up})
  /\ Empty.head = "empty" /\ Dot.head = "rel" /\ Empty.rest = <<>> /\ Dot.rest = <<>>
  /\ \A t \in AnyText : t.rest \in Seq(Names \cup {Up}) /\ t # Failed
<1>1. \A p \in Path : p \in Seq(Names \cup {Up})
  BY DEF Path
<1>2. \A p, q \in Seq(Names \cup {Up}) : p \o q \in Seq(Names \cup {Up})
  OBVIOUS
<1>3. \A p \in Seq(Names \cup {Up}) : AbsText(p) \in AnyText /\ AbsText(p).head = "abs"
                                      /\ AbsText(p).rest = p
  BY DEF AbsText, Text, AnyText
<1>4. <<>> \in Seq(Names \cup {Up})
  OBVIOUS
<1>5. Empty \in AnyText /\ Dot \in AnyText
  BY <1>4 DEF Empty, Dot, RelText, Text, AnyText
<1>6. \A t \in AnyText : t.rest \in Seq(Names \cup {Up}) /\ t # Failed
  BY EnvAssumption DEF AnyText
<1>7. Empty.head = "empty" /\ Dot.head = "rel" /\ Empty.rest = <<>> /\ Dot.rest = <<>>
  BY DEF Empty, Dot, RelText, Text
<1> QED
  BY <1>1, <1>2, <1>3, <1>4, <1>5, <1>6, <1>7

\* What Get returns is a text (TestEnv.Get).
LEMMA GetType ==
  ASSUME NEW env \in Environment, NEW k \in Keys \cup {"HOME", "PWD"}
  PROVE  Get(env, k) \in AnyText
<1>1. env.jail \in Jail /\ env.wd \in Path /\ env.home \in Path \cup {NoHome}
      /\ env.vars \in [Keys -> AnyText]
  BY DEF Environment
<1>2. CASE k = "HOME"
  <2>1. ASSUME env.home # NoHome PROVE AbsText(HostPath(env.jail, env.home)) \in AnyText
    <3>1. HostPath(env.jail, env.home) \in Path
      BY <1>1, <2>1, RemoveOfHost
    <3> QED
      BY <3>1, Written
  <2> QED
    BY <1>2, <2>1, Written DEF Get
<1>3. CASE k = "PWD"
  BY <1>1, <1>3, Written DEF Get
<1>4. CASE k \notin {"HOME", "PWD"}
  BY <1>1, <1>4 DEF Get
<1> QED
  BY <1>2, <1>3, <1>4

\* What the expansions yield is a text again (Runtime.expandEnv, ExpandPath),
\* and below the working directory it is a path.
LEMMA ExpansionTypes ==
  ASSUME NEW env \in Environment
  PROVE  /\ \A t \in AnyText : ExpandEnv(env, t) \in AnyText
         /\ \A t \in AnyText : ExpandPath(env, t) \in AnyText \cup {Failed}
         /\ \A t \in AnyText : Located(env, t) \in Path
         /\ Located(env, Failed) = Failed
<1>1. env.jail \in Jail /\ env.wd \in Path /\ env.home \in Path \cup {NoHome}
  BY DEF Environment
<1>2. ASSUME NEW t \in AnyText PROVE ExpandEnv(env, t) \in AnyText
  <2>1. CASE t.head # "var"
    BY <2>1 DEF ExpandEnv
  <2>2. CASE t.head = "var"
    <3>1. t.var \in Keys \cup {"HOME", "PWD"} /\ t.rest \in Seq(Names \cup {Up})
      BY <2>2 DEF AnyText
    <3>2. PICK v \in AnyText : v = Get(env, t.var)
      BY <3>1, GetType
    <3>3. v.rest \o t.rest \in Seq(Names \cup {Up})
      BY <3>1, Written
    <3>4. [v EXCEPT !.rest = @ \o t.rest] \in AnyText
      BY <3>3 DEF AnyText
    <3>5. AbsText(t.rest) \in AnyText /\ Empty \in AnyText
      BY <3>1, Written
    <3> QED
      BY <2>2, <3>2, <3>4, <3>5 DEF ExpandEnv
  <2> QED
    BY <2>1, <2>2
<1>3. ASSUME NEW t \in AnyText PROVE ExpandPath(env, t) \in AnyText \cup {Failed}
  <2>1. CASE t.head = "home" /\ env.home # NoHome
    <3>1. env.home \o t.rest \in Seq(Names \cup {Up})
      BY <1>1, <2>1, Written
    <3>2. CleanAbs(env.home \o t.rest) \in Path
      BY <3>1, CleanFacts
    <3>3. AbsText(CleanAbs(env.home \o t.rest)) \in AnyText
      BY <3>2, Written
    <3> QED
      BY <2>1, <3>3 DEF ExpandPath
  <2>2. CASE ~(t.head = "home" /\ env.home # NoHome)
    BY <2>2 DEF ExpandPath
  <2> QED
    BY <2>1, <2>2
<1>4. ASSUME NEW t \in AnyText PROVE Located(env, t) \in Path
  <2>1. t # Failed /\ t.rest \in Seq(Names \cup {Up})
    BY Written
  <2>2. PICK c \in Seq(Names \cup {Up}) : c = Components(t)
    <3>1. CASE t.head = "var"
      <4>1. t.var \in Keys \cup {"HOME", "PWD"}
        BY <3>1 DEF AnyText
      <4>2. Literal[t.var] \in Names
        BY <4>1, EnvAssumption
      <4>3. <<Literal[t.var]>> \o t.rest \in Seq(Names \cup {Up})
        BY <2>1, <4>2
      <4> QED
        BY <3>1, <4>3 DEF Components
    <3>2. CASE t.head # "var"
      BY <2>1, <3>2 DEF Components
    <3> QED
      BY <3>1, <3>2
  <2>3. env.wd \o c \in Seq(Names \cup {Up})
    BY <1>1, <2>2, Written
  <2>4. CleanAbs(t.rest) \in Path /\ CleanAbs(env.wd \o c) \in Path
    BY <2>1, <2>3, CleanFacts
  <2> QED
    BY <2>1, <2>2, <2>4 DEF Located
<1>5. Located(env, Failed) = Failed
  BY DEF Located
<1> QED
  BY <1>2, <1>3, <1>4, <1>5

\* What the ways to resolve a text yield (Runtime.AbsPath and ResolvePath,
\* TestEnv.ResolvePath).
LEMMA ResolutionTypes ==
  ASSUME NEW env \in Environment, NEW t \in AnyText
  PROVE  /\ AbsPath(env, t) \in Path \cup {Failed}
         /\ ResolvePath(env, t) \in Path \cup {Failed}
         /\ EnvResolvePath(env, t) \in Path
<1>1. env.wd \in Path /\ env.home \in Path \cup {NoHome}
  BY DEF Environment
<1>2. PICK u \in AnyText : u = ExpandEnv(env, t)
  BY ExpansionTypes
<1>3. PICK w \in AnyText \cup {Failed} : w = ExpandPath(env, u)
  BY ExpansionTypes
<1>4. Located(env, w) \in Path \cup {Failed}
  BY ExpansionTypes
<1>5. AbsPath(env, t) \in Path \cup {Failed}
  BY <1>2, <1>3, <1>4 DEF AbsPath
<1>6. ResolvePath(env, t) \in Path \cup {Failed}
  BY <1>1, <1>2, <1>3, <1>4 DEF ResolvePath, InJailOnly
<1>7. EnvResolvePath(env, t) \in Path
  <2>1. CASE t \in {Empty, Dot}
    <3>1. t.head # "home"
      BY <2>1, Written
    <3>2. EnvResolvePath(env, t) = env.wd
      BY <2>1, <3>1, Zenon DEF EnvResolvePath
    <3> QED
      BY <1>1, <3>2
  <2>2. CASE t \notin {Empty, Dot} /\ t.head = "home"
    <3>1. /\ env.wd \o t.rest \in Seq(Names \cup {Up})
          /\ env.home # NoHome => env.home \o t.rest \in Seq(Names \cup {Up})
      BY <1>1, Written
    <3>2. /\ CleanAbs(env.wd \o t.rest) \in Path
          /\ env.home # NoHome => CleanAbs(env.home \o t.rest) \in Path
      BY <3>1, CleanFacts
    <3> QED
      BY <2>2, <3>2 DEF EnvResolvePath
  <2>3. CASE t \notin {Empty, Dot} /\ t.head # "home"
    BY <2>3, ExpansionTypes DEF EnvResolvePath
  <2> QED
    BY <2>1, <2>2, <2>3
<1> QED
  BY <1>5, <1>6, <1>7

-----------------------------------------------------------------------------
(* The environment stays one.                                              *)

\* Setting and unsetting a variable, and another working directory, keep it an
\* environment, or fail (Runtime.Set, Unset and Setwd).
LEMMA ChangesKeepEnvironment ==
  ASSUME NEW env \in Environment, NEW t \in AnyText
  PROVE  /\ \A p \in Path \cup {Failed} : WithWd(env, p) \in Environment \cup {Failed}
         /\ \A k : WithVar(env, k, t) \in Environment \cup {Failed}
         /\ \A k : WithoutVar(env, k) \in Environment
<1>1. /\ env.jail \in Jail /\ env.wd \in Path /\ env.home \in Path \cup {NoHome}
      /\ env.vars \in [Keys -> AnyText]
  BY DEF Environment
<1>2. ASSUME NEW p \in Path \cup {Failed} PROVE WithWd(env, p) \in Environment \cup {Failed}
  <2>1. CASE p = Failed
    BY <2>1 DEF WithWd
  <2>2. CASE p # Failed
    <3>1. [env EXCEPT !.wd = p] \in Environment
      BY <2>2 DEF Environment
    <3> QED
      BY <3>1 DEF WithWd
  <2> QED
    BY <2>1, <2>2
<1>3. \A h \in Path \cup {NoHome} : [env EXCEPT !.home = h] \in Environment
  BY DEF Environment
<1>4. \A k : \A x \in AnyText : [env EXCEPT !.vars[k] = x] \in Environment
  BY DEF Environment
<1>5. ASSUME NEW k PROVE WithVar(env, k, t) \in Environment \cup {Failed}
  <2>1. EnvResolvePath(env, t) \in Path /\ ResolvePath(env, t) \in Path \cup {Failed}
    BY ResolutionTypes
  <2>2. CASE env = Failed
    BY <2>2 DEF WithVar
  <2>3. CASE env # Failed /\ k = "HOME"
    BY <1>3, <2>1, <2>3 DEF WithVar
  <2>4. CASE env # Failed /\ k = "PWD"
    BY <1>2, <2>1, <2>4 DEF WithVar, ResolveWorkingDir
  <2>5. CASE env # Failed /\ k \notin {"HOME", "PWD"}
    BY <1>4, <2>5 DEF WithVar
  <2> QED
    BY <2>2, <2>3, <2>4, <2>5
<1>6. ASSUME NEW k PROVE WithoutVar(env, k) \in Environment
  <2>1. Empty \in AnyText
    BY Written
  <2> QED
    BY <1>3, <1>4, <2>1 DEF WithoutVar
<1> QED
  BY <1>2, <1>5, <1>6

\* So does a map of variables, in any order (WithEnvMap).
LEMMA MapKeepsEnvironment ==
  ASSUME NEW env \in Environment, NEW m \in EnvMaps, NEW order \in SetToSeqs(DOMAIN m)
  PROVE  WithVars(env, m, order) \in Environment \cup {Failed}
<1> DEFINE S == Environment \cup {Failed}
<1>1. PICK n \in Nat : n = Len(order) /\ \A k \in 1..n : order[k] \in DOMAIN m
  <2>1. Cardinality(DOMAIN m) \in Nat
    BY StartupAssumption, FS_CardinalityType
  <2>2. order \in [1..Cardinality(DOMAIN m) -> DOMAIN m]
    BY DEF SetToSeqs
  <2> QED
    BY <2>1, <2>2
<1>2. \A k \in 1..n : m[order[k]] \in AnyText /\ k - 1 \in 0..n /\ k # 0
  BY <1>1, StartupAssumption
<1>3. ASSUME NEW x \in S, NEW k \in 1..n PROVE WithVar(x, order[k], m[order[k]]) \in S
  <2>1. CASE x = Failed
    BY <2>1 DEF WithVar
  <2>2. CASE x \in Environment
    BY <1>2, <2>2, ChangesKeepEnvironment
  <2> QED
    BY <2>1, <2>2
<1> DEFINE g == [k \in 1..n |-> [x \in S |-> WithVar(x, order[k], m[order[k]])]]
           Value(h, k) == IF k = 0 THEN env
                          ELSE WithVar(h[k - 1], order[k], m[order[k]])
           Is(h) == h = [k \in 0..n |-> Value(h, k)]
<1>4. /\ \A k \in 1..n : \A x \in S : g[k][x] = WithVar(x, order[k], m[order[k]])
      /\ \A k \in 1..n : \A x \in S : g[k][x] \in S
  BY <1>3
<1>5. env \in S
  OBVIOUS
<1> HIDE DEF g, S
<1>6. PICK f : Iterates(f, n, S, env, g)
  BY <1>4, <1>5, DefinedUpTo
<1>7. /\ f \in [0..n -> S] /\ f[0] = env
      /\ \A k \in 1..n : f[k - 1] \in S /\ f[k] = WithVar(f[k - 1], order[k], m[order[k]])
  BY <1>2, <1>4, <1>6 DEF Iterates
<1>8. Is(f)
  <2>1. ASSUME NEW k \in 0..n PROVE f[k] = Value(f, k)
    <3>1. CASE k = 0
      BY <1>7, <3>1
    <3>2. CASE k # 0
      <4>1. k \in 1..n
        BY <3>2
      <4> QED
        BY <1>7, <3>2, <4>1
    <3> QED
      BY <3>1, <3>2
  <2> HIDE DEF Value
  <2> QED
    BY <1>7, <2>1
<1>9. PICK h : Is(h) /\ WithVars(env, m, order) = h[n]
  <2>1. WithVars(env, m, order) = (CHOOSE h : Is(h))[n]
    BY <1>1 DEF WithVars
  <2> HIDE DEF Is
  <2>2. Is(CHOOSE h : Is(h))
    BY <1>8
  <2> QED
    BY <2>1, <2>2
<1>10. \A k \in 0..n : h[k] = Value(h, k)
  <2> HIDE DEF Value
  <2> QED
    BY <1>9
<1> HIDE DEF Is
<1>11. h[n] = f[n]
  <2> DEFINE T == {i \in 0..n : h[i] = f[i]}
  <2>1. 0 \in T
    BY <1>7, <1>10
  <2>2. ASSUME NEW k \in 1..n, k - 1 \in T PROVE k \in T
    <3>1. k \in 0..n /\ k # 0 /\ h[k - 1] = f[k - 1]
      BY <2>2
    <3>2. h[k] = WithVar(h[k - 1], order[k], m[order[k]])
      BY <1>10, <3>1
    <3> QED
      BY <1>7, <3>1, <3>2
  <2> HIDE DEF T
  <2>3. \A k \in 0..n : k \in T
    BY <2>1, <2>2, UpTo
  <2>4. n \in 0..n
    OBVIOUS
  <2> QED
    BY <2>3, <2>4 DEF T
<1>12. f[n] \in S
  BY <1>7
<1> QED
  BY <1>9, <1>11, <1>12 DEF S

LEMMA EnvironmentFirst == Init => e \in Environment
<1> SUFFICES ASSUME Init PROVE e \in Environment
  OBVIOUS
<1>1. PICK jail \in Jail, home \in Path : e = NewTestRuntime(jail, home)
  BY StartupAssumption DEF Init
<1>2. RemoveJailPrefix(jail, home) \in Path
  BY RemoveType
<1>3. ASSUME NEW names \in Seq(Names) PROVE AbsText(home \o names) \in AnyText
  <2>1. home \o names \in Path
    BY DEF Path
  <2> QED
    BY <2>1, Written
<1>4. /\ <<".config">> \in Seq(Names) /\ <<".cache">> \in Seq(Names)
      /\ <<".local", "share">> \in Seq(Names) /\ <<".local", "state">> \in Seq(Names)
  BY EnvAssumption
<1>5. /\ AbsText(home \o <<".config">>) \in AnyText /\ AbsText(home \o <<".cache">>) \in AnyText
      /\ AbsText(home \o <<".local", "share">>) \in AnyText
      /\ AbsText(home \o <<".local", "state">>) \in AnyText
  BY <1>3, <1>4
<1>6. Empty \in AnyText
  BY Written
<1>7. e.vars \in [Keys -> AnyText]
  BY <1>1, <1>5, <1>6 DEF NewTestRuntime
<1> QED
  BY <1>1, <1>2, <1>7 DEF NewTestRuntime, Environment

LEMMA EnvironmentKept == e \in Environment /\ [Next]_vars => e' \in Environment
<1> SUFFICES ASSUME e \in Environment, [Next]_vars PROVE e' \in Environment
  OBVIOUS
<1>1. ASSUME NEW env \in Environment \cup {Failed}, SetUp(env) \/ SetEnv(env)
      PROVE  e' \in Environment
  BY <1>1 DEF SetUp, SetEnv
<1>2. ASSUME NEW t \in Texts PROVE t \in AnyText
  BY StartupAssumption
<1>3. CASE Options
  <2>1. ASSUME NEW k \in DOMAIN EnvTexts, NEW t \in EnvTexts[k], WithEnv(k, t)
        PROVE  e' \in Environment
    <3>1. t \in AnyText
      BY StartupAssumption
    <3>2. WithVar(e, k, t) \in Environment \cup {Failed}
      BY <3>1, ChangesKeepEnvironment
    <3> QED
      BY <1>1, <2>1, <3>2 DEF WithEnv
  <2>2. ASSUME NEW m \in EnvMaps, WithEnvMap(m) PROVE e' \in Environment
    BY <1>1, <2>2, MapKeepsEnvironment DEF WithEnvMap
  <2>3. ASSUME NEW t \in Texts, WithWdOption(t) PROVE e' \in Environment
    <3>1. WithWd(e, ResolvePath(e, t)) \in Environment \cup {Failed}
      BY <1>2, ResolutionTypes, ChangesKeepEnvironment, Written
    <3> QED
      BY <1>1, <2>3, <3>1 DEF WithWdOption
  <2>4. ASSUME NEW t \in Texts, NEW f \in Fixtures, WithFixture(f, t) PROVE e' \in Environment
    BY <2>4 DEF WithFixture
  <2>5. ASSUME Begin PROVE e' \in Environment
    BY <2>5 DEF Begin
  <2> QED
    BY <1>3, <2>1, <2>2, <2>3, <2>4, <2>5 DEF Options
<1>4. CASE Run
  <2>1. ASSUME NEW k \in DOMAIN EnvTexts, NEW t \in EnvTexts[k], Set(k, t)
        PROVE  e' \in Environment
    <3>1. t \in AnyText
      BY StartupAssumption
    <3>2. WithVar(e, k, t) \in Environment \cup {Failed}
      BY <3>1, ChangesKeepEnvironment
    <3> QED
      BY <1>1, <2>1, <3>2 DEF Set
  <2>2. ASSUME NEW k, Unset(k) PROVE e' \in Environment
    <3>1. WithoutVar(e, k) \in Environment
      BY ChangesKeepEnvironment, Written
    <3> QED
      BY <1>1, <2>2, <3>1 DEF Unset
  <2>3. ASSUME NEW t \in Texts, Setwd(t) PROVE e' \in Environment
    <3>1. WithWd(e, ResolvePath(e, t)) \in Environment \cup {Failed}
      BY <1>2, ResolutionTypes, ChangesKeepEnvironment, Written
    <3> QED
      BY <1>1, <2>3, <3>1 DEF Setwd
  <2>4. ASSUME NEW t, NEW d, WriteFile(t, d) \/ AtomicWriteFile(t, d) \/ Edit(t, d)
        PROVE  e' \in Environment
    BY <2>4 DEF WriteFile, AtomicWriteFile, Edit, Writes
  <2>5. ASSUME NEW t, NewAppPaths(t) PROVE e' \in Environment
    BY <2>5 DEF NewAppPaths
  <2>6. ASSUME NewGitAppPaths PROVE e' \in Environment
    BY <2>5, <2>6 DEF NewGitAppPaths
  <2>7. ASSUME ResolveConfig PROVE e' \in Environment
    BY <2>7 DEF ResolveConfig
  <2> QED
    BY <1>4, <2>1, <2>2, <2>3, <2>4, <2>5, <2>6, <2>7 DEF Run
<1>5. CASE UNCHANGED vars
  BY <1>5 DEF vars
<1> QED
  BY <1>3, <1>4, <1>5 DEF Next

-----------------------------------------------------------------------------
(* One text, one path.                                                     *)

\* Where no name begins with "..", every virtual path is in its jail
\* (jail.IsInJail of what jail.ResolvePath makes).
LEMMA VirtualIsInJail ==
  ASSUME DotNames = {}, NEW jail \in Jail, NEW p \in Path
  PROVE  IsInJail(jail, HostPath(jail, p))
<1>1. CASE jail = NoJail
  BY <1>1 DEF IsInJail
<1>2. CASE jail # NoJail
  <2>1. Rel(jail, HostPath(jail, p)) = [up |-> 0, down |-> p]
    BY <1>2, RemoveOfHost
  <2> QED
    BY <2>1 DEF IsInJail, StartsWithDots
<1> QED
  BY <1>1, <1>2

\* So a text means the same by AbsPath and by ResolvePath, and by TestEnv's
\* where it does not expand variables.
LEMMA SameByAll ==
  ASSUME DotNames = {}, NEW env \in Environment, NEW t \in AnyText, t # Empty
  PROVE  /\ AbsPath(env, t) = ResolvePath(env, t)
         /\ t.head # "var" /\ env.home # NoHome => EnvResolvePath(env, t) = AbsPath(env, t)
         /\ AbsPath(env, Dot) = env.wd /\ ResolvePath(env, Dot) = env.wd
<1>1. /\ env.jail \in Jail /\ env.wd \in Path /\ env.home \in Path \cup {NoHome}
      /\ t.rest \in Seq(Names \cup {Up}) /\ t # Failed /\ Dot # Failed /\ Dot # Empty
      /\ Dot.head = "rel" /\ Dot.rest = <<>>
  BY Written DEF Environment
<1>2. Located(env, Dot) = env.wd
  <2>1. env.wd \o <<>> = env.wd
    BY <1>1 DEF Path
  <2>2. CleanAbs(env.wd) = env.wd
    BY <1>1, CleanFacts
  <2> QED
    BY <1>1, <2>1, <2>2 DEF Located, Components
<1>3. /\ ExpandEnv(env, Dot) = Dot /\ ExpandPath(env, Dot) = Dot
      /\ AbsPath(env, Dot) = env.wd /\ ResolvePath(env, Dot) = env.wd
  BY <1>1, <1>2 DEF ExpandEnv, ExpandPath, AbsPath, ResolvePath
<1>4. PICK p \in Path \cup {Failed} : p = AbsPath(env, t)
  BY ResolutionTypes
<1>5. ResolvePath(env, t) = p
  <2>1. CASE t = Dot
    BY <1>3, <1>4, <2>1
  <2>2. CASE t # Dot
    <3>1. ResolvePath(env, t) = InJailOnly(env, p)
      BY <1>4, <2>2 DEF AbsPath, ResolvePath
    <3>2. p # Failed => IsInJail(env.jail, HostPath(env.jail, p))
      BY <1>1, VirtualIsInJail
    <3> QED
      BY <3>1, <3>2 DEF InJailOnly
  <2> QED
    BY <2>1, <2>2
<1>6. ASSUME t.head # "var", env.home # NoHome PROVE EnvResolvePath(env, t) = p
  <2>1. p = Located(env, ExpandPath(env, t))
    BY <1>4, <1>6 DEF AbsPath, ExpandEnv
  <2>2. CASE t = Dot
    <3>1. EnvResolvePath(env, t) = env.wd
      BY <1>1, <2>2 DEF EnvResolvePath
    <3> QED
      BY <1>3, <1>4, <2>2, <3>1
  <2>3. CASE t # Dot /\ t.head = "home"
    <3>1. env.home \o t.rest \in Seq(Names \cup {Up})
      BY <1>1, <1>6, Written
    <3>2. PICK q \in Path : q = CleanAbs(env.home \o t.rest)
      BY <3>1, CleanFacts
    <3>3. EnvResolvePath(env, t) = q
      BY <1>6, <2>3, <3>2 DEF EnvResolvePath
    <3>4. ExpandPath(env, t) = AbsText(q)
      BY <1>6, <2>3, <3>2 DEF ExpandPath
    <3>5. Located(env, AbsText(q)) = CleanAbs(q)
      BY Written DEF Located
    <3>6. CleanAbs(q) = q
      BY CleanFacts
    <3> QED
      BY <2>1, <3>3, <3>4, <3>5, <3>6
  <2>4. CASE t # Dot /\ t.head # "home"
    <3>1. ExpandPath(env, t) = t
      BY <2>4 DEF ExpandPath
    <3>2. EnvResolvePath(env, t) = Located(env, t)
      BY <2>4 DEF EnvResolvePath
    <3> QED
      BY <2>1, <3>1, <3>2
  <2> QED
    BY <2>2, <2>3, <2>4
<1> QED
  BY <1>3, <1>4, <1>5, <1>6

LEMMA AgreeIn ==
  ASSUME DotNames = {}, e \in Environment
  PROVE  PathsAgree
<1> SUFFICES ASSUME NEW t \in Texts \ {Empty}
             PROVE  LET p == AbsPath(e, t) IN
                    /\ p = ResolvePath(e, t)
                    /\ t.head # "var" /\ e.home # NoHome => EnvResolvePath(e, t) = p
                    /\ p # Failed => LET rel == RuntimeRel(e, Dot, t) IN
                                     /\ CleanAbs(e.wd \o rel.rest) = p
                                     /\ rel = RelativePath(e, Dot, t)
  BY DEF PathsAgree
<1>1. t \in AnyText
  BY StartupAssumption
<1>2. PICK p \in Path \cup {Failed} : p = AbsPath(e, t)
  BY <1>1, ResolutionTypes
<1>3. /\ ResolvePath(e, t) = p
      /\ t.head # "var" /\ e.home # NoHome => EnvResolvePath(e, t) = p
      /\ AbsPath(e, Dot) = e.wd /\ ResolvePath(e, Dot) = e.wd
  BY <1>1, <1>2, SameByAll
<1>4. e.wd \in Path /\ e.wd # Failed
  BY HostAssumption DEF Environment
<1>5. ASSUME p # Failed
      PROVE  /\ RuntimeRel(e, Dot, t) = RelOf(e.wd, p)
             /\ RelativePath(e, Dot, t) = RelOf(e.wd, p)
             /\ CleanAbs(e.wd \o RelOf(e.wd, p).rest) = p
  <2>1. RuntimeRel(e, Dot, t) = RelOf(e.wd, p)
    BY <1>3, <1>4, <1>5 DEF RuntimeRel
  <2>2. RelativePath(e, Dot, t) = RelOf(e.wd, p)
    BY <1>2, <1>3, <1>4, <1>5 DEF RelativePath
  <2> QED
    BY <1>4, <1>5, <2>1, <2>2, RelLeads
<1> QED
  BY <1>2, <1>3, <1>5

\* For any jail, any home and any texts, however the environment is changed:
\* Runtime.AbsPath and ResolvePath, and TestEnv.ResolvePath where it does not
\* expand variables, mean the same path by a text, and Runtime.Rel and
\* RelativePath lead there from the working directory.  With a name such as
\* "..data" this fails: ResolvePath refuses a path that begins with it
\* (jail.IsInJail), and AbsPath does not.
THEOREM PathsMeanTheSame == ASSUME DotNames = {} PROVE Spec => []PathsAgree
<1>1. Init => e \in Environment
  BY EnvironmentFirst
<1>2. e \in Environment /\ [Next]_vars => (e \in Environment)'
  BY EnvironmentKept
<1>3. e \in Environment => PathsAgree
  BY AgreeIn
<1> QED
  BY <1>1, <1>2, <1>3, PTL DEF Spec

=============================================================================
