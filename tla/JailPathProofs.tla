--------------------------- MODULE JailPathProofs ---------------------------
(***************************************************************************)
(* What the operators of JailPath do, for any jail and any path, and how   *)
(* the proofs about paths use induction.                                   *)
(***************************************************************************)
EXTENDS JailPath, FiniteSetTheorems, SequenceTheorems, WellFoundedInduction, TLAPS

-----------------------------------------------------------------------------
(* Induction.                                                              *)

\* A set of naturals that is not empty has a least element.
LEMMA LeastNatural ==
  ASSUME NEW S \in SUBSET Nat, S # {}
  PROVE  \E n \in S : \A m \in S : n <= m
<1>1. PICK n \in S : \A m \in S : ~ (<<m, n>> \in OpToRel(<, Nat))
  BY NatLessThanWellFounded, WFMin
<1>2. \A m \in S : ~ (m < n)
  BY <1>1 DEF OpToRel
<1> QED
  BY <1>2

\* What holds of 0 and of each number after one of which it holds.
LEMMA UpTo ==
  ASSUME NEW n \in Nat, NEW T, 0 \in T, \A k \in 1..n : k - 1 \in T => k \in T
  PROVE  \A k \in 0..n : k \in T
<1> DEFINE Bad == {k \in 0..n : k \notin T}
<1>1. Bad = {}
  <2> SUFFICES ASSUME Bad # {} PROVE FALSE
    OBVIOUS
  <2>1. PICK k \in Bad : \A m \in Bad : k <= m
    <3>1. Bad \in SUBSET Nat
      OBVIOUS
    <3> HIDE DEF Bad
    <3> QED
      BY <3>1, LeastNatural
  <2>2. k \in 1..n /\ k - 1 \in 0..n /\ ~(k <= k - 1)
    BY <2>1
  <2> QED
    BY <2>1, <2>2
<1> QED
  BY <1>1

\* f begins with a and goes on as g has it.
Iterates(f, n, S, a, g) ==
  f \in [0..n -> S] /\ f[0] = a /\ \A k \in 1..n : f[k] = g[k][f[k - 1]]

\* A function is defined by its value at 0 and how each value follows from the
\* one before.
LEMMA DefinedUpTo ==
  ASSUME NEW S, NEW a \in S, NEW n \in Nat, NEW g,
         \A k \in 1..n : \A x \in S : g[k][x] \in S
  PROVE  \E f : Iterates(f, n, S, a, g)
<1> DEFINE Fits(m, f) == f[0] = a /\ \A k \in 1..m : f[k] = g[k][f[k - 1]]
           T == {m \in 0..n : \E f \in [0..m -> S] : Fits(m, f)}
<1>1. 0 \in T
  <2> DEFINE h == [k \in 0..0 |-> a]
  <2>1. h \in [0..0 -> S] /\ h[0] = a /\ 1..0 = {}
    OBVIOUS
  <2> HIDE DEF h
  <2>2. Fits(0, h)
    BY <2>1
  <2>3. \E f \in [0..0 -> S] : Fits(0, f)
    BY <2>1, <2>2
  <2> QED
    BY <2>3
<1>2. ASSUME NEW m \in 1..n, m - 1 \in T PROVE m \in T
  <2>1. PICK f \in [0..m - 1 -> S] : Fits(m - 1, f)
    BY <1>2
  <2>2. /\ f[0] = a /\ \A k \in 1..m - 1 : f[k] = g[k][f[k - 1]]
        /\ f[m - 1] \in S /\ m \in Nat /\ \A x \in S : g[m][x] \in S
    BY <2>1
  <2> DEFINE h == [k \in 0..m |-> IF k = m THEN g[m][f[m - 1]] ELSE f[k]]
  <2>3. h \in [0..m -> S]
    BY <2>2
  <2>4. h[0] = a
    BY <2>2
  <2>5. ASSUME NEW k \in 1..m PROVE h[k] = g[k][h[k - 1]]
    <3>1. h[k - 1] = f[k - 1]
      BY <2>2
    <3>2. CASE k = m
      BY <3>1, <3>2
    <3>3. CASE k # m
      <4>1. k \in 1..m - 1 /\ h[k] = f[k]
        BY <2>2, <3>3
      <4> QED
        BY <2>2, <3>1, <4>1
    <3> QED
      BY <3>2, <3>3
  <2> HIDE DEF h
  <2>6. Fits(m, h)
    BY <2>4, <2>5
  <2>7. m \in 0..n /\ \E f1 \in [0..m -> S] : Fits(m, f1)
    BY <2>2, <2>3, <2>6
  <2> QED
    BY <2>7
<1>3. n \in T
  <2> HIDE DEF T
  <2>1. \A k \in 1..n : k - 1 \in T => k \in T
    BY <1>2
  <2>2. \A k \in 0..n : k \in T
    BY <1>1, <2>1, UpTo
  <2>3. n \in 0..n
    OBVIOUS
  <2> QED
    BY <2>2, <2>3
<1> QED
  BY <1>3 DEF Iterates

-----------------------------------------------------------------------------
(* Paths.                                                                  *)

\* The components that two paths share are no more than either has, and if
\* they are all of j then p begins with j (filepath.Rel).
LEMMA SharedFacts ==
  ASSUME NEW j \in Path, NEW p \in Path
  PROVE  /\ Shared(j, p) \in 0..Len(j) /\ Shared(j, p) <= Len(p)
         /\ Shared(j, p) = Len(j)
              <=> Len(j) <= Len(p) /\ \A i \in 1..Len(j) : j[i] = p[i]
<1> DEFINE S == {k \in 1..Len(j) : k <= Len(p) /\ \A i \in 1..k : j[i] = p[i]}
<1>1. Len(j) \in Nat /\ Len(p) \in Nat
  BY LenProperties DEF Path
<1>2. ASSUME NEW n \in Nat
      PROVE  IsFiniteSet(1..n) /\ Cardinality(1..n) = n
  <2>1. /\ IsFiniteSet(1..n)
        /\ Cardinality(1..n) = IF 1 > n THEN 0 ELSE n - 1 + 1
    BY FS_Interval
  <2> QED
    BY <2>1
<1>3. S \in SUBSET (1..Len(j)) /\ S \in SUBSET (1..Len(p))
  BY <1>1
<1> HIDE DEF S
<1>4. /\ IsFiniteSet(S) /\ Cardinality(S) <= Len(j) /\ Cardinality(S) <= Len(p)
      /\ Cardinality(S) = Len(j) => S = 1..Len(j)
  <2> DEFINE J == 1..Len(j)
             P == 1..Len(p)
  <2>1. IsFiniteSet(J) /\ IsFiniteSet(P) /\ Cardinality(J) = Len(j) /\ Cardinality(P) = Len(p)
    BY <1>1, <1>2
  <2>2. S \in SUBSET J /\ S \in SUBSET P
    BY <1>3
  <2> HIDE DEF J, P
  <2>3. /\ IsFiniteSet(S) /\ Cardinality(S) <= Cardinality(J)
        /\ Cardinality(J) = Cardinality(S) => J = S
    BY <2>1, <2>2, FS_Subset
  <2>4. Cardinality(S) <= Cardinality(P)
    BY <2>1, <2>2, FS_Subset
  <2> QED
    BY <2>1, <2>3, <2>4 DEF J
<1>5. Cardinality(S) \in Nat
  BY <1>4, FS_CardinalityType
<1>6. S = 1..Len(j) <=> Len(j) <= Len(p) /\ \A i \in 1..Len(j) : j[i] = p[i]
  <2> USE DEF S
  <2>1. ASSUME S = 1..Len(j)
        PROVE  Len(j) <= Len(p) /\ \A i \in 1..Len(j) : j[i] = p[i]
    <3>1. CASE Len(j) = 0
      BY <1>1, <3>1
    <3>2. CASE Len(j) > 0
      <4>1. Len(j) \in S
        BY <1>1, <2>1, <3>2
      <4> QED
        BY <4>1
    <3> QED
      BY <1>1, <3>1, <3>2
  <2>2. ASSUME Len(j) <= Len(p), \A i \in 1..Len(j) : j[i] = p[i]
        PROVE  S = 1..Len(j)
    BY <1>1, <2>2
  <2> QED
    BY <2>1, <2>2
<1>7. Shared(j, p) = Cardinality(S)
  BY DEF Shared, S
<1>8. S = 1..Len(j) => Cardinality(S) = Len(j)
  BY <1>1, <1>2
<1> QED
  BY <1>1, <1>4, <1>5, <1>6, <1>7, <1>8

\* Shared counts the components up to where the paths part (filepath.Rel).
LEMMA SharedAgree ==
  ASSUME NEW j \in Path, NEW p \in Path
  PROVE  \A i \in 1..Shared(j, p) : j[i] = p[i]
<1> DEFINE S == {k \in 1..Len(j) : k <= Len(p) /\ \A i \in 1..k : j[i] = p[i]}
           Out == {k \in 1..Len(j) + 1 : k \notin S}
<1>1. Len(j) \in Nat /\ Len(p) \in Nat
  BY LenProperties DEF Path
<1>2. PICK n \in Out : \A m \in Out : n <= m
  <2>1. Out \in SUBSET Nat /\ Len(j) + 1 \in Out
    BY <1>1
  <2> HIDE DEF Out
  <2> QED
    BY <2>1, LeastNatural
<1>3. PICK m \in Nat : m = n - 1
  BY <1>1, <1>2
<1>4. S = 1..m
  <2>1. ASSUME NEW k \in S PROVE k \in 1..m
    <3>1. \A i \in 1..k : i \in S
      BY <1>1
    <3> QED
      BY <1>1, <1>2, <1>3, <3>1
  <2>2. ASSUME NEW k \in 1..m PROVE k \in S
    BY <1>1, <1>2, <1>3
  <2> QED
    BY <2>1, <2>2
<1>5. Cardinality(S) = m
  <2>1. Cardinality(1..m) = IF 1 > m THEN 0 ELSE m - 1 + 1
    BY FS_Interval
  <2> HIDE DEF S
  <2> QED
    BY <1>4, <2>1
<1>6. Shared(j, p) = m
  BY <1>5 DEF Shared
<1>7. ASSUME NEW i \in 1..m PROVE j[i] = p[i]
  <2>1. i \in S
    BY <1>4
  <2> QED
    BY <2>1
<1> QED
  BY <1>6, <1>7

\* A relative path goes up a number of times and then down (filepath.Rel).
LEMMA RelFacts ==
  ASSUME NEW j \in Path, NEW p \in Path
  PROVE  /\ Rel(j, p).up = Len(j) - Shared(j, p) /\ Rel(j, p).up \in Nat
         /\ Rel(j, p).down = SubSeq(p, Shared(j, p) + 1, Len(p))
         /\ Rel(j, p).down \in Path
         /\ Len(Rel(j, p).down) = Len(p) - Shared(j, p)
         /\ \A i \in 1..Len(p) - Shared(j, p) :
              Rel(j, p).down[i] = p[Shared(j, p) + i]
<1> DEFINE n == Shared(j, p)
<1>1. Len(j) \in Nat /\ Len(p) \in Nat /\ p \in [1..Len(p) -> Names]
  BY LenProperties DEF Path
<1>2. n \in 0..Len(j) /\ n <= Len(p)
  BY SharedFacts
<1>3. Rel(j, p).up = Len(j) - n /\ Rel(j, p).down = SubSeq(p, n + 1, Len(p))
  BY DEF Rel
<1>4. \A i \in n + 1..Len(p) : p[i] \in Names
  BY <1>1, <1>2
<1>5. n + 1 \in Int /\ Len(p) \in Int
  BY <1>1, <1>2
<1> HIDE DEF n
<1> DEFINE m == n + 1
           k == Len(p)
           d == SubSeq(p, m, k)
<1>6. m \in Int /\ k \in Int /\ k - m + 1 = k - n /\ \A i \in m..k : p[i] \in Names
  BY <1>1, <1>2, <1>4, <1>5
<1>7. \A i \in Int : m + i - 1 = n + i
  BY <1>2
<1> HIDE DEF m, k
<1>8. /\ d \in Seq(Names)
      /\ Len(d) = IF m <= k THEN k - m + 1 ELSE 0
      /\ \A i \in 1..k - m + 1 : d[i] = p[m + i - 1]
  BY <1>6, SubSeqProperties
<1> HIDE DEF d
<1>9. d \in Path /\ Len(j) - n \in Nat
  BY <1>1, <1>2, <1>8 DEF Path
<1>10. Len(d) = k - n
  <2>1. n \in Int /\ k \in Int /\ n <= k /\ m = n + 1
    BY <1>1, <1>2 DEF m, k
  <2> QED
    BY <1>8, <2>1
<1>11. ASSUME NEW i \in 1..k - n PROVE d[i] = p[n + i]
  <2>1. i \in Int /\ i \in 1..k - m + 1
    BY <1>6
  <2>2. d[i] = p[m + i - 1]
    BY <1>8, <2>1
  <2> QED
    BY <1>7, <2>1, <2>2
<1> QED
  BY <1>3, <1>9, <1>10, <1>11 DEF n, m, k, d

\* What RemoveJailPrefix removes is what HostPath put there (ResolvePath and
\* RemoveJailPrefix of package jail).
LEMMA RemoveOfHost ==
  ASSUME NEW j \in Jail, NEW v \in Path
  PROVE  /\ HostPath(j, v) \in Path
         /\ RemoveJailPrefix(j, HostPath(j, v)) = v
         /\ j # NoJail => Rel(j, HostPath(j, v)) = [up |-> 0, down |-> v]
<1>1. CASE j = NoJail
  BY <1>1 DEF HostPath, RemoveJailPrefix
<1>2. CASE j # NoJail
  <2> DEFINE p == HostPath(j, v)
  <2>1. j \in Path /\ p = j \o v
    BY <1>2 DEF Jail, HostPath
  <2>2. Len(j) \in Nat /\ Len(v) \in Nat
    BY <2>1, LenProperties DEF Path
  <2>3. /\ p \in Path /\ Len(p) = Len(j) + Len(v)
        /\ \A i \in 1..Len(j) + Len(v) :
             p[i] = IF i <= Len(j) THEN j[i] ELSE v[i - Len(j)]
    BY <2>1, ConcatProperties DEF Path
  <2> HIDE DEF p
  <2>4. Shared(j, p) = Len(j)
    <3>1. Len(j) <= Len(p) /\ \A i \in 1..Len(j) : j[i] = p[i]
      BY <2>2, <2>3
    <3> QED
      BY <2>1, <2>3, <3>1, SharedFacts
  <2> DEFINE d == Rel(j, p).down
  <2>5. /\ d \in Path /\ Len(d) = Len(p) - Len(j)
        /\ \A i \in 1..Len(p) - Len(j) : d[i] = p[Len(j) + i]
    <3>1. /\ d \in Path /\ Len(d) = Len(p) - Shared(j, p)
          /\ \A i \in 1..Len(p) - Shared(j, p) : d[i] = p[Shared(j, p) + i]
      BY <2>1, <2>3, RelFacts
    <3> HIDE DEF d
    <3> QED
      BY <3>1, <2>4
  <2> HIDE DEF d
  <2>6. Len(d) = Len(v) /\ \A i \in 1..Len(d) : d[i] = v[i]
    <3>1. Len(d) = Len(v)
      BY <2>2, <2>3, <2>5
    <3>2. ASSUME NEW i \in 1..Len(d) PROVE d[i] = v[i]
      <4>1. i \in 1..Len(p) - Len(j) /\ Len(j) + i \in 1..Len(j) + Len(v)
        BY <2>2, <2>3, <3>1
      <4>2. ~(Len(j) + i <= Len(j)) /\ Len(j) + i - Len(j) = i
        BY <2>2, <4>1
      <4> QED
        BY <2>3, <2>5, <4>1, <4>2
    <3> QED
      BY <3>1, <3>2
  <2>7. d = v
    BY <2>5, <2>6, SeqEqual DEF Path
  <2>8. Rel(j, p).up = 0
    BY <2>1, <2>2, <2>3, <2>4, RelFacts
  <2>9. Rel(j, p) = [up |-> Rel(j, p).up, down |-> d]
    BY DEF Rel, d
  <2> QED
    BY <1>2, <2>3, <2>7, <2>8, <2>9 DEF p, RemoveJailPrefix, d
<1> QED
  BY <1>1, <1>2

\* The virtual path of a path is a path (RemoveJailPrefix).
LEMMA RemoveType ==
  ASSUME NEW j \in Jail, NEW p \in Path
  PROVE  RemoveJailPrefix(j, p) \in Path
BY RelFacts DEF RemoveJailPrefix, Jail

\* A path in the jail is where HostPath puts its virtual path.
LEMMA HostOfRemove ==
  ASSUME NEW j \in Jail, NEW p \in Path, IsInJail(j, p)
  PROVE  HostPath(j, RemoveJailPrefix(j, p)) = p
<1>1. CASE j = NoJail
  BY <1>1 DEF HostPath, RemoveJailPrefix
<1>2. CASE j # NoJail
  <2>1. j \in Path /\ Rel(j, p).up \in Nat /\ ~(Rel(j, p).up > 0)
    BY <1>2, RelFacts DEF Jail, IsInJail, StartsWithDots
  <2>2. Len(j) \in Nat /\ Len(p) \in Nat
    BY <2>1, LenProperties DEF Path
  <2>3. Shared(j, p) = Len(j)
    <3>1. Shared(j, p) \in Nat /\ Shared(j, p) <= Len(j)
      BY <2>1, SharedFacts
    <3>2. Rel(j, p).up = Len(j) - Shared(j, p)
      BY <2>1, RelFacts
    <3> QED
      BY <2>1, <2>2, <3>1, <3>2
  <2>4. Len(j) <= Len(p) /\ \A i \in 1..Len(j) : j[i] = p[i]
    BY <2>1, <2>3, SharedFacts
  <2> DEFINE d == Rel(j, p).down
             q == j \o d
  <2>5. /\ d \in Path /\ Len(d) = Len(p) - Len(j)
        /\ \A i \in 1..Len(p) - Len(j) : d[i] = p[Len(j) + i]
    <3>1. /\ d \in Path /\ Len(d) = Len(p) - Shared(j, p)
          /\ \A i \in 1..Len(p) - Shared(j, p) : d[i] = p[Shared(j, p) + i]
      BY <2>1, RelFacts
    <3> HIDE DEF d
    <3> QED
      BY <3>1, <2>3
  <2> HIDE DEF d
  <2>6. /\ q \in Path /\ Len(q) = Len(j) + Len(d)
        /\ \A i \in 1..Len(j) + Len(d) :
             q[i] = IF i <= Len(j) THEN j[i] ELSE d[i - Len(j)]
    BY <2>1, <2>5, ConcatProperties DEF Path
  <2> HIDE DEF q
  <2>7. Len(q) = Len(p)
    BY <2>2, <2>4, <2>5, <2>6
  <2>8. ASSUME NEW i \in 1..Len(q) PROVE q[i] = p[i]
    <3>1. CASE i <= Len(j)
      BY <2>2, <2>4, <2>5, <2>6, <3>1
    <3>2. CASE ~(i <= Len(j))
      <4>1. i - Len(j) \in 1..Len(p) - Len(j) /\ Len(j) + (i - Len(j)) = i
        BY <2>2, <2>7, <3>2
      <4>2. q[i] = d[i - Len(j)]
        BY <2>2, <2>5, <2>6, <3>2
      <4> QED
        BY <2>5, <4>1, <4>2
    <3> QED
      BY <3>1, <3>2
  <2>9. q = p
    BY <2>6, <2>7, <2>8, SeqEqual DEF Path
  <2> QED
    BY <1>2, <2>9 DEF q, d, HostPath, RemoveJailPrefix
<1> QED
  BY <1>1, <1>2

=============================================================================
