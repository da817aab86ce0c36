---------------------------- MODULE DataLemmas ----------------------------
(***************************************************************************)
(* Facts about finite sets, sequences and functions that the proofs of     *)
(* several components need.  The induction theorems of the library have an *)
(* operator for a parameter; here the property is a set and the body of a  *)
(* recursive function is a function, so that they can be cited.            *)
(***************************************************************************)
EXTENDS Naturals, Sequences, FiniteSets, SequencesExt, SequenceTheorems,
        FiniteSetTheorems, WellFoundedInduction, TLAPS

(* Among finitely many sets one has no other below it.                     *)
LEMMA MinimalSet ==
    ASSUME NEW S, IsFiniteSet(S), NEW F, F \subseteq SUBSET S, F # {}
    PROVE  \E X \in F : \A Y \in F : Y \subseteq X => Y = X
  <1>1. IsWellFoundedOn(StrictSubsetOrdering(S), SUBSET S)
    BY FS_StrictSubsetOrderingWellFounded, FS_FiniteSubsetsOfFinite
  <1>2. \E X \in F : \A Y \in F : ~(<<Y, X>> \in StrictSubsetOrdering(S))
    BY <1>1, WFMin, Zenon
  <1>3. QED
    BY <1>2 DEF StrictSubsetOrdering

(* Of some places of a sequence one is the first.                          *)
LEMMA LeastIndex ==
    ASSUME NEW N \in Nat, NEW T \in SUBSET (1 .. N), T # {}
    PROVE  \E m \in T : \A k \in T : m <= k
  <1> DEFINE F == {1 .. m : m \in T}
  <1>1. PICK I : I = 1 .. N
    OBVIOUS
  <1>2. F \subseteq SUBSET I
    <2>1. \A m \in T : 1 .. m \subseteq I
      BY <1>1
    <2>2. QED
      BY <2>1
  <1>3. PICK X \in F : \A Y \in F : Y \subseteq X => Y = X
    <2>1. IsFiniteSet(I)
      BY <1>1, FS_Interval
    <2>2. F # {}
      <3>1. PICK m \in T : TRUE
        OBVIOUS
      <3>2. 1 .. m \in F
        OBVIOUS
      <3>3. QED
        BY <3>2
    <2> HIDE DEF F
    <2>3. QED
      BY <1>2, <2>1, <2>2, MinimalSet
  <1>4. PICK m \in T : X = 1 .. m
    OBVIOUS
  <1>5. ASSUME NEW k \in T, k < m PROVE FALSE
    <2>1. 1 .. k \in F /\ 1 .. k \subseteq 1 .. m
      BY <1>5
    <2>2. m \in 1 .. m /\ m \notin 1 .. k
      BY <1>5
    <2>3. QED
      BY <1>3, <1>4, <2>1, <2>2
  <1>6. QED
    BY <1>5

(* What the first index has, and every index hands on, all have.           *)
LEMMA UpTo ==
    ASSUME NEW N \in Nat, NEW G, 1 \in G, \A k \in 1 .. N : k \in G /\ k < N => k + 1 \in G
    PROVE  \A k \in 1 .. N : k \in G
<1>1. SUFFICES ASSUME (1 .. N) \ G # {} PROVE FALSE
  OBVIOUS
<1>2. PICK m \in (1 .. N) \ G : \A k \in (1 .. N) \ G : m <= k
  BY <1>1, LeastIndex
<1>3. m # 1 /\ m - 1 \in 1 .. N /\ m - 1 < N /\ ~(m <= m - 1)
  BY <1>2
<1>4. m - 1 \in G
  BY <1>2, <1>3
<1>5. (m - 1) + 1 = m
  BY <1>2
<1> QED  BY <1>2, <1>3, <1>4, <1>5

(* Of some places of a sequence one is the last.                           *)
LEMMA GreatestIndex ==
    ASSUME NEW N \in Nat, NEW T \in SUBSET (1 .. N), T # {}
    PROVE  \E m \in T : \A k \in T : k <= m
<1> DEFINE U == {N + 1 - k : k \in T}
<1>1. PICK j \in T : TRUE
  OBVIOUS
<1>2. U \in SUBSET (1 .. N) /\ N + 1 - j \in U
  BY <1>1
<1>3. PICK m \in U : \A k \in U : m <= k
  BY <1>2, LeastIndex
<1>4. PICK x \in T : m = N + 1 - x
  BY <1>3
<1>5. \A k \in T : N + 1 - k \in U
  OBVIOUS
<1> HIDE DEF U
<1>6. \A k \in T : k <= x
  BY <1>3, <1>4, <1>5
<1> QED  BY <1>6

LEMMA LastIndex ==
    ASSUME NEW N \in Nat, NEW T \in SUBSET (1 .. N), T # {}
    PROVE  Max(T) \in T
<1>1. PICK m \in T : \A k \in T : k <= m
  BY GreatestIndex
<1>2. \A k \in T : m >= k
  BY <1>1
<1> QED  BY <1>2 DEF Max

(* What is appended is at the end, what was there is in front of it.       *)
LEMMA AppendEnds ==
    ASSUME NEW S, NEW s \in Seq(S), NEW x \in S
    PROVE  /\ Append(s, x) \in Seq(S) /\ Len(Append(s, x)) = Len(s) + 1
           /\ Front(Append(s, x)) = s /\ Last(Append(s, x)) = x
<1> DEFINE q == Append(s, x)
           n == Len(s)
<1>1. n \in Nat /\ q \in Seq(S) /\ Len(q) = n + 1 /\ q[n + 1] = x /\ \A i \in 1 .. n : q[i] = s[i]
  BY AppendProperties
<1>2. Last(q) = x /\ Front(q) = SubSeq(q, 1, n)
  BY <1>1 DEF Front, Last
<1> HIDE DEF q
<1>3. /\ SubSeq(q, 1, n) \in Seq(S)
      /\ Len(SubSeq(q, 1, n)) = n
      /\ \A i \in 1 .. n : SubSeq(q, 1, n)[i] = s[i]
  BY <1>1
<1>4. SubSeq(q, 1, n) = s
  BY <1>3, SeqEqual
<1> QED  BY <1>1, <1>2, <1>4 DEF q

(* f is the way FlattenSeq gets from the first sequence to the last.       *)
Runs(f, s, n) == \A i \in 1 .. n : f[i] = IF i = 1 THEN s[i] ELSE f[i - 1] \o s[i]
Joins(f, s) == f = [i \in 1 .. Len(s) |-> f[i]] /\ Runs(f, s, Len(s))

(* FlattenSeq gets there, one sequence at a time.                          *)
LEMMA JoinsExists ==
    ASSUME NEW S, NEW s \in Seq(Seq(S)), s # <<>>
    PROVE  \E f : Joins(f, s) /\ \A i \in 1 .. Len(s) : f[i] \in Seq(S)
<1> DEFINE n == Len(s)
           Steps(f, k) == \A i \in 1 .. k : /\ f[i] = IF i = 1 THEN s[i] ELSE f[i - 1] \o s[i]
                                            /\ f[i] \in Seq(S)
           G == {k \in 1 .. n : \E f : f = [i \in 1 .. k |-> f[i]] /\ Steps(f, k)}
<1>1. n \in Nat /\ n >= 1 /\ \A i \in 1 .. n : s[i] \in Seq(S)
  OBVIOUS
<1> HIDE DEF n
<1>2. 1 \in G
  <2> DEFINE f == [i \in 1 .. 1 |-> s[i]]
  <2>1. f = [i \in 1 .. 1 |-> f[i]] /\ Steps(f, 1)
    BY <1>1
  <2> HIDE DEF f
  <2>2. \E h : h = [i \in 1 .. 1 |-> h[i]] /\ Steps(h, 1)
    BY <2>1
  <2>3. 1 \in 1 .. n
    BY <1>1
  <2> HIDE DEF Steps
  <2> QED  BY <2>2, <2>3
<1>3. ASSUME NEW k \in 1 .. n, k \in G, k < n PROVE k + 1 \in G
  <2>1. PICK f : f = [i \in 1 .. k |-> f[i]] /\ Steps(f, k)
    BY <1>3
  <2> DEFINE g == [i \in 1 .. k + 1 |-> IF i <= k THEN f[i] ELSE f[k] \o s[k + 1]]
  <2>2. g = [i \in 1 .. k + 1 |-> g[i]]
    OBVIOUS
  <2>3. ASSUME NEW i \in 1 .. k + 1
        PROVE  g[i] = (IF i = 1 THEN s[i] ELSE g[i - 1] \o s[i]) /\ g[i] \in Seq(S)
    <3>1. k \in Nat /\ k >= 1 /\ k \in 1 .. k /\ k + 1 \in 1 .. n
      BY <1>1, <1>3
    <3>2. CASE i <= k
      <4>1. i \in 1 .. k /\ g[i] = f[i]
        BY <2>3, <3>1, <3>2
      <4>2. i # 1 => g[i - 1] = f[i - 1]
        BY <2>3, <3>1, <3>2
      <4> HIDE DEF g
      <4> QED  BY <2>1, <4>1, <4>2
    <3>3. CASE i = k + 1
      <4>1. i # 1 /\ i - 1 = k
        BY <3>1, <3>3
      <4>2. g[i] = f[k] \o s[i]
        <5>1. ~(i <= k) /\ k + 1 = i
          BY <3>1, <3>3
        <5> QED  BY <2>3, <5>1
      <4>5. g[k] = f[k]
        <5>1. k \in 1 .. k + 1 /\ k <= k
          BY <3>1
        <5> QED  BY <5>1
      <4>3. f[k] \in Seq(S) /\ s[i] \in Seq(S)
        BY <1>1, <2>1, <3>1, <3>3
      <4> HIDE DEF g
      <4>4. f[k] \o s[i] \in Seq(S)
        BY <4>3
      <4> QED  BY <4>1, <4>2, <4>4, <4>5
    <3> QED  BY <2>3, <3>1, <3>2, <3>3
  <2>4. k + 1 \in 1 .. n
    BY <1>1, <1>3
  <2> HIDE DEF g
  <2>5. \E h : h = [i \in 1 .. k + 1 |-> h[i]] /\ Steps(h, k + 1)
    BY <2>2, <2>3
  <2> HIDE DEF Steps
  <2> QED  BY <2>4, <2>5
<1> HIDE DEF G
<1>4. n \in G
  <2>1. \A k \in 1 .. n : k \in G
    BY <1>1, <1>2, <1>3, UpTo
  <2> QED  BY <1>1, <2>1
<1>5. PICK f : f = [i \in 1 .. n |-> f[i]] /\ Steps(f, n)
  BY <1>4 DEF G
<1> QED  BY <1>5 DEF Joins, Runs, n

(* There is one way only.                                                  *)
LEMMA JoinsUnique ==
    ASSUME NEW s, Len(s) \in Nat, NEW f, NEW g, NEW n \in 0 .. Len(s),
           Runs(f, s, n), Runs(g, s, n)
    PROVE  \A i \in 1 .. n : f[i] = g[i]
<1>1. CASE n = 0
  BY <1>1
<1>2. CASE n # 0
  <2> DEFINE G == {k \in 1 .. n : f[k] = g[k]}
  <2>1. 1 \in G
    BY <1>2 DEF Runs
  <2>2. ASSUME NEW k \in 1 .. n, k \in G, k < n PROVE k + 1 \in G
    <3>1. k + 1 \in 1 .. n /\ k + 1 # 1 /\ (k + 1) - 1 = k
      BY <2>2
    <3>2. f[k + 1] = f[k] \o s[k + 1] /\ g[k + 1] = g[k] \o s[k + 1]
      BY <3>1 DEF Runs
    <3> QED  BY <2>2, <3>1, <3>2
  <2> HIDE DEF G
  <2>3. \A k \in 1 .. n : k \in G
    <3>1. n \in Nat  OBVIOUS
    <3> QED  BY <2>1, <2>2, <3>1, UpTo
  <2> QED  BY <2>3 DEF G
<1> QED  BY <1>1, <1>2

(* So the function FlattenSeq chooses is that one.                         *)
LEMMA FlattenUnfolds ==
    ASSUME NEW S, NEW s \in Seq(Seq(S)), s # <<>>
    PROVE  \E f : /\ Joins(f, s) /\ FlattenSeq(s) = f[Len(s)]
                 /\ \A i \in 1 .. Len(s) : f[i] \in Seq(S)
<1> DEFINE B(f) == [i \in 1 .. Len(s) |-> IF i = 1 THEN s[i] ELSE f[i - 1] \o s[i]]
           c == CHOOSE f : f = B(f)
<1>1. PICK f : Joins(f, s) /\ \A i \in 1 .. Len(s) : f[i] \in Seq(S)
  BY JoinsExists
<1>2. f = B(f)
  BY <1>1 DEF Joins, Runs
<1>3. c = B(c)
  BY <1>2
<1>4. FlattenSeq(s) = c[Len(s)]
  BY DEF FlattenSeq
<1> HIDE DEF c
<1>5. Joins(c, s)
  BY <1>3 DEF Joins, Runs
<1>6. \A i \in 1 .. Len(s) : c[i] = f[i]
  <2>1. Len(s) \in Nat /\ Len(s) \in 0 .. Len(s)
    OBVIOUS
  <2>2. Runs(c, s, Len(s)) /\ Runs(f, s, Len(s))
    BY <1>1, <1>5 DEF Joins
  <2>3. PICK n \in 0 .. Len(s) : n = Len(s) /\ Runs(c, s, n) /\ Runs(f, s, n)
    BY <2>1, <2>2
  <2>4. \A i \in 1 .. n : c[i] = f[i]
    BY <2>1, <2>3, JoinsUnique
  <2> QED  BY <2>3, <2>4
<1> QED  BY <1>1, <1>4, <1>5, <1>6

(* What is flattened keeps the type of its elements.                       *)
LEMMA FlattenTyped ==
    ASSUME NEW S, NEW s \in Seq(Seq(S))
    PROVE  FlattenSeq(s) \in Seq(S)
<1>1. CASE s = <<>>
  BY <1>1 DEF FlattenSeq
<1>2. CASE s # <<>>
  BY <1>2, FlattenUnfolds
<1> QED  BY <1>1, <1>2

(* One more sequence at the end.                                           *)
LEMMA FlattenAppend ==
    ASSUME NEW S, NEW s \in Seq(Seq(S)), NEW x \in Seq(S)
    PROVE  FlattenSeq(Append(s, x)) = FlattenSeq(s) \o x
<1> DEFINE t == Append(s, x)
           n == Len(s)
<1>1. /\ t \in Seq(Seq(S)) /\ t # <<>> /\ Len(t) = n + 1 /\ n \in Nat
      /\ \A i \in 1 .. n : t[i] = s[i]
      /\ t[n + 1] = x
  <2>1. s \in Seq(Seq(S)) /\ x \in Seq(S)
    OBVIOUS
  <2> QED  BY <2>1, AppendProperties
<1> HIDE DEF t
<1>2. PICK g : Joins(g, t) /\ FlattenSeq(t) = g[n + 1]
  BY <1>1, FlattenUnfolds
<1>3. CASE s = <<>>
  <2>1. n = 0 /\ FlattenSeq(s) = <<>>
    BY <1>3 DEF FlattenSeq
  <2>2. g[1] = x
    BY <1>1, <1>2, <2>1 DEF Joins, Runs
  <2> QED  BY <1>2, <2>1, <2>2 DEF t
<1>4. CASE s # <<>>
  <2>1. PICK f : /\ Joins(f, s) /\ FlattenSeq(s) = f[n]
                 /\ \A i \in 1 .. n : f[i] \in Seq(S)
    BY <1>4, FlattenUnfolds
  <2>2. n >= 1
    BY <1>4
  <2>3. ASSUME NEW i \in 1 .. n PROVE g[i] = IF i = 1 THEN s[i] ELSE g[i - 1] \o s[i]
    <3>1. i \in 1 .. Len(t) /\ t[i] = s[i]
      BY <1>1
    <3> QED  BY <1>2, <3>1 DEF Joins, Runs
  <2>4. \A i \in 1 .. n : g[i] = f[i]
    <3>1. n \in 0 .. Len(s) /\ Len(s) \in Nat
      BY <1>1
    <3>2. Runs(f, s, n) /\ Runs(g, s, n)
      BY <2>1, <2>3 DEF Joins, Runs
    <3> HIDE DEF n
    <3> QED  BY <3>1, <3>2, JoinsUnique
  <2>5. g[n + 1] = g[n] \o x
    <3>1. n + 1 \in 1 .. Len(t) /\ n + 1 # 1 /\ (n + 1) - 1 = n
      BY <1>1, <2>2
    <3> HIDE DEF n
    <3> QED  BY <1>1, <1>2, <3>1 DEF Joins, Runs
  <2>6. n \in 1 .. n
    BY <1>1, <2>2
  <2> QED  BY <1>2, <2>1, <2>4, <2>5, <2>6 DEF t
<1> QED  BY <1>3, <1>4

-----------------------------------------------------------------------------
(* n bytes after the first m of a file make the disk n bytes fuller.       *)
LEMMA AddBytes ==
    ASSUME NEW S, IsFiniteSet(S), NEW path, NEW m \in Nat, NEW n \in Nat,
           NEW T, T \subseteq S \cup ({path} \X (m + 1 .. m + n))
    PROVE  IsFiniteSet(T) /\ Cardinality(T) <= Cardinality(S) + n
<1> DEFINE I == m + 1 .. m + n
           C == {path} \X I
<1>1. IsFiniteSet(I) /\ Cardinality(I) = n
  <2>1. m + 1 \in Int /\ m + n \in Int  OBVIOUS
  <2>2. /\ IsFiniteSet(I)
        /\ Cardinality(I) = IF m + 1 > m + n THEN 0 ELSE (m + n) - (m + 1) + 1
    BY <2>1, FS_Interval
  <2> QED  BY <2>2
<1> HIDE DEF I
<1>2. IsFiniteSet({path}) /\ Cardinality({path}) = 1
  BY FS_Singleton
<1>3. IsFiniteSet(C) /\ Cardinality(C) = Cardinality({path}) * Cardinality(I)
  BY <1>1, <1>2, FS_Product
<1>4. Cardinality(C) = n
  BY <1>1, <1>2, <1>3
<1>5. T \subseteq S \cup C
  BY DEF I
<1> HIDE DEF C
<1>6. /\ IsFiniteSet(S \cup C)
      /\ Cardinality(S \cup C) = Cardinality(S) + Cardinality(C) - Cardinality(S \cap C)
  BY <1>3, FS_Union
<1>7. IsFiniteSet(S \cap C)
  BY <1>3, FS_Intersection
<1>8. Cardinality(S \cap C) \in Nat /\ Cardinality(S) \in Nat
  BY <1>7, FS_CardinalityType
<1>9. IsFiniteSet(T) /\ Cardinality(T) <= Cardinality(S \cup C)
  BY <1>5, <1>6, FS_Subset
<1>10. Cardinality(T) \in Nat
  BY <1>9, FS_CardinalityType
<1> QED  BY <1>4, <1>6, <1>8, <1>9, <1>10

(* A set of numbers has a least one.                                       *)
LEMMA LeastNumber ==
    ASSUME NEW T \in SUBSET Nat, T # {}
    PROVE  \E m \in T : \A k \in T : m <= k
<1>1. PICK t \in T : TRUE
  OBVIOUS
<1> DEFINE U == {i \in 1 .. t + 1 : i - 1 \in T}
<1>2. U \in SUBSET (1 .. t + 1) /\ t + 1 \in Nat /\ U # {}
  <2>1. t + 1 \in 1 .. t + 1 /\ (t + 1) - 1 = t
    BY <1>1
  <2>2. t + 1 \in U
    BY <1>1, <2>1
  <2>3. U \in SUBSET (1 .. t + 1)
    OBVIOUS
  <2>4. t + 1 \in Nat
    BY <1>1
  <2> HIDE DEF U
  <2> QED  BY <2>2, <2>3, <2>4
<1>3. PICK i \in U : \A k \in U : i <= k
  <2> HIDE DEF U
  <2> QED  BY <1>2, LeastIndex
<1>4. i - 1 \in T
  BY <1>3
<1>5. ASSUME NEW k \in T PROVE i - 1 <= k
  <2>1. CASE k <= t
    <3>1. k + 1 \in 1 .. t + 1 /\ (k + 1) - 1 = k
      BY <1>1, <2>1
    <3>2. k + 1 \in U
      BY <3>1
    <3> QED  BY <1>1, <1>3, <3>2
  <2>2. CASE k > t
    BY <1>1, <1>3, <2>2
  <2> QED  BY <1>1, <2>1, <2>2
<1> QED  BY <1>4, <1>5

(* What an element has as soon as all smaller ones have it, all have.      *)
LEMMA InductionByMeasure ==
    ASSUME NEW D, NEW size \in [D -> Nat], NEW G,
           \A d \in D : (\A e \in D : size[e] < size[d] => e \in G) => d \in G
    PROVE  \A d \in D : d \in G
<1> SUFFICES ASSUME D \ G # {} PROVE FALSE
  OBVIOUS
<1> DEFINE T == {size[d] : d \in D \ G}
<1>1. T \in SUBSET Nat /\ T # {}
  OBVIOUS
<1>2. PICK m \in T : \A k \in T : m <= k
  <2> HIDE DEF T
  <2> QED  BY <1>1, LeastNumber
<1>3. PICK d \in D \ G : size[d] = m
  BY <1>2
<1>4. PICK e \in D : size[e] < size[d] /\ e \notin G
  BY <1>3
<1>5. size[e] \in T
  BY <1>4
<1>6. m <= size[e] /\ m \in Nat /\ size[e] \in Nat
  BY <1>1, <1>2, <1>5
<1> QED  BY <1>3, <1>4, <1>6

(* B[d, f] is the value at d of a function that goes on as f, and depends  *)
(* on the values at smaller elements only.                                 *)
LooksBelow(B, D, V, size) ==
    /\ V # {} /\ size \in [D -> Nat] /\ B \in [D \X [D -> V] -> V]
    /\ \A d \in D : \A g, h \in [D -> V] :
          (\A e \in D : size[e] < size[d] => g[e] = h[e]) => B[<<d, g>>] = B[<<d, h>>]

(* Then there is a function whose values are those.                        *)
LEMMA RecursionByMeasure ==
    ASSUME NEW D, NEW V, NEW size, NEW B, LooksBelow(B, D, V, size)
    PROVE  \E f \in [D -> V] : \A d \in D : f[d] = B[<<d, f>>]
<1>0. /\ V # {} /\ size \in [D -> Nat] /\ B \in [D \X [D -> V] -> V]
      /\ \A d \in D : \A g, h \in [D -> V] :
            (\A e \in D : size[e] < size[d] => g[e] = h[e]) => B[<<d, g>>] = B[<<d, h>>]
  BY DEF LooksBelow
<1> DEFINE Sound(g, k) == \A e \in D : size[e] < k => g[e] = B[<<e, g>>]
<1>1. ASSUME NEW k \in Nat, NEW g \in [D -> V], NEW h \in [D -> V], Sound(g, k), Sound(h, k)
      PROVE  \A e \in D : size[e] < k => g[e] = h[e]
  <2> DEFINE G == {e \in D : size[e] < k => g[e] = h[e]}
  <2>1. ASSUME NEW d \in D, \A e \in D : size[e] < size[d] => e \in G
        PROVE  d \in G
    <3>1. SUFFICES ASSUME size[d] < k PROVE g[d] = h[d]
      OBVIOUS
    <3>2. \A e \in D : size[e] < size[d] => g[e] = h[e]
      BY <1>0, <2>1, <3>1
    <3>3. B[<<d, g>>] = B[<<d, h>>]
      BY <1>0, <1>1, <3>2
    <3>4. g[d] = B[<<d, g>>] /\ h[d] = B[<<d, h>>]
      BY <1>1, <3>1
    <3> QED  BY <3>3, <3>4
  <2> HIDE DEF G
  <2>2. \A d \in D : d \in G
    BY <1>0, <2>1, InductionByMeasure
  <2> QED  BY <2>2 DEF G
<1>2. ASSUME NEW k \in Nat, NEW h \in [D -> V], Sound(h, k)
      PROVE  \E g \in [D -> V] : Sound(g, k + 1)
  <2> DEFINE g == [e \in D |-> B[<<e, h>>]]
  <2>1. g \in [D -> V]
    BY <1>0
  <2>2. \A e \in D : g[e] = B[<<e, h>>]
    OBVIOUS
  <2> HIDE DEF g
  <2>3. ASSUME NEW e \in D, size[e] < k + 1
        PROVE  g[e] = B[<<e, g>>]
    <3>1. ASSUME NEW x \in D, size[x] < size[e] PROVE g[x] = h[x]
      <4>1. size[x] < k
        BY <1>0, <2>3, <3>1
      <4> QED  BY <1>2, <2>2, <4>1
    <3>2. B[<<e, g>>] = B[<<e, h>>]
      BY <1>0, <2>1, <3>1
    <3> QED  BY <2>2, <3>2
  <2> QED  BY <2>1, <2>3
<1>3. ASSUME NEW k \in Nat PROVE \E g \in [D -> V] : Sound(g, k)
  <2> DEFINE T == {n \in Nat : ~ \E g \in [D -> V] : Sound(g, n)}
  <2>1. SUFFICES ASSUME T # {} PROVE FALSE
    OBVIOUS
  <2>2. PICK n \in T : \A i \in T : n <= i
    <3>1. T \in SUBSET Nat
      OBVIOUS
    <3> HIDE DEF T
    <3> QED  BY <2>1, <3>1, LeastNumber
  <2>3. n \in Nat /\ ~ \E g \in [D -> V] : Sound(g, n)
    BY <2>2
  <2>4. CASE n = 0
    <3>1. PICK v0 \in V : TRUE
      BY <1>0
    <3>2. [e \in D |-> v0] \in [D -> V] /\ Sound([e \in D |-> v0], 0)
      BY <1>0
    <3> QED  BY <2>3, <2>4, <3>2
  <2>5. CASE n # 0
    <3>1. n - 1 \in Nat /\ (n - 1) + 1 = n /\ ~(n <= n - 1)
      BY <2>3, <2>5
    <3>2. n - 1 \notin T
      BY <2>2, <3>1
    <3>3. PICK h \in [D -> V] : Sound(h, n - 1)
      BY <3>1, <3>2
    <3> HIDE DEF Sound
    <3>4. \E g \in [D -> V] : Sound(g, (n - 1) + 1)
      BY <1>2, <3>1, <3>3
    <3> QED  BY <2>3, <3>1, <3>4
  <2> QED  BY <2>4, <2>5
<1> DEFINE c(d) == CHOOSE g \in [D -> V] : Sound(g, size[d] + 1)
           f == [d \in D |-> c(d)[d]]
<1>4. \A d \in D : c(d) \in [D -> V] /\ Sound(c(d), size[d] + 1)
  <2> SUFFICES ASSUME NEW d \in D PROVE c(d) \in [D -> V] /\ Sound(c(d), size[d] + 1)
    OBVIOUS
  <2>1. size[d] + 1 \in Nat
    BY <1>0
  <2> HIDE DEF Sound
  <2> QED  BY <1>3, <2>1
<1> HIDE DEF c
<1>5. f \in [D -> V] /\ \A d \in D : f[d] = c(d)[d]
  BY <1>4
<1> HIDE DEF f
<1>6. ASSUME NEW d \in D PROVE f[d] = B[<<d, f>>]
  <2>1. ASSUME NEW x \in D, size[x] < size[d] PROVE f[x] = c(d)[x]
    <3>1. size[x] + 1 \in Nat /\ size[x] < size[x] + 1
      BY <1>0
    <3>2. Sound(c(d), size[x] + 1)
      <4>1. Sound(c(d), size[d] + 1)
        BY <1>4
      <4>2. \A e \in D : size[e] \in Nat
        BY <1>0
      <4>3. \A e \in D : size[e] < size[x] + 1 => size[e] < size[d] + 1
        BY <2>1, <4>2
      <4> QED  BY <4>1, <4>3
    <3>3. c(x) \in [D -> V] /\ c(d) \in [D -> V] /\ Sound(c(x), size[x] + 1)
      BY <1>4
    <3> HIDE DEF Sound
    <3>4. c(x)[x] = c(d)[x]
      BY <1>1, <3>1, <3>2, <3>3
    <3> QED  BY <1>5, <3>4
  <2>2. c(d)[d] = B[<<d, c(d)>>] /\ c(d) \in [D -> V]
    <3>1. size[d] < size[d] + 1
      BY <1>0
    <3>2. c(d) \in [D -> V] /\ Sound(c(d), size[d] + 1)
      BY <1>4
    <3> QED  BY <3>1, <3>2
  <2>3. B[<<d, f>>] = B[<<d, c(d)>>]
    BY <1>0, <1>5, <2>1, <2>2
  <2> QED  BY <1>5, <2>2, <2>3
<1> QED  BY <1>5, <1>6

=============================================================================
