--------------------------- MODULE Analysis_proofs ---------------------------
(***************************************************************************)
(* Proofs about the analysis of an upload whose specification has been     *)
(* accepted, each for every input and every limit: the source analysis,    *)
(* the recognition of a Connexion application, and the correlation.        *)
(***************************************************************************)
EXTENDS SourceExtraction, EvidenceCorrelation, DataLemmas

-----------------------------------------------------------------------------
(* The source tree.  SourceInv: no file is loaded twice or beyond the      *)
(* limits, no file is left out without a diagnostic, every normalised      *)
(* file carries its own endpoints, and every mapped endpoint the path and  *)
(* the identity of one operation.                                          *)

(* The elements at some places: how they are gathered, and their order.    *)
Picks(f, s, places) ==
    f = [i \in 0 .. Len(s) |->
           IF i = 0 THEN <<>> ELSE IF i \in places THEN Append(f[i - 1], s[i]) ELSE f[i - 1]]

(* t holds the elements of s at those of the first n places that are       *)
(* picked, and h says where each of them was.                              *)
InOrder(h, t, s, places, n) ==
    /\ h \in [1 .. Len(t) -> 1 .. n]
    /\ \A k \in 1 .. Len(t) : h[k] \in places /\ t[k] = s[h[k]]
    /\ \A k, l \in 1 .. Len(t) : k < l => h[k] < h[l]
    /\ \A i \in 1 .. n : i \in places => \E k \in 1 .. Len(t) : h[k] = i

LEMMA PickedUnfolds ==
    ASSUME NEW S, NEW s \in Seq(S), NEW places
    PROVE  \E f : /\ Picks(f, s, places) /\ Picked(s, places) = f[Len(s)]
                  /\ \A i \in 0 .. Len(s) : f[i] \in Seq(S)
<1> DEFINE N == Len(s)
           D == 0 .. N
           V == Seq(S)
           Then(g, i) == IF i = 0 THEN <<>>
                         ELSE IF i \in places THEN Append(g[i - 1], s[i]) ELSE g[i - 1]
           size == [i \in D |-> i]
           B == [z \in D \X [D -> V] |-> Then(z[2], z[1])]
           c == CHOOSE f : f = [i \in D |-> Then(f, i)]
<1>1. N \in Nat /\ \A i \in 1 .. N : s[i] \in S
  OBVIOUS
<1> HIDE DEF N
<1>2. \A i \in D : i \in Nat /\ (i # 0 => i \in 1 .. N /\ i - 1 \in D /\ i - 1 < i)
  BY <1>1
<1>3. ASSUME NEW g \in [D -> V], NEW i \in D PROVE Then(g, i) \in V
  <2>1. CASE i = 0
    BY <2>1
  <2>2. CASE i # 0
    <3>1. g[i - 1] \in Seq(S) /\ s[i] \in S
      BY <1>1, <1>2, <1>3, <2>2
    <3>2. Append(g[i - 1], s[i]) \in Seq(S)
      BY <3>1
    <3> QED  BY <3>1, <3>2, <2>2
  <2> QED  BY <2>1, <2>2
<1>4. B \in [D \X [D -> V] -> V]
  <2>1. \A z \in D \X [D -> V] : Then(z[2], z[1]) \in V
    <3> HIDE DEF Then, D, V
    <3> QED  BY <1>3
  <2> HIDE DEF Then, D, V
  <2> QED  BY <2>1
<1>5. size \in [D -> Nat] /\ <<>> \in V
  BY <1>2
<1>6. \A d \in D : \A g, h \in [D -> V] :
         (\A e \in D : size[e] < size[d] => g[e] = h[e]) => B[<<d, g>>] = B[<<d, h>>]
  <2> SUFFICES ASSUME NEW d \in D, NEW g \in [D -> V], NEW h \in [D -> V],
                      \A e \in D : size[e] < size[d] => g[e] = h[e]
               PROVE  B[<<d, g>>] = B[<<d, h>>]
    OBVIOUS
  <2>1. d # 0 => g[d - 1] = h[d - 1]
    BY <1>2
  <2>2. Then(g, d) = Then(h, d)
    BY <2>1
  <2>3. <<d, g>> \in D \X [D -> V] /\ <<d, h>> \in D \X [D -> V]
    OBVIOUS
  <2> HIDE DEF Then, D, V
  <2> QED  BY <2>2, <2>3
<1>7. \E f \in [D -> V] : \A d \in D : f[d] = B[<<d, f>>]
  <2> HIDE DEF B, size, D, V
  <2>1. LooksBelow(B, D, V, size)
    BY <1>4, <1>5, <1>6 DEF LooksBelow
  <2> QED  BY <2>1, RecursionByMeasure
<1>8. PICK f \in [D -> V] : \A d \in D : f[d] = B[<<d, f>>]
  BY <1>7
<1>9. f = [i \in D |-> Then(f, i)]
  <2>1. \A d \in D : <<d, f>> \in D \X [D -> V]
    OBVIOUS
  <2> HIDE DEF Then, D, V
  <2>2. \A d \in D : f[d] = Then(f, d)
    BY <1>8, <2>1
  <2> QED  BY <2>2
<1>10. c = [i \in D |-> Then(c, i)]
  <2> HIDE DEF Then, D, V
  <2> QED  BY <1>9
<1>11. Picks(c, s, places) /\ Picked(s, places) = c[N]
  BY <1>10 DEF Picks, Picked, N
<1> HIDE DEF c
<1>12. \A i \in D : c[i] \in V
  <2> DEFINE G == {i \in D : c[i] \in V}
  <2>1. ASSUME NEW d \in D, \A e \in D : size[e] < size[d] => e \in G PROVE d \in G
    <3>1. CASE d = 0
      BY <3>1, <1>10
    <3>2. CASE d # 0
      <4>1. c[d - 1] \in Seq(S) /\ s[d] \in S
        BY <1>1, <1>2, <2>1, <3>2
      <4>2. Append(c[d - 1], s[d]) \in Seq(S)
        BY <4>1
      <4> QED  BY <1>10, <3>2, <4>1, <4>2
    <3> QED  BY <3>1, <3>2
  <2> HIDE DEF G
  <2>2. \A d \in D : d \in G
    <3> HIDE DEF D, size
    <3> QED  BY <1>5, <2>1, InductionByMeasure
  <2> QED  BY <2>2 DEF G
<1> QED  BY <1>11, <1>12 DEF N

LEMMA PickedInOrder ==
    ASSUME NEW S, NEW s \in Seq(S), NEW places
    PROVE  /\ Picked(s, places) \in Seq(S)
           /\ \E h : InOrder(h, Picked(s, places), s, places, Len(s))
<1>1. PICK f : /\ Picks(f, s, places) /\ Picked(s, places) = f[Len(s)]
               /\ \A i \in 0 .. Len(s) : f[i] \in Seq(S)
  BY PickedUnfolds
<1> DEFINE N == Len(s)
           D == 0 .. N
           size == [i \in D |-> i]
           G == {i \in D : \E h : InOrder(h, f[i], s, places, i)}
<1>2. N \in Nat /\ size \in [D -> Nat]
  OBVIOUS
<1>3. ASSUME NEW d \in D, \A e \in D : size[e] < size[d] => e \in G PROVE d \in G
  <2>1. CASE d = 0
    <3>1. f[d] = <<>>
      BY <1>1, <2>1 DEF Picks
    <3>2. InOrder(<<>>, f[d], s, places, d)
      BY <3>1, <2>1 DEF InOrder
    <3> QED  BY <3>2
  <2>2. CASE d # 0
    <3>1. d - 1 \in D /\ d \in 1 .. N /\ size[d - 1] < size[d]
      BY <2>2
    <3>2. PICK h : InOrder(h, f[d - 1], s, places, d - 1)
      BY <1>3, <3>1
    <3>3. f[d] = IF d \in places THEN Append(f[d - 1], s[d]) ELSE f[d - 1]
      BY <1>1, <2>2 DEF Picks
    <3> DEFINE t == f[d - 1]
               m == Len(t)
    <3>4. t \in Seq(S) /\ m \in Nat /\ s[d] \in S
      BY <1>1, <3>1
    <3>5. CASE d \in places
      <4> DEFINE u == Append(t, s[d])
                 g == [k \in 1 .. m + 1 |-> IF k <= m THEN h[k] ELSE d]
      <4>1. Len(u) = m + 1 /\ u[m + 1] = s[d] /\ \A k \in 1 .. m : u[k] = t[k]
        BY <3>4
      <4> HIDE DEF u, m, t
      <4>2. /\ h \in [1 .. m -> 1 .. d - 1]
            /\ \A k \in 1 .. m : h[k] \in places /\ t[k] = s[h[k]]
            /\ \A k, l \in 1 .. m : k < l => h[k] < h[l]
            /\ \A i \in 1 .. d - 1 : i \in places => \E k \in 1 .. m : h[k] = i
        BY <3>2 DEF InOrder, m, t
      <4>3. \A k \in 1 .. m + 1 : k \in 1 .. m \/ (k = m + 1 /\ ~(k <= m))
        BY <3>4
      <4>4. /\ m + 1 \in 1 .. m + 1 /\ g[m + 1] = d
            /\ \A k \in 1 .. m : k \in 1 .. m + 1 /\ g[k] = h[k]
        BY <3>4
      <4>5. \A k \in 1 .. m : h[k] \in 1 .. d - 1 /\ h[k] \in 1 .. d /\ h[k] < d
        BY <4>2, <3>1, <1>2
      <4>6. g \in [1 .. m + 1 -> 1 .. d]
        <5>1. \A k \in 1 .. m + 1 : g[k] \in 1 .. d
          BY <4>3, <4>4, <4>5, <3>1
        <5> QED  BY <5>1
      <4> HIDE DEF g
      <4>7. \A k \in 1 .. m + 1 : g[k] \in places /\ u[k] = s[g[k]]
        BY <4>1, <4>2, <4>3, <4>4, <3>5
      <4>8. \A k, l \in 1 .. m + 1 : k < l => g[k] < g[l]
        <5>1. ASSUME NEW k \in 1 .. m + 1, NEW l \in 1 .. m + 1, k < l PROVE g[k] < g[l]
          <6>1. k \in 1 .. m
            BY <5>1, <3>4
          <6> QED  BY <6>1, <5>1, <4>2, <4>3, <4>4, <4>5
        <5> QED  BY <5>1
      <4>9. \A i \in 1 .. d : i \in places => \E k \in 1 .. m + 1 : g[k] = i
        <5>1. \A i \in 1 .. d : i \in 1 .. d - 1 \/ i = d
          BY <3>1, <1>2
        <5> QED  BY <5>1, <4>2, <4>4
      <4>10. InOrder(g, u, s, places, d)
        BY <4>1, <4>6, <4>7, <4>8, <4>9 DEF InOrder
      <4>11. f[d] = u
        BY <3>3, <3>5 DEF u, t
      <4> QED  BY <4>10, <4>11
    <3>6. CASE d \notin places
      <4> HIDE DEF m, t
      <4>1. /\ h \in [1 .. Len(t) -> 1 .. d - 1]
            /\ \A k \in 1 .. Len(t) : h[k] \in places /\ t[k] = s[h[k]]
            /\ \A k, l \in 1 .. Len(t) : k < l => h[k] < h[l]
            /\ \A i \in 1 .. d - 1 : i \in places => \E k \in 1 .. Len(t) : h[k] = i
        BY <3>2 DEF InOrder, t
      <4>2. \A i \in 1 .. d : i \in places => i \in 1 .. d - 1
        BY <3>1, <3>6, <1>2
      <4>3. 1 .. d - 1 \subseteq 1 .. d
        BY <3>1, <1>2
      <4>4. h \in [1 .. Len(t) -> 1 .. d]
        BY <4>1, <4>3
      <4>5. f[d] = t
        BY <3>3, <3>6 DEF t
      <4>6. InOrder(h, t, s, places, d)
        BY <4>1, <4>2, <4>4 DEF InOrder
      <4> QED  BY <4>5, <4>6
    <3> QED  BY <3>5, <3>6
  <2> QED  BY <2>1, <2>2
<1> HIDE DEF G
<1>4. \A d \in D : d \in G
  <2> HIDE DEF D, size
  <2> QED  BY <1>2, <1>3, InductionByMeasure
<1>5. N \in D
  BY <1>2
<1>6. \E h : InOrder(h, f[N], s, places, N)
  BY <1>4, <1>5 DEF G
<1> QED  BY <1>1, <1>2, <1>6

-----------------------------------------------------------------------------
(* Nothing is picked of nothing, and nothing at no place.                  *)
LEMMA PickedNone ==
    ASSUME NEW S, NEW s \in Seq(S), NEW places, \A i \in 1 .. Len(s) : i \notin places
    PROVE  Picked(s, places) = <<>>
<1>1. /\ Picked(s, places) \in Seq(S)
      /\ \E h : InOrder(h, Picked(s, places), s, places, Len(s))
  BY PickedInOrder
<1> DEFINE t == Picked(s, places)
<1> HIDE DEF t
<1>2. t \in Seq(S) /\ \A k \in 1 .. Len(t) : FALSE
  BY <1>1 DEF InOrder, t
<1>3. Len(t) = 0
  BY <1>2
<1>4. t = <<>>
  BY <1>2, <1>3
<1> QED  BY <1>4 DEF t

(* The same by the places of the two sequences.                            *)
PickedShape(t, s, places) ==
    \E h : /\ h \in [DOMAIN t -> DOMAIN s]
           /\ \A k \in DOMAIN t : h[k] \in places /\ t[k] = s[h[k]]
           /\ \A k, l \in DOMAIN t : h[k] = h[l] => k = l
           /\ \A i \in DOMAIN s : i \in places => \E k \in DOMAIN t : h[k] = i

LEMMA PickedPlaces ==
    ASSUME NEW S, NEW s \in Seq(S), NEW places
    PROVE  PickedShape(Picked(s, places), s, places)
<1> DEFINE t == Picked(s, places)
<1>1. t \in Seq(S) /\ \E h : InOrder(h, t, s, places, Len(s))
  BY PickedInOrder
<1> HIDE DEF t
<1>2. PICK h : InOrder(h, t, s, places, Len(s))
  BY <1>1
<1>3. DOMAIN t = 1 .. Len(t) /\ DOMAIN s = 1 .. Len(s) /\ Len(t) \in Nat /\ Len(s) \in Nat
  BY <1>1
<1>4. /\ h \in [DOMAIN t -> DOMAIN s]
      /\ \A k \in DOMAIN t : h[k] \in places /\ t[k] = s[h[k]]
      /\ \A k, l \in DOMAIN t : k < l => h[k] < h[l]
      /\ \A i \in DOMAIN s : i \in places => \E k \in DOMAIN t : h[k] = i
  BY <1>2, <1>3 DEF InOrder
<1>5. ASSUME NEW k \in DOMAIN t, NEW l \in DOMAIN t, h[k] = h[l] PROVE k = l
  <2>1. (k < l \/ l < k \/ k = l) /\ h[k] \in Nat
    BY <1>3, <1>4
  <2> QED  BY <1>4, <1>5, <2>1
<1> QED  BY <1>4, <1>5 DEF PickedShape, t

(* The last of the entries with a name.                                    *)
LEMMA LastNamedFound ==
    ASSUME NEW S, NEW entries \in Seq(S), NEW name
    PROVE  /\ (\A i \in DOMAIN entries : entries[i].name # name) => LastNamed(entries, name) = <<>>
           /\ (\E i \in DOMAIN entries : entries[i].name = name) =>
                 \E x \in S : x.name = name /\ LastNamed(entries, name) = <<x>>
<1> DEFINE T == {i \in DOMAIN entries : entries[i].name = name}
           i0 == CHOOSE i \in T : \A j \in T : j <= i
<1>1. LastNamed(entries, name) = IF T = {} THEN <<>> ELSE <<entries[i0]>>
  BY DEF LastNamed
<1>2. ASSUME T # {} PROVE i0 \in T
  <2>1. Len(entries) \in Nat /\ T \in SUBSET (1 .. Len(entries))
    OBVIOUS
  <2> HIDE DEF T, i0
  <2>2. \E m \in T : \A k \in T : k <= m
    BY <1>2, <2>1, GreatestIndex
  <2> QED  BY <2>2 DEF i0
<1> HIDE DEF i0
<1>3. \A i \in T : entries[i] \in S /\ entries[i].name = name
  OBVIOUS
<1> QED  BY <1>1, <1>2, <1>3

LEMMA FirstNamedFound ==
    ASSUME NEW S, NEW entries \in Seq(S), NEW name
    PROVE  /\ (\A i \in DOMAIN entries : entries[i].name # name) => FirstNamed(entries, name) = <<>>
           /\ (\E i \in DOMAIN entries : entries[i].name = name) =>
                 \E x \in S : x.name = name /\ FirstNamed(entries, name) = <<x>>
<1> DEFINE T == {i \in DOMAIN entries : entries[i].name = name}
           i0 == CHOOSE i \in T : \A j \in T : i <= j
<1>1. FirstNamed(entries, name) = IF T = {} THEN <<>> ELSE <<entries[i0]>>
  BY DEF FirstNamed
<1>2. ASSUME T # {} PROVE i0 \in T
  <2>1. Len(entries) \in Nat /\ T \in SUBSET (1 .. Len(entries))
    OBVIOUS
  <2> HIDE DEF T, i0
  <2>2. \E m \in T : \A k \in T : m <= k
    BY <1>2, <2>1, LeastIndex
  <2> QED  BY <2>2 DEF i0
<1> HIDE DEF i0
<1>3. \A i \in T : entries[i] \in S /\ entries[i].name = name
  OBVIOUS
<1> QED  BY <1>1, <1>2, <1>3

-----------------------------------------------------------------------------
(* What the assumption on the inputs says of one directory.                *)
Directory ==
    /\ project.files \in Seq(SourceFiles) /\ project.operations \in Seq(MappedOperations)
    /\ \A i \in DOMAIN project.files : project.files[i].path # <<>>
    /\ \A i \in DOMAIN project.operations : Len(project.operations[i].id) <= 1
    /\ \A i, j \in DOMAIN project.operations :
          project.operations[i].method = project.operations[j].method
             /\ project.operations[i].path = project.operations[j].path => i = j

LEMMA DirectoryTyped ==
    ASSUME \E family \in Projects : project \in family
    PROVE  Directory
  BY SourceAssumption DEF Directory

LEMMA ParsedTyped ==
    ASSUME NEW file \in SourceFiles
    PROVE  Parsed(file) \in SourceFiles /\ Parsed(file).path = file.path
<1>1. CASE file.syntax
  BY <1>1 DEF Parsed
<1>2. CASE ~file.syntax
  <2>1. Parsed(file) =
           [path |-> file.path, size |-> file.size, readable |-> file.readable,
            excluded |-> file.excluded, syntax |-> file.syntax, imports |-> <<>>,
            symbols |-> <<>>, program |-> <<>>, functions |-> <<>>, routers |-> <<>>,
            assignments |-> <<>>]
    BY <1>2 DEF Parsed, SourceFiles
  <2> QED  BY <2>1, ProgramAssumption DEF SourceFiles, Words
<1> QED  BY <1>1, <1>2

(* A word is a string; what the code itself writes is named, because the   *)
(* provers do not know of a literal that it is one.                        *)
Texts == STRING \cup Methods \cup AuthDecorators \cup {"/", "parameter", "decorator", "router"}

(* The endpoints of a file, by the framework that declares them.           *)
EndpointsOf(file, frameworks) ==
    {Endpoint(method, path, function, file, framework, auth) :
        method \in Texts, path \in Seq(Texts), function \in Definitions,
        framework \in frameworks, auth \in SUBSET Texts}

LEMMA EndpointFields ==
    ASSUME NEW file, NEW frameworks, NEW e \in EndpointsOf(file, frameworks)
    PROVE  /\ e.framework \in frameworks /\ e.path \in Seq(Texts) /\ e.method \in Texts
           /\ Enrich(file, e).method = e.method /\ Enrich(file, e).path = e.path
           /\ Enrich(file, e).framework = e.framework /\ Enrich(file, e).handler = e.handler
<1>1. PICK method \in Texts, path \in Seq(Texts), function \in Definitions,
           framework \in frameworks, auth \in SUBSET Texts :
              e = Endpoint(method, path, function, file, framework, auth)
  BY DEF EndpointsOf
<1> QED  BY <1>1 DEF Endpoint, Enrich

LEMMA WordsAreTexts == ASSUME NEW w \in Words PROVE w \in Seq(Texts)
<1>1. w \in Seq(STRING)
  BY DEF Words
<1>2. /\ Len(w) \in Nat /\ w = [i \in 1 .. Len(w) |-> w[i]]
      /\ \A i \in 1 .. Len(w) : w[i] \in Texts
  BY <1>1 DEF Texts
<1> QED  BY <1>2

LEMMA PathTyped ==
    ASSUME NEW file \in SourceFiles, NEW dec \in Decorators, NEW class
    PROVE  Join(PrefixOf(RouterOf(file, dec, class)), PathOf(dec)) \in Seq(Texts)
<1> DEFINE R == [name : STRING, class : STRING, prefix : Seq(Words), dependencies : BOOLEAN]
           P == {i \in DOMAIN file.routers : file.routers[i].class = class}
           t == Picked(file.routers, P)
           router == RouterOf(file, dec, class)
<1>1. file.routers \in Seq(R)
  BY DEF SourceFiles
<1> HIDE DEF R, P
<1>2. t \in Seq(R)
  BY <1>1, PickedInOrder
<1>3. router = IF dec.receiver = <<>> THEN <<>> ELSE LastNamed(t, Lower[dec.receiver[1]])
  BY DEF RouterOf, P
<1> HIDE DEF t, router
<1>4. router = <<>> \/ \E x \in R : router = <<x>>
  BY <1>2, <1>3, LastNamedFound
<1>5. PrefixOf(router) \in Seq(Words)
  BY <1>4 DEF PrefixOf, R
<1>6. PathOf(dec) \in Words
  BY DEF PathOf, Decorators, Words
<1> DEFINE prefix == PrefixOf(router)
           path == PathOf(dec)
<1> HIDE DEF prefix, path
<1>7. prefix \in Seq(Seq(Texts)) /\ path \in Seq(Texts)
  <2>1. \A w \in Words : w \in Seq(Texts)
    BY WordsAreTexts
  <2> HIDE DEF Words
  <2>2. ASSUME NEW w \in Seq(Words) PROVE w \in Seq(Seq(Texts))
    <3>1. /\ Len(w) \in Nat /\ w = [i \in 1 .. Len(w) |-> w[i]]
          /\ \A i \in 1 .. Len(w) : w[i] \in Seq(Texts)
      BY <2>1
    <3> QED  BY <3>1
  <2> QED  BY <1>5, <1>6, <2>1, <2>2 DEF prefix, path
<1>8. "/" \in Texts
  BY DEF Texts
<1> HIDE DEF Texts
<1>9. Join(prefix, path) \in Seq(Texts)
  <2>1. prefix # <<>> => prefix[1] \in Seq(Texts)
    BY <1>7
  <2>2. <<"/">> \in Seq(Texts)
    BY <1>8
  <2> QED  BY <1>7, <2>1, <2>2 DEF Join
<1> QED  BY <1>9 DEF prefix, path, router

LEMMA EndpointIn ==
    ASSUME NEW file, NEW frameworks, NEW framework \in frameworks, NEW method \in Texts,
           NEW path \in Seq(Texts), NEW function \in Definitions, NEW auth \in SUBSET Texts
    PROVE  Endpoint(method, path, function, file, framework, auth) \in EndpointsOf(file, frameworks)
  BY DEF EndpointsOf

LEMMA AuthTyped ==
    /\ \A function, dec, router : FastapiAuth(function, dec, router) \in SUBSET Texts
    /\ \A function : FlaskAuth(function) \in SUBSET Texts
  BY DEF FastapiAuth, FlaskAuth, Texts

(* The methods of a decorator.                                             *)
LEMMA MethodsTyped ==
    ASSUME NEW dec \in Decorators
    PROVE  FlaskMethods(dec) \in Seq(Texts) /\ FastapiMethods(dec) \in Seq(Texts)
<1>1. dec.methods \in Seq(Words) /\ dec.attribute \in STRING
  BY DEF Decorators
<1>2. ListedMethods(dec) \in Words
  <2>1. dec.methods # <<>> => dec.methods[1] \in Words
    BY <1>1
  <2>2. <<>> \in Words
    BY DEF Words
  <2> QED  BY <2>1, <2>2 DEF ListedMethods
<1>3. ListedMethods(dec) \in Seq(Texts)
  BY <1>2, WordsAreTexts
<1>4. "get" \in Texts /\ dec.attribute \in Texts
  BY <1>1 DEF Texts, Methods
<1> HIDE DEF Texts
<1>5. FlaskMethods(dec) \in Seq(Texts)
  BY <1>3, <1>4 DEF FlaskMethods
<1> DEFINE named == IF dec.attribute # "api_route" THEN <<dec.attribute>> ELSE ListedMethods(dec)
<1>6. named \in Seq(Texts)
  BY <1>3, <1>4
<1>7. FastapiMethods(dec) = Picked(named, {i \in DOMAIN named : named[i] \in Methods})
  BY DEF FastapiMethods
<1> HIDE DEF named
<1> QED  BY <1>5, <1>6, <1>7, PickedInOrder

(* What the decorators of a file declare is FastAPI or Flask.              *)
LEMMA FastapiTyped ==
    ASSUME NEW file \in SourceFiles
    PROVE  FastapiEndpoints(file) \in Seq(EndpointsOf(file, {"fastapi"}))
<1> DEFINE E == EndpointsOf(file, {"fastapi"})
           Path(dec) == Join(PrefixOf(RouterOf(file, dec, "APIRouter")), PathOf(dec))
           of(function, dec) ==
               IF dec.receiver = <<>> THEN <<>>
               ELSE [i \in DOMAIN FastapiMethods(dec) |->
                       Endpoint(FastapiMethods(dec)[i], Path(dec), function, file, "fastapi",
                                FastapiAuth(function, dec, RouterOf(file, dec, "APIRouter")))]
           chosen(function, dec) ==
               IF dec.attribute \in Methods \cup {"api_route"} THEN of(function, dec) ELSE <<>>
           each(function) == [k \in DOMAIN function.decorators |-> chosen(function, function.decorators[k])]
           all == [i \in DOMAIN file.functions |-> FlattenSeq(each(file.functions[i]))]
<1>1. ASSUME NEW function \in Definitions, NEW dec \in Decorators
      PROVE  chosen(function, dec) \in Seq(E)
  <2> DEFINE m == FastapiMethods(dec)
             auth == FastapiAuth(function, dec, RouterOf(file, dec, "APIRouter"))
             path == Path(dec)
  <2>1. m \in Seq(Texts) /\ auth \in SUBSET Texts /\ path \in Seq(Texts)
    BY MethodsTyped, AuthTyped, PathTyped
  <2>2. of(function, dec) = IF dec.receiver = <<>> THEN <<>>
                            ELSE [i \in DOMAIN m |-> Endpoint(m[i], path, function, file, "fastapi", auth)]
    OBVIOUS
  <2> HIDE DEF m, auth, path, of
  <2>3. \A i \in DOMAIN m : Endpoint(m[i], path, function, file, "fastapi", auth) \in E
    <3>1. \A i \in DOMAIN m : m[i] \in Texts
      BY <2>1
    <3> QED  BY <2>1, <3>1, EndpointIn
  <2> HIDE DEF E
  <2>4. of(function, dec) \in Seq(E)
    BY <2>1, <2>2, <2>3
  <2> QED  BY <2>4
<1> HIDE DEF chosen, E
<1>2. ASSUME NEW function \in Definitions PROVE FlattenSeq(each(function)) \in Seq(E)
  <2>1. function.decorators \in Seq(Decorators)
    BY DEF Definitions
  <2> DEFINE d == function.decorators
  <2>2. each(function) \in Seq(Seq(E))
    <3>1. /\ DOMAIN d = 1 .. Len(d) /\ Len(d) \in Nat
          /\ \A k \in DOMAIN d : d[k] \in Decorators
      BY <2>1
    <3>2. each(function) = [k \in DOMAIN d |-> chosen(function, d[k])]
      OBVIOUS
    <3> HIDE DEF d, each
    <3>3. \A k \in DOMAIN d : chosen(function, d[k]) \in Seq(E)
      BY <1>1, <3>1
    <3> QED  BY <3>1, <3>2, <3>3
  <2> HIDE DEF each
  <2> QED  BY <2>2, FlattenTyped
<1>3. FastapiEndpoints(file) = FlattenSeq(all)
  BY DEF FastapiEndpoints, chosen
<1> HIDE DEF each
<1>4. file.functions \in Seq(Definitions)
  BY DEF SourceFiles
<1>5. all \in Seq(Seq(E))
  BY <1>2, <1>4
<1> HIDE DEF all
<1> QED  BY <1>3, <1>5, FlattenTyped DEF E

LEMMA FlaskTyped ==
    ASSUME NEW file \in SourceFiles
    PROVE  FlaskEndpoints(file) \in Seq(EndpointsOf(file, {"flask"}))
<1> DEFINE E == EndpointsOf(file, {"flask"})
           Path(dec) == Join(PrefixOf(RouterOf(file, dec, "Blueprint")), PathOf(dec))
           of(function, dec) ==
               [i \in DOMAIN FlaskMethods(dec) |->
                  Endpoint(FlaskMethods(dec)[i], Path(dec), function, file, "flask", FlaskAuth(function))]
           chosen(function, dec) ==
               IF dec.attribute = "route" THEN of(function, dec) ELSE <<>>
           each(function) == [k \in DOMAIN function.decorators |-> chosen(function, function.decorators[k])]
           all == [i \in DOMAIN file.functions |-> FlattenSeq(each(file.functions[i]))]
<1>1. ASSUME NEW function \in Definitions, NEW dec \in Decorators
      PROVE  chosen(function, dec) \in Seq(E)
  <2> DEFINE m == FlaskMethods(dec)
             auth == FlaskAuth(function)
             path == Path(dec)
  <2>1. m \in Seq(Texts) /\ auth \in SUBSET Texts /\ path \in Seq(Texts)
    BY MethodsTyped, AuthTyped, PathTyped
  <2>2. of(function, dec) = [i \in DOMAIN m |-> Endpoint(m[i], path, function, file, "flask", auth)]
    OBVIOUS
  <2> HIDE DEF m, auth, path, of
  <2>3. \A i \in DOMAIN m : Endpoint(m[i], path, function, file, "flask", auth) \in E
    <3>1. \A i \in DOMAIN m : m[i] \in Texts
      BY <2>1
    <3> QED  BY <2>1, <3>1, EndpointIn
  <2> HIDE DEF E
  <2>4. of(function, dec) \in Seq(E)
    BY <2>1, <2>2, <2>3
  <2> QED  BY <2>4
<1> HIDE DEF chosen, E
<1>2. ASSUME NEW function \in Definitions PROVE FlattenSeq(each(function)) \in Seq(E)
  <2>1. function.decorators \in Seq(Decorators)
    BY DEF Definitions
  <2> DEFINE d == function.decorators
  <2>2. each(function) \in Seq(Seq(E))
    <3>1. /\ DOMAIN d = 1 .. Len(d) /\ Len(d) \in Nat
          /\ \A k \in DOMAIN d : d[k] \in Decorators
      BY <2>1
    <3>2. each(function) = [k \in DOMAIN d |-> chosen(function, d[k])]
      OBVIOUS
    <3> HIDE DEF d, each
    <3>3. \A k \in DOMAIN d : chosen(function, d[k]) \in Seq(E)
      BY <1>1, <3>1
    <3> QED  BY <3>1, <3>2, <3>3
  <2> HIDE DEF each
  <2> QED  BY <2>2, FlattenTyped
<1>3. FlaskEndpoints(file) = FlattenSeq(all)
  BY DEF FlaskEndpoints, chosen
<1> HIDE DEF each
<1>4. file.functions \in Seq(Definitions)
  BY DEF SourceFiles
<1>5. all \in Seq(Seq(E))
  BY <1>2, <1>4
<1> HIDE DEF all
<1> QED  BY <1>3, <1>5, FlattenTyped DEF E

-----------------------------------------------------------------------------
(* A path is its front and its last word.                                  *)
LEMMA FrontAndLast ==
    /\ \A p \in Words : \A w \in STRING :
          /\ Append(p, w) \in Words /\ Len(Append(p, w)) = Len(p) + 1
          /\ Front(Append(p, w)) = p /\ Last(Append(p, w)) = w
    /\ \A p \in Words : Len(p) > 1 =>
          Front(p) \in Words /\ Last(p) \in STRING /\ p = Append(Front(p), Last(p))
<1>1. ASSUME NEW p \in Seq(STRING), NEW w \in STRING
      PROVE  /\ Append(p, w) \in Seq(STRING) /\ Len(Append(p, w)) = Len(p) + 1
             /\ Front(Append(p, w)) = p /\ Last(Append(p, w)) = w
  BY AppendEnds
<1>2. ASSUME NEW p \in Seq(STRING), Len(p) > 1
      PROVE  Front(p) \in Seq(STRING) /\ Last(p) \in STRING /\ p = Append(Front(p), Last(p))
  BY <1>2 DEF Front, Last
<1> QED  BY <1>1, <1>2 DEF Words

(* An operation is that of an endpoint, and its id that of a function.     *)
Declares(e, op) == e.method = op.method /\ e.path = op.path
IdOf(op, file, name) == op.id = <<Append(file.path, name)>>

(* The operations that a file is mapped to, each of them once.             *)
LEMMA ConnexionExact ==
    ASSUME Directory, NEW file \in SourceFiles, file.path # <<>>
    PROVE  /\ ConnexionEndpoints(file) \in Seq(EndpointsOf(file, {"connexion"}))
           /\ \A k \in DOMAIN ConnexionEndpoints(file) : \E op \in ToSet(project.operations) :
                 /\ Declares(ConnexionEndpoints(file)[k], op)
                 /\ IdOf(op, file, ConnexionEndpoints(file)[k].handler)
           /\ \A op \in ToSet(project.operations) :
                 (\E f \in ToSet(file.functions) : IdOf(op, file, f.name)) =>
                    \E k \in DOMAIN ConnexionEndpoints(file) : Declares(ConnexionEndpoints(file)[k], op)
           /\ \A k, l \in DOMAIN ConnexionEndpoints(file) :
                 /\ ConnexionEndpoints(file)[k].method = ConnexionEndpoints(file)[l].method
                 /\ ConnexionEndpoints(file)[k].path = ConnexionEndpoints(file)[l].path
                 => k = l
<1> DEFINE ops == project.operations
           M == MappedOperations
           names(op) == /\ op.id # <<>> /\ Len(op.id[1]) > 1
                        /\ IsModuleOf(file, Front(op.id[1]))
                        /\ LastNamed(file.functions, Last(op.id[1])) # <<>>
           places == {i \in DOMAIN ops : names(ops[i])}
           bound == Picked(ops, places)
           handler(op) == LastNamed(file.functions, Last(op.id[1]))[1]
           of(op) == Endpoint(op.method, op.path, handler(op), file, "connexion",
                              ConnexionAuth(file, handler(op).name))
           m == ConnexionEndpoints(file)
<1>1. m = [i \in DOMAIN bound |-> of(bound[i])]
  BY DEF ConnexionEndpoints
<1> HIDE DEF m
<1>2. ops \in Seq(M) /\ \A i \in DOMAIN ops : ops[i] \in M
  BY DEF Directory
<1>3. \A op \in M : op.method \in STRING /\ op.path \in Words /\ op.id \in Seq(Words)
  BY DEF MappedOperations
<1>4. file.functions \in Seq(Definitions) /\ file.path \in Words
  BY DEF SourceFiles
<1> HIDE DEF names, bound, M
<1>5. PickedShape(bound, ops, places) /\ bound \in Seq(M)
  <2> HIDE DEF places
  <2> QED  BY <1>2, PickedInOrder, PickedPlaces DEF bound
<1>6. PICK h : /\ h \in [DOMAIN bound -> DOMAIN ops]
               /\ \A k \in DOMAIN bound : h[k] \in places /\ bound[k] = ops[h[k]]
               /\ \A k, l \in DOMAIN bound : h[k] = h[l] => k = l
               /\ \A i \in DOMAIN ops : i \in places => \E k \in DOMAIN bound : h[k] = i
  BY <1>5 DEF PickedShape
<1>7. /\ bound \in Seq(M)
      /\ \A k \in DOMAIN bound : names(bound[k]) /\ bound[k] = ops[h[k]] /\ h[k] \in DOMAIN ops
      /\ \A k, l \in DOMAIN bound : h[k] = h[l] => k = l
      /\ \A i \in DOMAIN ops : names(ops[i]) => \E k \in DOMAIN bound : bound[k] = ops[i]
  <2>1. \A k \in DOMAIN bound : names(bound[k]) /\ bound[k] = ops[h[k]] /\ h[k] \in DOMAIN ops
    BY <1>6
  <2>2. ASSUME NEW i \in DOMAIN ops, names(ops[i]) PROVE \E k \in DOMAIN bound : bound[k] = ops[i]
    BY <1>6, <2>2
  <2> QED  BY <1>5, <1>6, <2>1, <2>2
(* An operation that names a function, and what it is mapped to.           *)
<1>8. ASSUME NEW op \in M, names(op)
      PROVE  /\ handler(op) \in Definitions /\ handler(op).name = Last(op.id[1])
             /\ op.id[1] = Append(file.path, Last(op.id[1])) /\ Len(op.id) # 0
  <2>1. op.id # <<>> /\ op.id[1] \in Words /\ Len(op.id[1]) > 1 /\ Front(op.id[1]) = file.path
    BY <1>3, <1>8 DEF names, IsModuleOf
  <2>2. LastNamed(file.functions, Last(op.id[1])) # <<>>
    BY <1>8 DEF names
  <2>3. \E x \in Definitions : /\ x.name = Last(op.id[1])
                               /\ LastNamed(file.functions, Last(op.id[1])) = <<x>>
    BY <1>4, <2>2, LastNamedFound
  <2>4. op.id[1] = Append(file.path, Last(op.id[1]))
    BY <2>1, FrontAndLast
  <2>5. op.id \in Seq(Words)
    BY <1>3
  <2> QED  BY <2>1, <2>3, <2>4, <2>5
<1>9. ASSUME NEW op \in M, names(op)
      PROVE  /\ of(op) \in EndpointsOf(file, {"connexion"})
             /\ Declares(of(op), op) /\ of(op).handler = Last(op.id[1])
  <2>1. handler(op) \in Definitions /\ handler(op).name = Last(op.id[1])
    BY <1>8, <1>9
  <2>2. op.method \in Texts /\ op.path \in Seq(Texts)
    BY <1>3, WordsAreTexts DEF Texts
  <2>3. ConnexionAuth(file, handler(op).name) \in SUBSET Texts
    <3> DEFINE first == FirstNamed(file.functions, handler(op).name)
    <3>1. first = <<>> \/ \E x \in Definitions : first = <<x>>
      BY <1>4, FirstNamedFound
    <3>2. ConnexionAuth(file, handler(op).name) = IF first = <<>> THEN {} ELSE first[1].helpers
      BY DEF ConnexionAuth
    <3> HIDE DEF first
    <3>3. \A x \in Definitions : x.helpers \in SUBSET Texts
      BY DEF Definitions, Texts
    <3> QED  BY <3>1, <3>2, <3>3
  <2> HIDE DEF handler
  <2>4. of(op) \in EndpointsOf(file, {"connexion"})
    BY <2>1, <2>2, <2>3, EndpointIn
  <2>5. Declares(of(op), op) /\ of(op).handler = handler(op).name
    BY DEF Declares, Endpoint
  <2> QED  BY <2>1, <2>4, <2>5
<1> HIDE DEF of, handler
<1>10. DOMAIN m = DOMAIN bound /\ \A k \in DOMAIN m : m[k] = of(bound[k]) /\ bound[k] \in M
  BY <1>1, <1>7
<1>11. m \in Seq(EndpointsOf(file, {"connexion"}))
  <2>1. \A k \in DOMAIN m : m[k] \in EndpointsOf(file, {"connexion"})
    BY <1>7, <1>9, <1>10
  <2>2. DOMAIN m = 1 .. Len(bound) /\ Len(bound) \in Nat /\ m = [k \in DOMAIN m |-> m[k]]
    BY <1>1, <1>7
  <2> QED  BY <2>1, <2>2
<1>12. ASSUME NEW k \in DOMAIN m
       PROVE  \E op \in ToSet(ops) : Declares(m[k], op) /\ IdOf(op, file, m[k].handler)
  <2>1. bound[k] \in ToSet(ops) /\ names(bound[k]) /\ bound[k] \in M /\ m[k] = of(bound[k])
    BY <1>7, <1>10 DEF ToSet
  <2>2. /\ Declares(m[k], bound[k]) /\ m[k].handler = Last(bound[k].id[1])
        /\ bound[k].id[1] = Append(file.path, Last(bound[k].id[1])) /\ Len(bound[k].id) # 0
    BY <1>8, <1>9, <2>1
  <2>3. bound[k].id \in Seq(Words) /\ Len(bound[k].id) <= 1
    <3>1. bound[k] = ops[h[k]] /\ h[k] \in DOMAIN ops
      BY <1>7, <1>10
    <3> QED  BY <1>3, <2>1, <3>1 DEF Directory
  <2> DEFINE id == bound[k].id
  <2>4. id = <<id[1]>>
    <3> HIDE DEF id
    <3>0. id \in Seq(Words) /\ Len(id) <= 1 /\ Len(id) # 0
      BY <2>2, <2>3 DEF id
    <3>1. id \in Seq(Words) /\ Len(id) = 1
      <4>1. PICK n \in Nat : n = Len(id)
        BY <3>0, LenProperties
      <4>2. n <= 1 /\ n # 0
        BY <3>0, <4>1
      <4> QED  BY <3>0, <4>1, <4>2
    <3>2. id[1] \in Words
      BY <3>1
    <3> QED  BY <3>1, <3>2, SeqEqual
  <2> QED  BY <2>1, <2>2, <2>4 DEF IdOf
<1>13. ASSUME NEW op \in ToSet(ops), NEW f \in ToSet(file.functions), IdOf(op, file, f.name)
       PROVE  \E k \in DOMAIN m : Declares(m[k], op)
  <2>1. op \in M /\ \E i \in DOMAIN ops : op = ops[i]
    BY <1>2 DEF ToSet
  <2>2. f \in Definitions /\ \E i \in DOMAIN file.functions : file.functions[i] = f
    BY <1>4 DEF ToSet
  <2>3. op.id = <<Append(file.path, f.name)>> /\ f.name \in STRING
    BY <1>13, <2>2 DEF IdOf, Definitions
  <2>4. op.id # <<>> /\ op.id[1] = Append(file.path, f.name)
    BY <2>3
  <2>5. /\ Front(op.id[1]) = file.path /\ Last(op.id[1]) = f.name
        /\ Len(op.id[1]) = Len(file.path) + 1
    <3>1. PICK p, w : p = file.path /\ w = f.name
      OBVIOUS
    <3>2. p \in Words /\ w \in STRING /\ op.id[1] = Append(p, w)
      BY <1>4, <2>3, <2>4, <3>1
    <3>3. /\ Front(Append(p, w)) = p /\ Last(Append(p, w)) = w
          /\ Len(Append(p, w)) = Len(p) + 1
      BY <3>2, FrontAndLast
    <3> QED  BY <3>1, <3>2, <3>3
  <2>6. Len(file.path) \in Nat /\ Len(file.path) # 0
    <3> DEFINE p == file.path
    <3>1. p \in Words /\ p # <<>>
      BY <1>4
    <3> HIDE DEF p
    <3>2. p \in Seq(STRING)
      BY <3>1 DEF Words
    <3>3. Len(p) \in Nat \ {0}
      BY <3>1, <3>2, EmptySeq
    <3> QED  BY <3>3 DEF p
  <2>7. LastNamed(file.functions, f.name) # <<>>
    <3>1. \E i \in DOMAIN file.functions : file.functions[i].name = f.name
      BY <2>2
    <3>2. \E x \in Definitions : LastNamed(file.functions, f.name) = <<x>>
      BY <1>4, <3>1, LastNamedFound
    <3>3. \A x : <<x>> # <<>>
      OBVIOUS
    <3> QED  BY <3>2, <3>3
  <2>8. names(op)
    BY <2>4, <2>5, <2>6, <2>7 DEF names, IsModuleOf
  <2>9. PICK k \in DOMAIN bound : bound[k] = op
    BY <1>7, <2>1, <2>8
  <2> QED  BY <1>9, <1>10, <2>1, <2>8, <2>9
<1>14. ASSUME NEW k \in DOMAIN m, NEW l \in DOMAIN m, m[k].method = m[l].method, m[k].path = m[l].path
       PROVE  k = l
  <2>1. Declares(m[k], ops[h[k]]) /\ Declares(m[l], ops[h[l]]) /\ h[k] \in DOMAIN ops /\ h[l] \in DOMAIN ops
    BY <1>7, <1>9, <1>10
  <2>2. ops[h[k]].method = ops[h[l]].method /\ ops[h[k]].path = ops[h[l]].path
    BY <1>14, <2>1 DEF Declares
  <2>3. h[k] = h[l]
    BY <2>1, <2>2 DEF Directory
  <2> QED  BY <1>7, <1>10, <2>3
<1> QED  BY <1>11, <1>12, <1>13, <1>14 DEF m

LEMMA MoreFrameworks ==
    ASSUME NEW file, NEW F, NEW G, F \subseteq G
    PROVE  EndpointsOf(file, F) \subseteq EndpointsOf(file, G)
  BY DEF EndpointsOf

(* What is exact about the endpoints of a file.                            *)
Exact(file, theirs) ==
    /\ Registered /\ project.specified =>
          \A op \in ToSet(project.operations) :
             (\E f \in ToSet(file.functions) : IdOf(op, file, f.name)) =>
                \E i \in DOMAIN theirs : Declares(theirs[i], op)
    /\ \A i \in DOMAIN theirs : theirs[i].framework = "connexion" =>
          /\ Registered
          /\ \E op \in ToSet(project.operations) :
                /\ IdOf(op, file, theirs[i].handler)
                /\ \A j \in DOMAIN theirs : Declares(theirs[j], op) <=> j = i

AllFrameworks == {"fastapi", "flask", "connexion"}

LEMMA AddedExact ==
    ASSUME Directory, NEW file \in SourceFiles, file.path # <<>>,
           NEW decorated \in Seq(EndpointsOf(file, {"fastapi", "flask"}))
    PROVE  /\ AddConnexion(file, decorated) \in Seq(EndpointsOf(file, AllFrameworks))
           /\ Exact(file, AddConnexion(file, decorated))
<1> DEFINE all == EndpointsOf(file, AllFrameworks)
           mapped == ConnexionEndpoints(file)
           existing == {<<e.method, e.path>> : e \in ToSet(decorated)}
           new == {i \in DOMAIN mapped : <<mapped[i].method, mapped[i].path>> \notin existing}
           added == Picked(mapped, new)
           e == AddConnexion(file, decorated)
           n == Len(decorated)
<1>1. e = IF Registered /\ project.specified THEN decorated \o added ELSE decorated
  BY DEF AddConnexion
<1>2. decorated \in Seq(all) /\ mapped \in Seq(EndpointsOf(file, {"connexion"})) /\ mapped \in Seq(all)
  <2>1. EndpointsOf(file, {"fastapi", "flask"}) \subseteq all /\ EndpointsOf(file, {"connexion"}) \subseteq all
    BY MoreFrameworks DEF AllFrameworks
  <2>2. mapped \in Seq(EndpointsOf(file, {"connexion"}))
    BY ConnexionExact
  <2> HIDE DEF all, mapped
  <2> QED  BY <2>1, <2>2, SeqMonotonic
<1>3. \A i \in DOMAIN decorated : decorated[i].framework # "connexion"
  <2>1. \A i \in DOMAIN decorated : decorated[i] \in EndpointsOf(file, {"fastapi", "flask"})
    OBVIOUS
  <2>2. \A i \in DOMAIN decorated : decorated[i].framework \in {"fastapi", "flask"}
    BY <2>1, EndpointFields
  <2> QED  BY <2>2
<1>4. \A i \in DOMAIN decorated : \A j \in new :
         ~(decorated[i].method = mapped[j].method /\ decorated[i].path = mapped[j].path)
  BY DEF ToSet
<1>5. \A j \in DOMAIN mapped : j \in new \/ \E i \in DOMAIN decorated :
         decorated[i].method = mapped[j].method /\ decorated[i].path = mapped[j].path
  BY DEF ToSet
<1>6. new \subseteq DOMAIN mapped
  OBVIOUS
<1> DEFINE places == 1 .. Len(mapped)
<1> HIDE DEF e, mapped, existing, new, all
<1>7. added \in Seq(all) /\ PickedShape(added, mapped, new)
  <2>1. added \in Seq(all)
    BY <1>2, PickedInOrder
  <2> QED  BY <1>2, PickedPlaces, <2>1
<1>8. PICK h : /\ h \in [DOMAIN added -> DOMAIN mapped]
               /\ \A k \in DOMAIN added : h[k] \in new /\ added[k] = mapped[h[k]]
               /\ \A k, l \in DOMAIN added : h[k] = h[l] => k = l
               /\ \A i \in DOMAIN mapped : i \in new => \E k \in DOMAIN added : h[k] = i
  BY <1>7 DEF PickedShape
<1>9. e \in Seq(all)
  BY <1>1, <1>2, <1>7
(* An operation that names a function of the file is mapped or declared.   *)
<1>10. ASSUME Registered /\ project.specified, NEW op \in ToSet(project.operations),
              \E f \in ToSet(file.functions) : IdOf(op, file, f.name)
       PROVE  \E i \in DOMAIN e : Declares(e[i], op)
  <2>1. PICK k \in DOMAIN mapped : Declares(mapped[k], op)
    BY <1>10, ConnexionExact DEF mapped
  <2>2. e = decorated \o added
    BY <1>1, <1>10
  <2>3. CASE k \in new
    <3>1. PICK l \in DOMAIN added : added[l] = mapped[k]
      BY <1>8, <2>3
    <3>2. n + l \in DOMAIN e /\ e[n + l] = added[l]
      BY <1>2, <1>7, <2>2
    <3> QED  BY <2>1, <3>1, <3>2
  <2>4. CASE k \notin new
    <3>1. PICK i \in DOMAIN decorated : decorated[i].method = mapped[k].method /\ decorated[i].path = mapped[k].path
      BY <1>5, <2>4
    <3>2. i \in DOMAIN e /\ e[i] = decorated[i]
      BY <1>2, <1>7, <2>2
    <3> QED  BY <2>1, <3>1, <3>2 DEF Declares
  <2> QED  BY <2>3, <2>4
(* What is mapped is an operation that names it, and mapped once.          *)
<1>11. ASSUME NEW i \in DOMAIN e, e[i].framework = "connexion"
       PROVE  /\ Registered
              /\ \E op \in ToSet(project.operations) :
                    /\ IdOf(op, file, e[i].handler)
                    /\ \A j \in DOMAIN e : Declares(e[j], op) <=> j = i
  <2>1. Registered /\ e = decorated \o added
    BY <1>1, <1>3, <1>11
  <2>2. /\ Len(e) = n + Len(added) /\ n \in Nat /\ Len(added) \in Nat
        /\ \A j \in 1 .. n : e[j] = decorated[j]
        /\ \A j \in DOMAIN e : j \in 1 .. n \/ (j - n \in DOMAIN added /\ e[j] = added[j - n] /\ j = n + (j - n))
    BY <1>2, <1>7, <2>1
  <2>3. i - n \in DOMAIN added /\ e[i] = added[i - n] /\ i = n + (i - n) /\ i \notin 1 .. n
    <3>1. \A j \in 1 .. n : j \in DOMAIN decorated
      BY <1>2
    <3> QED  BY <1>3, <1>11, <2>2, <3>1
  <2> DEFINE k == i - n
  <2> HIDE DEF k
  <2>4. k \in DOMAIN added /\ i = n + k /\ e[i] = added[k] /\ added[k] = mapped[h[k]] /\ h[k] \in new /\ h[k] \in DOMAIN mapped
    BY <1>8, <2>3 DEF k
  <2>5. PICK op \in ToSet(project.operations) :
           Declares(mapped[h[k]], op) /\ IdOf(op, file, mapped[h[k]].handler)
    BY <2>4, ConnexionExact DEF mapped
  <2>6. ASSUME NEW j \in DOMAIN e, Declares(e[j], op) PROVE j = i
    <3>1. e[j].method = mapped[h[k]].method /\ e[j].path = mapped[h[k]].path
      BY <2>5, <2>6 DEF Declares
    <3>2. j \notin 1 .. n
      <4>1. \A x \in 1 .. n : x \in DOMAIN decorated
        BY <1>2
      <4> QED  BY <1>4, <2>2, <2>4, <3>1, <4>1
    <3>3. PICK l : l = j - n /\ l \in DOMAIN added /\ e[j] = added[l] /\ j = n + l
      BY <2>2, <3>2
    <3>4. added[l] = mapped[h[l]] /\ h[l] \in DOMAIN mapped
      BY <1>8, <3>3
    <3>5. h[l] = h[k]
      BY <2>4, <3>1, <3>3, <3>4, ConnexionExact DEF mapped
    <3>6. l = k
      BY <1>8, <2>4, <3>3, <3>5
    <3> QED  BY <2>4, <3>3, <3>6
  <2>7. Declares(e[i], op) /\ IdOf(op, file, e[i].handler)
    BY <2>4, <2>5
  <2> QED  BY <2>1, <2>6, <2>7
<1> QED  BY <1>9, <1>10, <1>11 DEF Exact, e, all

(* A file as normalize_source_tree returns it.                             *)
LEMMA NormalizedExact ==
    ASSUME Directory, NEW file \in SourceFiles, file.path # <<>>
    PROVE  Exact(file, NormalizedFile(file).endpoints)
<1> DEFINE framework == DetectFramework(file)
           decorated == IF framework = "fastapi" THEN FastapiEndpoints(file)
                        ELSE IF framework = "flask" THEN FlaskEndpoints(file) ELSE <<>>
           e == AddConnexion(file, decorated)
           all == EndpointsOf(file, AllFrameworks)
           t == NormalizedFile(file).endpoints
<1>1. t = [i \in DOMAIN e |-> Enrich(file, e[i])]
  BY DEF NormalizedFile
<1>2. decorated \in Seq(EndpointsOf(file, {"fastapi", "flask"}))
  <2> DEFINE D == EndpointsOf(file, {"fastapi", "flask"})
  <2>1. EndpointsOf(file, {"fastapi"}) \subseteq D /\ EndpointsOf(file, {"flask"}) \subseteq D
    BY MoreFrameworks
  <2>2. /\ FastapiEndpoints(file) \in Seq(EndpointsOf(file, {"fastapi"}))
        /\ FlaskEndpoints(file) \in Seq(EndpointsOf(file, {"flask"}))
    BY FastapiTyped, FlaskTyped
  <2> HIDE DEF D, framework
  <2>3. FastapiEndpoints(file) \in Seq(D) /\ FlaskEndpoints(file) \in Seq(D)
    BY <2>1, <2>2, SeqMonotonic
  <2>4. decorated \in Seq(D)
    BY <2>3
  <2> QED  BY <2>4 DEF D
<1> HIDE DEF t, decorated
<1>3. e \in Seq(all) /\ Exact(file, e)
  BY <1>2, AddedExact
<1> HIDE DEF e, all
<1>4. /\ DOMAIN t = DOMAIN e
      /\ \A i \in DOMAIN e : /\ t[i].framework = e[i].framework /\ t[i].handler = e[i].handler
                             /\ \A op : Declares(t[i], op) <=> Declares(e[i], op)
  <2>1. \A i \in DOMAIN e : e[i] \in all /\ t[i] = Enrich(file, e[i])
    BY <1>1, <1>3
  <2>2. \A i \in DOMAIN e : /\ t[i].framework = e[i].framework /\ t[i].handler = e[i].handler
                            /\ t[i].method = e[i].method /\ t[i].path = e[i].path
    BY <2>1, EndpointFields DEF all
  <2> QED  BY <1>1, <2>2 DEF Declares
<1>5. Exact(file, t)
  BY <1>3, <1>4 DEF Exact
<1> QED  BY <1>5 DEF t

(* Of a file that does not parse there is nothing.                         *)
LEMMA EmptyFile ==
    ASSUME Directory, NEW file \in SourceFiles, file.functions = <<>>
    PROVE  NormalizedFile(file).endpoints = <<>>
<1> DEFINE ops == project.operations
           names(op) == /\ op.id # <<>> /\ Len(op.id[1]) > 1
                        /\ IsModuleOf(file, Front(op.id[1]))
                        /\ LastNamed(file.functions, Last(op.id[1])) # <<>>
           places == {i \in DOMAIN ops : names(ops[i])}
           bound == Picked(ops, places)
           handler(op) == LastNamed(file.functions, Last(op.id[1]))[1]
           of(op) == Endpoint(op.method, op.path, handler(op), file, "connexion",
                              ConnexionAuth(file, handler(op).name))
<1>1. FlattenSeq(<<>>) = <<>>
  BY DEF FlattenSeq
<1>2. FastapiEndpoints(file) = <<>> /\ FlaskEndpoints(file) = <<>>
  <2>1. \A f : [i \in DOMAIN <<>> |-> f[i]] = <<>>
    OBVIOUS
  <2> QED  BY <1>1, <2>1 DEF FastapiEndpoints, FlaskEndpoints
<1>3. \A name : LastNamed(<<>>, name) = <<>>
  BY DEF LastNamed
<1>4. Picked(ops, places) = <<>>
  <2>1. places = {}
    BY <1>3
  <2>2. ops \in Seq(MappedOperations)
    BY DEF Directory
  <2> HIDE DEF places
  <2> QED  BY <2>1, <2>2, PickedNone
<1>5. ConnexionEndpoints(file) = <<>>
  <2>1. ConnexionEndpoints(file) = [i \in DOMAIN bound |-> of(bound[i])]
    BY DEF ConnexionEndpoints
  <2>2. bound = <<>>
    BY <1>4
  <2> HIDE DEF bound, of
  <2> QED  BY <2>1, <2>2
<1>6. \A places_ : Picked(<<>>, places_) = <<>>
  <2>1. <<>> \in Seq({}) /\ \A i \in 1 .. Len(<<>>) : FALSE
    OBVIOUS
  <2> QED  BY <2>1, PickedNone
<1>7. AddConnexion(file, <<>>) = <<>>
  BY <1>5, <1>6 DEF AddConnexion
<1> QED  BY <1>2, <1>7 DEF NormalizedFile

-----------------------------------------------------------------------------
Settled(i) == (i \in ToSet(loaded)) # (\E d \in diagnostics : d[1] = i /\ d[2] # "syntax")
Untouched(i) == i \notin ToSet(loaded) /\ \A d \in diagnostics : d[1] # i

(* While the files are loaded: those looked at are loaded or skipped, the  *)
(* others neither, and what is loaded was counted.                         *)
LoadingInv ==
    /\ Len(Included) <= MaxSourceFiles /\ at <= Len(Included) /\ Len(loaded) <= at
    /\ Cardinality(LoadedBytes) <= total
    /\ \A k \in DOMAIN Included : IF k <= at THEN Settled(Included[k]) ELSE Untouched(Included[k])
    /\ tree = <<>>

(* And while they are normalised.                                          *)
NormalizingInv ==
    /\ \A k \in DOMAIN Included : Settled(Included[k])
    /\ at <= Len(loaded)
    /\ tree = [k \in 1 .. at |-> NormalizedFile(Parsed(project.files[loaded[k]]))]
    /\ \A k \in 1 .. at : ~project.files[loaded[k]].syntax => <<loaded[k], "syntax">> \in diagnostics

SourceInv ==
    /\ \E family \in Projects : project \in family
    /\ phase \in {"counting", "loading", "normalizing", "returned", "SourceLoadingError"}
    /\ at \in Nat /\ total \in Nat
    /\ loaded \in Seq(DOMAIN project.files) /\ Len(loaded) <= MaxSourceFiles
    /\ \A k \in DOMAIN loaded : project.files[loaded[k]].size <= MaxSourceSize
    /\ IsFiniteSet(LoadedBytes) /\ Cardinality(LoadedBytes) <= MaxSourceTotal
    /\ phase = "counting" => /\ at = 0 /\ total = 0 /\ loaded = <<>>
                             /\ diagnostics = {} /\ tree = <<>>
    /\ phase = "loading" => LoadingInv
    /\ phase \in {"normalizing", "returned"} => NormalizingInv

LEMMA IncludedShape ==
    ASSUME Directory
    PROVE  /\ Included \in Seq(DOMAIN project.files)
           /\ \A k, l \in DOMAIN Included : Included[k] = Included[l] => k = l
           /\ \A i \in DOMAIN project.files : ~project.files[i].excluded =>
                 \E k \in DOMAIN Included : Included[k] = i
<1> DEFINE D == DOMAIN project.files
           s == [i \in D |-> i]
           places == {i \in D : ~project.files[i].excluded}
           t == Included
<1>1. t = Picked(s, places)
  BY DEF Included
<1>2. s \in Seq(D) /\ DOMAIN s = D
  <2>1. D = 1 .. Len(project.files) /\ Len(project.files) \in Nat
    BY DEF Directory
  <2> HIDE DEF D
  <2> QED  BY <2>1
<1> HIDE DEF t, places
<1>3. t \in Seq(D) /\ PickedShape(t, s, places)
  <2> HIDE DEF s, D
  <2> QED  BY <1>1, <1>2, PickedInOrder, PickedPlaces
<1>4. PICK h : /\ h \in [DOMAIN t -> D]
               /\ \A k \in DOMAIN t : h[k] \in places /\ t[k] = s[h[k]]
               /\ \A k, l \in DOMAIN t : h[k] = h[l] => k = l
               /\ \A i \in D : i \in places => \E k \in DOMAIN t : h[k] = i
  BY <1>2, <1>3 DEF PickedShape
<1>5. \A k \in DOMAIN t : t[k] = h[k]
  BY <1>4
<1>6. \A i \in D : ~project.files[i].excluded => \E k \in DOMAIN t : t[k] = i
  BY <1>4, <1>5 DEF places
<1> QED  BY <1>3, <1>4, <1>5, <1>6 DEF t

(* What a step leaves as it was when it leaves the directory so.           *)
LEMMA DirectoryKept ==
    ASSUME project' = project
    PROVE  Included' = Included /\ (loaded' = loaded => LoadedBytes' = LoadedBytes)
  BY DEF Included, LoadedBytes

LEMMA NormalizedKept ==
    ASSUME project' = project, loaded' = loaded, NEW file
    PROVE  NormalizedFile(file)' = NormalizedFile(file)
<1>1. Registered' = Registered
  BY DEF Registered
<1>2. ConnexionEndpoints(file)' = ConnexionEndpoints(file)
  BY DEF ConnexionEndpoints
<1>3. \A e : AddConnexion(file, e)' = AddConnexion(file, e)
  BY <1>1, <1>2 DEF AddConnexion
<1> QED  BY <1>3 DEF NormalizedFile

-----------------------------------------------------------------------------
LEMMA SourceStarts == SourceInit => SourceInv
<1> SUFFICES ASSUME SourceInit PROVE SourceInv
  OBVIOUS
<1>1. LoadedBytes = {}
  BY DEF SourceInit, LoadedBytes, ToSet
<1>2. IsFiniteSet(LoadedBytes) /\ Cardinality(LoadedBytes) = 0
  BY <1>1, FS_EmptySet
<1>3. MaxSourceTotal \in Nat /\ MaxSourceFiles \in Nat
  BY SourceAssumption
<1> QED  BY <1>2, <1>3 DEF SourceInit, SourceInv

LEMMA CountKeeps == ASSUME SourceInv, CountFiles PROVE SourceInv'
<1>1. Directory
  BY DirectoryTyped DEF SourceInv
<1>2. Included' = Included /\ LoadedBytes' = LoadedBytes
  BY DirectoryKept DEF CountFiles
<1>3. Included \in Seq(DOMAIN project.files)
  BY <1>1, IncludedShape
<1>4. Len(Included) \in Nat /\ DOMAIN Included = 1 .. Len(Included)
  BY <1>3
<1>5. at = 0 /\ total = 0 /\ loaded = <<>> /\ diagnostics = {} /\ tree = <<>> /\ Cardinality(LoadedBytes) = 0
  <2>1. at = 0 /\ total = 0 /\ loaded = <<>> /\ diagnostics = {} /\ tree = <<>>
    BY DEF CountFiles, SourceInv
  <2>2. LoadedBytes = {}
    BY <2>1 DEF LoadedBytes, ToSet
  <2> QED  BY <2>1, <2>2, FS_EmptySet
<1>6. CASE Len(Included) > MaxSourceFiles
  BY <1>2, <1>6 DEF CountFiles, SourceInv
<1>7. CASE ~(Len(Included) > MaxSourceFiles)
  <2>1. Len(Included) <= MaxSourceFiles
    BY <1>4, <1>7, SourceAssumption
  <2>2. \A k \in DOMAIN Included : ~(k <= at) /\ Untouched(Included[k])'
    <3>1. loaded' = <<>> /\ diagnostics' = {}
      BY <1>5 DEF CountFiles
    <3> QED  BY <1>4, <1>5, <3>1 DEF Untouched, ToSet
  <2>3. LoadingInv'
    BY <1>2, <1>4, <1>5, <2>1, <2>2 DEF CountFiles, LoadingInv
  <2> QED  BY <1>2, <1>7, <2>3 DEF CountFiles, SourceInv
<1> QED  BY <1>6, <1>7

LEMMA LoadedKeeps == ASSUME SourceInv, Loaded PROVE SourceInv'
<1>1. Directory
  BY DirectoryTyped DEF SourceInv
<1>2. Included' = Included /\ LoadedBytes' = LoadedBytes
  BY DirectoryKept DEF Loaded
<1>3. Len(Included) \in Nat /\ DOMAIN Included = 1 .. Len(Included)
  BY <1>1, IncludedShape
<1>4. \A k \in DOMAIN Included : Settled(Included[k])
  BY <1>3 DEF SourceInv, LoadingInv, Loaded
<1>5. \A i : Settled(i)' <=> Settled(i)
  BY DEF Settled, Loaded
<1>6. tree = <<>> /\ Len(loaded) \in Nat
  BY DEF SourceInv, LoadingInv, Loaded
<1>7. NormalizingInv'
  BY <1>2, <1>4, <1>5, <1>6 DEF NormalizingInv, Loaded
<1> QED  BY <1>2, <1>7 DEF SourceInv, Loaded

LEMMA ReturnKeeps == ASSUME SourceInv, Return PROVE SourceInv'
<1>1. Included' = Included /\ LoadedBytes' = LoadedBytes
  BY DirectoryKept DEF Return
<1>2. \A i : Settled(i)' <=> Settled(i)
  BY DEF Settled, Return
<1>3. \A k : NormalizedFile(Parsed(project.files[loaded[k]]))' = NormalizedFile(Parsed(project.files[loaded[k]]))
  BY NormalizedKept DEF Return, Parsed
<1>4. NormalizingInv
  BY DEF SourceInv, Return
<1>5. NormalizingInv'
  BY <1>1, <1>2, <1>3, <1>4 DEF NormalizingInv, Return
<1> QED  BY <1>1, <1>5 DEF SourceInv, Return

LEMMA NormalizeKeeps == ASSUME SourceInv, NormalizeFile PROVE SourceInv'
<1> DEFINE F(k) == NormalizedFile(Parsed(project.files[loaded[k]]))
           i == loaded[at + 1]
<1>1. Included' = Included /\ LoadedBytes' = LoadedBytes
  BY DirectoryKept DEF NormalizeFile
<1>2. /\ NormalizingInv /\ at \in Nat /\ at + 1 <= Len(loaded) /\ Len(loaded) \in Nat
      /\ at' = at + 1 /\ project' = project /\ loaded' = loaded
  BY DEF SourceInv, NormalizeFile
<1>3. /\ diagnostics \subseteq diagnostics'
      /\ \A d \in diagnostics' : d \in diagnostics \/ d[2] = "syntax"
      /\ ~project.files[i].syntax => <<i, "syntax">> \in diagnostics'
  BY DEF NormalizeFile
<1>4. \A j : Settled(j)' <=> Settled(j)
  <2>1. \A j : (\E d \in diagnostics' : d[1] = j /\ d[2] # "syntax")
                  <=> (\E d \in diagnostics : d[1] = j /\ d[2] # "syntax")
    BY <1>3
  <2> QED  BY <1>2, <2>1 DEF Settled
<1>5. \A k : F(k)' = F(k)
  BY <1>2, NormalizedKept DEF Parsed
<1>6. tree' = Append(tree, F(at + 1))
  BY DEF NormalizeFile
<1>7. tree' = [k \in 1 .. at + 1 |-> F(k)]
  <2>1. tree = [k \in 1 .. at |-> F(k)]
    BY <1>2 DEF NormalizingInv
  <2> HIDE DEF F
  <2>2. Append(tree, F(at + 1)) = [k \in 1 .. at + 1 |-> F(k)]
    BY <1>2, <2>1
  <2> QED  BY <1>6, <2>2
<1>8. \A k \in 1 .. at + 1 : ~project.files[loaded[k]].syntax => <<loaded[k], "syntax">> \in diagnostics'
  <2>1. \A k \in 1 .. at + 1 : k \in 1 .. at \/ k = at + 1
    BY <1>2
  <2> QED  BY <1>2, <1>3, <2>1 DEF NormalizingInv
<1> HIDE DEF F
<1>9. NormalizingInv'
  <2>1. (\A k \in DOMAIN Included : Settled(Included[k]))'
    BY <1>1, <1>2, <1>4 DEF NormalizingInv
  <2>2. (tree = [k \in 1 .. at |-> F(k)])'
    BY <1>2, <1>5, <1>7
  <2>3. (\A k \in 1 .. at : ~project.files[loaded[k]].syntax => <<loaded[k], "syntax">> \in diagnostics)'
    BY <1>2, <1>8
  <2>4. (at <= Len(loaded))'
    BY <1>2
  <2> QED  BY <2>1, <2>2, <2>3, <2>4 DEF NormalizingInv, F
<1> QED  BY <1>1, <1>9 DEF SourceInv, NormalizeFile

(* A file is looked at: those before stay settled, those after untouched.  *)
LEMMA LoadKeeps == ASSUME SourceInv, LoadFile PROVE SourceInv'
<1>0. PICK i : i = Included[at + 1]
  OBVIOUS
<1> DEFINE file == project.files[i]
<1>1. Directory
  BY DirectoryTyped DEF SourceInv
<1>2. /\ Included \in Seq(DOMAIN project.files)
      /\ \A k, l \in DOMAIN Included : Included[k] = Included[l] => k = l
  BY <1>1, IncludedShape
<1>3. /\ phase = "loading" /\ LoadingInv /\ at \in Nat /\ total \in Nat
      /\ loaded \in Seq(DOMAIN project.files) /\ Len(loaded) \in Nat
      /\ project' = project /\ tree' = tree
  BY DEF SourceInv, LoadFile
<1>4. /\ DOMAIN Included = 1 .. Len(Included) /\ Len(Included) \in Nat
      /\ at + 1 \in DOMAIN Included /\ at + 1 <= Len(Included) /\ Len(loaded) + 1 <= MaxSourceFiles
  BY <1>2, <1>3, SourceAssumption DEF LoadFile, LoadingInv
<1>5. i \in DOMAIN project.files /\ file.size \in Nat
  <2>1. i \in DOMAIN project.files
    BY <1>0, <1>2, <1>4
  <2>2. project.files[i] \in SourceFiles
    BY <1>1, <2>1 DEF Directory
  <2> QED  BY <2>1, <2>2 DEF SourceFiles
<1>6. Included' = Included /\ (loaded' = loaded => LoadedBytes' = LoadedBytes)
  BY <1>3, DirectoryKept
<1>7. Untouched(i)
  BY <1>0, <1>3, <1>4 DEF LoadingInv
<1>8. total' \in Nat /\ total <= total' /\ (file.readable # "gone" => total' = total + file.size)
  BY <1>0, <1>3, <1>5 DEF LoadFile
<1>9. IsFiniteSet(LoadedBytes) /\ Cardinality(LoadedBytes) \in Nat /\ Cardinality(LoadedBytes) <= total
      /\ Cardinality(LoadedBytes) <= MaxSourceTotal
  BY <1>3, FS_CardinalityType DEF SourceInv, LoadingInv
(* The three ways a turn may go.                                           *)
<1>10. \/ /\ \E kind \in {"io", "size", "decoding"} : diagnostics' = diagnostics \cup {<<i, kind>>}
          /\ at' = at + 1 /\ phase' = phase /\ loaded' = loaded
       \/ phase' = "SourceLoadingError" /\ at' = at /\ loaded' = loaded /\ diagnostics' = diagnostics
       \/ /\ at' = at + 1 /\ loaded' = Append(loaded, i) /\ phase' = phase /\ diagnostics' = diagnostics
          /\ ~(file.size > MaxSourceSize) /\ ~(total' > MaxSourceTotal) /\ file.readable # "gone"
  BY <1>0 DEF LoadFile
<1> HIDE DEF file
<1>11. \A k \in DOMAIN Included : k # at + 1 => Included[k] # i
  BY <1>0, <1>2, <1>4
<1>12. \A k \in DOMAIN Included : /\ k <= at + 1 => k = at + 1 \/ k <= at
                                  /\ ~(k <= at + 1) => k # at + 1 /\ ~(k <= at)
                                  /\ k <= at => k # at + 1 /\ k <= at + 1
  BY <1>3, <1>4
(* What happens to the others.                                             *)
<1>13. ASSUME at' = at + 1, Settled(i)',
              \A j : j # i => (Settled(j)' <=> Settled(j)) /\ (Untouched(j)' <=> Untouched(j))
       PROVE  \A k \in DOMAIN Included' : IF k <= at' THEN Settled(Included[k])' ELSE Untouched(Included[k])'
  <2>1. ASSUME NEW k \in DOMAIN Included, k <= at + 1 PROVE Settled(Included[k])'
    <3>1. CASE k = at + 1
      BY <1>0, <1>6, <1>13, <3>1
    <3>2. CASE k <= at
      <4>1. Included[k] # i /\ Settled(Included[k])
        BY <1>3, <1>11, <1>12, <3>2 DEF LoadingInv
      <4> QED  BY <1>6, <1>13, <4>1
    <3> QED  BY <1>12, <2>1, <3>1, <3>2
  <2>2. ASSUME NEW k \in DOMAIN Included, ~(k <= at + 1) PROVE Untouched(Included[k])'
    <3>1. Included[k] # i /\ Untouched(Included[k])
      BY <1>3, <1>11, <1>12, <2>2 DEF LoadingInv
    <3> QED  BY <1>6, <1>13, <3>1
  <2> QED  BY <1>6, <1>13, <2>1, <2>2
<1>14. CASE /\ \E kind \in {"io", "size", "decoding"} : diagnostics' = diagnostics \cup {<<i, kind>>}
            /\ at' = at + 1 /\ phase' = phase /\ loaded' = loaded
  <2>1. PICK kind \in {"io", "size", "decoding"} : diagnostics' = diagnostics \cup {<<i, kind>>}
    BY <1>14
  <2> DEFINE skipped(j) == \E d \in diagnostics : d[1] = j /\ d[2] # "syntax"
             later(j) == \E d \in diagnostics' : d[1] = j /\ d[2] # "syntax"
  <2>11. <<i, kind>> \in diagnostics' /\ <<i, kind>>[1] = i /\ <<i, kind>>[2] # "syntax"
    BY <2>1
  <2>12. later(i)
    BY <2>11
  <2>13. \A j : j # i => (later(j) <=> skipped(j))
    BY <2>1
  <2>14. \A j : j # i => ((\A d \in diagnostics' : d[1] # j) <=> (\A d \in diagnostics : d[1] # j))
    BY <2>1
  <2> HIDE DEF later, skipped
  <2>2. Settled(i)'
    BY <1>7, <1>14, <2>12, Zenon DEF Settled, Untouched, later
  <2>3. \A j : j # i => (Settled(j)' <=> Settled(j)) /\ (Untouched(j)' <=> Untouched(j))
    BY <1>14, <2>13, <2>14, Zenon DEF Settled, Untouched, later, skipped
  <2>4. \A k \in DOMAIN Included' : IF k <= at' THEN Settled(Included[k])' ELSE Untouched(Included[k])'
    BY <1>13, <1>14, <2>2, <2>3
  <2>5. Cardinality(LoadedBytes)' <= total' /\ at' \in Nat /\ at' <= Len(Included) /\ Len(loaded') <= at'
    BY <1>3, <1>4, <1>6, <1>8, <1>9, <1>14 DEF LoadingInv
  <2>6. LoadingInv'
    BY <1>3, <1>6, <1>14, <2>4, <2>5 DEF LoadingInv
  <2> QED  BY <1>3, <1>6, <1>8, <1>14, <2>5, <2>6 DEF SourceInv
<1>15. CASE phase' = "SourceLoadingError" /\ at' = at /\ loaded' = loaded /\ diagnostics' = diagnostics
  BY <1>3, <1>6, <1>8, <1>15 DEF SourceInv
<1>16. CASE /\ at' = at + 1 /\ loaded' = Append(loaded, i) /\ phase' = phase /\ diagnostics' = diagnostics
            /\ ~(file.size > MaxSourceSize) /\ ~(total' > MaxSourceTotal) /\ file.readable # "gone"
  <2>1. /\ loaded' \in Seq(DOMAIN project.files) /\ Len(loaded') = Len(loaded) + 1
        /\ loaded'[Len(loaded) + 1] = i /\ \A k \in 1 .. Len(loaded) : loaded'[k] = loaded[k]
    BY <1>3, <1>5, <1>16
  <2>2. \A k \in DOMAIN loaded' : k \in DOMAIN loaded \/ k = Len(loaded) + 1
    BY <1>3, <2>1
  <2>3. ToSet(loaded') = ToSet(loaded) \cup {i}
    <3>1. DOMAIN loaded = 1 .. Len(loaded) /\ DOMAIN loaded' = 1 .. Len(loaded) + 1
      BY <1>3, <2>1
    <3>2. \A k \in DOMAIN loaded : k \in DOMAIN loaded' /\ loaded'[k] = loaded[k]
      BY <1>3, <2>1, <3>1
    <3>3. Len(loaded) + 1 \in DOMAIN loaded'
      BY <1>3, <3>1
    <3> QED  BY <2>1, <2>2, <3>2, <3>3 DEF ToSet
  <2>4. file.size <= MaxSourceSize /\ total' <= MaxSourceTotal
    BY <1>5, <1>8, <1>16, SourceAssumption DEF file
  <2>5. \A k \in DOMAIN loaded' : project.files[loaded'[k]].size <= MaxSourceSize
    <3>1. \A k \in DOMAIN loaded : loaded'[k] = loaded[k]
      BY <1>3, <2>1
    <3> QED  BY <2>1, <2>2, <2>4, <3>1 DEF SourceInv, file
  <2>6. /\ IsFiniteSet(LoadedBytes') /\ Cardinality(LoadedBytes') <= Cardinality(LoadedBytes) + file.size
        /\ Cardinality(LoadedBytes') \in Nat
    <3>1. LoadedBytes' \subseteq LoadedBytes \cup ({i} \X (0 + 1 .. 0 + file.size))
      <4>1. 0 + 1 = 1 /\ 0 + file.size = file.size
        BY <1>5 DEF file
      <4>2. LoadedBytes' = UNION {{j} \X (1 .. project.files[j].size) : j \in ToSet(loaded')}
        BY <1>3 DEF LoadedBytes
      <4> QED  BY <2>3, <4>1, <4>2 DEF LoadedBytes, file
    <3>2. file.size \in Nat /\ 0 \in Nat
      BY <1>5 DEF file
    <3>3. IsFiniteSet(LoadedBytes') /\ Cardinality(LoadedBytes') <= Cardinality(LoadedBytes) + file.size
      BY <1>9, <3>1, <3>2, AddBytes
    <3> QED  BY <3>3, FS_CardinalityType
  <2>7. Cardinality(LoadedBytes)' <= total' /\ Cardinality(LoadedBytes)' <= MaxSourceTotal
    BY <1>3, <1>5, <1>8, <1>9, <1>16, <2>4, <2>6, SourceAssumption DEF file
  <2>30. i \in ToSet(loaded') /\ \A j : j # i => (j \in ToSet(loaded') <=> j \in ToSet(loaded))
    BY <2>3
  <2>8. Settled(i)'
    BY <1>7, <1>16, <2>30, Zenon DEF Settled, Untouched
  <2>9. \A j : j # i => (Settled(j)' <=> Settled(j)) /\ (Untouched(j)' <=> Untouched(j))
    <3> SUFFICES ASSUME NEW j, j # i
                 PROVE  (Settled(j)' <=> Settled(j)) /\ (Untouched(j)' <=> Untouched(j))
      OBVIOUS
    <3>1. (j \in ToSet(loaded')) = (j \in ToSet(loaded)) /\ diagnostics' = diagnostics
      BY <1>16, <2>30
    <3> QED  BY <3>1, Zenon DEF Settled, Untouched
  <2>10. \A k \in DOMAIN Included' : IF k <= at' THEN Settled(Included[k])' ELSE Untouched(Included[k])'
    BY <1>13, <1>16, <2>8, <2>9
  <2>11. at' \in Nat /\ at' <= Len(Included) /\ Len(loaded') <= at' /\ Len(loaded') <= MaxSourceFiles
    BY <1>3, <1>4, <1>16, <2>1 DEF LoadingInv
  <2>12. LoadingInv'
    BY <1>3, <1>6, <1>16, <2>7, <2>10, <2>11 DEF LoadingInv
  <2> QED  BY <1>3, <1>6, <1>8, <1>16, <2>1, <2>5, <2>6, <2>7, <2>11, <2>12 DEF SourceInv
<1> QED  BY <1>10, <1>14, <1>15, <1>16

THEOREM SourceInvariant == SourceSpec => []SourceInv
<1>1. ASSUME SourceInv, [SourceNext]_sourceVars PROVE SourceInv'
  <2>1. CASE CountFiles  BY <1>1, <2>1, CountKeeps
  <2>2. CASE LoadFile  BY <1>1, <2>2, LoadKeeps
  <2>3. CASE Loaded  BY <1>1, <2>3, LoadedKeeps
  <2>4. CASE NormalizeFile  BY <1>1, <2>4, NormalizeKeeps
  <2>5. CASE Return  BY <1>1, <2>5, ReturnKeeps
  <2>6. CASE UNCHANGED sourceVars
    <3>1. Included' = Included /\ LoadedBytes' = LoadedBytes
      BY <2>6, DirectoryKept DEF sourceVars
    <3>2. (\A i : Settled(i)' <=> Settled(i)) /\ (\A i : Untouched(i)' <=> Untouched(i))
      BY <2>6 DEF sourceVars, Settled, Untouched
    <3>3. \A k : NormalizedFile(Parsed(project.files[loaded[k]]))' = NormalizedFile(Parsed(project.files[loaded[k]]))
      BY <2>6, NormalizedKept DEF sourceVars, Parsed
    <3>4. (LoadingInv => LoadingInv') /\ (NormalizingInv => NormalizingInv')
      BY <2>6, <3>1, <3>2, <3>3 DEF sourceVars, LoadingInv, NormalizingInv
    <3> QED  BY <1>1, <2>6, <3>1, <3>4 DEF sourceVars, SourceInv
  <2> QED  BY <1>1, <2>1, <2>2, <2>3, <2>4, <2>5, <2>6 DEF SourceNext
<1> QED  BY <1>1, SourceStarts, PTL DEF SourceSpec

(* For every directory and all limits, each Python file is analysed or     *)
(* named in a diagnostic, and what is analysed is within the limits        *)
(* (loader.py:142-214).                                                    *)
THEOREM EveryFileIsAccounted == SourceSpec => []EveryFileAccounted
<1>1. ASSUME SourceInv PROVE EveryFileAccounted
  <2>1. Directory
    BY <1>1, DirectoryTyped DEF SourceInv
  <2>2. \A i \in ToSet(loaded) : project.files[i].size <= MaxSourceSize
    BY <1>1 DEF SourceInv, ToSet
  <2>3. ASSUME phase = "returned", NEW i \in DOMAIN project.files, ~project.files[i].excluded
        PROVE  (i \in ToSet(loaded)) # (\E d \in diagnostics : d[1] = i /\ d[2] # "syntax")
    <3>1. PICK k \in DOMAIN Included : Included[k] = i
      BY <2>1, <2>3, IncludedShape
    <3>2. Settled(i)
      BY <1>1, <2>3, <3>1 DEF SourceInv, NormalizingInv
    <3> QED  BY <3>2 DEF Settled
  <2>4. ASSUME phase = "returned", NEW k \in DOMAIN tree, ~project.files[loaded[k]].syntax
        PROVE  tree[k].endpoints = <<>> /\ <<loaded[k], "syntax">> \in diagnostics
    <3> DEFINE file == project.files[loaded[k]]
    <3>1. /\ k \in 1 .. at /\ tree[k] = NormalizedFile(Parsed(file))
          /\ <<loaded[k], "syntax">> \in diagnostics
      BY <1>1, <2>4 DEF SourceInv, NormalizingInv
    <3>2. file \in SourceFiles
      <4>1. k \in DOMAIN loaded
        BY <1>1, <2>4, <3>1 DEF SourceInv, NormalizingInv
      <4>2. loaded[k] \in DOMAIN project.files
        BY <1>1, <4>1 DEF SourceInv
      <4> QED  BY <2>1, <4>2 DEF Directory
    <3>3. Parsed(file) \in SourceFiles
      BY <3>2, ParsedTyped
    <3>4. Parsed(file).functions = <<>>
      BY <2>4, <3>2 DEF Parsed, SourceFiles
    <3> QED  BY <2>1, <3>1, <3>3, <3>4, EmptyFile
  <2> QED  BY <1>1, <2>2, <2>3, <2>4 DEF EveryFileAccounted, SourceInv
<1> QED  BY <1>1, SourceInvariant, PTL

(* And an operation is mapped to the function its id names, in a file of   *)
(* that path, once, unless a decorator declares it; nothing else is mapped *)
(* (__init__.py:47-69, connexion.py:225-336).                              *)
THEOREM MappingStaysExact == SourceSpec => []MappingIsExact
<1>1. ASSUME SourceInv PROVE MappingIsExact
  <2>1. Directory
    BY <1>1, DirectoryTyped DEF SourceInv
  <2> SUFFICES ASSUME phase = "returned", NEW k \in DOMAIN tree
               PROVE  Exact(Parsed(project.files[loaded[k]]), tree[k].endpoints)
    <3> SUFFICES ASSUME phase = "returned", NEW k \in DOMAIN tree
                 PROVE  LET file == Parsed(project.files[loaded[k]])
                            theirs == tree[k].endpoints
                            mapped == {i \in DOMAIN theirs : theirs[i].framework = "connexion"}
                            of(op) == {i \in DOMAIN theirs :
                                         theirs[i].method = op.method /\ theirs[i].path = op.path}
                            names(op, handler) == op.id = <<Append(file.path, handler)>>
                        IN  /\ \A op \in ToSet(project.operations) :
                                  (/\ \E f \in ToSet(file.functions) : names(op, f.name)
                                   /\ Registered /\ project.specified) => of(op) # {}
                            /\ \A i \in mapped :
                                  /\ Registered
                                  /\ \E op \in ToSet(project.operations) :
                                        of(op) = {i} /\ names(op, theirs[i].handler)
      BY DEF MappingIsExact
    <3> DEFINE file == Parsed(project.files[loaded[k]])
               theirs == tree[k].endpoints
    <3> HIDE DEF file, theirs
    <3>1. Exact(file, theirs)
      BY DEF file, theirs
    <3> DEFINE mapped == {i \in DOMAIN theirs : theirs[i].framework = "connexion"}
               of(op) == {i \in DOMAIN theirs :
                            theirs[i].method = op.method /\ theirs[i].path = op.path}
               names(op, handler) == op.id = <<Append(file.path, handler)>>
    <3>2. ASSUME NEW op \in ToSet(project.operations), Registered /\ project.specified,
                 \E f \in ToSet(file.functions) : names(op, f.name)
          PROVE  of(op) # {}
      BY <3>1, <3>2 DEF Exact, Declares, IdOf
    <3>3. ASSUME NEW i \in mapped
          PROVE  Registered /\ \E op \in ToSet(project.operations) : of(op) = {i} /\ names(op, theirs[i].handler)
      <4>1. i \in DOMAIN theirs /\ theirs[i].framework = "connexion"
        OBVIOUS
      <4>2. PICK op \in ToSet(project.operations) :
               IdOf(op, file, theirs[i].handler) /\ \A j \in DOMAIN theirs : Declares(theirs[j], op) <=> j = i
        BY <3>1, <4>1 DEF Exact
      <4>3. of(op) = {i}
        BY <4>1, <4>2 DEF Declares
      <4> QED  BY <3>1, <4>1, <4>2, <4>3 DEF Exact, IdOf
    <3> QED  BY <3>2, <3>3 DEF file, theirs
  <2> DEFINE file == project.files[loaded[k]]
  <2>2. k \in 1 .. at /\ tree[k] = NormalizedFile(Parsed(file))
    BY <1>1 DEF SourceInv, NormalizingInv
  <2>3. file \in SourceFiles /\ file.path # <<>>
    <3>1. k \in DOMAIN loaded
      BY <1>1, <2>2 DEF SourceInv, NormalizingInv
    <3>2. loaded[k] \in DOMAIN project.files
      BY <1>1, <3>1 DEF SourceInv
    <3> QED  BY <2>1, <3>2 DEF Directory
  <2>4. Parsed(file) \in SourceFiles /\ Parsed(file).path # <<>>
    BY <2>3, ParsedTyped
  <2> QED  BY <2>1, <2>2, <2>4, NormalizedExact
<1> QED  BY <1>1, SourceInvariant, PTL

-----------------------------------------------------------------------------
(* has_connexion_registration, for every program whose syntax tree is      *)
(* finite.  The recursive functions are unfolded by the size of the tree;  *)
(* then, statement by statement: the scope is right about one environment  *)
(* of the execution (so what is found is done), or covers all of them (so  *)
(* what is done is found).                                                 *)

(* The statements of a program, and what is left of it after the first.    *)
LEMMA ProgramShape ==
    ASSUME NEW p \in Programs
    PROVE  /\ \A s \in ToSet(p) :
                 /\ s.names \in SUBSET Names /\ s.name \in Names
                 /\ s.value[1] \in {"name", "symbol()", "module.App()"} => s.value[2] \in Names
                 /\ s.body \in Programs /\ Size(s.body) < Size(p)
                 /\ s.other \in Programs /\ Size(s.other) < Size(p)
                 /\ s.kind = "with" => s.other = <<>>
           /\ p # <<>> => /\ Head(p) \in ToSet(p)
                          /\ Tail(p) \in Programs /\ Size(Tail(p)) < Size(p)
                          /\ ToSet(p) = {Head(p)} \cup ToSet(Tail(p))
           /\ Size(p) \in Nat
<1>1. \A s \in ToSet(p) :
         /\ s.names \in SUBSET Names /\ s.name \in Names
         /\ s.value[1] \in {"name", "symbol()", "module.App()"} => s.value[2] \in Names
         /\ s.body \in Programs /\ Size(s.body) < Size(p)
         /\ s.other \in Programs /\ Size(s.other) < Size(p)
         /\ s.kind = "with" => s.other = <<>>
  BY ProgramAssumption
<1>2. p \in Seq(ToSet(p)) /\ Size(p) \in Nat
      /\ (p # <<>> => Tail(p) \in Programs /\ Size(Tail(p)) < Size(p))
  BY ProgramAssumption
<1>3. ASSUME p # <<>> PROVE Head(p) \in ToSet(p) /\ ToSet(p) = {Head(p)} \cup ToSet(Tail(p))
  <2> DEFINE S == ToSet(p)
             t == Tail(p)
  <2> HIDE DEF S
  <2>1. p \in Seq(S)
    BY <1>2 DEF S
  <2>2. /\ Len(p) \in Nat /\ Len(p) # 0 /\ DOMAIN p = 1 .. Len(p) /\ Head(p) = p[1]
        /\ Len(t) = Len(p) - 1 /\ DOMAIN t = 1 .. Len(p) - 1 /\ \A i \in 1 .. Len(p) - 1 : t[i] = p[i + 1]
    BY <1>3, <2>1, EmptySeq
  <2> HIDE DEF t
  <2>3. \A i \in DOMAIN p : i = 1 \/ (i - 1 \in DOMAIN t /\ t[i - 1] = p[i])
    <3>1. \A i \in 1 .. Len(p) : i = 1 \/ (i - 1 \in 1 .. Len(p) - 1 /\ (i - 1) + 1 = i)
      BY <2>2
    <3> QED  BY <2>2, <3>1
  <2>4. 1 \in DOMAIN p /\ \A i \in DOMAIN t : i + 1 \in DOMAIN p /\ t[i] = p[i + 1]
    BY <2>2
  <2> QED  BY <2>2, <2>3, <2>4 DEF ToSet, t
<1> QED  BY <1>1, <1>2, <1>3

(* NamesBoundIn: the names a program may bind.                             *)
BoundBy(s, of) == IF s.kind = "def" THEN {s.name} ELSE s.names \cup of[s.body] \cup of[s.other]

LEMMA NamesUnfold ==
    /\ NamesBoundIn \in [Programs -> SUBSET Names]
    /\ \A p \in Programs : NamesBoundIn[p] = UNION {BoundBy(s, NamesBoundIn) : s \in ToSet(p)}
<1> DEFINE D == Programs
           V == SUBSET Names
           size == [p \in D |-> Size(p)]
           Of(g, p) == UNION {BoundBy(s, g) : s \in ToSet(p)}
           B == [z \in D \X [D -> V] |-> Of(z[2], z[1])]
           c == CHOOSE f : f = [p \in D |-> Of(f, p)]
<1>1. size \in [D -> Nat] /\ \A p \in D : size[p] = Size(p)
  BY ProgramShape
<1> HIDE DEF size
<1>2. ASSUME NEW g \in [D -> V], NEW p \in D PROVE Of(g, p) \in V
  <2>1. \A s \in ToSet(p) : BoundBy(s, g) \in V
    BY ProgramShape DEF BoundBy
  <2> QED  BY <2>1
<1>3. ASSUME NEW g, NEW h, NEW p \in D, \A e \in D : size[e] < size[p] => g[e] = h[e]
      PROVE  Of(g, p) = Of(h, p)
  <2>1. \A s \in ToSet(p) : g[s.body] = h[s.body] /\ g[s.other] = h[s.other]
    BY <1>1, <1>3, ProgramShape
  <2>2. \A s \in ToSet(p) : BoundBy(s, g) = BoundBy(s, h)
    BY <2>1 DEF BoundBy
  <2> QED  BY <2>2
<1>4. LooksBelow(B, D, V, size)
  <2>1. \A z \in D \X [D -> V] : Of(z[2], z[1]) \in V
    <3> HIDE DEF Of, D, V
    <3> QED  BY <1>2
  <2>2. B \in [D \X [D -> V] -> V]
    <3> HIDE DEF Of, D, V
    <3> QED  BY <2>1
  <2>3. ASSUME NEW d \in D, NEW g \in [D -> V], NEW h \in [D -> V],
               \A e \in D : size[e] < size[d] => g[e] = h[e]
        PROVE  B[<<d, g>>] = B[<<d, h>>]
    <3>1. Of(g, d) = Of(h, d)
      BY <1>3, <2>3
    <3>2. <<d, g>> \in D \X [D -> V] /\ <<d, h>> \in D \X [D -> V]
      OBVIOUS
    <3> HIDE DEF Of, D, V
    <3> QED  BY <3>1, <3>2
  <2>4. V # {}
    OBVIOUS
  <2> HIDE DEF B, D, V
  <2> QED  BY <1>1, <2>2, <2>3, <2>4 DEF LooksBelow
<1>5. PICK f \in [D -> V] : \A d \in D : f[d] = B[<<d, f>>]
  <2> HIDE DEF B, D, V
  <2> QED  BY <1>4, RecursionByMeasure
<1>6. f = [p \in D |-> Of(f, p)]
  <2>1. \A d \in D : <<d, f>> \in D \X [D -> V]
    OBVIOUS
  <2> HIDE DEF Of, D, V
  <2>2. \A d \in D : f[d] = Of(f, d)
    BY <1>5, <2>1
  <2> QED  BY <2>2
<1>7. c = [p \in D |-> Of(c, p)]
  <2> HIDE DEF Of, D, V
  <2> QED  BY <1>6
<1>8. NamesBoundIn = c
  BY DEF NamesBoundIn, BoundBy
<1> HIDE DEF c
<1>9. \A d \in D : c[d] = f[d]
  <2> DEFINE G == {d \in D : c[d] = f[d]}
  <2>1. ASSUME NEW d \in D, \A e \in D : size[e] < size[d] => e \in G PROVE d \in G
    <3>1. \A e \in D : size[e] < size[d] => c[e] = f[e]
      BY <2>1
    <3>2. Of(c, d) = Of(f, d)
      BY <1>3, <3>1
    <3> HIDE DEF Of, D
    <3> QED  BY <1>6, <1>7, <3>2
  <2> HIDE DEF G, D
  <2>2. \A d \in D : d \in G
    BY <1>1, <2>1, InductionByMeasure
  <2> QED  BY <2>2 DEF G
<1>10. c = f
  <2> HIDE DEF Of, D, V
  <2> QED  BY <1>5, <1>7, <1>9
<1>11. \A d \in D : f[d] = Of(f, d)
  <2> HIDE DEF Of, D, V
  <2> QED  BY <1>6
<1> QED  BY <1>5, <1>8, <1>10, <1>11

(* Statements: those of a program, at every depth.                         *)
Below(s, of) == {s} \cup of[s.body] \cup of[s.other]

AllStatements == UNION {ToSet(p) : p \in Programs}

LEMMA StatementsUnfold ==
    /\ Statements \in [Programs -> SUBSET AllStatements]
    /\ \A p \in Programs : Statements[p] = UNION {Below(s, Statements) : s \in ToSet(p)}
<1> DEFINE D == Programs
           V == SUBSET AllStatements
           size == [p \in D |-> Size(p)]
           Of(g, p) == UNION {Below(s, g) : s \in ToSet(p)}
           B == [z \in D \X [D -> V] |-> Of(z[2], z[1])]
           c == CHOOSE f : f = [p \in D |-> Of(f, p)]
<1>1. size \in [D -> Nat] /\ \A p \in D : size[p] = Size(p)
  BY ProgramShape
<1> HIDE DEF size
<1>2. ASSUME NEW g \in [D -> V], NEW p \in D PROVE Of(g, p) \in V
  <2>1. \A s \in ToSet(p) : Below(s, g) \in V
    <3> SUFFICES ASSUME NEW s \in ToSet(p) PROVE Below(s, g) \in V
      OBVIOUS
    <3>1. s \in AllStatements
      BY DEF AllStatements
    <3>2. g[s.body] \in SUBSET AllStatements /\ g[s.other] \in SUBSET AllStatements
      BY ProgramShape
    <3> QED  BY <3>1, <3>2 DEF Below
  <2> QED  BY <2>1
<1>3. ASSUME NEW g, NEW h, NEW p \in D, \A e \in D : size[e] < size[p] => g[e] = h[e]
      PROVE  Of(g, p) = Of(h, p)
  <2>1. \A s \in ToSet(p) : g[s.body] = h[s.body] /\ g[s.other] = h[s.other]
    BY <1>1, <1>3, ProgramShape
  <2>2. \A s \in ToSet(p) : Below(s, g) = Below(s, h)
    BY <2>1 DEF Below
  <2> QED  BY <2>2
<1>4. LooksBelow(B, D, V, size)
  <2>1. \A z \in D \X [D -> V] : Of(z[2], z[1]) \in V
    <3> HIDE DEF Of, D, V
    <3> QED  BY <1>2
  <2>2. B \in [D \X [D -> V] -> V]
    <3> HIDE DEF Of, D, V
    <3> QED  BY <2>1
  <2>3. ASSUME NEW d \in D, NEW g \in [D -> V], NEW h \in [D -> V],
               \A e \in D : size[e] < size[d] => g[e] = h[e]
        PROVE  B[<<d, g>>] = B[<<d, h>>]
    <3>1. Of(g, d) = Of(h, d)
      BY <1>3, <2>3
    <3>2. <<d, g>> \in D \X [D -> V] /\ <<d, h>> \in D \X [D -> V]
      OBVIOUS
    <3> HIDE DEF Of, D, V
    <3> QED  BY <3>1, <3>2
  <2>4. V # {}
    OBVIOUS
  <2> HIDE DEF B, D, V
  <2> QED  BY <1>1, <2>2, <2>3, <2>4 DEF LooksBelow
<1>5. PICK f \in [D -> V] : \A d \in D : f[d] = B[<<d, f>>]
  <2> HIDE DEF B, D, V
  <2> QED  BY <1>4, RecursionByMeasure
<1>6. f = [p \in D |-> Of(f, p)]
  <2>1. \A d \in D : <<d, f>> \in D \X [D -> V]
    OBVIOUS
  <2> HIDE DEF Of, D, V
  <2>2. \A d \in D : f[d] = Of(f, d)
    BY <1>5, <2>1
  <2> QED  BY <2>2
<1>7. c = [p \in D |-> Of(c, p)]
  <2> HIDE DEF Of, D, V
  <2> QED  BY <1>6
<1>8. Statements = c
  BY DEF Statements, Below
<1> HIDE DEF c
<1>9. \A d \in D : c[d] = f[d]
  <2> DEFINE G == {d \in D : c[d] = f[d]}
  <2>1. ASSUME NEW d \in D, \A e \in D : size[e] < size[d] => e \in G PROVE d \in G
    <3>1. \A e \in D : size[e] < size[d] => c[e] = f[e]
      BY <2>1
    <3>2. Of(c, d) = Of(f, d)
      BY <1>3, <3>1
    <3> HIDE DEF Of, D
    <3> QED  BY <1>6, <1>7, <3>2
  <2> HIDE DEF G, D
  <2>2. \A d \in D : d \in G
    BY <1>1, <2>1, InductionByMeasure
  <2> QED  BY <2>2 DEF G
<1>10. c = f
  <2> HIDE DEF Of, D, V
  <2> QED  BY <1>5, <1>7, <1>9
<1>11. \A d \in D : f[d] = Of(f, d)
  <2> HIDE DEF Of, D, V
  <2> QED  BY <1>6
<1> QED  BY <1>5, <1>8, <1>10, <1>11

-----------------------------------------------------------------------------
(* inspect_scope goes from scope to scope.                                 *)
LEMMA ScopeFields ==
    ASSUME NEW k \in Scopes
    PROVE  /\ k.apps \in SUBSET Names /\ k.modules \in SUBSET Names /\ k.symbols \in SUBSET Names
           /\ k.found \in BOOLEAN
           /\ \A names \in SUBSET Names :
                 /\ Without(k, names) \in Scopes
                 /\ Without(k, names).apps = k.apps \ names
                 /\ Without(k, names).modules = k.modules \ names
                 /\ Without(k, names).symbols = k.symbols \ names
                 /\ Without(k, names).found = k.found
           /\ \A b \in BOOLEAN :
                 /\ [k EXCEPT !.found = b] \in Scopes /\ [k EXCEPT !.found = b].found = b
                 /\ [k EXCEPT !.found = b].apps = k.apps
                 /\ [k EXCEPT !.found = b].modules = k.modules
                 /\ [k EXCEPT !.found = b].symbols = k.symbols
  BY DEF Scopes, Without

(* What an import and an assignment make of it.                            *)
LEMMA ImportFields ==
    ASSUME NEW k \in Scopes, NEW s, s.names \in SUBSET Names
    PROVE  LET t == Import(k, s)
           IN  /\ t \in Scopes /\ t.found = k.found /\ t.apps = k.apps
               /\ t.modules = k.modules \cup IF s.kind = "import" /\ s.value[2] = "connexion"
                                             THEN s.names ELSE {}
               /\ t.symbols = k.symbols \cup IF s.kind = "from" /\ s.value[2] = "App"
                                             THEN s.names ELSE {}
<1>1. CASE s.kind = "import" /\ s.value[2] = "connexion"
  <2>1. Import(k, s) = [k EXCEPT !.modules = @ \cup s.names]
    BY <1>1 DEF Import
  <2> QED  BY <1>1, <2>1 DEF Scopes
<1>2. CASE s.kind = "from" /\ s.value[2] = "App"
  <2>1. Import(k, s) = [k EXCEPT !.symbols = @ \cup s.names]
    BY <1>2 DEF Import
  <2> QED  BY <1>2, <2>1 DEF Scopes
<1>3. CASE /\ ~(s.kind = "import" /\ s.value[2] = "connexion")
           /\ ~(s.kind = "from" /\ s.value[2] = "App")
  <2>1. Import(k, s) = k
    BY <1>3 DEF Import
  <2> QED  BY <1>3, <2>1 DEF Scopes
<1> QED  BY <1>1, <1>2, <1>3

(* A value that makes an App, by what is known before the drop.            *)
IsApp(value, k, names) ==
    \/ IsAppConstructor(value, Without(k, names))
    \/ value[1] = "name" /\ value[2] \in k.apps

LEMMA AssignFields ==
    ASSUME NEW k \in Scopes, NEW s, s.names \in SUBSET Names
    PROVE  LET t == Assign(k, s)
           IN  /\ t \in Scopes /\ t.found = k.found
               /\ s.kind # "assign" => t = k
               /\ s.kind = "assign" =>
                     /\ t.modules = k.modules \ s.names /\ t.symbols = k.symbols \ s.names
                     /\ t.apps = (k.apps \ s.names) \cup IF IsApp(s.value, k, s.names)
                                                         THEN s.names ELSE {}
<1>1. CASE s.kind # "assign"
  BY <1>1 DEF Assign
<1>2. CASE s.kind = "assign"
  <2> DEFINE w == Without(k, s.names)
  <2>1. /\ w \in Scopes /\ w.found = k.found /\ w.apps = k.apps \ s.names
        /\ w.modules = k.modules \ s.names /\ w.symbols = k.symbols \ s.names
    BY ScopeFields
  <2>2. Assign(k, s) = IF IsApp(s.value, k, s.names) THEN [w EXCEPT !.apps = @ \cup s.names] ELSE w
    BY <1>2 DEF Assign, IsApp
  <2> HIDE DEF w
  <2>3. LET x == [w EXCEPT !.apps = @ \cup s.names]
        IN  /\ x \in Scopes /\ x.found = w.found /\ x.apps = w.apps \cup s.names
            /\ x.modules = w.modules /\ x.symbols = w.symbols
    BY <2>1 DEF Scopes
  <2> QED  BY <1>2, <2>1, <2>2, <2>3
<1> QED  BY <1>1, <1>2

(* The scope before the suites of a statement.                             *)
BeforeSuites(k, s) == Assign(Import(k, s), s)

LEMMA BeforeTyped ==
    ASSUME NEW k \in Scopes, NEW s, s.names \in SUBSET Names
    PROVE  /\ BeforeSuites(k, s) \in Scopes /\ BeforeSuites(k, s).found = k.found
           /\ s.kind \notin {"import", "from", "assign"} => BeforeSuites(k, s) = k
<1>1. Import(k, s) \in Scopes /\ Import(k, s).found = k.found
  BY ImportFields
<1>2. BeforeSuites(k, s) \in Scopes /\ BeforeSuites(k, s).found = k.found
  BY <1>1, AssignFields DEF BeforeSuites
<1>3. s.kind \notin {"import", "from", "assign"} => BeforeSuites(k, s) = k
  BY DEF BeforeSuites, Import, Assign
<1> QED  BY <1>2, <1>3

(* A statement is found to register an API, in itself or in a suite.       *)
FoundAt(s, k, of) ==
    \/ Registers(BeforeSuites(k, s), s)
    \/ /\ s.kind \in Compound
       /\ of[s.body][BeforeSuites(k, s)].found \/ of[s.other][BeforeSuites(k, s)].found

LEMMA InspectedFields ==
    ASSUME NEW p \in Programs, NEW s \in ToSet(p), NEW k \in Scopes, NEW of \in [Programs -> [Scopes -> Scopes]]
    PROVE  /\ Inspected(s, k, of) \in Scopes
           /\ s.kind = "def" =>
                 Inspected(s, k, of) = [k EXCEPT !.found = of[s.body][Without(k, s.names)].found]
           /\ s.kind # "def" =>
                 Inspected(s, k, of) =
                    [(IF s.kind \in Compound THEN AfterSuites(BeforeSuites(k, s), s) ELSE BeforeSuites(k, s))
                        EXCEPT !.found = FoundAt(s, k, of)]
<1>1. s.names \in SUBSET Names /\ s.body \in Programs /\ s.other \in Programs /\ s.name \in Names
  BY ProgramShape
<1>2. BeforeSuites(k, s) \in Scopes /\ Without(k, s.names) \in Scopes
  BY <1>1, BeforeTyped, ScopeFields
<1>3. s.kind = "def" =>
         Inspected(s, k, of) = [k EXCEPT !.found = of[s.body][Without(k, s.names)].found]
  BY DEF Inspected
<1>4. s.kind # "def" =>
         Inspected(s, k, of) =
            [(IF s.kind \in Compound THEN AfterSuites(BeforeSuites(k, s), s) ELSE BeforeSuites(k, s))
                EXCEPT !.found = FoundAt(s, k, of)]
  BY DEF Inspected, FoundAt, BeforeSuites
<1>5. CASE s.kind = "def"
  <2>1. of[s.body][Without(k, s.names)] \in Scopes
    BY <1>1, <1>2
  <2>2. of[s.body][Without(k, s.names)].found \in BOOLEAN
    BY <2>1, ScopeFields
  <2> QED  BY <1>3, <1>5, <2>2, ScopeFields
<1>6. CASE s.kind # "def"
  <2> DEFINE a == IF s.kind \in Compound THEN AfterSuites(BeforeSuites(k, s), s) ELSE BeforeSuites(k, s)
  <2>1. s.names \cup NamesBoundIn[s.body] \cup NamesBoundIn[s.other] \in SUBSET Names
    BY <1>1, NamesUnfold
  <2>2. a \in Scopes
    BY <1>2, <2>1, ScopeFields DEF AfterSuites
  <2>3. FoundAt(s, k, of) \in BOOLEAN
    BY DEF FoundAt
  <2> HIDE DEF a
  <2>4. [a EXCEPT !.found = FoundAt(s, k, of)] \in Scopes
    BY <2>2, <2>3, ScopeFields
  <2> QED  BY <1>4, <1>6, <2>4 DEF a
<1> QED  BY <1>3, <1>4, <1>5, <1>6

(* inspect_scope, statement by statement.                                  *)
LEMMA InspectUnfolds ==
    /\ InspectScope \in [Programs -> [Scopes -> Scopes]]
    /\ \A p \in Programs : \A k \in Scopes :
          /\ p = <<>> \/ k.found => InspectScope[p][k] = k
          /\ p # <<>> /\ ~k.found =>
                InspectScope[p][k] = InspectScope[Tail(p)][Inspected(Head(p), k, InspectScope)]
<1> DEFINE D == Programs
           V == [Scopes -> Scopes]
           size == [p \in D |-> Size(p)]
           Of(g, p) == [k \in Scopes |-> IF p = <<>> \/ k.found THEN k
                                         ELSE g[Tail(p)][Inspected(Head(p), k, g)]]
           B == [z \in D \X [D -> V] |-> Of(z[2], z[1])]
           c == CHOOSE f : f = [p \in D |-> Of(f, p)]
<1>1. size \in [D -> Nat] /\ \A p \in D : size[p] = Size(p)
  BY ProgramShape
<1> HIDE DEF size
<1>2. ASSUME NEW g \in [D -> V], NEW p \in D PROVE Of(g, p) \in V
  <2>1. ASSUME NEW k \in Scopes, p # <<>> PROVE g[Tail(p)][Inspected(Head(p), k, g)] \in Scopes
    <3>1. Head(p) \in ToSet(p) /\ Tail(p) \in D
      BY <2>1, ProgramShape
    <3>2. Inspected(Head(p), k, g) \in Scopes
      BY <3>1, InspectedFields
    <3> QED  BY <3>1, <3>2
  <2> QED  BY <2>1
<1>3. ASSUME NEW g, NEW h, NEW p \in D, \A e \in D : size[e] < size[p] => g[e] = h[e]
      PROVE  Of(g, p) = Of(h, p)
  <2>1. ASSUME NEW k \in Scopes, p # <<>>
        PROVE  g[Tail(p)][Inspected(Head(p), k, g)] = h[Tail(p)][Inspected(Head(p), k, h)]
    <3>1. /\ Head(p) \in ToSet(p) /\ g[Tail(p)] = h[Tail(p)]
          /\ g[Head(p).body] = h[Head(p).body] /\ g[Head(p).other] = h[Head(p).other]
      BY <1>1, <1>3, <2>1, ProgramShape
    <3>2. Inspected(Head(p), k, g) = Inspected(Head(p), k, h)
      BY <3>1 DEF Inspected
    <3> QED  BY <3>1, <3>2
  <2> QED  BY <2>1
<1>4. LooksBelow(B, D, V, size)
  <2>1. \A z \in D \X [D -> V] : Of(z[2], z[1]) \in V
    <3> HIDE DEF Of, D, V
    <3> QED  BY <1>2
  <2>2. B \in [D \X [D -> V] -> V]
    <3> HIDE DEF Of, D, V
    <3> QED  BY <2>1
  <2>3. ASSUME NEW d \in D, NEW g \in [D -> V], NEW h \in [D -> V],
               \A e \in D : size[e] < size[d] => g[e] = h[e]
        PROVE  B[<<d, g>>] = B[<<d, h>>]
    <3>1. Of(g, d) = Of(h, d)
      <4> HIDE DEF Of
      <4> QED  BY <1>3, <2>3
    <3>2. <<d, g>> \in D \X [D -> V] /\ <<d, h>> \in D \X [D -> V]
      OBVIOUS
    <3> HIDE DEF Of, D, V
    <3> QED  BY <3>1, <3>2
  <2>4. V # {}
    <3>1. [k \in Scopes |-> k] \in V
      OBVIOUS
    <3> QED  BY <3>1
  <2> HIDE DEF B, D, V
  <2> QED  BY <1>1, <2>2, <2>3, <2>4 DEF LooksBelow
<1>5. PICK f \in [D -> V] : \A d \in D : f[d] = B[<<d, f>>]
  <2> HIDE DEF B, D, V
  <2> QED  BY <1>4, RecursionByMeasure
<1>6. f = [p \in D |-> Of(f, p)]
  <2>1. \A d \in D : <<d, f>> \in D \X [D -> V]
    OBVIOUS
  <2> HIDE DEF Of, D, V
  <2>2. \A d \in D : f[d] = Of(f, d)
    BY <1>5, <2>1
  <2> QED  BY <2>2
<1>7. c = [p \in D |-> Of(c, p)]
  <2> HIDE DEF Of, D, V
  <2> QED  BY <1>6
<1>8. InspectScope = c
  BY DEF InspectScope
<1> HIDE DEF c
<1>9. \A d \in D : c[d] = f[d]
  <2> DEFINE G == {d \in D : c[d] = f[d]}
  <2>1. ASSUME NEW d \in D, \A e \in D : size[e] < size[d] => e \in G PROVE d \in G
    <3>1. \A e \in D : size[e] < size[d] => c[e] = f[e]
      BY <2>1
    <3>2. Of(c, d) = Of(f, d)
      BY <1>3, <3>1
    <3> HIDE DEF Of, D
    <3> QED  BY <1>6, <1>7, <3>2
  <2> HIDE DEF G, D
  <2>2. \A d \in D : d \in G
    BY <1>1, <2>1, InductionByMeasure
  <2> QED  BY <2>2 DEF G
<1>10. c = f
  <2> HIDE DEF Of, D, V
  <2> QED  BY <1>5, <1>7, <1>9
<1>11. \A d \in D : f[d] = Of(f, d)
  <2> HIDE DEF Of, D, V
  <2> QED  BY <1>6
<1>12. \A p \in D : \A k \in Scopes :
          c[p][k] = IF p = <<>> \/ k.found THEN k ELSE c[Tail(p)][Inspected(Head(p), k, c)]
  BY <1>10, <1>11
<1> QED  BY <1>5, <1>8, <1>10, <1>12

-----------------------------------------------------------------------------
(* What a statement binds an environment of, and the names it leaves alone. *)
LEMMA BindTyped ==
    ASSUME NEW env \in Environments, NEW names,
           NEW thing \in {"module", "class", "app", "other"}
    PROVE  /\ Bind(env, names, thing) \in Environments
           /\ \A n \in Names : Bind(env, names, thing)[n] = IF n \in names THEN thing ELSE env[n]
  BY DEF Bind, Environments

LEMMA ValueTyped ==
    ASSUME NEW env \in Environments, NEW value,
           value[1] \in {"name", "symbol()", "module.App()"} => value[2] \in Names
    PROVE  ValueOf(value, env) \in {"module", "class", "app", "other"}
<1>1. CASE value[1] = "name"
  <2>1. value[2] \in Names
    BY <1>1
  <2>2. ValueOf(value, env) = env[value[2]]
    BY <1>1 DEF ValueOf
  <2> QED  BY <2>1, <2>2 DEF Environments
<1>2. CASE value[1] # "name"
  BY <1>2 DEF ValueOf
<1> QED  BY <1>1, <1>2

(* The names bound by a statement, without those of its suites. *)
Targets(s) == IF s.kind = "def" THEN {s.name} ELSE s.names

(* What those names stand for afterwards. *)
Thing(env, s) ==
    CASE s.kind = "import" -> IF s.value[2] = "connexion" THEN "module" ELSE "other"
      [] s.kind = "from" -> IF s.value[2] = "App" THEN "class" ELSE "other"
      [] s.kind = "assign" -> ValueOf(s.value, env)
      [] OTHER -> "other"

Binding == {"import", "from", "assign", "for", "with", "other", "def"}

LEMMA BoundIs ==
    ASSUME NEW p \in Programs, NEW s \in ToSet(p), NEW env \in Environments
    PROVE  /\ Bound(env, s) \in Environments
           /\ s.kind \notin Binding => Bound(env, s) = env
           /\ s.kind \in Binding => Bound(env, s) = Bind(env, Targets(s), Thing(env, s))
           /\ s.kind \in Binding =>
                 \A n \in Names : Bound(env, s)[n] = IF n \in Targets(s) THEN Thing(env, s) ELSE env[n]
           /\ \A n \in Names \ Targets(s) : Bound(env, s)[n] = env[n]
<1>1. Thing(env, s) \in {"module", "class", "app", "other"}
  <2>1. CASE s.kind = "assign"
    <3>1. Thing(env, s) = ValueOf(s.value, env)
      BY <2>1 DEF Thing
    <3> QED  BY <3>1, ProgramShape, ValueTyped
  <2>2. CASE s.kind = "import"
    BY <2>2 DEF Thing
  <2>3. CASE s.kind = "from"
    BY <2>3 DEF Thing
  <2>4. CASE s.kind \notin {"assign", "import", "from"}
    BY <2>4 DEF Thing
  <2> QED  BY <2>1, <2>2, <2>3, <2>4
<1>2. s.kind \notin Binding => Bound(env, s) = env
  BY DEF Bound, Binding
<1>3. ASSUME s.kind \in Binding PROVE Bound(env, s) = Bind(env, Targets(s), Thing(env, s))
  <2>1. CASE s.kind = "import"
    BY <2>1 DEF Bound, Thing, Targets
  <2>2. CASE s.kind = "from"
    BY <2>2 DEF Bound, Thing, Targets
  <2>3. CASE s.kind = "assign"
    BY <2>3 DEF Bound, Thing, Targets
  <2>4. CASE s.kind = "def"
    BY <2>4 DEF Bound, Thing, Targets
  <2>5. CASE s.kind \in {"for", "with", "other"}
    BY <2>5 DEF Bound, Thing, Targets
  <2> QED  BY <1>3, <2>1, <2>2, <2>3, <2>4, <2>5 DEF Binding
<1> QED  BY <1>1, <1>2, <1>3, BindTyped

LEMMA StartedTyped ==
    ASSUME NEW envs \in SUBSET Environments
    PROVE  /\ Started(envs) \in Executions
           /\ Started(envs).envs = envs /\ Started(envs).seen = envs /\ Started(envs).hit = FALSE
  BY DEF Started, Executions

(* An execution e goes on from done: it ends in ends, after two suites.    *)
Goes(e, done, ends, first, second, more) ==
    /\ e \in Executions /\ e.envs = ends
    /\ e.seen = done.seen \cup first.seen \cup second.seen \cup ends
    /\ e.hit = (done.hit \/ first.hit \/ second.hit \/ more)

LEMMA ContinuedTyped ==
    ASSUME NEW done \in Executions, NEW ends \in SUBSET Environments,
           NEW first \in Executions, NEW second \in Executions, NEW more \in BOOLEAN
    PROVE  /\ Goes(Continued(done, ends, first, second), done, ends, first, second, FALSE)
           /\ Goes([Continued(done, ends, first, second) EXCEPT !.hit = @ \/ more],
                   done, ends, first, second, more)
  BY DEF Continued, Executions, Goes

(* The executions of its suites that a statement is made of.               *)
Starts(s, done) == {Bound(env, s) : env \in done.envs}
Once(s, done, run) == run[s.body][Started(Starts(s, done))]
Again(s, done, run) ==
    run[s.body][Started({Bound(env, s) : env \in Once(s, done, run).envs} \cup Starts(s, done))]
Shadowed(s, done) == {Bind(env, s.names \cup NamesBoundIn[s.body], "other") : env \in done.envs}
Inner(s, done, run) == run[s.body][Started(Shadowed(s, done))]
Otherwise(s, done, run) == run[s.other][Started(Starts(s, done))]
AtEnd(s, done, run) == run[s.other][Started(done.envs \cup Again(s, done, run).envs)]
Handler(s, done, run) == run[s.other][Started(Once(s, done, run).seen)]
Calls(s, done) == s.kind = "add_api" /\ \E env \in Starts(s, done) : ValueOf(s.value, env) = "app"

LEMMA ExecutionFields ==
    ASSUME NEW d \in Executions
    PROVE  /\ d.envs \in SUBSET Environments /\ d.seen \in SUBSET Environments /\ d.hit \in BOOLEAN
           /\ \A b \in BOOLEAN : /\ [d EXCEPT !.hit = @ \/ b] \in Executions
                                 /\ [d EXCEPT !.hit = @ \/ b].envs = d.envs
                                 /\ [d EXCEPT !.hit = @ \/ b].seen = d.seen
                                 /\ [d EXCEPT !.hit = @ \/ b].hit = (d.hit \/ b)
  BY DEF Executions

LEMMA SuitesTyped ==
    ASSUME NEW p \in Programs, NEW s \in ToSet(p), NEW done \in Executions,
           NEW run \in [Programs -> [Executions -> Executions]]
    PROVE  /\ Starts(s, done) \in SUBSET Environments
           /\ Shadowed(s, done) \in SUBSET Environments
           /\ Once(s, done, run) \in Executions /\ Again(s, done, run) \in Executions
           /\ Inner(s, done, run) \in Executions /\ Otherwise(s, done, run) \in Executions
           /\ AtEnd(s, done, run) \in Executions /\ Handler(s, done, run) \in Executions
<1>1. s.body \in Programs /\ s.other \in Programs
  BY ProgramShape
<1>2. ASSUME NEW envs \in SUBSET Environments
      PROVE  run[s.body][Started(envs)] \in Executions /\ run[s.other][Started(envs)] \in Executions
  BY <1>1, <1>2, StartedTyped
<1>3. ASSUME NEW envs \in SUBSET Environments
      PROVE  {Bound(env, s) : env \in envs} \in SUBSET Environments
  BY <1>3, BoundIs
<1>4. done.envs \in SUBSET Environments
  BY ExecutionFields
<1>5. Starts(s, done) \in SUBSET Environments
  BY <1>3, <1>4 DEF Starts
<1>6. Shadowed(s, done) \in SUBSET Environments
  BY <1>4, BindTyped DEF Shadowed
<1>7. Once(s, done, run) \in Executions
  BY <1>2, <1>5 DEF Once
<1>8. Once(s, done, run).envs \in SUBSET Environments /\ Once(s, done, run).seen \in SUBSET Environments
  BY <1>7, ExecutionFields
<1>9. Again(s, done, run) \in Executions
  <2>1. {Bound(env, s) : env \in Once(s, done, run).envs} \in SUBSET Environments
    BY <1>3, <1>8
  <2> QED  BY <1>2, <1>5, <2>1 DEF Again
<1>10. Again(s, done, run).envs \in SUBSET Environments
  BY <1>9, ExecutionFields
<1>11. Inner(s, done, run) \in Executions
  BY <1>2, <1>6 DEF Inner
<1>12. Otherwise(s, done, run) \in Executions
  BY <1>2, <1>5 DEF Otherwise
<1>13. AtEnd(s, done, run) \in Executions
  BY <1>2, <1>4, <1>10 DEF AtEnd
<1>14. Handler(s, done, run) \in Executions
  BY <1>2, <1>8 DEF Handler
<1> QED  BY <1>5, <1>6, <1>7, <1>9, <1>11, <1>12, <1>13, <1>14

(* What a statement does, by its kind.                                     *)
Plain(s) == s.kind \notin {"def", "if", "for", "while", "with", "try"}

LEMMA ExecutedIs ==
    ASSUME NEW p \in Programs, NEW s \in ToSet(p), NEW done \in Executions,
           NEW run \in [Programs -> [Executions -> Executions]]
    PROVE  LET Is(ends, first, second, more) ==
                  Goes(Executed(s, done, run), done, ends, first, second, more)
               once == Once(s, done, run)
               again == Again(s, done, run)
               otherwise == Otherwise(s, done, run)
               atEnd == AtEnd(s, done, run)
               handler == Handler(s, done, run)
           IN  /\ s.kind = "def" => Is(Starts(s, done), done, done, Inner(s, done, run).hit)
               /\ s.kind = "if" => Is(once.envs \cup otherwise.envs, once, otherwise, FALSE)
               /\ s.kind \in {"for", "while"} => Is(again.envs \cup atEnd.envs, again, atEnd, FALSE)
               /\ s.kind = "with" => Is(once.envs, once, once, FALSE)
               /\ s.kind = "try" => Is(once.envs \cup handler.envs, once, handler, FALSE)
               /\ Plain(s) => Is(Starts(s, done), done, done, Calls(s, done))
<1> DEFINE e == Executed(s, done, run)
           start == Starts(s, done)
           once == Once(s, done, run)
           again == Again(s, done, run)
           otherwise == Otherwise(s, done, run)
           atEnd == AtEnd(s, done, run)
           handler == Handler(s, done, run)
           inner == Inner(s, done, run)
<1>1. /\ s.kind = "def" => e = [Continued(done, start, done, done) EXCEPT !.hit = @ \/ inner.hit]
      /\ s.kind = "if" => e = Continued(done, once.envs \cup otherwise.envs, once, otherwise)
      /\ s.kind \in {"for", "while"} => e = Continued(done, again.envs \cup atEnd.envs, again, atEnd)
      /\ s.kind = "with" => e = Continued(done, once.envs, once, once)
      /\ s.kind = "try" => e = Continued(done, once.envs \cup handler.envs, once, handler)
      /\ Plain(s) => e = [Continued(done, start, done, done) EXCEPT !.hit = @ \/ Calls(s, done)]
  BY DEF Executed, Starts, Once, Again, Otherwise, AtEnd, Handler, Inner, Shadowed, Calls, Plain
<1>2. /\ start \in SUBSET Environments /\ once \in Executions /\ again \in Executions
      /\ inner \in Executions /\ otherwise \in Executions
      /\ atEnd \in Executions /\ handler \in Executions
  BY SuitesTyped
<1>3. Calls(s, done) \in BOOLEAN
  BY DEF Calls
<1> HIDE DEF e, start, once, again, otherwise, atEnd, handler, inner
<1>4. inner.hit \in BOOLEAN
  BY <1>2, ExecutionFields
<1>5. /\ once.envs \cup otherwise.envs \in SUBSET Environments
      /\ again.envs \cup atEnd.envs \in SUBSET Environments
      /\ once.envs \in SUBSET Environments
      /\ once.envs \cup handler.envs \in SUBSET Environments
  BY <1>2, ExecutionFields
<1>6. s.kind = "def" => Goes(e, done, start, done, done, inner.hit)
  <2>1. Goes([Continued(done, start, done, done) EXCEPT !.hit = @ \/ inner.hit],
             done, start, done, done, inner.hit)
    BY <1>2, <1>4, ContinuedTyped
  <2> QED  BY <1>1, <2>1, Zenon
<1>7. s.kind = "if" => Goes(e, done, once.envs \cup otherwise.envs, once, otherwise, FALSE)
  <2>1. Goes(Continued(done, once.envs \cup otherwise.envs, once, otherwise),
             done, once.envs \cup otherwise.envs, once, otherwise, FALSE)
    BY <1>2, <1>5, ContinuedTyped
  <2> QED  BY <1>1, <2>1, Zenon
<1>8. s.kind \in {"for", "while"} => Goes(e, done, again.envs \cup atEnd.envs, again, atEnd, FALSE)
  <2>1. Goes(Continued(done, again.envs \cup atEnd.envs, again, atEnd),
             done, again.envs \cup atEnd.envs, again, atEnd, FALSE)
    BY <1>2, <1>5, ContinuedTyped
  <2> QED  BY <1>1, <2>1, Zenon
<1>9. s.kind = "with" => Goes(e, done, once.envs, once, once, FALSE)
  <2>1. Goes(Continued(done, once.envs, once, once), done, once.envs, once, once, FALSE)
    BY <1>2, <1>5, ContinuedTyped
  <2> QED  BY <1>1, <2>1, Zenon
<1>10. s.kind = "try" => Goes(e, done, once.envs \cup handler.envs, once, handler, FALSE)
  <2>1. Goes(Continued(done, once.envs \cup handler.envs, once, handler),
             done, once.envs \cup handler.envs, once, handler, FALSE)
    BY <1>2, <1>5, ContinuedTyped
  <2> QED  BY <1>1, <2>1, Zenon
<1>11. Plain(s) => Goes(e, done, start, done, done, Calls(s, done))
  <2>1. Goes([Continued(done, start, done, done) EXCEPT !.hit = @ \/ Calls(s, done)],
             done, start, done, done, Calls(s, done))
    BY <1>2, <1>3, ContinuedTyped
  <2> QED  BY <1>1, <2>1, Zenon
<1> QED  BY <1>6, <1>7, <1>8, <1>9, <1>10, <1>11, Zenon DEF e, start, once, again, otherwise, atEnd, handler, inner

LEMMA ExecutedTyped ==
    ASSUME NEW p \in Programs, NEW s \in ToSet(p), NEW done \in Executions,
           NEW run \in [Programs -> [Executions -> Executions]]
    PROVE  Executed(s, done, run) \in Executions
<1> USE DEF Goes
<1>1. CASE s.kind = "def"
  BY <1>1, ExecutedIs
<1>2. CASE s.kind = "if"
  BY <1>2, ExecutedIs
<1>3. CASE s.kind \in {"for", "while"}
  BY <1>3, ExecutedIs
<1>4. CASE s.kind = "with"
  BY <1>4, ExecutedIs
<1>5. CASE s.kind = "try"
  BY <1>5, ExecutedIs
<1>6. CASE Plain(s)
  BY <1>6, ExecutedIs
<1> QED  BY <1>1, <1>2, <1>3, <1>4, <1>5, <1>6 DEF Plain

(* An execution, statement by statement.                                   *)
LEMMA RunUnfolds ==
    /\ Run \in [Programs -> [Executions -> Executions]]
    /\ \A p \in Programs : \A k \in Executions :
          /\ p = <<>> => Run[p][k] = k
          /\ p # <<>> => Run[p][k] = Run[Tail(p)][Executed(Head(p), k, Run)]
<1> DEFINE D == Programs
           V == [Executions -> Executions]
           size == [p \in D |-> Size(p)]
           Of(g, p) == [k \in Executions |-> IF p = <<>> THEN k
                                         ELSE g[Tail(p)][Executed(Head(p), k, g)]]
           B == [z \in D \X [D -> V] |-> Of(z[2], z[1])]
           c == CHOOSE f : f = [p \in D |-> Of(f, p)]
<1>1. size \in [D -> Nat] /\ \A p \in D : size[p] = Size(p)
  BY ProgramShape
<1> HIDE DEF size
<1>2. ASSUME NEW g \in [D -> V], NEW p \in D PROVE Of(g, p) \in V
  <2>1. ASSUME NEW k \in Executions, p # <<>> PROVE g[Tail(p)][Executed(Head(p), k, g)] \in Executions
    <3>1. Head(p) \in ToSet(p) /\ Tail(p) \in D
      BY <2>1, ProgramShape
    <3>2. Executed(Head(p), k, g) \in Executions
      BY <3>1, ExecutedTyped
    <3> QED  BY <3>1, <3>2
  <2> QED  BY <2>1
<1>3. ASSUME NEW g, NEW h, NEW p \in D, \A e \in D : size[e] < size[p] => g[e] = h[e]
      PROVE  Of(g, p) = Of(h, p)
  <2>1. ASSUME NEW k \in Executions, p # <<>>
        PROVE  g[Tail(p)][Executed(Head(p), k, g)] = h[Tail(p)][Executed(Head(p), k, h)]
    <3>1. /\ Head(p) \in ToSet(p) /\ g[Tail(p)] = h[Tail(p)]
          /\ g[Head(p).body] = h[Head(p).body] /\ g[Head(p).other] = h[Head(p).other]
      BY <1>1, <1>3, <2>1, ProgramShape
    <3>2. Executed(Head(p), k, g) = Executed(Head(p), k, h)
      BY <3>1 DEF Executed
    <3> QED  BY <3>1, <3>2
  <2> QED  BY <2>1
<1>4. LooksBelow(B, D, V, size)
  <2>1. \A z \in D \X [D -> V] : Of(z[2], z[1]) \in V
    <3> HIDE DEF Of, D, V
    <3> QED  BY <1>2
  <2>2. B \in [D \X [D -> V] -> V]
    <3> HIDE DEF Of, D, V
    <3> QED  BY <2>1
  <2>3. ASSUME NEW d \in D, NEW g \in [D -> V], NEW h \in [D -> V],
               \A e \in D : size[e] < size[d] => g[e] = h[e]
        PROVE  B[<<d, g>>] = B[<<d, h>>]
    <3>1. Of(g, d) = Of(h, d)
      <4> HIDE DEF Of
      <4> QED  BY <1>3, <2>3
    <3>2. <<d, g>> \in D \X [D -> V] /\ <<d, h>> \in D \X [D -> V]
      OBVIOUS
    <3> HIDE DEF Of, D, V
    <3> QED  BY <3>1, <3>2
  <2>4. V # {}
    <3>1. [k \in Executions |-> k] \in V
      OBVIOUS
    <3> QED  BY <3>1
  <2> HIDE DEF B, D, V
  <2> QED  BY <1>1, <2>2, <2>3, <2>4 DEF LooksBelow
<1>5. PICK f \in [D -> V] : \A d \in D : f[d] = B[<<d, f>>]
  <2> HIDE DEF B, D, V
  <2> QED  BY <1>4, RecursionByMeasure
<1>6. f = [p \in D |-> Of(f, p)]
  <2>1. \A d \in D : <<d, f>> \in D \X [D -> V]
    OBVIOUS
  <2> HIDE DEF Of, D, V
  <2>2. \A d \in D : f[d] = Of(f, d)
    BY <1>5, <2>1
  <2> QED  BY <2>2
<1>7. c = [p \in D |-> Of(c, p)]
  <2> HIDE DEF Of, D, V
  <2> QED  BY <1>6
<1>8. Run = c
  BY DEF Run
<1> HIDE DEF c
<1>9. \A d \in D : c[d] = f[d]
  <2> DEFINE G == {d \in D : c[d] = f[d]}
  <2>1. ASSUME NEW d \in D, \A e \in D : size[e] < size[d] => e \in G PROVE d \in G
    <3>1. \A e \in D : size[e] < size[d] => c[e] = f[e]
      BY <2>1
    <3>2. Of(c, d) = Of(f, d)
      BY <1>3, <3>1
    <3> HIDE DEF Of, D
    <3> QED  BY <1>6, <1>7, <3>2
  <2> HIDE DEF G, D
  <2>2. \A d \in D : d \in G
    BY <1>1, <2>1, InductionByMeasure
  <2> QED  BY <2>2 DEF G
<1>10. c = f
  <2> HIDE DEF Of, D, V
  <2> QED  BY <1>5, <1>7, <1>9
<1>11. \A d \in D : f[d] = Of(f, d)
  <2> HIDE DEF Of, D, V
  <2> QED  BY <1>6
<1>12. \A p \in D : \A k \in Executions :
          c[p][k] = IF p = <<>> THEN k ELSE c[Tail(p)][Executed(Head(p), k, c)]
  BY <1>10, <1>11
<1> QED  BY <1>5, <1>8, <1>10, <1>12

-----------------------------------------------------------------------------
(* What holds of a program as soon as it holds of all smaller ones.        *)
LEMMA ProgramInduction ==
    ASSUME NEW G,
           \A p \in Programs : (\A q \in Programs : Size(q) < Size(p) => q \in G) => p \in G
    PROVE  \A p \in Programs : p \in G
<1> DEFINE size == [p \in Programs |-> Size(p)]
<1>1. size \in [Programs -> Nat] /\ \A p \in Programs : size[p] = Size(p)
  BY ProgramShape
<1> HIDE DEF size
<1> QED  BY <1>1, InductionByMeasure

(* The rest of a program and the suites of its first statement.            *)
LEMMA Parts ==
    ASSUME NEW p \in Programs, p # <<>>
    PROVE  /\ Head(p) \in ToSet(p) /\ Tail(p) \in Programs /\ Size(Tail(p)) < Size(p)
           /\ Head(p).body \in Programs /\ Size(Head(p).body) < Size(p)
           /\ Head(p).other \in Programs /\ Size(Head(p).other) < Size(p)
           /\ Head(p).names \in SUBSET Names /\ Head(p).name \in Names
           /\ NamesBoundIn[p] = BoundBy(Head(p), NamesBoundIn) \cup NamesBoundIn[Tail(p)]
           /\ Statements[p] = Below(Head(p), Statements) \cup Statements[Tail(p)]
<1>1. /\ Head(p) \in ToSet(p) /\ Tail(p) \in Programs /\ Size(Tail(p)) < Size(p)
      /\ ToSet(p) = {Head(p)} \cup ToSet(Tail(p))
  BY ProgramShape
<1>2. /\ Head(p).body \in Programs /\ Size(Head(p).body) < Size(p)
      /\ Head(p).other \in Programs /\ Size(Head(p).other) < Size(p)
      /\ Head(p).names \in SUBSET Names /\ Head(p).name \in Names
  BY <1>1, ProgramShape
<1>3. NamesBoundIn[p] = BoundBy(Head(p), NamesBoundIn) \cup NamesBoundIn[Tail(p)]
  <2>1. /\ NamesBoundIn[p] = UNION {BoundBy(s, NamesBoundIn) : s \in ToSet(p)}
        /\ NamesBoundIn[Tail(p)] = UNION {BoundBy(s, NamesBoundIn) : s \in ToSet(Tail(p))}
    BY <1>1, NamesUnfold
  <2> QED  BY <1>1, <2>1
<1>4. Statements[p] = Below(Head(p), Statements) \cup Statements[Tail(p)]
  <2>1. /\ Statements[p] = UNION {Below(s, Statements) : s \in ToSet(p)}
        /\ Statements[Tail(p)] = UNION {Below(s, Statements) : s \in ToSet(Tail(p))}
    BY <1>1, StatementsUnfold
  <2> QED  BY <1>1, <2>1
<1> QED  BY <1>1, <1>2, <1>3, <1>4

(* Nothing that was seen, and no registration, is taken back.              *)
LEMMA RunGrows ==
    \A p \in Programs : \A d \in Executions :
        d.seen \subseteq Run[p][d].seen /\ (d.hit => Run[p][d].hit)
<1> DEFINE Holds(p) == \A d \in Executions : d.seen \subseteq Run[p][d].seen /\ (d.hit => Run[p][d].hit)
           G == {p \in Programs : Holds(p)}
<1>1. ASSUME NEW p \in Programs, \A q \in Programs : Size(q) < Size(p) => q \in G
      PROVE  p \in G
  <2>1. CASE p = <<>>
    BY <2>1, RunUnfolds
  <2>2. CASE p # <<>>
    <3>1. /\ Head(p) \in ToSet(p) /\ Tail(p) \in G
      BY <1>1, <2>2, Parts
    <3>2. ASSUME NEW d \in Executions
          PROVE  d.seen \subseteq Run[p][d].seen /\ (d.hit => Run[p][d].hit)
      <4>1. PICK e \in Executions : e = Executed(Head(p), d, Run)
        BY <3>1, ExecutedTyped, RunUnfolds
      <4>2. d.seen \subseteq e.seen /\ (d.hit => e.hit)
        <5>1. \E ends, first, second, more : Goes(e, d, ends, first, second, more)
          BY <3>1, <4>1, ExecutedIs, RunUnfolds DEF Plain
        <5> QED  BY <5>1 DEF Goes
      <4>3. Run[p][d] = Run[Tail(p)][e]
        BY <2>2, <4>1, RunUnfolds
      <4>4. e.seen \subseteq Run[Tail(p)][e].seen /\ (e.hit => Run[Tail(p)][e].hit)
        BY <3>1
      <4> QED  BY <4>2, <4>3, <4>4
    <3> QED  BY <3>2
  <2> QED  BY <2>1, <2>2
<1> HIDE DEF G
<1>2. \A p \in Programs : p \in G
  BY <1>1, ProgramInduction
<1> QED  BY <1>2 DEF G

(* A name that a program does not bind stands for what it stood for: some  *)
(* environment goes through.                                               *)
Agree(e, f, names) == \A n \in Names \ names : f[n] = e[n]
Through(from, to, names) == \A e \in from : \E f \in to : Agree(e, f, names)

LEMMA ThroughStatement ==
    ASSUME NEW p \in Programs, NEW s \in ToSet(p), NEW d \in Executions,
           \A q \in {s.body, s.other} : \A x \in Executions : Through(x.envs, Run[q][x].envs, NamesBoundIn[q])
    PROVE  Through(d.envs, Executed(s, d, Run).envs, BoundBy(s, NamesBoundIn))
<1> DEFINE e == Executed(s, d, Run)
           names == BoundBy(s, NamesBoundIn)
<1>1. Run \in [Programs -> [Executions -> Executions]]
  BY RunUnfolds
<1>2. s.body \in Programs /\ s.other \in Programs
  BY ProgramShape
<1>3. d.envs \in SUBSET Environments
  BY ExecutionFields
<1>4. Through(d.envs, Starts(s, d), names)
  <2>1. Targets(s) \subseteq names
    BY DEF BoundBy, Targets
  <2>2. \A env \in d.envs : Bound(env, s) \in Starts(s, d) /\ Agree(env, Bound(env, s), names)
    BY <1>3, <2>1, BoundIs DEF Starts, Agree
  <2> QED  BY <2>2 DEF Through
<1>5. ASSUME NEW q \in {s.body, s.other}, s.kind # "def", NEW envs \in SUBSET Environments,
             Starts(s, d) \subseteq envs
      PROVE  Through(d.envs, Run[q][Started(envs)].envs, names)
  <2>1. Started(envs) \in Executions /\ Started(envs).envs = envs
    BY StartedTyped
  <2>2. Through(envs, Run[q][Started(envs)].envs, NamesBoundIn[q])
    BY <2>1
  <2>3. NamesBoundIn[q] \subseteq names
    BY <1>5 DEF BoundBy
  <2> QED  BY <1>4, <1>5, <2>2, <2>3 DEF Through, Agree
<1>6. /\ Starts(s, d) \in SUBSET Environments /\ Once(s, d, Run) \in Executions
  BY <1>1, SuitesTyped
<1>7. s.kind # "def" => Through(d.envs, Once(s, d, Run).envs, names)
  BY <1>5, <1>6 DEF Once
<1>8. s.kind # "def" => Through(d.envs, Again(s, d, Run).envs, names)
  <2>1. {Bound(env, s) : env \in Once(s, d, Run).envs} \in SUBSET Environments
    BY <1>6, ExecutionFields, BoundIs
  <2>2. {Bound(env, s) : env \in Once(s, d, Run).envs} \cup Starts(s, d) \in SUBSET Environments
    BY <1>6, <2>1
  <2> QED  BY <1>5, <2>2 DEF Again
<1> HIDE DEF e, names
<1>9. CASE s.kind = "def" \/ Plain(s)
  <2>1. e.envs = Starts(s, d)
    BY <1>1, <1>9, ExecutedIs DEF Goes, e
  <2> QED  BY <1>4, <2>1 DEF e, names
<1>10. CASE s.kind \in {"if", "with", "try"}
  <2>1. Once(s, d, Run).envs \subseteq e.envs
    BY <1>1, <1>10, ExecutedIs DEF Goes, e
  <2> QED  BY <1>7, <1>10, <2>1 DEF e, names, Through
<1>11. CASE s.kind \in {"for", "while"}
  <2>1. Again(s, d, Run).envs \subseteq e.envs
    BY <1>1, <1>11, ExecutedIs DEF Goes, e
  <2> QED  BY <1>8, <1>11, <2>1 DEF e, names, Through
<1> QED  BY <1>9, <1>10, <1>11 DEF Plain

LEMMA ThroughProgram ==
    \A p \in Programs : \A d \in Executions : Through(d.envs, Run[p][d].envs, NamesBoundIn[p])
<1> DEFINE Holds(p) == \A d \in Executions : Through(d.envs, Run[p][d].envs, NamesBoundIn[p])
           G == {p \in Programs : Holds(p)}
<1>1. ASSUME NEW p \in Programs, \A q \in Programs : Size(q) < Size(p) => q \in G
      PROVE  p \in G
  <2>1. CASE p = <<>>
    BY <2>1, RunUnfolds DEF Through, Agree
  <2>2. CASE p # <<>>
    <3>1. /\ Head(p) \in ToSet(p) /\ Tail(p) \in G /\ Head(p).body \in G /\ Head(p).other \in G
          /\ NamesBoundIn[p] = BoundBy(Head(p), NamesBoundIn) \cup NamesBoundIn[Tail(p)]
      BY <1>1, <2>2, Parts
    <3>2. ASSUME NEW d \in Executions
          PROVE  Through(d.envs, Run[p][d].envs, NamesBoundIn[p])
      <4>1. PICK e \in Executions : e = Executed(Head(p), d, Run)
        BY <3>1, ExecutedTyped, RunUnfolds
      <4>2. Run[p][d] = Run[Tail(p)][e]
        BY <2>2, <4>1, RunUnfolds
      <4>3. Through(d.envs, e.envs, BoundBy(Head(p), NamesBoundIn))
        BY <3>1, <4>1, ThroughStatement
      <4>4. Through(e.envs, Run[Tail(p)][e].envs, NamesBoundIn[Tail(p)])
        BY <3>1
      <4> QED  BY <3>1, <4>2, <4>3, <4>4 DEF Through, Agree
    <3> QED  BY <3>2
  <2> QED  BY <2>1, <2>2
<1> HIDE DEF G
<1>2. \A p \in Programs : p \in G
  BY <1>1, ProgramInduction
<1> QED  BY <1>2 DEF G

(* A program that binds no name leaves every environment as it was.        *)
Still(d, e) == e.envs \subseteq d.envs /\ e.seen \subseteq d.seen \cup d.envs

LEMMA StillStatement ==
    ASSUME NEW p \in Programs, NEW s \in ToSet(p), NEW d \in Executions,
           BoundBy(s, NamesBoundIn) = {},
           \A q \in {s.body, s.other} : \A x \in Executions : Still(x, Run[q][x])
    PROVE  /\ \A env \in Environments : Bound(env, s) = env
           /\ Starts(s, d) = d.envs
           /\ Again(s, d, Run).envs \subseteq d.envs /\ Once(s, d, Run).envs \subseteq d.envs
           /\ Once(s, d, Run).seen \subseteq d.envs
           /\ Still(d, Executed(s, d, Run))
<1> DEFINE e == Executed(s, d, Run)
<1>1. Run \in [Programs -> [Executions -> Executions]]
  BY RunUnfolds
<1>2. s.body \in Programs /\ s.other \in Programs /\ s.kind # "def" /\ s.names = {}
  BY ProgramShape DEF BoundBy
<1>3. d.envs \in SUBSET Environments
  BY ExecutionFields
<1>4. \A env \in Environments : Bound(env, s) = env
  <2>1. ASSUME NEW env \in Environments, s.kind \in Binding PROVE Bound(env, s) = env
    <3>1. Targets(s) = {}
      BY <1>2 DEF Targets
    <3>2. Bound(env, s) \in Environments /\ \A n \in Names \ Targets(s) : Bound(env, s)[n] = env[n]
      BY BoundIs
    <3> QED  BY <3>1, <3>2 DEF Environments
  <2> QED  BY <2>1, BoundIs
<1>5. Starts(s, d) = d.envs
  BY <1>3, <1>4 DEF Starts
<1>6. ASSUME NEW q \in {s.body, s.other}, NEW envs \in SUBSET Environments, envs \subseteq d.envs
      PROVE  /\ Run[q][Started(envs)] \in Executions
             /\ Run[q][Started(envs)].envs \subseteq d.envs /\ Run[q][Started(envs)].seen \subseteq d.envs
  <2>1. Started(envs) \in Executions /\ Started(envs).envs = envs /\ Started(envs).seen = envs
    BY StartedTyped
  <2>2. Still(Started(envs), Run[q][Started(envs)])
    BY <2>1
  <2> QED  BY <1>1, <1>2, <1>6, <2>1, <2>2 DEF Still
<1>7. Once(s, d, Run).envs \subseteq d.envs /\ Once(s, d, Run).seen \subseteq d.envs
  BY <1>3, <1>5, <1>6 DEF Once
<1>8. Again(s, d, Run).envs \subseteq d.envs /\ Again(s, d, Run).seen \subseteq d.envs
  <2>1. {Bound(env, s) : env \in Once(s, d, Run).envs} \subseteq d.envs
    BY <1>3, <1>4, <1>7
  <2>2. {Bound(env, s) : env \in Once(s, d, Run).envs} \cup Starts(s, d) \subseteq d.envs
    BY <1>5, <2>1
  <2> QED  BY <1>3, <1>6, <2>2 DEF Again
<1>9. Otherwise(s, d, Run).envs \subseteq d.envs /\ Otherwise(s, d, Run).seen \subseteq d.envs
  BY <1>3, <1>5, <1>6 DEF Otherwise
<1>10. AtEnd(s, d, Run).envs \subseteq d.envs /\ AtEnd(s, d, Run).seen \subseteq d.envs
  <2>1. d.envs \cup Again(s, d, Run).envs = d.envs
    BY <1>8
  <2> QED  BY <1>3, <1>6, <2>1 DEF AtEnd
<1>11. Handler(s, d, Run).envs \subseteq d.envs /\ Handler(s, d, Run).seen \subseteq d.envs
  <2>1. Once(s, d, Run).seen \in SUBSET Environments
    BY <1>3, <1>7
  <2> QED  BY <1>6, <1>7, <2>1 DEF Handler
<1> HIDE DEF e
<1>12. ASSUME NEW ends, NEW first, NEW second, NEW more,
              Goes(e, d, ends, first, second, more), ends \subseteq d.envs,
              first.seen \subseteq d.seen \cup d.envs, second.seen \subseteq d.seen \cup d.envs
       PROVE  Still(d, e)
  BY <1>12 DEF Goes, Still
<1>13. ASSUME Plain(s) PROVE Still(d, e)
  <2>1. Goes(e, d, Starts(s, d), d, d, Calls(s, d))
    BY <1>1, <1>13, ExecutedIs DEF e
  <2> QED  BY <1>5, <1>12, <2>1
<1>14. ASSUME s.kind = "if" PROVE Still(d, e)
  <2>1. Goes(e, d, Once(s, d, Run).envs \cup Otherwise(s, d, Run).envs, Once(s, d, Run), Otherwise(s, d, Run), FALSE)
    BY <1>1, <1>14, ExecutedIs DEF e
  <2> QED  BY <1>7, <1>9, <1>12, <2>1
<1>15. ASSUME s.kind \in {"for", "while"} PROVE Still(d, e)
  <2>1. Goes(e, d, Again(s, d, Run).envs \cup AtEnd(s, d, Run).envs, Again(s, d, Run), AtEnd(s, d, Run), FALSE)
    BY <1>1, <1>15, ExecutedIs DEF e
  <2> QED  BY <1>8, <1>10, <1>12, <2>1
<1>16. ASSUME s.kind = "with" PROVE Still(d, e)
  <2>1. Goes(e, d, Once(s, d, Run).envs, Once(s, d, Run), Once(s, d, Run), FALSE)
    BY <1>1, <1>16, ExecutedIs DEF e
  <2> QED  BY <1>7, <1>12, <2>1
<1>17. ASSUME s.kind = "try" PROVE Still(d, e)
  <2>1. Goes(e, d, Once(s, d, Run).envs \cup Handler(s, d, Run).envs, Once(s, d, Run), Handler(s, d, Run), FALSE)
    BY <1>1, <1>17, ExecutedIs DEF e
  <2> QED  BY <1>7, <1>11, <1>12, <2>1
<1>18. Still(d, e)
  BY <1>2, <1>13, <1>14, <1>15, <1>16, <1>17 DEF Plain
<1> QED  BY <1>4, <1>5, <1>7, <1>8, <1>18 DEF e

LEMMA StillProgram ==
    \A p \in Programs : NamesBoundIn[p] = {} => \A d \in Executions : Still(d, Run[p][d])
<1> DEFINE Holds(p) == NamesBoundIn[p] = {} => \A d \in Executions : Still(d, Run[p][d])
           G == {p \in Programs : Holds(p)}
<1>1. ASSUME NEW p \in Programs, \A q \in Programs : Size(q) < Size(p) => q \in G
      PROVE  p \in G
  <2>1. CASE p = <<>>
    BY <2>1, RunUnfolds DEF Still
  <2>2. CASE p # <<>>
    <3> SUFFICES ASSUME NamesBoundIn[p] = {}, NEW d \in Executions PROVE Still(d, Run[p][d])
      OBVIOUS
    <3>1. /\ Head(p) \in ToSet(p) /\ Tail(p) \in G /\ Head(p).body \in G /\ Head(p).other \in G
          /\ BoundBy(Head(p), NamesBoundIn) = {} /\ NamesBoundIn[Tail(p)] = {}
      BY <1>1, <2>2, Parts
    <3>2. NamesBoundIn[Head(p).body] = {} /\ NamesBoundIn[Head(p).other] = {}
      BY <3>1 DEF BoundBy
    <3>3. PICK e \in Executions : e = Executed(Head(p), d, Run)
      BY <3>1, ExecutedTyped, RunUnfolds
    <3>4. Run[p][d] = Run[Tail(p)][e]
      BY <2>2, <3>3, RunUnfolds
    <3>5. Still(d, e)
      BY <3>1, <3>2, <3>3, StillStatement
    <3>6. Still(e, Run[Tail(p)][e])
      BY <3>1
    <3> QED  BY <3>4, <3>5, <3>6 DEF Still
  <2> QED  BY <2>1, <2>2
<1> HIDE DEF G
<1>2. \A p \in Programs : p \in G
  BY <1>1, ProgramInduction
<1> QED  BY <1>2 DEF G

-----------------------------------------------------------------------------
(* What OnlyAssigned says of one statement of the program, for the names   *)
(* bound to Apps, to the module and to the class.                          *)
Disciplined(s, apps, modules, symbols) ==
    /\ s.kind \in {"for", "with", "other"} => s.names = {}
    /\ s.kind = "import" => s.value[2] = "connexion" /\ s.names \subseteq modules
    /\ s.kind = "from" => s.value[2] = "App" /\ s.names \subseteq symbols
    /\ s.kind = "def" => /\ s.name \notin apps \cup modules \cup symbols
                         /\ NamesBoundIn[s.body] = {}
    /\ MayMakeApp(s) => s.names \subseteq apps

Disjoint(apps, modules, symbols) ==
    /\ modules \cap symbols = {} /\ apps \cap modules = {} /\ apps \cap symbols = {}

LEMMA Discipline ==
    ASSUME NEW p \in Programs, OnlyAssigned(p)
    PROVE  LET apps == Bindings(p, MayMakeApp)
               modules == Bindings(p, ImportsModule)
               symbols == Bindings(p, ImportsClass)
           IN  /\ Disjoint(apps, modules, symbols)
               /\ \A s \in Statements[p] : Disciplined(s, apps, modules, symbols)
<1> DEFINE apps == Bindings(p, MayMakeApp)
           modules == Bindings(p, ImportsModule)
           symbols == Bindings(p, ImportsClass)
<1>1. /\ apps = UNION {s.names : s \in {t \in Statements[p] : MayMakeApp(t)}}
      /\ modules = UNION {s.names : s \in {t \in Statements[p] : t.kind = "import"}}
      /\ symbols = UNION {s.names : s \in {t \in Statements[p] : t.kind = "from"}}
  BY DEF Bindings, ImportsModule, ImportsClass
<1>2. Disjoint(apps, modules, symbols)
  BY DEF OnlyAssigned, Disjoint
<1> HIDE DEF apps, modules, symbols
<1>3. ASSUME NEW s \in Statements[p] PROVE Disciplined(s, apps, modules, symbols)
  <2>1. /\ s.kind = "import" => s.names \subseteq modules
        /\ s.kind = "from" => s.names \subseteq symbols
        /\ MayMakeApp(s) => s.names \subseteq apps
    BY <1>1
  <2>2. s.kind = "def" => s.name \notin apps \cup modules \cup symbols
    BY <1>1 DEF OnlyAssigned
  <2>3. /\ s.kind \in {"for", "with", "other"} => s.names = {}
        /\ s.kind = "import" => s.value[2] = "connexion"
        /\ s.kind = "from" => s.value[2] = "App"
        /\ s.kind = "def" => NamesBoundIn[s.body] = {}
    BY DEF OnlyAssigned
  <2> QED  BY <2>1, <2>2, <2>3 DEF Disciplined
<1> QED  BY <1>2, <1>3 DEF apps, modules, symbols

(* A scope keeps the three apart, is right about an environment (every     *)
(* name in it stands for what it is taken for), or covers one (every App,  *)
(* module and class is known).                                             *)
Keeps(k, apps, modules, symbols) ==
    k.apps \subseteq apps /\ k.modules \subseteq modules /\ k.symbols \subseteq symbols
RightAbout(k, env) ==
    /\ \A n \in k.apps : env[n] = "app"
    /\ \A n \in k.modules : env[n] = "module"
    /\ \A n \in k.symbols : env[n] = "class"
Covers(k, env) ==
    \A n \in Names : /\ env[n] = "app" => n \in k.apps
                     /\ env[n] = "module" => n \in k.modules
                     /\ env[n] = "class" => n \in k.symbols

(* The scope after a statement in which nothing was found.                 *)
After(s, k) ==
    IF s.kind = "def" THEN k
    ELSE IF s.kind \in Compound THEN AfterSuites(k, s) ELSE BeforeSuites(k, s)

LEMMA AfterIs ==
    ASSUME NEW p \in Programs, NEW s \in ToSet(p), NEW k \in Scopes, ~k.found,
           ~Inspected(s, k, InspectScope).found
    PROVE  LET i == Inspected(s, k, InspectScope)
           IN  /\ i \in Scopes /\ i.apps = After(s, k).apps
               /\ i.modules = After(s, k).modules /\ i.symbols = After(s, k).symbols
<1>1. InspectScope \in [Programs -> [Scopes -> Scopes]]
  BY InspectUnfolds
<1>2. s.names \in SUBSET Names /\ s.body \in Programs /\ s.other \in Programs
  BY ProgramShape
<1>3. Inspected(s, k, InspectScope) \in Scopes
  BY <1>1, InspectedFields
<1>4. CASE s.kind = "def"
  <2>1. InspectScope[s.body][Without(k, s.names)].found \in BOOLEAN
    BY <1>1, <1>2, ScopeFields
  <2>2. Inspected(s, k, InspectScope) = [k EXCEPT !.found = InspectScope[s.body][Without(k, s.names)].found]
    BY <1>1, <1>4, InspectedFields
  <2> QED  BY <1>3, <1>4, <2>1, <2>2, ScopeFields DEF After
<1>5. CASE s.kind # "def"
  <2> DEFINE a == IF s.kind \in Compound THEN AfterSuites(BeforeSuites(k, s), s) ELSE BeforeSuites(k, s)
  <2>1. Inspected(s, k, InspectScope) = [a EXCEPT !.found = FoundAt(s, k, InspectScope)]
    BY <1>1, <1>5, InspectedFields
  <2>2. BeforeSuites(k, s) \in Scopes /\ (s.kind \in Compound => BeforeSuites(k, s) = k)
    BY <1>2, BeforeTyped DEF Compound
  <2>3. s.names \cup NamesBoundIn[s.body] \cup NamesBoundIn[s.other] \in SUBSET Names
    BY <1>2, NamesUnfold
  <2>4. a \in Scopes
    BY <2>2, <2>3, ScopeFields DEF AfterSuites
  <2>5. FoundAt(s, k, InspectScope) \in BOOLEAN
    BY DEF FoundAt
  <2>6. a = After(s, k)
    BY <1>5, <2>2 DEF After
  <2> HIDE DEF a
  <2> QED  BY <1>3, <2>1, <2>4, <2>5, <2>6, ScopeFields
<1> QED  BY <1>4, <1>5

(* What it leaves of k, and adds.                                          *)
LEMMA AfterFields ==
    ASSUME NEW p \in Programs, NEW s \in ToSet(p), NEW k \in Scopes
    PROVE  LET t == After(s, k)
               gone == s.names \cup NamesBoundIn[s.body] \cup NamesBoundIn[s.other]
           IN  /\ s.kind = "import" =>
                    /\ t.apps = k.apps /\ t.symbols = k.symbols
                    /\ t.modules = k.modules \cup IF s.value[2] = "connexion" THEN s.names ELSE {}
               /\ s.kind = "from" =>
                    /\ t.apps = k.apps /\ t.modules = k.modules
                    /\ t.symbols = k.symbols \cup IF s.value[2] = "App" THEN s.names ELSE {}
               /\ s.kind = "assign" =>
                    /\ t.modules = k.modules \ s.names /\ t.symbols = k.symbols \ s.names
                    /\ t.apps = (k.apps \ s.names) \cup IF IsApp(s.value, k, s.names) THEN s.names ELSE {}
               /\ s.kind \in Compound =>
                    /\ t.apps = k.apps \ gone /\ t.modules = k.modules \ gone
                    /\ t.symbols = k.symbols \ gone
               /\ s.kind \notin {"import", "from", "assign"} \cup Compound => t = k
<1>1. s.names \in SUBSET Names /\ s.body \in Programs /\ s.other \in Programs
  BY ProgramShape
<1>2. CASE s.kind = "import"
  <2>1. After(s, k) = Import(k, s) /\ Import(k, s) \in Scopes
    BY <1>1, <1>2, ImportFields DEF After, Compound, BeforeSuites, Assign
  <2>2. PICK t : t = Import(k, s)
    OBVIOUS
  <2>3. /\ t.apps = k.apps /\ t.symbols = k.symbols
        /\ t.modules = k.modules \cup IF s.value[2] = "connexion" THEN s.names ELSE {}
    BY <1>1, <1>2, <2>2, ImportFields
  <2> QED  BY <1>2, <2>1, <2>2, <2>3 DEF Compound
<1>3. CASE s.kind = "from"
  <2>1. After(s, k) = Import(k, s) /\ Import(k, s) \in Scopes
    BY <1>1, <1>3, ImportFields DEF After, Compound, BeforeSuites, Assign
  <2>2. PICK t : t = Import(k, s)
    OBVIOUS
  <2>3. /\ t.apps = k.apps /\ t.modules = k.modules
        /\ t.symbols = k.symbols \cup IF s.value[2] = "App" THEN s.names ELSE {}
    BY <1>1, <1>3, <2>2, ImportFields
  <2> QED  BY <1>3, <2>1, <2>2, <2>3 DEF Compound
<1>4. CASE s.kind = "assign"
  <2>1. Import(k, s) = k
    BY <1>4 DEF Import
  <2>2. After(s, k) = Assign(k, s)
    BY <1>4, <2>1 DEF After, Compound, BeforeSuites
  <2> QED  BY <1>1, <1>4, <2>2, AssignFields DEF Compound
<1>5. CASE s.kind \in Compound
  <2>1. s.names \cup NamesBoundIn[s.body] \cup NamesBoundIn[s.other] \in SUBSET Names
    BY <1>1, NamesUnfold
  <2>2. After(s, k) = Without(k, s.names \cup NamesBoundIn[s.body] \cup NamesBoundIn[s.other])
    BY <1>5 DEF After, AfterSuites, Compound
  <2> QED  BY <1>5, <2>1, <2>2, ScopeFields DEF Compound
<1>6. CASE s.kind \notin {"import", "from", "assign"} \cup Compound
  BY <1>1, <1>6, BeforeTyped DEF After, Compound
<1> QED  BY <1>2, <1>3, <1>4, <1>5, <1>6

LEMMA RolesKept ==
    ASSUME NEW p \in Programs, NEW s \in ToSet(p), NEW k \in Scopes,
           NEW apps, NEW modules, NEW symbols,
           Disciplined(s, apps, modules, symbols), Keeps(k, apps, modules, symbols)
    PROVE  Keeps(After(s, k), apps, modules, symbols)
<1>1. CASE s.kind = "assign"
  <2>1. IsApp(s.value, k, s.names) => MayMakeApp(s)
    BY <1>1 DEF IsApp, IsAppConstructor, MayMakeApp
  <2> QED  BY <1>1, <2>1, AfterFields DEF Keeps, Disciplined
<1>2. CASE s.kind = "import"
  BY <1>2, AfterFields DEF Keeps, Disciplined
<1>3. CASE s.kind = "from"
  BY <1>3, AfterFields DEF Keeps, Disciplined
<1>4. CASE s.kind \in Compound
  BY <1>4, AfterFields DEF Keeps
<1>5. CASE s.kind \notin {"import", "from", "assign"} \cup Compound
  BY <1>5, AfterFields DEF Keeps
<1> QED  BY <1>1, <1>2, <1>3, <1>4, <1>5

(* What is bound stands for what the scope takes it for.                   *)
LEMMA RightKept ==
    ASSUME NEW p \in Programs, NEW s \in ToSet(p), NEW k \in Scopes, NEW d \in Executions,
           NEW env \in d.envs,
           NEW apps, NEW modules, NEW symbols, Disjoint(apps, modules, symbols),
           Disciplined(s, apps, modules, symbols), Keeps(k, apps, modules, symbols),
           RightAbout(k, env)
    PROVE  \E f \in Executed(s, d, Run).envs : RightAbout(After(s, k), f)
<1> DEFINE t == After(s, k)
           e == Executed(s, d, Run)
<1>1. Run \in [Programs -> [Executions -> Executions]]
  BY RunUnfolds
<1>2. /\ s.names \in SUBSET Names /\ env \in Environments
      /\ k.apps \in SUBSET Names /\ k.modules \in SUBSET Names /\ k.symbols \in SUBSET Names
  BY ProgramShape, ExecutionFields, ScopeFields
<1>3. s.kind = "def" \/ Plain(s) => Bound(env, s) \in e.envs
  BY <1>1, ExecutedIs DEF Goes, Starts
<1>4. \A n \in Names \ Targets(s) : Bound(env, s)[n] = env[n]
  BY <1>2, BoundIs
<1>5. s.kind \in Binding => \A n \in Names : Bound(env, s)[n] = IF n \in Targets(s) THEN Thing(env, s) ELSE env[n]
  BY <1>2, BoundIs
<1> HIDE DEF e
<1>6. CASE s.kind = "import"
  <2>1. /\ t.apps = k.apps /\ t.symbols = k.symbols /\ t.modules = k.modules \cup s.names
        /\ s.names \subseteq modules
    BY <1>6, AfterFields DEF Disciplined
  <2>2. Targets(s) = s.names /\ Thing(env, s) = "module" /\ s.kind \in Binding /\ Plain(s)
    BY <1>6 DEF Targets, Thing, Disciplined, Binding, Plain
  <2> HIDE DEF t
  <2>3. RightAbout(t, Bound(env, s))
    BY <1>2, <1>5, <2>1, <2>2 DEF RightAbout, Keeps, Disjoint
  <2> QED  BY <1>3, <2>2, <2>3 DEF t, e
<1>7. CASE s.kind = "from"
  <2>1. /\ t.apps = k.apps /\ t.modules = k.modules /\ t.symbols = k.symbols \cup s.names
        /\ s.names \subseteq symbols
    BY <1>7, AfterFields DEF Disciplined
  <2>2. Targets(s) = s.names /\ Thing(env, s) = "class" /\ s.kind \in Binding /\ Plain(s)
    BY <1>7 DEF Targets, Thing, Disciplined, Binding, Plain
  <2> HIDE DEF t
  <2>3. RightAbout(t, Bound(env, s))
    BY <1>2, <1>5, <2>1, <2>2 DEF RightAbout, Keeps, Disjoint
  <2> QED  BY <1>3, <2>2, <2>3 DEF t, e
<1>8. CASE s.kind = "assign"
  <2>1. /\ t.modules = k.modules \ s.names /\ t.symbols = k.symbols \ s.names
        /\ t.apps = (k.apps \ s.names) \cup IF IsApp(s.value, k, s.names) THEN s.names ELSE {}
    BY <1>8, AfterFields
  <2>2. Targets(s) = s.names /\ s.kind \in Binding /\ Plain(s)
    BY <1>8 DEF Targets, Binding, Plain
  <2>3. IsApp(s.value, k, s.names) => Thing(env, s) = "app"
    <3>1. Thing(env, s) = ValueOf(s.value, env)
      BY <1>8 DEF Thing
    <3>2. CASE s.value[1] = "name" /\ s.value[2] \in k.apps
      BY <3>1, <3>2 DEF ValueOf, RightAbout
    <3>3. CASE s.value[1] = "symbol()" /\ s.value[2] \in k.symbols
      BY <3>1, <3>3 DEF ValueOf, RightAbout
    <3>4. CASE s.value[1] = "module.App()" /\ s.value[2] \in k.modules
      BY <3>1, <3>4 DEF ValueOf, RightAbout
    <3>5. /\ Without(k, s.names).symbols = k.symbols \ s.names
          /\ Without(k, s.names).modules = k.modules \ s.names
      BY <1>2, ScopeFields
    <3> QED  BY <3>2, <3>3, <3>4, <3>5 DEF IsApp, IsAppConstructor
  <2> HIDE DEF t
  <2>4. RightAbout(t, Bound(env, s))
    BY <1>2, <1>5, <2>1, <2>2, <2>3 DEF RightAbout
  <2> QED  BY <1>3, <2>2, <2>4 DEF t, e
<1>9. CASE s.kind \in Compound
  <2> DEFINE gone == s.names \cup NamesBoundIn[s.body] \cup NamesBoundIn[s.other]
  <2>1. t.apps = k.apps \ gone /\ t.modules = k.modules \ gone /\ t.symbols = k.symbols \ gone
    BY <1>9, AfterFields
  <2>2. BoundBy(s, NamesBoundIn) = gone
    BY <1>9 DEF BoundBy, Compound
  <2>3. Through(d.envs, e.envs, BoundBy(s, NamesBoundIn))
    <3>1. s.body \in Programs /\ s.other \in Programs
      BY ProgramShape
    <3>2. \A q \in {s.body, s.other} : \A x \in Executions : Through(x.envs, Run[q][x].envs, NamesBoundIn[q])
      BY <3>1, ThroughProgram
    <3> QED  BY <3>2, ThroughStatement DEF e
  <2>4. PICK f \in e.envs : Agree(env, f, BoundBy(s, NamesBoundIn))
    BY <2>3 DEF Through
  <2> HIDE DEF gone, t
  <2>5. RightAbout(t, f)
    BY <1>2, <2>1, <2>2, <2>4 DEF RightAbout, Agree
  <2> QED  BY <2>5 DEF t, e
<1>10. CASE s.kind \notin {"import", "from", "assign"} \cup Compound
  <2>1. t = k
    BY <1>10, AfterFields
  <2>2. s.kind = "def" \/ Plain(s)
    BY <1>10 DEF Plain, Compound
  <2>3. \A n \in k.apps \cup k.modules \cup k.symbols : Bound(env, s)[n] = env[n]
    <3>1. CASE s.kind = "def"
      <4>1. Targets(s) = {s.name} /\ s.name \notin k.apps \cup k.modules \cup k.symbols
        BY <3>1 DEF Targets, Disciplined, Keeps
      <4> QED  BY <1>2, <1>4, <4>1
    <3>2. CASE s.kind = "other"
      <4>1. Targets(s) = {}
        BY <3>2 DEF Targets, Disciplined
      <4> QED  BY <1>2, <1>4, <4>1
    <3>3. CASE s.kind \notin {"def", "other"}
      <4>1. s.kind \notin Binding
        BY <1>10, <3>3 DEF Binding, Compound
      <4>2. Bound(env, s) = env
        BY <1>2, <4>1, BoundIs
      <4> QED  BY <4>2
    <3> QED  BY <3>1, <3>2, <3>3
  <2>4. RightAbout(k, Bound(env, s))
    BY <2>3 DEF RightAbout
  <2> QED  BY <1>3, <2>1, <2>2, <2>4 DEF e
<1> QED  BY <1>6, <1>7, <1>8, <1>9, <1>10

(* The parts of a program have its statements.                             *)
LEMMA PartsWithin ==
    ASSUME NEW p \in Programs, p # <<>>, NEW S, Statements[p] \subseteq S
    PROVE  /\ Head(p) \in S /\ Statements[Tail(p)] \subseteq S
           /\ Statements[Head(p).body] \subseteq S /\ Statements[Head(p).other] \subseteq S
<1>1. Statements[p] = Below(Head(p), Statements) \cup Statements[Tail(p)]
  BY Parts
<1> QED  BY <1>1 DEF Below

(* A value taken for an App, about which the scope is right, is one.       *)
LEMMA ValueIsApp ==
    ASSUME NEW value, NEW k \in Scopes, NEW env, RightAbout(k, env),
           \/ IsAppConstructor(value, k)
           \/ value[1] = "name" /\ value[2] \in k.apps
    PROVE  ValueOf(value, env) = "app"
<1>1. CASE value[1] = "name" /\ value[2] \in k.apps
  BY <1>1 DEF ValueOf, RightAbout
<1>2. CASE value[1] = "symbol()" /\ value[2] \in k.symbols
  BY <1>2 DEF ValueOf, RightAbout
<1>3. CASE value[1] = "module.App()" /\ value[2] \in k.modules
  BY <1>3 DEF ValueOf, RightAbout
<1> QED  BY <1>1, <1>2, <1>3 DEF IsAppConstructor

(* What inspect_scope finds in q, an execution of q does, when the scope   *)
(* is right about one of the environments it starts in.                    *)
Real(q, apps, modules, symbols) ==
    \A k \in Scopes : \A d \in Executions : \A env \in d.envs :
        /\ ~k.found /\ Keeps(k, apps, modules, symbols) /\ RightAbout(k, env)
        /\ InspectScope[q][k].found
        => Run[q][d].hit

(* The same of one statement.                                              *)
LEMMA RealStatement ==
    ASSUME NEW p \in Programs, NEW s \in ToSet(p), NEW k \in Scopes, NEW d \in Executions,
           NEW env \in d.envs,
           NEW apps, NEW modules, NEW symbols,
           Disciplined(s, apps, modules, symbols), Keeps(k, apps, modules, symbols),
           RightAbout(k, env), ~k.found,
           Real(s.body, apps, modules, symbols), Real(s.other, apps, modules, symbols),
           Inspected(s, k, InspectScope).found
    PROVE  Executed(s, d, Run).hit
<1> DEFINE e == Executed(s, d, Run)
<1>1. /\ Run \in [Programs -> [Executions -> Executions]]
      /\ InspectScope \in [Programs -> [Scopes -> Scopes]]
  BY RunUnfolds, InspectUnfolds
<1>2. /\ s.names \in SUBSET Names /\ env \in Environments /\ s.body \in Programs /\ s.other \in Programs
      /\ k.apps \in SUBSET Names /\ k.modules \in SUBSET Names /\ k.symbols \in SUBSET Names
  BY ProgramShape, ExecutionFields, ScopeFields
<1>3. ASSUME NEW q \in {s.body, s.other}, NEW envs \in SUBSET Environments, env \in envs,
             InspectScope[q][k].found
      PROVE  Run[q][Started(envs)].hit
  <2>1. Started(envs) \in Executions /\ env \in Started(envs).envs
    BY <1>3, StartedTyped
  <2> QED  BY <1>3, <2>1 DEF Real
<1>4. CASE s.kind = "def"
  <2> DEFINE w == Without(k, s.names)
             shadowed == Bind(env, s.names \cup NamesBoundIn[s.body], "other")
  <2>1. Inspected(s, k, InspectScope) = [k EXCEPT !.found = InspectScope[s.body][w].found]
    BY <1>1, <1>4, InspectedFields
  <2>2. /\ w \in Scopes /\ w.apps = k.apps \ s.names /\ w.modules = k.modules \ s.names
        /\ w.symbols = k.symbols \ s.names /\ w.found = k.found
    BY <1>2, ScopeFields
  <2> HIDE DEF w
  <2>3. InspectScope[s.body][w].found
    <3>1. InspectScope[s.body][w].found \in BOOLEAN
      BY <1>1, <1>2, <2>2, ScopeFields
    <3>2. PICK b \in BOOLEAN : b = InspectScope[s.body][w].found
      BY <3>1
    <3>3. Inspected(s, k, InspectScope) = [k EXCEPT !.found = b]
      BY <2>1, <3>2
    <3>4. [k EXCEPT !.found = b].found = b
      BY ScopeFields
    <3> QED  BY <3>2, <3>3, <3>4
  <2>4. NamesBoundIn[s.body] = {}
    BY <1>4 DEF Disciplined
  <2>5. \A n \in Names : shadowed[n] = IF n \in s.names THEN "other" ELSE env[n]
    BY <1>2, <2>4, BindTyped
  <2> HIDE DEF shadowed
  <2>6. RightAbout(w, shadowed) /\ Keeps(w, apps, modules, symbols)
    BY <1>2, <2>2, <2>5 DEF RightAbout, Keeps
  <2>7. shadowed \in Shadowed(s, d) /\ Shadowed(s, d) \in SUBSET Environments
    BY <1>1, SuitesTyped DEF Shadowed, shadowed
  <2>8. Started(Shadowed(s, d)) \in Executions /\ shadowed \in Started(Shadowed(s, d)).envs
    BY <2>7, StartedTyped
  <2>9. Inner(s, d, Run).hit
    BY <2>2, <2>3, <2>6, <2>8 DEF Inner, Real
  <2>10. Goes(e, d, Starts(s, d), d, d, Inner(s, d, Run).hit)
    BY <1>1, <1>4, ExecutedIs
  <2> QED  BY <2>9, <2>10 DEF Goes
<1>5. CASE s.kind # "def"
  <2>1. FoundAt(s, k, InspectScope)
    <3> DEFINE a == IF s.kind \in Compound THEN AfterSuites(BeforeSuites(k, s), s) ELSE BeforeSuites(k, s)
    <3>1. Inspected(s, k, InspectScope) = [a EXCEPT !.found = FoundAt(s, k, InspectScope)]
      BY <1>1, <1>5, InspectedFields
    <3>2. BeforeSuites(k, s) \in Scopes /\ s.names \cup NamesBoundIn[s.body] \cup NamesBoundIn[s.other] \in SUBSET Names
      BY <1>2, BeforeTyped, NamesUnfold
    <3>3. a \in Scopes
      BY <3>2, ScopeFields DEF AfterSuites
    <3>4. FoundAt(s, k, InspectScope) \in BOOLEAN
      BY DEF FoundAt
    <3> HIDE DEF a
    <3> QED  BY <3>1, <3>3, <3>4, ScopeFields
  <2>2. CASE Registers(BeforeSuites(k, s), s)
    <3>1. s.kind = "add_api" /\ BeforeSuites(k, s) = k
      BY <1>2, <2>2, BeforeTyped DEF Registers
    <3>2. ValueOf(s.value, env) = "app"
      BY <2>2, <3>1, ValueIsApp DEF Registers
    <3>3. Bound(env, s) = env
      BY <1>2, <3>1, BoundIs DEF Binding
    <3>4. Calls(s, d)
      BY <3>1, <3>2, <3>3 DEF Calls, Starts
    <3>5. Goes(e, d, Starts(s, d), d, d, Calls(s, d))
      BY <1>1, <3>1, ExecutedIs DEF Plain
    <3> QED  BY <3>4, <3>5 DEF Goes
  <2>3. CASE s.kind \in Compound /\ ~Registers(BeforeSuites(k, s), s)
    <3>1. /\ BeforeSuites(k, s) = k
          /\ InspectScope[s.body][k].found \/ InspectScope[s.other][k].found
      <4>1. BeforeSuites(k, s) = k
        BY <1>2, <2>3, BeforeTyped DEF Compound
      <4> QED  BY <2>1, <2>3, <4>1 DEF FoundAt
    <3>2. Bound(env, s) = env
      <4>1. CASE s.kind \in {"for", "with"}
        <5>1. Targets(s) = {}
          BY <4>1 DEF Targets, Disciplined
        <5>2. Bound(env, s) \in Environments /\ \A n \in Names \ Targets(s) : Bound(env, s)[n] = env[n]
          BY <1>2, BoundIs
        <5> QED  BY <1>2, <5>1, <5>2 DEF Environments
      <4>2. CASE s.kind \notin {"for", "with"}
        BY <1>2, <2>3, <4>2, BoundIs DEF Compound, Binding
      <4> QED  BY <4>1, <4>2
    <3>3. env \in Starts(s, d) /\ Starts(s, d) \in SUBSET Environments
      BY <1>1, <3>2, SuitesTyped DEF Starts
    <3>4. Once(s, d, Run) \in Executions /\ Again(s, d, Run) \in Executions
      BY <1>1, SuitesTyped
    <3>5. InspectScope[s.body][k].found => Once(s, d, Run).hit
      BY <1>3, <3>3 DEF Once
    <3>6. InspectScope[s.body][k].found => Again(s, d, Run).hit
      <4>1. {Bound(f, s) : f \in Once(s, d, Run).envs} \cup Starts(s, d) \in SUBSET Environments
        BY <3>3, <3>4, ExecutionFields, BoundIs
      <4> QED  BY <1>3, <3>3, <4>1 DEF Again
    <3>7. InspectScope[s.other][k].found => Otherwise(s, d, Run).hit
      BY <1>3, <3>3 DEF Otherwise
    <3>8. InspectScope[s.other][k].found => AtEnd(s, d, Run).hit
      <4>1. d.envs \cup Again(s, d, Run).envs \in SUBSET Environments
        BY <3>4, ExecutionFields
      <4> QED  BY <1>3, <4>1 DEF AtEnd
    <3>9. InspectScope[s.other][k].found => Handler(s, d, Run).hit
      <4>1. Once(s, d, Run).seen \in SUBSET Environments
        BY <3>4, ExecutionFields
      <4>2. env \in Once(s, d, Run).seen
        <5>1. Started(Starts(s, d)) \in Executions /\ Started(Starts(s, d)).seen = Starts(s, d)
          BY <3>3, StartedTyped
        <5> QED  BY <1>2, <3>3, <5>1, RunGrows DEF Once
      <4> QED  BY <1>3, <4>1, <4>2 DEF Handler
    <3>10. CASE s.kind = "if"
      <4>1. \E ends : Goes(e, d, ends, Once(s, d, Run), Otherwise(s, d, Run), FALSE)
        BY <1>1, <3>10, ExecutedIs
      <4> QED  BY <3>1, <3>5, <3>7, <4>1 DEF Goes
    <3>11. CASE s.kind \in {"for", "while"}
      <4>1. \E ends : Goes(e, d, ends, Again(s, d, Run), AtEnd(s, d, Run), FALSE)
        BY <1>1, <3>11, ExecutedIs
      <4> QED  BY <3>1, <3>6, <3>8, <4>1 DEF Goes
    <3>12. CASE s.kind = "with"
      <4>1. \E ends : Goes(e, d, ends, Once(s, d, Run), Once(s, d, Run), FALSE)
        BY <1>1, <3>12, ExecutedIs
      <4>2. s.other = <<>>
        BY <3>12, ProgramShape
      <4>3. ~InspectScope[s.other][k].found
        BY <1>2, <4>2, InspectUnfolds
      <4> QED  BY <3>1, <3>5, <4>1, <4>3 DEF Goes
    <3>13. CASE s.kind = "try"
      <4>1. \E ends : Goes(e, d, ends, Once(s, d, Run), Handler(s, d, Run), FALSE)
        BY <1>1, <3>13, ExecutedIs
      <4> QED  BY <3>1, <3>5, <3>9, <4>1 DEF Goes
    <3> QED  BY <2>3, <3>10, <3>11, <3>12, <3>13 DEF Compound
  <2> QED  BY <2>1, <2>2, <2>3 DEF FoundAt
<1> QED  BY <1>4, <1>5

LEMMA RealProgram ==
    ASSUME NEW S, NEW apps, NEW modules, NEW symbols, Disjoint(apps, modules, symbols),
           \A s \in S : Disciplined(s, apps, modules, symbols)
    PROVE  \A p \in Programs : Statements[p] \subseteq S => Real(p, apps, modules, symbols)
<1> DEFINE Holds(p) == Statements[p] \subseteq S => Real(p, apps, modules, symbols)
           G == {p \in Programs : Holds(p)}
<1>1. ASSUME NEW p \in Programs, \A q \in Programs : Size(q) < Size(p) => q \in G
      PROVE  p \in G
  <2> SUFFICES ASSUME Statements[p] \subseteq S, NEW k \in Scopes, NEW d \in Executions,
                      NEW env \in d.envs, ~k.found, Keeps(k, apps, modules, symbols),
                      RightAbout(k, env), InspectScope[p][k].found
               PROVE  Run[p][d].hit
    BY DEF Real
  <2>1. p # <<>>
    BY InspectUnfolds
  <2> DEFINE s == Head(p)
             i == Inspected(s, k, InspectScope)
             e == Executed(s, d, Run)
  <2>2. /\ s \in ToSet(p) /\ s \in S
        /\ Tail(p) \in G /\ Statements[Tail(p)] \subseteq S
        /\ s.body \in G /\ Statements[s.body] \subseteq S
        /\ s.other \in G /\ Statements[s.other] \subseteq S
    BY <1>1, <2>1, Parts, PartsWithin
  <2>3. /\ Real(s.body, apps, modules, symbols) /\ Real(s.other, apps, modules, symbols)
        /\ Real(Tail(p), apps, modules, symbols) /\ Disciplined(s, apps, modules, symbols)
        /\ Tail(p) \in Programs
    BY <2>2
  <2>4. /\ InspectScope[p][k] = InspectScope[Tail(p)][i] /\ Run[p][d] = Run[Tail(p)][e]
        /\ i \in Scopes /\ e \in Executions
    BY <2>1, <2>2, InspectUnfolds, RunUnfolds, InspectedFields, ExecutedTyped
  <2> HIDE DEF s, G
  <2>5. CASE i.found
    <3>1. e.hit
      BY <2>2, <2>3, <2>5, RealStatement
    <3> HIDE DEF e
    <3> QED  BY <2>3, <2>4, <3>1, RunGrows
  <2>6. CASE ~i.found
    <3>1. /\ i.apps = After(s, k).apps /\ i.modules = After(s, k).modules
          /\ i.symbols = After(s, k).symbols
      BY <2>2, <2>6, AfterIs
    <3>2. Keeps(i, apps, modules, symbols)
      BY <2>2, <2>3, <3>1, RolesKept DEF Keeps
    <3>3. PICK f \in e.envs : RightAbout(After(s, k), f)
      BY <2>2, <2>3, RightKept
    <3>4. RightAbout(i, f)
      BY <3>1, <3>3 DEF RightAbout
    <3> HIDE DEF i, e
    <3> QED  BY <2>3, <2>4, <2>6, <3>2, <3>3, <3>4 DEF Real
  <2> QED  BY <2>5, <2>6
<1> HIDE DEF G
<1>2. \A p \in Programs : p \in G
  BY <1>1, ProgramInduction
<1> QED  BY <1>2 DEF G

-----------------------------------------------------------------------------
(* What Unconditional says of one statement.                               *)
Direct(s, modules, symbols) ==
    /\ s.kind \in Compound => NamesBoundIn[s.body] = {} /\ NamesBoundIn[s.other] = {} /\ s.names = {}
    /\ s.kind = "assign" => /\ s.value[2] \notin s.names
                            /\ s.value[1] = "name" => s.value[2] \notin modules \cup symbols

LEMMA Directness ==
    ASSUME NEW p \in Programs, Unconditional(p)
    PROVE  \A s \in Statements[p] : Direct(s, Bindings(p, ImportsModule), Bindings(p, ImportsClass))
<1> SUFFICES ASSUME NEW s \in Statements[p]
             PROVE  Direct(s, Bindings(p, ImportsModule), Bindings(p, ImportsClass))
  OBVIOUS
<1> DEFINE modules == Bindings(p, ImportsModule)
           symbols == Bindings(p, ImportsClass)
<1>1. /\ s.kind \in Compound => NamesBoundIn[s.body] \cup NamesBoundIn[s.other] \cup s.names = {}
      /\ s.kind = "assign" => /\ s.value[2] \notin s.names
                              /\ s.value[1] = "name" => s.value[2] \notin modules \cup symbols
  BY DEF Unconditional
<1> HIDE DEF modules, symbols
<1>2. Direct(s, modules, symbols)
  BY <1>1 DEF Direct
<1> QED  BY <1>2 DEF modules, symbols

(* A value that is an App is taken for one.                                *)
LEMMA AppIsTaken ==
    ASSUME NEW value, NEW k \in Scopes, NEW env \in Environments, Covers(k, env),
           value[1] \in {"name", "symbol()", "module.App()"} => value[2] \in Names,
           ValueOf(value, env) = "app"
    PROVE  \/ IsAppConstructor(value, k)
           \/ value[1] = "name" /\ value[2] \in k.apps
<1>1. CASE value[1] = "name"
  <2>1. env[value[2]] = "app" /\ value[2] \in Names
    BY <1>1 DEF ValueOf
  <2> QED  BY <1>1, <2>1 DEF Covers
<1>2. CASE value[1] = "symbol()"
  <2>1. env[value[2]] = "class" /\ value[2] \in Names
    BY <1>2 DEF ValueOf
  <2> QED  BY <1>2, <2>1 DEF Covers, IsAppConstructor
<1>3. CASE value[1] = "module.App()"
  <2>1. env[value[2]] = "module" /\ value[2] \in Names
    BY <1>3 DEF ValueOf
  <2> QED  BY <1>3, <2>1 DEF Covers, IsAppConstructor
<1>4. CASE value[1] \notin {"name", "symbol()", "module.App()"}
  BY <1>4 DEF ValueOf
<1> QED  BY <1>1, <1>2, <1>3, <1>4

(* The scope goes on covering every environment of the execution.          *)
LEMMA CoversKept ==
    ASSUME NEW p \in Programs, NEW s \in ToSet(p), NEW k \in Scopes, NEW d \in Executions,
           NEW apps, NEW modules, NEW symbols,
           Disciplined(s, apps, modules, symbols), Keeps(k, apps, modules, symbols),
           Direct(s, modules, symbols),
           \A env \in d.envs : Covers(k, env)
    PROVE  \A env \in Executed(s, d, Run).envs : Covers(After(s, k), env)
<1> DEFINE t == After(s, k)
           e == Executed(s, d, Run)
<1>1. Run \in [Programs -> [Executions -> Executions]]
  BY RunUnfolds
<1>2. /\ s.names \in SUBSET Names /\ d.envs \in SUBSET Environments
      /\ k.apps \in SUBSET Names /\ k.modules \in SUBSET Names /\ k.symbols \in SUBSET Names
      /\ s.body \in Programs /\ s.other \in Programs
  BY ProgramShape, ExecutionFields, ScopeFields
<1>3. CASE s.kind \in Compound
  <2>1. BoundBy(s, NamesBoundIn) = {} /\ NamesBoundIn[s.body] = {} /\ NamesBoundIn[s.other] = {}
    BY <1>3 DEF BoundBy, Compound, Direct
  <2>2. \A q \in {s.body, s.other} : \A x \in Executions : Still(x, Run[q][x])
    BY <1>2, <2>1, StillProgram
  <2>3. e.envs \subseteq d.envs
    BY <2>1, <2>2, StillStatement DEF Still
  <2>4. t.apps = k.apps /\ t.modules = k.modules /\ t.symbols = k.symbols
    <3>1. s.names \cup NamesBoundIn[s.body] \cup NamesBoundIn[s.other] = {}
      BY <1>3, <2>1 DEF Direct
    <3> DEFINE gone == s.names \cup NamesBoundIn[s.body] \cup NamesBoundIn[s.other]
    <3>2. t.apps = k.apps \ gone /\ t.modules = k.modules \ gone /\ t.symbols = k.symbols \ gone
      BY <1>3, AfterFields
    <3>3. gone = {}
      BY <3>1
    <3> HIDE DEF gone, t
    <3> QED  BY <3>2, <3>3
  <2> QED  BY <2>3, <2>4 DEF Covers
<1>4. ASSUME s.kind \notin Compound, NEW env \in d.envs PROVE Covers(t, Bound(env, s))
  <2> DEFINE f == Bound(env, s)
  <2>1. env \in Environments /\ Covers(k, env)
    BY <1>2
  <2>2. \A n \in Names \ Targets(s) : f[n] = env[n]
    BY <2>1, BoundIs
  <2>3. s.kind \in Binding => \A n \in Names : f[n] = IF n \in Targets(s) THEN Thing(env, s) ELSE env[n]
    BY <2>1, BoundIs
  <2>4. s.kind \notin Binding => f = env
    BY <2>1, BoundIs
  <2> HIDE DEF f
  <2>5. CASE s.kind = "import"
    <3>1. t.apps = k.apps /\ t.symbols = k.symbols /\ t.modules = k.modules \cup s.names
      BY <2>5, AfterFields DEF Disciplined
    <3>2. Targets(s) = s.names /\ Thing(env, s) = "module" /\ s.kind \in Binding
      BY <2>5 DEF Targets, Thing, Disciplined, Binding
    <3> HIDE DEF t
    <3> QED  BY <2>1, <2>3, <3>1, <3>2 DEF Covers, f
  <2>6. CASE s.kind = "from"
    <3>1. t.apps = k.apps /\ t.modules = k.modules /\ t.symbols = k.symbols \cup s.names
      BY <2>6, AfterFields DEF Disciplined
    <3>2. Targets(s) = s.names /\ Thing(env, s) = "class" /\ s.kind \in Binding
      BY <2>6 DEF Targets, Thing, Disciplined, Binding
    <3> HIDE DEF t
    <3> QED  BY <2>1, <2>3, <3>1, <3>2 DEF Covers, f
  <2>7. CASE s.kind = "assign"
    <3>1. /\ t.modules = k.modules \ s.names /\ t.symbols = k.symbols \ s.names
          /\ t.apps = (k.apps \ s.names) \cup IF IsApp(s.value, k, s.names) THEN s.names ELSE {}
      BY <2>7, AfterFields
    <3>2. Targets(s) = s.names /\ s.kind \in Binding /\ Thing(env, s) = ValueOf(s.value, env)
      BY <2>7 DEF Targets, Binding, Thing
    <3>3. s.value[1] \in {"name", "symbol()", "module.App()"} => s.value[2] \in Names
      BY ProgramShape
    <3>4. ValueOf(s.value, env) = "app" => IsApp(s.value, k, s.names)
      <4>1. SUFFICES ASSUME ValueOf(s.value, env) = "app" PROVE IsApp(s.value, k, s.names)
        OBVIOUS
      <4>2. \/ IsAppConstructor(s.value, k)
            \/ s.value[1] = "name" /\ s.value[2] \in k.apps
        BY <2>1, <3>3, <4>1, AppIsTaken
      <4>3. s.value[2] \notin s.names
        BY <2>7 DEF Direct
      <4>4. /\ Without(k, s.names).symbols = k.symbols \ s.names
            /\ Without(k, s.names).modules = k.modules \ s.names
        BY <1>2, ScopeFields
      <4> QED  BY <4>2, <4>3, <4>4 DEF IsApp, IsAppConstructor
    <3>5. ValueOf(s.value, env) \notin {"module", "class"}
      <4>1. CASE s.value[1] = "name"
        <5>1. ValueOf(s.value, env) = env[s.value[2]] /\ s.value[2] \in Names
          BY <3>3, <4>1 DEF ValueOf
        <5>2. s.value[2] \notin k.modules /\ s.value[2] \notin k.symbols
          BY <2>7, <4>1 DEF Direct, Keeps
        <5> QED  BY <2>1, <5>1, <5>2 DEF Covers
      <4>2. CASE s.value[1] # "name"
        BY <4>2 DEF ValueOf
      <4> QED  BY <4>1, <4>2
    <3> HIDE DEF t
    <3> QED  BY <2>1, <2>3, <3>1, <3>2, <3>4, <3>5 DEF Covers, f
  <2>8. CASE s.kind \notin {"import", "from", "assign"}
    <3>1. t = k
      BY <1>4, <2>8, AfterFields
    <3>2. s.kind \in Binding => Thing(env, s) = "other"
      BY <2>8 DEF Thing
    <3>3. CASE s.kind \in Binding
      BY <2>1, <2>3, <3>1, <3>2, <3>3 DEF Covers, f
    <3>4. CASE s.kind \notin Binding
      BY <2>1, <2>4, <3>1, <3>4 DEF f
    <3> QED  BY <3>3, <3>4
  <2> QED  BY <2>5, <2>6, <2>7, <2>8
<1>5. CASE s.kind \notin Compound
  <2>1. s.kind = "def" \/ Plain(s)
    BY <1>5 DEF Plain, Compound
  <2>2. e.envs = {Bound(env, s) : env \in d.envs}
    BY <1>1, <2>1, ExecutedIs DEF Goes, Starts
  <2> HIDE DEF e, t
  <2>3. \A env \in e.envs : Covers(t, env)
    BY <1>4, <1>5, <2>2
  <2> QED  BY <2>3 DEF e, t
<1> QED  BY <1>3, <1>5

(* What an execution of q does, inspect_scope finds in q, when the scope   *)
(* covers every environment it may start in.                               *)
Found(q, apps, modules, symbols) ==
    \A k \in Scopes : \A d \in Executions :
        /\ ~k.found /\ Keeps(k, apps, modules, symbols) /\ (\A env \in d.envs : Covers(k, env))
        /\ ~d.hit /\ Run[q][d].hit
        => InspectScope[q][k].found

(* The same of one statement.                                              *)
LEMMA FoundStatement ==
    ASSUME NEW p \in Programs, NEW s \in ToSet(p), NEW k \in Scopes, NEW d \in Executions,
           NEW apps, NEW modules, NEW symbols,
           Disciplined(s, apps, modules, symbols), Keeps(k, apps, modules, symbols),
           Direct(s, modules, symbols), ~k.found, ~d.hit,
           \A env \in d.envs : Covers(k, env),
           Found(s.body, apps, modules, symbols), Found(s.other, apps, modules, symbols),
           Executed(s, d, Run).hit
    PROVE  Inspected(s, k, InspectScope).found
<1> DEFINE e == Executed(s, d, Run)
<1>1. /\ Run \in [Programs -> [Executions -> Executions]]
      /\ InspectScope \in [Programs -> [Scopes -> Scopes]]
  BY RunUnfolds, InspectUnfolds
<1>2. /\ s.names \in SUBSET Names /\ s.body \in Programs /\ s.other \in Programs
      /\ d.envs \in SUBSET Environments
      /\ k.apps \in SUBSET Names /\ k.modules \in SUBSET Names /\ k.symbols \in SUBSET Names
  BY ProgramShape, ExecutionFields, ScopeFields
<1>3. ASSUME s.kind # "def", FoundAt(s, k, InspectScope) PROVE Inspected(s, k, InspectScope).found
  <2> DEFINE a == IF s.kind \in Compound THEN AfterSuites(BeforeSuites(k, s), s) ELSE BeforeSuites(k, s)
  <2>1. Inspected(s, k, InspectScope) = [a EXCEPT !.found = FoundAt(s, k, InspectScope)]
    BY <1>1, <1>3, InspectedFields
  <2>2. BeforeSuites(k, s) \in Scopes /\ s.names \cup NamesBoundIn[s.body] \cup NamesBoundIn[s.other] \in SUBSET Names
    BY <1>2, BeforeTyped, NamesUnfold
  <2>3. a \in Scopes
    BY <2>2, ScopeFields DEF AfterSuites
  <2>4. FoundAt(s, k, InspectScope) \in BOOLEAN
    BY DEF FoundAt
  <2> HIDE DEF a
  <2> QED  BY <1>3, <2>1, <2>3, <2>4, ScopeFields
<1>4. CASE s.kind = "def"
  <2> DEFINE w == Without(k, s.names)
  <2>1. Inspected(s, k, InspectScope) = [k EXCEPT !.found = InspectScope[s.body][w].found]
    BY <1>1, <1>4, InspectedFields
  <2>2. /\ w \in Scopes /\ w.apps = k.apps \ s.names /\ w.modules = k.modules \ s.names
        /\ w.symbols = k.symbols \ s.names /\ w.found = k.found
    BY <1>2, ScopeFields
  <2> HIDE DEF w
  <2>3. NamesBoundIn[s.body] = {}
    BY <1>4 DEF Disciplined
  <2>4. \A env \in Shadowed(s, d) : Covers(w, env)
    <3>1. ASSUME NEW env \in d.envs
          PROVE  Covers(w, Bind(env, s.names \cup NamesBoundIn[s.body], "other"))
      <4> DEFINE f == Bind(env, s.names \cup NamesBoundIn[s.body], "other")
      <4>1. env \in Environments
        BY <1>2
      <4>2. \A n \in Names : f[n] = IF n \in s.names THEN "other" ELSE env[n]
        BY <2>3, <4>1, BindTyped
      <4> HIDE DEF f
      <4>3. Covers(w, f)
        BY <2>2, <4>2 DEF Covers
      <4> QED  BY <4>3 DEF f
    <3> QED  BY <3>1 DEF Shadowed
  <2>5. Keeps(w, apps, modules, symbols)
    BY <2>2 DEF Keeps
  <2>6. Inner(s, d, Run).hit
    <3>1. Goes(e, d, Starts(s, d), d, d, Inner(s, d, Run).hit)
      BY <1>1, <1>4, ExecutedIs
    <3> QED  BY <3>1 DEF Goes
  <2>7. InspectScope[s.body][w].found
    <3>1. Shadowed(s, d) \in SUBSET Environments
      BY <1>1, SuitesTyped
    <3>2. /\ Started(Shadowed(s, d)) \in Executions
          /\ Started(Shadowed(s, d)).envs = Shadowed(s, d) /\ ~Started(Shadowed(s, d)).hit
      BY <3>1, StartedTyped
    <3> QED  BY <2>2, <2>4, <2>5, <2>6, <3>2 DEF Found, Inner
  <2>8. PICK b \in BOOLEAN : b = InspectScope[s.body][w].found
    BY <1>1, <1>2, <2>2, ScopeFields
  <2>9. Inspected(s, k, InspectScope) = [k EXCEPT !.found = b]
    BY <2>1, <2>8
  <2>10. [k EXCEPT !.found = b].found = b
    BY ScopeFields
  <2> QED  BY <2>7, <2>8, <2>9, <2>10
<1>5. CASE s.kind \in Compound
  <2>1. /\ BoundBy(s, NamesBoundIn) = {} /\ s.kind # "def"
        /\ NamesBoundIn[s.body] = {} /\ NamesBoundIn[s.other] = {}
    BY <1>5 DEF BoundBy, Compound, Direct
  <2>2. \A q \in {s.body, s.other} : \A x \in Executions : Still(x, Run[q][x])
    BY <1>2, <2>1, StillProgram
  <2>3. /\ \A env \in Environments : Bound(env, s) = env
        /\ Starts(s, d) = d.envs
        /\ Again(s, d, Run).envs \subseteq d.envs /\ Once(s, d, Run).envs \subseteq d.envs
        /\ Once(s, d, Run).seen \subseteq d.envs
    BY <2>1, <2>2, StillStatement
  <2>4. ASSUME NEW q \in {s.body, s.other}, NEW envs, envs \subseteq d.envs, Run[q][Started(envs)].hit
        PROVE  FoundAt(s, k, InspectScope)
    <3>1. envs \in SUBSET Environments
      BY <1>2, <2>4
    <3>2. Started(envs) \in Executions /\ Started(envs).envs = envs /\ ~Started(envs).hit
      BY <3>1, StartedTyped
    <3>3. InspectScope[q][k].found
      BY <2>4, <3>2 DEF Found
    <3>4. BeforeSuites(k, s) = k
      BY <1>2, <1>5, BeforeTyped DEF Compound
    <3> QED  BY <1>5, <2>4, <3>3, <3>4 DEF FoundAt
  <2>5. Once(s, d, Run).hit \/ Otherwise(s, d, Run).hit => FoundAt(s, k, InspectScope)
    BY <2>3, <2>4 DEF Once, Otherwise
  <2>6. Again(s, d, Run).hit => FoundAt(s, k, InspectScope)
    <3>1. {Bound(env, s) : env \in Once(s, d, Run).envs} \cup Starts(s, d) \subseteq d.envs
      BY <1>2, <2>3
    <3> QED  BY <2>4, <3>1 DEF Again
  <2>7. AtEnd(s, d, Run).hit => FoundAt(s, k, InspectScope)
    BY <2>3, <2>4 DEF AtEnd
  <2>8. Handler(s, d, Run).hit => FoundAt(s, k, InspectScope)
    BY <2>3, <2>4 DEF Handler
  <2>9. \E ends : \/ Goes(e, d, ends, Once(s, d, Run), Otherwise(s, d, Run), FALSE)
                  \/ Goes(e, d, ends, Again(s, d, Run), AtEnd(s, d, Run), FALSE)
                  \/ Goes(e, d, ends, Once(s, d, Run), Once(s, d, Run), FALSE)
                  \/ Goes(e, d, ends, Once(s, d, Run), Handler(s, d, Run), FALSE)
    BY <1>1, <1>5, ExecutedIs DEF Compound
  <2>10. FoundAt(s, k, InspectScope)
    <3> HIDE DEF e
    <3>1. e.hit
      BY DEF e
    <3> QED  BY <2>5, <2>6, <2>7, <2>8, <2>9, <3>1 DEF Goes
  <2> QED  BY <1>3, <2>1, <2>10
<1>6. CASE s.kind # "def" /\ s.kind \notin Compound
  <2>1. Goes(e, d, Starts(s, d), d, d, Calls(s, d)) /\ Plain(s)
    BY <1>1, <1>6, ExecutedIs DEF Plain, Compound
  <2>2. PICK env \in Starts(s, d) : s.kind = "add_api" /\ ValueOf(s.value, env) = "app"
    BY <2>1 DEF Goes, Calls
  <2>3. PICK f \in d.envs : env = Bound(f, s)
    BY <2>2 DEF Starts
  <2>4. env \in Environments /\ Covers(k, env)
    BY <1>2, <2>2, <2>3, BoundIs DEF Binding
  <2>5. BeforeSuites(k, s) = k
    BY <1>2, <2>2, BeforeTyped
  <2>6. FoundAt(s, k, InspectScope)
    BY <2>2, <2>4, <2>5, AppIsTaken, ProgramShape DEF FoundAt, Registers
  <2> QED  BY <1>3, <1>6, <2>6
<1> QED  BY <1>4, <1>5, <1>6

LEMMA FoundProgram ==
    ASSUME NEW S, NEW apps, NEW modules, NEW symbols,
           \A s \in S : Disciplined(s, apps, modules, symbols) /\ Direct(s, modules, symbols)
    PROVE  \A p \in Programs : Statements[p] \subseteq S => Found(p, apps, modules, symbols)
<1> DEFINE Holds(p) == Statements[p] \subseteq S => Found(p, apps, modules, symbols)
           G == {p \in Programs : Holds(p)}
<1>1. ASSUME NEW p \in Programs, \A q \in Programs : Size(q) < Size(p) => q \in G
      PROVE  p \in G
  <2> SUFFICES ASSUME Statements[p] \subseteq S, NEW k \in Scopes, NEW d \in Executions,
                      ~k.found, Keeps(k, apps, modules, symbols),
                      \A env \in d.envs : Covers(k, env), ~d.hit, Run[p][d].hit
               PROVE  InspectScope[p][k].found
    BY DEF Found
  <2>1. p # <<>>
    BY RunUnfolds
  <2> DEFINE s == Head(p)
             i == Inspected(s, k, InspectScope)
             e == Executed(s, d, Run)
  <2>2. /\ s \in ToSet(p) /\ s \in S
        /\ Tail(p) \in G /\ Statements[Tail(p)] \subseteq S
        /\ s.body \in G /\ Statements[s.body] \subseteq S
        /\ s.other \in G /\ Statements[s.other] \subseteq S
    BY <1>1, <2>1, Parts, PartsWithin
  <2>3. /\ Found(s.body, apps, modules, symbols) /\ Found(s.other, apps, modules, symbols)
        /\ Found(Tail(p), apps, modules, symbols)
        /\ Disciplined(s, apps, modules, symbols) /\ Direct(s, modules, symbols)
        /\ Tail(p) \in Programs
    BY <2>2
  <2>4. /\ InspectScope[p][k] = InspectScope[Tail(p)][i] /\ Run[p][d] = Run[Tail(p)][e]
        /\ i \in Scopes /\ e \in Executions
    BY <2>1, <2>2, InspectUnfolds, RunUnfolds, InspectedFields, ExecutedTyped
  <2> HIDE DEF s, G
  <2>5. CASE i.found
    <3> HIDE DEF i, e
    <3> QED  BY <2>3, <2>4, <2>5, InspectUnfolds
  <2>6. CASE ~i.found
    <3>1. ~e.hit
      BY <2>2, <2>3, <2>6, FoundStatement
    <3>2. /\ i.apps = After(s, k).apps /\ i.modules = After(s, k).modules
          /\ i.symbols = After(s, k).symbols
      BY <2>2, <2>6, AfterIs
    <3>3. Keeps(i, apps, modules, symbols)
      BY <2>2, <2>3, <3>2, RolesKept DEF Keeps
    <3>4. \A f \in e.envs : Covers(After(s, k), f)
      BY <2>2, <2>3, CoversKept
    <3>5. \A f \in e.envs : Covers(i, f)
      BY <3>2, <3>4 DEF Covers
    <3> HIDE DEF i, e
    <3> QED  BY <2>3, <2>4, <2>6, <3>1, <3>3, <3>5 DEF Found
  <2> QED  BY <2>5, <2>6
<1> HIDE DEF G
<1>2. \A p \in Programs : p \in G
  BY <1>1, ProgramInduction
<1> QED  BY <1>2 DEF G

(* The analysis starts with no names known, and an execution with every    *)
(* name standing for something else.                                       *)
LEMMA AtTheStart ==
    LET start == [n \in Names |-> "other"]
    IN  /\ NoNames \in Scopes /\ ~NoNames.found
        /\ \A apps, modules, symbols : Keeps(NoNames, apps, modules, symbols)
        /\ Started({start}) \in Executions /\ Started({start}).envs = {start} /\ ~Started({start}).hit
        /\ RightAbout(NoNames, start) /\ Covers(NoNames, start)
<1>1. [n \in Names |-> "other"] \in Environments
  BY DEF Environments
<1>2. NoNames \in Scopes /\ ~NoNames.found /\ NoNames.apps = {} /\ NoNames.modules = {} /\ NoNames.symbols = {}
  BY DEF NoNames, Scope, Scopes
<1>3. \A apps, modules, symbols : Keeps(NoNames, apps, modules, symbols)
  BY <1>2 DEF Keeps
<1>4. RightAbout(NoNames, [n \in Names |-> "other"])
  BY <1>2 DEF RightAbout
<1>5. Covers(NoNames, [n \in Names |-> "other"])
  BY DEF Covers
<1>6. {[n \in Names |-> "other"]} \in SUBSET Environments
  BY <1>1
<1>7. LET d == Started({[n \in Names |-> "other"]})
      IN  d \in Executions /\ d.envs = {[n \in Names |-> "other"]} /\ d.hit = FALSE
  BY <1>6, StartedTyped
<1> QED  BY <1>2, <1>3, <1>4, <1>5, <1>7

(* A program taken for a Connexion application is one: whatever the        *)
(* program, as long as names are bound by assignments.                     *)
THEOREM RegistrationSound ==
    ASSUME NEW p \in Programs, OnlyAssigned(p), HasConnexionRegistration(p)
    PROVE  Executes(p)
<1>1. PICK apps, modules, symbols :
         /\ Disjoint(apps, modules, symbols)
         /\ \A s \in Statements[p] : Disciplined(s, apps, modules, symbols)
  BY Discipline
<1>2. Real(p, apps, modules, symbols)
  BY <1>1, RealProgram
<1> QED  BY <1>2, AtTheStart DEF Real, HasConnexionRegistration, Executes

(* And a program of which some execution registers an API is taken for     *)
(* one, when no suite binds a name and no alias hides what it is made of.  *)
THEOREM RegistrationComplete ==
    ASSUME NEW p \in Programs, OnlyAssigned(p), Unconditional(p), Executes(p)
    PROVE  HasConnexionRegistration(p)
<1>1. PICK apps, modules, symbols :
         \A s \in Statements[p] : Disciplined(s, apps, modules, symbols) /\ Direct(s, modules, symbols)
  BY Discipline, Directness
<1>2. Found(p, apps, modules, symbols)
  BY <1>1, FoundProgram
<1> QED  BY <1>2, AtTheStart DEF Found, HasConnexionRegistration, Executes

(* So of every module of every source directory: it is taken for an        *)
(* application if some execution registers an API, and only then           *)
(* (connexion.py:30-222).                                                  *)
THEOREM RegistrationIsAlwaysExecuted == SourceSpec => []RegistrationIsExecuted
<1>1. ASSUME SourceInv PROVE RegistrationIsExecuted
  <2>1. ASSUME NEW i \in DOMAIN project.files PROVE project.files[i].program \in Programs
    <3>1. project.files \in Seq(SourceFiles)
      BY <1>1, DirectoryTyped DEF SourceInv, Directory
    <3>2. project.files[i] \in SourceFiles
      BY <2>1, <3>1
    <3> QED  BY <3>2 DEF SourceFiles
  <2>2. RegistrationIsReal
    BY <2>1, RegistrationSound DEF RegistrationIsReal
  <2>3. RegistrationFound
    BY <2>1, RegistrationComplete DEF RegistrationFound
  <2> QED  BY <2>2, <2>3 DEF RegistrationIsExecuted
<1> QED  BY <1>1, SourceInvariant, PTL

-----------------------------------------------------------------------------
(* The correlation.  MatcherInv says of every pair what its operation      *)
(* could choose from when it was made; FindingsInv says which findings     *)
(* there are at each stage.  Whatever the rules compare is fixed once      *)
(* matching is over.                                                       *)

(* What is known of the i-th pair. *)
PairOK(i) ==
    /\ pairs[i].state \in {EXACT, NORMALIZED} => pairs[i].endpoint \in Eligible(i)
    /\ pairs[i].state \in {AMBIGUOUS, NONE} => pairs[i].endpoint = 0
    /\ pairs[i].state = NONE <=> SameTemplate(operations[i]) = {}
    /\ pairs[i].endpoint \in TakenBy(i - 1) => Eligible(i) \subseteq TakenBy(i - 1)

Unpaired == {i \in DOMAIN pairs : pairs[i].state = NONE}

(* match_endpoints has returned, before or after its loop. *)
Returned ==
    \/ /\ pairs = <<>> /\ unmatched = DOMAIN operations
       /\ operations = <<>> \/ endpoints = <<>>
    \/ Len(pairs) = Len(operations) /\ unmatched = Unpaired

MatcherInv ==
    /\ MatcherTypeOK
    /\ claimed = TakenBy(Len(pairs))
    /\ \A i \in DOMAIN pairs : PairOK(i)
    /\ endpoints = <<>> => pairs = <<>>
    /\ ~matched => unmatched = Unpaired
    /\ matched => Returned

----------------------------------------------------------------------------
LEMMA Lengths ==
    ASSUME MatcherTypeOK
    PROVE  /\ Len(operations) \in Nat /\ DOMAIN operations = 1 .. Len(operations)
           /\ Len(endpoints) \in Nat /\ DOMAIN endpoints = 1 .. Len(endpoints)
           /\ Len(pairs) \in Nat /\ DOMAIN pairs = 1 .. Len(pairs)
           /\ \A i \in DOMAIN pairs : pairs[i] \in Pairs
  BY MatcherAssumption DEF MatcherTypeOK

(* Equal paths have equal templates: both keys are made of the stripped    *)
(* path.                                                                   *)
LEMMA PathIsTemplate ==
    ASSUME NEW op PROVE SamePath(op) \subseteq SameTemplate(op)
  BY DEF SamePath, SameTemplate, Canonical

LEMMA CandidatesAreEndpoints ==
    ASSUME NEW op, MatcherTypeOK
    PROVE  /\ SamePath(op) \subseteq 1 .. Len(endpoints)
           /\ SameTemplate(op) \subseteq 1 .. Len(endpoints)
  BY Lengths DEF SamePath, SameTemplate

(* The pool offers a taken endpoint only when all candidates are taken. *)
LEMMA PoolOffers ==
    ASSUME NEW candidates, NEW e \in Pool(candidates)
    PROVE  e \in candidates /\ (e \in claimed => candidates \subseteq claimed)
  BY DEF Pool

LEMMA PoolNotEmpty ==
    ASSUME NEW candidates, candidates # {}
    PROVE  Pool(candidates) # {}
  BY DEF Pool

----------------------------------------------------------------------------
(* What is known of a pair depends on nothing else. *)
LEMMA PairKept ==
    ASSUME NEW i, UNCHANGED <<operations, endpoints, pairs>>, PairOK(i)
    PROVE  PairOK(i)'
<1>1. Eligible(i)' = Eligible(i)
  BY DEF Eligible, SamePath, SameTemplate
<1>2. SameTemplate(operations[i])' = SameTemplate(operations[i])
  BY DEF SameTemplate
<1>3. TakenBy(i - 1)' = TakenBy(i - 1)
  BY DEF TakenBy
<1> QED BY <1>1, <1>2, <1>3 DEF PairOK

(* A step that appends one pair keeps what is known of the earlier ones.   *)
LEMMA AppendKeeps ==
    ASSUME MatcherInv, Matching, NEW p \in Pairs, NEW n \in Nat, n = Len(pairs) + 1,
           p.endpoint \in 0 .. Len(endpoints),
           pairs' = Append(pairs, p), UNCHANGED <<operations, endpoints, matched>>,
           claimed' = claimed \cup ({p.endpoint} \ {0}),
           unmatched' = unmatched \cup (IF p.state = NONE THEN {n} ELSE {}),
           PairOK(n)'
    PROVE  MatcherInv'
<1>1. /\ Len(pairs) \in Nat /\ DOMAIN pairs = 1 .. Len(pairs) /\ pairs \in Seq(Pairs)
      /\ Len(operations) \in Nat /\ DOMAIN operations = 1 .. Len(operations)
      /\ Len(pairs) < Len(operations)
  BY Lengths DEF MatcherInv, MatcherTypeOK, Matching
<1>2. /\ pairs' \in Seq(Pairs) /\ Len(pairs') = n /\ DOMAIN pairs' = 1 .. n
      /\ pairs'[n] = p
      /\ \A i \in 1 .. Len(pairs) : pairs'[i] = pairs[i]
  BY <1>1
<1>3. MatcherTypeOK'
  <2>1. \A i \in DOMAIN pairs' : pairs'[i].endpoint \in 0 .. Len(endpoints)
    BY <1>1, <1>2 DEF MatcherInv, MatcherTypeOK
  <2>2. claimed' \subseteq DOMAIN endpoints'
    BY Lengths DEF MatcherInv, MatcherTypeOK
  <2>3. unmatched' \subseteq DOMAIN operations'
    BY <1>1 DEF MatcherInv, MatcherTypeOK
  <2> QED BY <1>1, <1>2, <2>1, <2>2, <2>3 DEF MatcherInv, MatcherTypeOK
<1>4. \A k \in 0 .. Len(pairs) : TakenBy(k)' = TakenBy(k)
  BY <1>1, <1>2 DEF TakenBy
<1>5. claimed' = TakenBy(Len(pairs))'
  <2>1. TakenBy(n)' = TakenBy(Len(pairs)) \cup ({p.endpoint} \ {0})
    <3>1. \A i \in 1 .. n : i \in 1 .. Len(pairs) \/ i = n
      BY <1>1
    <3>2. n \in 1 .. n /\ 1 .. Len(pairs) \subseteq 1 .. n
      BY <1>1
    <3> QED BY <1>2, <3>1, <3>2 DEF TakenBy
  <2> QED BY <1>2, <2>1 DEF MatcherInv, TakenBy
<1>6. ASSUME NEW i \in DOMAIN pairs' PROVE PairOK(i)'
  <2>1. CASE i = n
    BY <2>1
  <2>2. CASE i # n
    <3>1. i \in 1 .. Len(pairs) /\ i - 1 \in 0 .. Len(pairs)
      BY <1>1, <1>2, <2>2
    <3>2. PairOK(i)
      BY <1>1, <3>1 DEF MatcherInv
    <3>3. pairs'[i] = pairs[i] /\ TakenBy(i - 1)' = TakenBy(i - 1)
      BY <1>2, <1>4, <3>1
    <3>4. Eligible(i)' = Eligible(i) /\ SameTemplate(operations[i])' = SameTemplate(operations[i])
      BY <3>3 DEF Eligible, SamePath, SameTemplate
    <3> QED BY <3>2, <3>3, <3>4 DEF PairOK
  <2> QED BY <2>1, <2>2
<1>7. unmatched' = Unpaired'
  <2>1. unmatched = Unpaired
    BY DEF MatcherInv, Matching
  <2> QED BY <1>1, <1>2, <2>1 DEF Unpaired
<1> QED BY <1>3, <1>5, <1>6, <1>7 DEF MatcherInv, Matching

(* A claim by way of the pool shares only when it has to.                  *)
LEMMA ClaimKeeps ==
    ASSUME MatcherInv, Matching, NEW candidates, NEW e \in Pool(candidates),
           NEW state \in {EXACT, NORMALIZED}, Claim(e, state),
           candidates = IF state = EXACT THEN SamePath(Current) ELSE SameTemplate(Current)
    PROVE  MatcherInv'
<1> DEFINE p == [endpoint |-> e, state |-> state]
<1>1. Len(pairs) \in Nat /\ pairs \in Seq(Pairs)
  BY DEF MatcherInv, MatcherTypeOK
<1>n. PICK n \in Nat : n = Len(pairs) + 1
  BY <1>1
<1>2. e \in candidates /\ (e \in claimed => candidates \subseteq claimed)
  BY PoolOffers
<1>3. e \in 1 .. Len(endpoints) /\ Len(endpoints) \in Nat
  BY <1>2, CandidatesAreEndpoints, Lengths DEF MatcherInv
<1>4. p \in Pairs /\ p.endpoint \in 0 .. Len(endpoints) /\ p.endpoint # 0 /\ p.state # NONE
  BY <1>3 DEF Pairs, EXACT, NORMALIZED, NONE
<1>5. pairs'[n] = p /\ pairs' = Append(pairs, p)
  BY <1>1, <1>n, <1>4 DEF Claim
<1>6. TakenBy(n - 1)' = claimed
  <2>1. \A i \in 1 .. Len(pairs) : pairs'[i] = pairs[i]
    BY <1>1, <1>4, <1>5
  <2> QED BY <1>1, <1>n, <2>1 DEF TakenBy, MatcherInv, Claim
<1>7. Eligible(n)' = candidates
  BY <1>5, <1>n DEF Eligible, Claim, Current, SamePath, SameTemplate
<1>8. SameTemplate(operations[n])' # {}
  BY <1>2, <1>n, PathIsTemplate DEF Claim, Current, SameTemplate
<1>9. PairOK(n)'
  BY <1>2, <1>4, <1>5, <1>6, <1>7, <1>8
  DEF PairOK, EXACT, NORMALIZED, AMBIGUOUS, NONE
<1> QED BY <1>4, <1>5, <1>9, <1>n, AppendKeeps DEF Claim, MatcherInv, MatcherTypeOK

(* An operation that takes nothing. *)
LEMMA PassKeeps ==
    ASSUME MatcherInv, Matching, NEW state \in {AMBIGUOUS, NONE},
           state = NONE <=> SameTemplate(Current) = {},
           pairs' = Append(pairs, [endpoint |-> 0, state |-> state]),
           UNCHANGED <<operations, endpoints, claimed, matched>>,
           unmatched' = unmatched \cup (IF state = NONE THEN {Len(pairs) + 1} ELSE {})
    PROVE  MatcherInv'
<1> DEFINE p == [endpoint |-> 0, state |-> state]
<1>1. Len(pairs) \in Nat /\ pairs \in Seq(Pairs) /\ Len(endpoints) \in Nat
  BY Lengths DEF MatcherInv, MatcherTypeOK
<1>n. PICK n \in Nat : n = Len(pairs) + 1
  BY <1>1
<1>2. p \in Pairs /\ p.endpoint \in 0 .. Len(endpoints)
  BY <1>1 DEF Pairs
<1>3. pairs'[n] = p
  BY <1>1, <1>2, <1>n
<1>4. 0 \notin TakenBy(n - 1)'
  BY DEF TakenBy
<1>5. SameTemplate(operations[n])' = SameTemplate(Current)
  BY <1>n DEF Current, SameTemplate
<1>6. /\ pairs'[n].endpoint = 0 /\ pairs'[n].state = state
      /\ state \notin {EXACT, NORMALIZED}
  <2>1. p.endpoint = 0 /\ p.state = state
    OBVIOUS
  <2> HIDE DEF p
  <2>2. pairs'[n].endpoint = 0 /\ pairs'[n].state = state
    BY <1>3, <2>1
  <2> QED BY <2>2 DEF EXACT, NORMALIZED, AMBIGUOUS, NONE
<1>7. PairOK(n)'
  BY <1>4, <1>5, <1>6 DEF PairOK
<1> QED BY <1>2, <1>7, <1>n, AppendKeeps

LEMMA MatcherStart == MatcherInit => MatcherInv
<1> SUFFICES ASSUME MatcherInit PROVE MatcherInv
  OBVIOUS
<1>1. pairs \in Seq(Pairs) /\ Len(pairs) = 0 /\ DOMAIN pairs = {}
  BY DEF MatcherInit
<1>2. Len(operations) \in Nat /\ matched \in BOOLEAN
  BY MatcherAssumption DEF MatcherInit
<1>3. MatcherTypeOK
  BY <1>1, <1>2 DEF MatcherInit, MatcherTypeOK
<1> QED BY <1>1, <1>3 DEF MatcherInit, MatcherInv, TakenBy, Unpaired

(* Every step of the matcher. *)
LEMMA MatcherStep == MatcherInv /\ MatchEndpoints => MatcherInv'
<1> SUFFICES ASSUME MatcherInv, MatchEndpoints PROVE MatcherInv'
  OBVIOUS
<1>1. CASE MatchExact
  BY <1>1, ClaimKeeps DEF MatchExact, EXACT
<1>2. CASE MatchTemplate
  BY <1>2, ClaimKeeps DEF MatchTemplate, EXACT, NORMALIZED
<1>3. CASE MatchHandler
  BY <1>3, ClaimKeeps DEF MatchHandler, Named, EXACT, NORMALIZED
<1>4. CASE MatchAmbiguous
  <2>1. SameTemplate(Current) # {}
    <3>1. SUFFICES ASSUME SameTemplate(Current) = {} PROVE FALSE
      OBVIOUS
    <3>2. Pool(SameTemplate(Current)) = {}
      BY <3>1 DEF Pool
    <3> QED BY <1>4, <3>2, FS_EmptySet DEF MatchAmbiguous
  <2> QED BY <1>4, <2>1, PassKeeps DEF MatchAmbiguous, AMBIGUOUS, NONE
<1>5. CASE MatchNone
  BY <1>5, PassKeeps DEF MatchNone, NONE
<1>6. CASE ReturnEarly
  <2>1. pairs = <<>>
    <3>1. CASE operations = <<>>
      BY <3>1, Lengths DEF MatcherInv, MatcherTypeOK
    <3>2. CASE endpoints = <<>>
      BY <3>2 DEF MatcherInv
    <3> QED BY <1>6, <3>1, <3>2 DEF ReturnEarly
  <2> QED BY <1>6, <2>1
      DEF ReturnEarly, MatcherInv, MatcherTypeOK, Returned, PairOK, TakenBy, Eligible
<1>7. CASE ReturnPairs
  <2>1. Returned'
    BY <1>7 DEF ReturnPairs, Returned, Unpaired, MatcherInv
  <2>2. \A i \in DOMAIN pairs' : PairOK(i)'
    BY <1>7, PairKept DEF ReturnPairs, MatcherInv
  <2> QED BY <1>7, <2>1, <2>2 DEF ReturnPairs, MatcherInv, MatcherTypeOK, TakenBy
<1> QED BY <1>1, <1>2, <1>3, <1>4, <1>5, <1>6, <1>7 DEF MatchEndpoints

LEMMA MatcherStutter == MatcherInv /\ UNCHANGED matcherVars => MatcherInv'
<1> SUFFICES ASSUME MatcherInv, UNCHANGED matcherVars PROVE MatcherInv'
  OBVIOUS
<1>1. \A i \in DOMAIN pairs' : PairOK(i)'
  BY PairKept DEF MatcherInv, matcherVars
<1>2. TakenBy(Len(pairs))' = TakenBy(Len(pairs))
  BY DEF TakenBy, matcherVars
<1>3. Returned' = Returned /\ Unpaired' = Unpaired
  BY DEF Returned, Unpaired, matcherVars
<1>4. MatcherTypeOK'
  BY DEF MatcherInv, MatcherTypeOK, matcherVars
<1> QED BY <1>1, <1>2, <1>3, <1>4 DEF MatcherInv, matcherVars

----------------------------------------------------------------------------
(* What the rules of one layer have said of an operation or an endpoint.   *)
SaidOf(findings, rule, of) == \E g \in findings : g.rule = rule /\ g.of = of

OperationsSaid ==
    \A i \in DOMAIN operations :
        SaidOf(specFindings, "API-AUTH-001", i) <=> ~operations[i].secured

EndpointsSaid ==
    \A e \in DOMAIN endpoints :
        /\ SaidOf(sourceFindings, "API-SOURCE-AUTH-001", e) <=> endpoints[e].auth = ABSENT
        /\ endpoints[e].lookup /\ ~endpoints[e].authz
              => SaidOf(sourceFindings, "API-SOURCE-AUTHZ-001", e)

(* No operation has taken an endpoint with the method and path of e. *)
Unknown(e) == \A i \in Joined : SurfaceKey(pairs[i].endpoint) # SurfaceKey(e)

(* What is known of a correlated finding. *)
FindingOK(f) ==
    /\ f.pair \in 0 .. Len(pairs) /\ f.endpoint \in 0 .. Len(endpoints)
    /\ f.state \in States
    /\ f.spec \subseteq specFindings /\ f.source \subseteq sourceFindings
    /\ f.rule \in {"CORR-AUTH-001", "CORR-AUTHZ-001"} =>
          f.pair \in Joined /\ f.endpoint = pairs[f.pair].endpoint
    /\ f.rule = "CORR-AUTH-001" =>
          f.state = AlignAuth(f.pair) /\ Ep(f.pair).auth # UNKNOWN
    /\ f.rule = "CORR-AUTHZ-001" => Ep(f.pair).lookup /\ ~Ep(f.pair).authz
    /\ f.rule = "CORR-SURF-001" =>
          \/ f.pair = 0 /\ f.endpoint \in DOMAIN endpoints /\ Unknown(f.endpoint)
          \/ f.pair \in Unpaired

ContradictionsReported ==
    \A i \in Joined : AlignAuth(i) = "CONTRADICTED" =>
        \E f \in correlated : f.rule = "CORR-AUTH-001" /\ f.pair = i

SurfaceReported ==
    /\ \A i \in Unpaired : \E f \in correlated : f.rule = "CORR-SURF-001" /\ f.pair = i
    /\ \A e \in DOMAIN endpoints : Unknown(e) =>
          \E f \in correlated : f.rule = "CORR-SURF-001" /\ f.pair = 0 /\ f.endpoint = e

FindingsTyped ==
    /\ \A f \in specFindings : f.of \in DOMAIN operations
    /\ \A f \in sourceFindings : f.of \in DOMAIN endpoints

FindingsInv ==
    /\ stage \in Stages /\ answer \in Answers /\ rulesRun \in 0 .. 5
    /\ stage = "over" <=> answer # "none"
    /\ metrics \in [DOMAIN NoMetrics -> Nat]
    /\ FindingsTyped
    /\ rulesRun = 0 => correlated = {}
    /\ rulesRun > 0 => matched /\ stage \in {"correlation", "over"}
    /\ stage \in {"source", "correlation"} \/ rulesRun > 0 => OperationsSaid
    /\ stage = "correlation" \/ rulesRun > 0 => EndpointsSaid
    /\ \A f \in correlated : FindingOK(f)
    /\ rulesRun > 0 => ContradictionsReported
    /\ rulesRun = 5 => SurfaceReported
    /\ CountsAddUp

----------------------------------------------------------------------------
(* What the findings of each rule are about.                               *)
LEMMA MissingAuthSays ==
    ASSUME NEW ops
    PROVE  /\ \A g \in MissingAuth(ops) : /\ g.rule = "API-AUTH-001"
                                         /\ g.of \in DOMAIN ops /\ ~ops[g.of].secured
           /\ \A i \in DOMAIN ops : ~ops[i].secured =>
                 \E g \in MissingAuth(ops) : g.rule = "API-AUTH-001" /\ g.of = i
<1>1. ASSUME NEW g \in MissingAuth(ops)
      PROVE  g.rule = "API-AUTH-001" /\ g.of \in DOMAIN ops /\ ~ops[g.of].secured
  <2>1. PICK i \in DOMAIN ops :
           ~ops[i].secured /\ g = Finding("API-AUTH-001", i, "", SeverityOf(ops[i].method))
    BY DEF MissingAuth
  <2> QED BY <2>1 DEF Finding
<1>2. ASSUME NEW i \in DOMAIN ops, ~ops[i].secured
      PROVE  \E g \in MissingAuth(ops) : g.rule = "API-AUTH-001" /\ g.of = i
  <2> DEFINE g == Finding("API-AUTH-001", i, "", SeverityOf(ops[i].method))
  <2>1. g \in MissingAuth(ops)
    BY <1>2 DEF MissingAuth
  <2>2. g.rule = "API-AUTH-001" /\ g.of = i
    BY DEF Finding
  <2> HIDE DEF g
  <2> QED BY <2>1, <2>2
<1> QED BY <1>1, <1>2

LEMMA OtherOperationRules ==
    ASSUME NEW ops,
           NEW g \in InconsistentAuth(ops) \cup InputConstraints(ops)
                        \cup SensitiveData(ops) \cup BolaIndicator(ops)
    PROVE  g.rule # "API-AUTH-001" /\ g.of \in DOMAIN ops
<1>1. CASE g \in InconsistentAuth(ops)
  <2>1. PICK i \in DOMAIN ops : g = Finding("API-AUTH-002", i, "", SeverityOf(ops[i].method))
    BY <1>1 DEF InconsistentAuth
  <2> QED BY <2>1 DEF Finding
<1>2. CASE g \in InputConstraints(ops)
  <2>1. PICK i \in DOMAIN ops : \E name \in ops[i].loose :
           g = Finding("API-INPUT-001", i, name, "MEDIUM")
    BY <1>2 DEF InputConstraints
  <2>2. PICK name : g = Finding("API-INPUT-001", i, name, "MEDIUM")
    BY <2>1
  <2> QED BY <2>2 DEF Finding
<1>3. CASE g \in SensitiveData(ops)
  <2>1. PICK i \in DOMAIN ops : \E name \in ops[i].leaks : g = Finding("API-DATA-001", i, name,
           IF name \in StrongNames THEN "HIGH" ELSE "MEDIUM")
    BY <1>3 DEF SensitiveData
  <2>2. PICK name, severity : g = Finding("API-DATA-001", i, name, severity)
    BY <2>1
  <2> QED BY <2>2 DEF Finding
<1>4. CASE g \in BolaIndicator(ops)
  <2>1. PICK i \in DOMAIN ops : g = Finding("API-AUTHZ-001", i, "", "HIGH")
    BY <1>4 DEF BolaIndicator
  <2> QED BY <2>1 DEF Finding
<1> QED BY <1>1, <1>2, <1>3, <1>4

LEMMA OperationsAreSaid ==
    ASSUME NEW ops
    PROVE  /\ \A i \in DOMAIN ops :
                 SaidOf(SpecificationFindings(ops), "API-AUTH-001", i) <=> ~ops[i].secured
           /\ \A f \in SpecificationFindings(ops) : f.of \in DOMAIN ops
  BY MissingAuthSays, OtherOperationRules DEF SpecificationFindings, SaidOf

LEMMA SourceMissingAuthSays ==
    ASSUME NEW eps
    PROVE  /\ \A g \in SourceMissingAuth(eps) :
                 /\ g.rule = "API-SOURCE-AUTH-001"
                 /\ g.of \in DOMAIN eps /\ eps[g.of].auth = ABSENT
           /\ \A e \in DOMAIN eps : eps[e].auth = ABSENT =>
                 \E g \in SourceMissingAuth(eps) : g.rule = "API-SOURCE-AUTH-001" /\ g.of = e
<1>1. ASSUME NEW g \in SourceMissingAuth(eps)
      PROVE  /\ g.rule = "API-SOURCE-AUTH-001"
             /\ g.of \in DOMAIN eps /\ eps[g.of].auth = ABSENT
  <2>1. PICK e \in DOMAIN eps :
           /\ eps[e].auth = ABSENT
           /\ g = Finding("API-SOURCE-AUTH-001", e, "", SeverityOf(eps[e].method))
    BY DEF SourceMissingAuth
  <2> QED BY <2>1 DEF Finding
<1>2. ASSUME NEW e \in DOMAIN eps, eps[e].auth = ABSENT
      PROVE  \E g \in SourceMissingAuth(eps) : g.rule = "API-SOURCE-AUTH-001" /\ g.of = e
  <2> DEFINE g == Finding("API-SOURCE-AUTH-001", e, "", SeverityOf(eps[e].method))
  <2>1. g \in SourceMissingAuth(eps)
    BY <1>2 DEF SourceMissingAuth
  <2>2. g.rule = "API-SOURCE-AUTH-001" /\ g.of = e
    BY DEF Finding
  <2> HIDE DEF g
  <2> QED BY <2>1, <2>2
<1> QED BY <1>1, <1>2

LEMMA SourceMissingAuthzSays ==
    ASSUME NEW eps
    PROVE  /\ \A g \in SourceMissingAuthz(eps) :
                 g.rule = "API-SOURCE-AUTHZ-001" /\ g.of \in DOMAIN eps
           /\ \A e \in DOMAIN eps : eps[e].lookup /\ ~eps[e].authz =>
                 \E g \in SourceMissingAuthz(eps) : g.rule = "API-SOURCE-AUTHZ-001" /\ g.of = e
<1>1. ASSUME NEW g \in SourceMissingAuthz(eps)
      PROVE  g.rule = "API-SOURCE-AUTHZ-001" /\ g.of \in DOMAIN eps
  <2>1. PICK e \in DOMAIN eps : g = Finding("API-SOURCE-AUTHZ-001", e, "", "HIGH")
    BY DEF SourceMissingAuthz
  <2> QED BY <2>1 DEF Finding
<1>2. ASSUME NEW e \in DOMAIN eps, eps[e].lookup, ~eps[e].authz
      PROVE  \E g \in SourceMissingAuthz(eps) : g.rule = "API-SOURCE-AUTHZ-001" /\ g.of = e
  <2> DEFINE g == Finding("API-SOURCE-AUTHZ-001", e, "", "HIGH")
  <2>1. g \in SourceMissingAuthz(eps)
    BY <1>2 DEF SourceMissingAuthz
  <2>2. g.rule = "API-SOURCE-AUTHZ-001" /\ g.of = e
    BY DEF Finding
  <2> HIDE DEF g
  <2> QED BY <2>1, <2>2
<1> QED BY <1>1, <1>2

LEMMA EndpointsAreSaid ==
    ASSUME NEW eps
    PROVE  /\ \A e \in DOMAIN eps :
                 /\ SaidOf(SourceFindings(eps), "API-SOURCE-AUTH-001", e) <=> eps[e].auth = ABSENT
                 /\ eps[e].lookup /\ ~eps[e].authz
                       => SaidOf(SourceFindings(eps), "API-SOURCE-AUTHZ-001", e)
           /\ \A f \in SourceFindings(eps) : f.of \in DOMAIN eps
  BY SourceMissingAuthSays, SourceMissingAuthzSays DEF SourceFindings, SaidOf

LEMMA JoinedTyped ==
    ASSUME MatcherInv, NEW i \in Joined
    PROVE  /\ i \in 1 .. Len(pairs) /\ i \in 0 .. Len(pairs) /\ i \in DOMAIN operations
           /\ pairs[i].endpoint \in DOMAIN endpoints
           /\ pairs[i].endpoint \in 0 .. Len(endpoints)
           /\ pairs[i].endpoint \in claimed
           /\ Op(i).secured \in BOOLEAN /\ Ep(i).auth \in {PRESENT, ABSENT, UNKNOWN}
<1>1. /\ Len(pairs) \in Nat /\ DOMAIN pairs = 1 .. Len(pairs) /\ Len(pairs) <= Len(operations)
      /\ Len(operations) \in Nat /\ DOMAIN operations = 1 .. Len(operations)
      /\ Len(endpoints) \in Nat /\ DOMAIN endpoints = 1 .. Len(endpoints)
      /\ pairs[i].endpoint \in 0 .. Len(endpoints) /\ pairs[i].endpoint # 0
  BY Lengths DEF MatcherInv, MatcherTypeOK, Joined
<1>2. i \in 1 .. Len(pairs) /\ pairs[i].endpoint \in 1 .. Len(endpoints)
  BY <1>1 DEF Joined
<1>3. pairs[i].endpoint \in claimed
  BY <1>1, <1>2 DEF MatcherInv, TakenBy
<1> QED BY <1>1, <1>2, <1>3, EvidenceAssumption DEF Op, Ep, MatcherInv, MatcherTypeOK

----------------------------------------------------------------------------
(* The findings of each correlation rule.                                  *)
LEMMA LineageTyped ==
    /\ \A op, rules : SpecLineage(op, rules) \subseteq specFindings
    /\ \A op, rule : SourceLineage(op, rule) \subseteq sourceFindings
  BY DEF SpecLineage, SourceLineage

LEMMA OfPairOK ==
    ASSUME MatcherInv, NEW i \in Joined, NEW rule, NEW state \in States, NEW severity,
           NEW fromSpec \in SUBSET specFindings, NEW source \in SUBSET sourceFindings,
           rule # "CORR-SURF-001",
           rule = "CORR-AUTH-001" => state = AlignAuth(i) /\ Ep(i).auth # UNKNOWN,
           rule = "CORR-AUTHZ-001" => Ep(i).lookup /\ ~Ep(i).authz
    PROVE  FindingOK(OfPair(rule, i, state, severity, fromSpec, source))
<1> DEFINE f == OfPair(rule, i, state, severity, fromSpec, source)
<1>1. /\ f.rule = rule /\ f.pair = i /\ f.endpoint = pairs[i].endpoint /\ f.state = state
      /\ f.spec = fromSpec /\ f.source = source
  BY DEF OfPair, Correlated
<1> HIDE DEF f
<1>2. FindingOK(f)
  BY <1>1, JoinedTyped DEF FindingOK
<1> QED BY <1>2 DEF f

LEMMA AuthFindingsOK == MatcherInv => \A f \in AuthFindings : FindingOK(f)
<1> SUFFICES ASSUME MatcherInv, NEW f \in AuthFindings PROVE FindingOK(f)
  OBVIOUS
<1>1. PICK i \in Joined, state \in {"CONTRADICTED", "SUPPORTED"},
          severity \in {"HIGH", "MEDIUM", "LOW"} :
         /\ f = AuthFinding(i, state, severity)
         /\ Ep(i).auth \in {PRESENT, ABSENT}
         /\ state = "SUPPORTED" <=> Op(i).secured = (Ep(i).auth = PRESENT)
  <2>1. CASE \E i \in Joined : /\ Op(i).secured /\ Ep(i).auth = ABSENT
                               /\ f = AuthFinding(i, "CONTRADICTED", SeverityOf(Op(i).method))
    BY <2>1, JoinedTyped DEF PRESENT, ABSENT, SeverityOf
  <2>2. CASE \E i \in Joined : /\ ~Op(i).secured /\ Ep(i).auth = PRESENT
                               /\ f = AuthFinding(i, "CONTRADICTED", "LOW")
    BY <2>2, JoinedTyped DEF PRESENT, ABSENT
  <2>3. CASE \E i \in Joined : /\ ~Op(i).secured /\ Ep(i).auth = ABSENT
                               /\ f = AuthFinding(i, "SUPPORTED", "HIGH")
    BY <2>3, JoinedTyped DEF PRESENT, ABSENT
  <2> QED BY <2>1, <2>2, <2>3 DEF AuthFindings
<1>2. state = AlignAuth(i) /\ Ep(i).auth # UNKNOWN
  BY <1>1, JoinedTyped DEF AlignAuth, PRESENT, ABSENT, UNKNOWN
<1> QED BY <1>1, <1>2, LineageTyped, OfPairOK DEF AuthFinding, States

LEMMA AuthFindingsComplete ==
    ASSUME MatcherInv, NEW i \in Joined, AlignAuth(i) = "CONTRADICTED"
    PROVE  \E f \in AuthFindings : f.rule = "CORR-AUTH-001" /\ f.pair = i
<1>1. \E severity : AuthFinding(i, "CONTRADICTED", severity) \in AuthFindings
  <2>1. CASE Op(i).secured /\ Ep(i).auth = ABSENT
    BY <2>1 DEF AuthFindings
  <2>2. CASE ~Op(i).secured /\ Ep(i).auth = PRESENT
    BY <2>2 DEF AuthFindings
  <2> QED BY <2>1, <2>2, JoinedTyped DEF AlignAuth, PRESENT, ABSENT, UNKNOWN
<1>2. PICK severity : AuthFinding(i, "CONTRADICTED", severity) \in AuthFindings
  BY <1>1
<1> DEFINE f == AuthFinding(i, "CONTRADICTED", severity)
<1>3. f.rule = "CORR-AUTH-001" /\ f.pair = i
  BY DEF AuthFinding, OfPair, Correlated
<1> HIDE DEF f
<1>4. f \in AuthFindings
  BY <1>2 DEF f
<1> QED BY <1>3, <1>4

LEMMA AuthzFindingsOK == MatcherInv => \A f \in AuthzFindings : FindingOK(f)
<1> SUFFICES ASSUME MatcherInv, NEW f \in AuthzFindings PROVE FindingOK(f)
  OBVIOUS
<1>1. PICK i \in Joined :
         /\ AlignAuthz(i) = "COMPLEMENTARY"
         /\ f = OfPair("CORR-AUTHZ-001", i, "COMPLEMENTARY", "HIGH",
                       SpecLineage(Op(i), {"API-AUTHZ-001"}),
                       SourceLineage(Op(i), "API-SOURCE-AUTHZ-001"))
  BY DEF AuthzFindings
<1>2. Ep(i).lookup /\ ~Ep(i).authz
  BY <1>1 DEF AlignAuthz
<1> QED BY <1>1, <1>2, LineageTyped, OfPairOK DEF States

LEMMA DataFindingsOK == MatcherInv => \A f \in DataFindings : FindingOK(f)
<1> SUFFICES ASSUME MatcherInv, NEW f \in DataFindings PROVE FindingOK(f)
  OBVIOUS
<1>1. PICK i \in Joined : \E g \in SpecLineage(Op(i), {"API-DATA-001"}) :
         f = OfPair("CORR-DATA-001", i, "SUPPORTED", g.severity, {g}, {})
  BY DEF DataFindings
<1>2. PICK g \in specFindings : f = OfPair("CORR-DATA-001", i, "SUPPORTED", g.severity, {g}, {})
  BY <1>1, LineageTyped
<1>3. {g} \in SUBSET specFindings /\ {} \in SUBSET sourceFindings
  OBVIOUS
<1> QED BY <1>2, <1>3, OfPairOK DEF States

LEMMA InputFindingsOK == MatcherInv => \A f \in InputFindings : FindingOK(f)
<1> SUFFICES ASSUME MatcherInv, NEW f \in InputFindings PROVE FindingOK(f)
  OBVIOUS
<1>1. PICK i \in Joined : \E severity :
         f = OfPair("CORR-INPUT-001", i, AlignInput(i), severity,
                    SpecLineage(Op(i), {"API-INPUT-001"}), {})
  BY DEF InputFindings
<1>2. AlignInput(i) \in States
  BY DEF AlignInput, States
<1>3. {} \in SUBSET sourceFindings
  OBVIOUS
<1> QED BY <1>1, <1>2, <1>3, LineageTyped, OfPairOK

LEMMA SurfaceFindingsOK == MatcherInv => \A f \in ZombieFindings \cup ShadowFindings : FindingOK(f)
<1> SUFFICES ASSUME MatcherInv, NEW f \in ZombieFindings \cup ShadowFindings PROVE FindingOK(f)
  OBVIOUS
<1>0. /\ Len(pairs) \in Nat /\ DOMAIN pairs = 1 .. Len(pairs)
      /\ Len(endpoints) \in Nat /\ DOMAIN endpoints = 1 .. Len(endpoints)
      /\ \A i \in DOMAIN pairs : pairs[i].endpoint \in 0 .. Len(endpoints)
  BY Lengths DEF MatcherInv, MatcherTypeOK
<1>1. CASE f \in ZombieFindings
  <2>1. PICK i \in Unpaired : f = OfPair("CORR-SURF-001", i, "CONTRADICTED", "LOW", {}, {})
    BY <1>1 DEF ZombieFindings, Unpaired
  <2>2. /\ f.rule = "CORR-SURF-001" /\ f.pair = i /\ f.endpoint = pairs[i].endpoint
        /\ f.state = "CONTRADICTED" /\ f.spec = {} /\ f.source = {}
    BY <2>1 DEF OfPair, Correlated
  <2> QED BY <1>0, <2>2 DEF FindingOK, Unpaired, States
<1>2. CASE f \in ShadowFindings
  <2>1. PICK e \in DOMAIN endpoints :
           /\ f = Correlated("CORR-SURF-001", 0, e, "CONTRADICTED", "MEDIUM", {}, {})
           /\ Unknown(e)
    BY <1>2 DEF ShadowFindings, Unknown
  <2>2. /\ f.rule = "CORR-SURF-001" /\ f.pair = 0 /\ f.endpoint = e
        /\ f.state = "CONTRADICTED" /\ f.spec = {} /\ f.source = {}
    BY <2>1 DEF Correlated
  <2> QED BY <1>0, <2>1, <2>2 DEF FindingOK, States
<1> QED BY <1>1, <1>2

LEMMA SurfaceFindingsComplete ==
    /\ \A i \in Unpaired : \E f \in ZombieFindings : f.rule = "CORR-SURF-001" /\ f.pair = i
    /\ \A e \in DOMAIN endpoints : Unknown(e) =>
          \E f \in ShadowFindings : f.rule = "CORR-SURF-001" /\ f.pair = 0 /\ f.endpoint = e
<1>1. ASSUME NEW i \in Unpaired
      PROVE  \E f \in ZombieFindings : f.rule = "CORR-SURF-001" /\ f.pair = i
  <2> DEFINE f == OfPair("CORR-SURF-001", i, "CONTRADICTED", "LOW", {}, {})
  <2>1. f \in ZombieFindings
    BY DEF ZombieFindings, Unpaired
  <2>2. f.rule = "CORR-SURF-001" /\ f.pair = i
    BY DEF OfPair, Correlated
  <2> HIDE DEF f
  <2> QED BY <2>1, <2>2
<1>2. ASSUME NEW e \in DOMAIN endpoints, Unknown(e)
      PROVE  \E f \in ShadowFindings : f.rule = "CORR-SURF-001" /\ f.pair = 0 /\ f.endpoint = e
  <2> DEFINE f == Correlated("CORR-SURF-001", 0, e, "CONTRADICTED", "MEDIUM", {}, {})
  <2>1. f \in ShadowFindings
    BY <1>2 DEF ShadowFindings, Unknown
  <2>2. f.rule = "CORR-SURF-001" /\ f.pair = 0 /\ f.endpoint = e
    BY DEF Correlated
  <2> HIDE DEF f
  <2> QED BY <2>1, <2>2
<1> QED BY <1>1, <1>2

----------------------------------------------------------------------------
(* The counts of the metrics.                                              *)
Paired == {i \in DOMAIN pairs : pairs[i].state \in {EXACT, NORMALIZED}}
Unclear == {i \in DOMAIN pairs : pairs[i].state \in {AMBIGUOUS}}

LEMMA IntervalCount ==
    ASSUME NEW n \in Nat PROVE IsFiniteSet(1 .. n) /\ Cardinality(1 .. n) = n
  BY FS_Interval

LEMMA DisjointCount ==
    ASSUME NEW S, NEW T, IsFiniteSet(S), IsFiniteSet(T), S \cap T = {}
    PROVE  /\ IsFiniteSet(S \cup T)
           /\ Cardinality(S \cup T) = Cardinality(S) + Cardinality(T)
<1>1. Cardinality(S \cup T) = Cardinality(S) + Cardinality(T) - Cardinality(S \cap T)
  BY FS_Union
<1>2. Cardinality(S \cap T) = 0
  BY FS_EmptySet
<1>3. Cardinality(S) \in Nat /\ Cardinality(T) \in Nat
  BY FS_CardinalityType
<1>4. IsFiniteSet(S \cup T)
  BY FS_Union
<1> QED BY <1>1, <1>2, <1>3, <1>4

LEMMA PairsSplit ==
    ASSUME MatcherInv
    PROVE  /\ IsFiniteSet(Paired) /\ IsFiniteSet(Unclear) /\ IsFiniteSet(Unpaired)
           /\ Cardinality(Paired) \in Nat /\ Cardinality(Unclear) \in Nat
           /\ Cardinality(Unpaired) \in Nat
           /\ Cardinality(Paired) + Cardinality(Unclear) + Cardinality(Unpaired) = Len(pairs)
<1>1. /\ Len(pairs) \in Nat /\ DOMAIN pairs = 1 .. Len(pairs)
      /\ \A i \in DOMAIN pairs : pairs[i].state \in {EXACT, NORMALIZED, AMBIGUOUS, NONE}
  BY Lengths DEF MatcherInv, Pairs
<1>2. IsFiniteSet(DOMAIN pairs) /\ Cardinality(DOMAIN pairs) = Len(pairs)
  BY <1>1, IntervalCount
<1>3. Paired \subseteq DOMAIN pairs /\ Unclear \subseteq DOMAIN pairs /\ Unpaired \subseteq DOMAIN pairs
  BY DEF Paired, Unclear, Unpaired
<1>4. IsFiniteSet(Paired) /\ IsFiniteSet(Unclear) /\ IsFiniteSet(Unpaired)
  BY <1>2, <1>3, FS_Subset
<1>5. /\ Cardinality(Paired) \in Nat /\ Cardinality(Unclear) \in Nat
      /\ Cardinality(Unpaired) \in Nat
  BY <1>4, FS_CardinalityType
<1>6. /\ Paired \cap Unclear = {} /\ (Paired \cup Unclear) \cap Unpaired = {}
      /\ (Paired \cup Unclear) \cup Unpaired = DOMAIN pairs
  BY <1>1 DEF Paired, Unclear, Unpaired, EXACT, NORMALIZED, AMBIGUOUS, NONE
<1>7. /\ IsFiniteSet(Paired \cup Unclear)
      /\ Cardinality(Paired \cup Unclear) = Cardinality(Paired) + Cardinality(Unclear)
  BY <1>4, <1>6, DisjointCount
<1>8. Cardinality((Paired \cup Unclear) \cup Unpaired)
         = Cardinality(Paired \cup Unclear) + Cardinality(Unpaired)
  BY <1>4, <1>6, <1>7, DisjointCount
<1> QED BY <1>2, <1>4, <1>5, <1>6, <1>7, <1>8

LEMMA ClaimedCount ==
    ASSUME MatcherInv
    PROVE  /\ IsFiniteSet(claimed) /\ Cardinality(claimed) \in Nat
           /\ Cardinality(claimed) <= Cardinality(Paired)
           /\ Cardinality(DOMAIN endpoints \ claimed) = Len(endpoints) - Cardinality(claimed)
           /\ Cardinality(DOMAIN endpoints \ claimed) \in Nat
<1> DEFINE f == [i \in Paired |-> pairs[i].endpoint]
<1>1. /\ Len(pairs) \in Nat /\ DOMAIN pairs = 1 .. Len(pairs)
      /\ Len(endpoints) \in Nat /\ DOMAIN endpoints = 1 .. Len(endpoints)
      /\ \A i \in DOMAIN pairs : pairs[i].state \in {EXACT, NORMALIZED, AMBIGUOUS, NONE}
      /\ claimed \subseteq DOMAIN endpoints
  BY Lengths DEF MatcherInv, MatcherTypeOK, Pairs
<1>2. \A i \in DOMAIN pairs : i \in Paired <=> pairs[i].endpoint # 0
  <2> TAKE i \in DOMAIN pairs
  <2>1. PairOK(i)
    BY DEF MatcherInv
  <2>2. ASSUME i \in Paired PROVE pairs[i].endpoint # 0
    <3>1. pairs[i].endpoint \in Eligible(i)
      BY <2>1, <2>2 DEF PairOK, Paired
    <3>2. Eligible(i) \subseteq DOMAIN endpoints
      BY DEF Eligible, SamePath, SameTemplate
    <3> QED BY <1>1, <3>1, <3>2
  <2>3. ASSUME i \notin Paired PROVE pairs[i].endpoint = 0
    BY <1>1, <2>1, <2>3 DEF PairOK, Paired
  <2> QED BY <2>2, <2>3
<1>3. f \in Surjection(Paired, claimed)
  <2>1. \A i \in Paired : i \in 1 .. Len(pairs) /\ f[i] = pairs[i].endpoint
    BY <1>1 DEF Paired
  <2>2. \A i \in Paired : f[i] \in claimed
    BY <1>1, <1>2, <2>1 DEF MatcherInv, TakenBy
  <2>3. \A e \in claimed : \E i \in Paired : f[i] = e
    BY <1>1, <1>2, <2>1 DEF MatcherInv, TakenBy
  <2> QED BY <2>2, <2>3 DEF Surjection
<1>4. /\ IsFiniteSet(claimed) /\ Cardinality(claimed) \in Nat
      /\ Cardinality(claimed) <= Cardinality(Paired)
  BY <1>3, PairsSplit, FS_Surjection, FS_CardinalityType
<1>5. IsFiniteSet(DOMAIN endpoints) /\ Cardinality(DOMAIN endpoints) = Len(endpoints)
  BY <1>1, IntervalCount
<1>6. DOMAIN endpoints \cap claimed = claimed
  BY <1>1
<1>7. /\ IsFiniteSet(DOMAIN endpoints \ claimed)
      /\ Cardinality(DOMAIN endpoints \ claimed)
            = Cardinality(DOMAIN endpoints) - Cardinality(DOMAIN endpoints \cap claimed)
  BY <1>5, FS_Difference
<1>8. Cardinality(DOMAIN endpoints \ claimed) \in Nat
  BY <1>7, FS_CardinalityType
<1> QED BY <1>4, <1>5, <1>6, <1>7, <1>8

LEMMA MetricsAddUp ==
    ASSUME MatcherInv, matched
    PROVE  LET counts == ComputeMetrics
           IN  /\ counts \in [DOMAIN NoMetrics -> Nat]
               /\ counts.totalSpec = Len(operations)
               /\ counts.totalSource - counts.matched = Len(endpoints) - Cardinality(claimed)
               /\ counts.matched >= Cardinality(claimed)
<1> DEFINE counts == ComputeMetrics
           found == CountOf({EXACT, NORMALIZED})
           ambiguous == CountOf({AMBIGUOUS})
           shadow == Cardinality(DOMAIN endpoints \ claimed)
           zombie == Cardinality(unmatched)
<1>1. found = Cardinality(Paired) /\ ambiguous = Cardinality(Unclear)
  BY DEF CountOf, Paired, Unclear
<1>2. /\ found \in Nat /\ ambiguous \in Nat /\ shadow \in Nat /\ Len(pairs) \in Nat
      /\ Len(operations) \in Nat /\ Len(endpoints) \in Nat /\ Cardinality(claimed) \in Nat
  BY <1>1, PairsSplit, ClaimedCount, Lengths DEF MatcherInv
<1>3. zombie \in Nat /\ found + ambiguous + zombie = Len(operations)
  <2>1. CASE Len(pairs) = Len(operations) /\ unmatched = Unpaired
    BY <1>1, <2>1, PairsSplit
  <2>2. CASE pairs = <<>> /\ unmatched = DOMAIN operations
    <3>1. zombie = Len(operations)
      BY <1>2, <2>2, IntervalCount, Lengths DEF MatcherInv
    <3>2. Len(pairs) = 0
      BY <2>2
    <3> QED BY <1>1, <1>2, <3>1, <3>2, PairsSplit
  <2> QED BY <2>1, <2>2 DEF MatcherInv, Returned
<1>4. /\ counts.matched = found /\ counts.totalSpec = found + ambiguous + zombie
      /\ counts.totalSource = found + shadow
  BY DEF ComputeMetrics
<1>5. counts \in [DOMAIN NoMetrics -> Nat]
  <2> HIDE DEF found, ambiguous, shadow, zombie
  <2>1. counts = [matched |-> found, ambiguous |-> ambiguous, shadow |-> shadow, zombie |-> zombie,
                  totalSpec |-> found + ambiguous + zombie, totalSource |-> found + shadow]
    BY DEF ComputeMetrics, found, ambiguous, shadow, zombie
  <2>2. DOMAIN NoMetrics = {"matched", "ambiguous", "shadow", "zombie", "totalSpec", "totalSource"}
    BY DEF NoMetrics
  <2> QED BY <1>2, <1>3, <2>1, <2>2
<1> HIDE DEF counts
<1>6. /\ counts.totalSpec = Len(operations)
      /\ counts.totalSource - counts.matched = Len(endpoints) - Cardinality(claimed)
      /\ counts.matched >= Cardinality(claimed)
  <2> HIDE DEF found, ambiguous, zombie
  <2>1. shadow = Len(endpoints) - Cardinality(claimed)
    BY ClaimedCount
  <2>2. found >= Cardinality(claimed)
    BY <1>1, <1>2, ClaimedCount, PairsSplit
  <2> HIDE DEF shadow
  <2> QED BY <1>2, <1>3, <1>4, <2>1, <2>2
<1> QED BY <1>5, <1>6 DEF counts

----------------------------------------------------------------------------
(* What a step that leaves the pairs and the findings of the layers alone  *)
(* does not change.                                                        *)
LEMMA FindingKept ==
    ASSUME NEW f, FindingOK(f), UNCHANGED <<matcherVars, specFindings, sourceFindings>>
    PROVE  FindingOK(f)'
<1>1. UNCHANGED <<operations, endpoints, pairs, specFindings, sourceFindings>>
  BY DEF matcherVars
<1>2. Joined' = Joined /\ Unpaired' = Unpaired
  BY <1>1 DEF Joined, Unpaired
<1>3. AlignAuth(f.pair)' = AlignAuth(f.pair) /\ Ep(f.pair)' = Ep(f.pair)
  BY <1>1 DEF AlignAuth, Op, Ep
<1>4. Unknown(f.endpoint)' = Unknown(f.endpoint)
  BY <1>1, <1>2 DEF Unknown, SurfaceKey
<1> QED BY <1>1, <1>2, <1>3, <1>4 DEF FindingOK

LEMMA SaidKept ==
    ASSUME UNCHANGED <<matcherVars, specFindings, sourceFindings>>
    PROVE  /\ OperationsSaid => OperationsSaid'
           /\ EndpointsSaid => EndpointsSaid'
           /\ FindingsTyped => FindingsTyped'
  BY DEF matcherVars, OperationsSaid, EndpointsSaid, FindingsTyped, SaidOf

LEMMA ReportsKept ==
    ASSUME UNCHANGED <<matcherVars, specFindings, sourceFindings>>, correlated \subseteq correlated'
    PROVE  /\ ContradictionsReported => ContradictionsReported'
           /\ SurfaceReported => SurfaceReported'
<1>1. UNCHANGED <<operations, endpoints, pairs>>
  BY DEF matcherVars
<1>2. Joined' = Joined /\ Unpaired' = Unpaired
  BY <1>1 DEF Joined, Unpaired
<1>3. \A i : AlignAuth(i)' = AlignAuth(i)
  BY <1>1 DEF AlignAuth, Op, Ep
<1>4. \A e : Unknown(e)' = Unknown(e)
  BY <1>1, <1>2 DEF Unknown, SurfaceKey
<1>5. ContradictionsReported => ContradictionsReported'
  BY <1>2, <1>3 DEF ContradictionsReported
<1>6. SurfaceReported => SurfaceReported'
  BY <1>1, <1>2, <1>4 DEF SurfaceReported
<1> QED BY <1>5, <1>6

LEMMA MatchingBegins == MatchEndpoints => ~matched /\ UNCHANGED <<operations, endpoints>>
  BY DEF MatchEndpoints, MatchExact, MatchTemplate, MatchHandler, MatchAmbiguous, MatchNone,
         ReturnEarly, ReturnPairs, Matching, Claim

(* A rule adds findings that are as they should be.                        *)
LEMMA RuleKeeps ==
    ASSUME FindingsInv, NEW n \in 1 .. 5, NEW findings, RunRule(n, findings),
           \A f \in findings : FindingOK(f),
           n = 1 => \A i \in Joined : AlignAuth(i) = "CONTRADICTED" =>
                       \E f \in findings : f.rule = "CORR-AUTH-001" /\ f.pair = i,
           n = 5 => findings = ZombieFindings \cup ShadowFindings
    PROVE  FindingsInv'
<1>1. /\ UNCHANGED <<matcherVars, specFindings, sourceFindings>>
      /\ UNCHANGED <<stage, metrics, answer>>
      /\ correlated' = correlated \cup findings /\ correlated \subseteq correlated'
      /\ rulesRun' = n /\ rulesRun = n - 1 /\ matched /\ matched' = matched
      /\ stage = "correlation"
  BY DEF RunRule, matcherVars
<1>2. \A f \in correlated' : FindingOK(f)'
  BY <1>1, FindingKept DEF FindingsInv
<1>3. /\ OperationsSaid' /\ EndpointsSaid' /\ FindingsTyped'
  BY <1>1, SaidKept DEF FindingsInv
<1>4. ContradictionsReported'
  <2>1. CASE n = 1
    <3>1. UNCHANGED <<operations, endpoints, pairs>>
      BY <1>1 DEF matcherVars
    <3>2. Joined' = Joined /\ \A i : AlignAuth(i)' = AlignAuth(i)
      BY <3>1 DEF Joined, AlignAuth, Op, Ep
    <3> QED BY <1>1, <2>1, <3>2 DEF ContradictionsReported
  <2>2. CASE n # 1
    <3>1. ContradictionsReported
      BY <1>1, <2>2 DEF FindingsInv
    <3> QED BY <1>1, <3>1, ReportsKept
  <2> QED BY <2>1, <2>2
<1>5. n = 5 => SurfaceReported'
  <2> SUFFICES ASSUME n = 5 PROVE SurfaceReported'
    OBVIOUS
  <2>1. UNCHANGED <<operations, endpoints, pairs>>
    BY <1>1 DEF matcherVars
  <2>2. Joined' = Joined /\ Unpaired' = Unpaired
    BY <2>1 DEF Joined, Unpaired
  <2>3. \A e : Unknown(e)' = Unknown(e)
    BY <2>1, <2>2 DEF Unknown, SurfaceKey
  <2> QED BY <1>1, <2>1, <2>2, <2>3, SurfaceFindingsComplete DEF SurfaceReported
<1>6. CountsAddUp'
  BY <1>1 DEF FindingsInv, CountsAddUp
<1> QED BY <1>1, <1>2, <1>3, <1>4, <1>5, <1>6 DEF FindingsInv

LEMMA FindingsStart == Init => FindingsInv
<1> SUFFICES ASSUME Init PROVE FindingsInv
  OBVIOUS
<1>1. metrics \in [DOMAIN NoMetrics -> Nat]
  BY DEF Init, NoMetrics
<1>2. CountsAddUp
  BY DEF Init, CountsAddUp
<1> QED BY <1>1, <1>2 DEF Init, FindingsInv, FindingsTyped, Stages, Answers

LEMMA FindingsStep ==
    ASSUME MatcherInv, FindingsInv, [Next]_vars PROVE FindingsInv'
<1>1. CASE AnalyzeSpecification
  <2>1. /\ stage = "specification" /\ rulesRun = 0 /\ rulesRun' = 0 /\ correlated = {}
        /\ correlated' = {} /\ UNCHANGED <<matcherVars, sourceFindings, metrics>>
        /\ answer = "none" /\ matched' = matched
    BY <1>1 DEF AnalyzeSpecification, FindingsInv, matcherVars
  <2>2. CASE specFindings' = SpecificationFindings(operations) /\ stage' = "source" /\ answer' = answer
    <3>1. OperationsSaid' /\ FindingsTyped'
      BY <2>1, <2>2, OperationsAreSaid
      DEF OperationsSaid, FindingsTyped, FindingsInv, matcherVars
    <3> QED BY <2>1, <2>2, <3>1 DEF FindingsInv, CountsAddUp, Stages, Answers
  <2>3. CASE EndWith("OPENAPI_PARSING_ERROR") /\ UNCHANGED specFindings
    <3>1. FindingsTyped'
      BY <2>1, <2>3, SaidKept DEF FindingsInv
    <3> QED BY <2>1, <2>3, <3>1 DEF EndWith, FindingsInv, CountsAddUp, Stages, Answers
  <2> QED BY <1>1, <2>2, <2>3 DEF AnalyzeSpecification
<1>2. CASE AnalyzeSource
  <2>1. /\ stage = "source" /\ rulesRun = 0 /\ rulesRun' = 0 /\ correlated = {}
        /\ correlated' = {} /\ UNCHANGED <<matcherVars, specFindings, metrics>>
        /\ answer = "none" /\ matched' = matched
    BY <1>2 DEF AnalyzeSource, FindingsInv, matcherVars
  <2>2. CASE sourceFindings' = SourceFindings(endpoints) /\ stage' = "correlation" /\ answer' = answer
    <3>1. EndpointsSaid' /\ FindingsTyped' /\ OperationsSaid'
      BY <2>1, <2>2, EndpointsAreSaid
      DEF EndpointsSaid, OperationsSaid, SaidOf, FindingsTyped, FindingsInv, matcherVars
    <3> QED BY <2>1, <2>2, <3>1 DEF FindingsInv, CountsAddUp, Stages, Answers
  <2>3. CASE EndWith("SOURCE_ANALYSIS_ERROR") /\ UNCHANGED sourceFindings
    <3>1. FindingsTyped'
      BY <2>1, <2>3, SaidKept DEF FindingsInv
    <3> QED BY <2>1, <2>3, <3>1 DEF EndWith, FindingsInv, CountsAddUp, Stages, Answers
  <2> QED BY <1>2, <2>2, <2>3 DEF AnalyzeSource
<1>3. CASE Match
  <2>1. /\ ~matched /\ UNCHANGED <<operations, endpoints>> /\ stage = "correlation"
        /\ UNCHANGED workVars
    BY <1>3, MatchingBegins DEF Match
  <2>2. rulesRun = 0 /\ answer = "none" /\ correlated = {}
    BY <2>1 DEF FindingsInv
  <2>3. OperationsSaid' /\ EndpointsSaid' /\ FindingsTyped'
    BY <2>1 DEF FindingsInv, workVars, OperationsSaid, EndpointsSaid, FindingsTyped, SaidOf
  <2> QED BY <2>1, <2>2, <2>3 DEF FindingsInv, workVars, CountsAddUp
<1>4. CASE CorrelateNext
  <2>1. CASE RunRule(1, AuthFindings)
    BY <2>1, RuleKeeps, AuthFindingsOK, AuthFindingsComplete
  <2>2. CASE RunRule(2, AuthzFindings)
    BY <2>2, RuleKeeps, AuthzFindingsOK
  <2>3. CASE RunRule(3, DataFindings)
    BY <2>3, RuleKeeps, DataFindingsOK
  <2>4. CASE RunRule(4, InputFindings)
    BY <2>4, RuleKeeps, InputFindingsOK
  <2>5. CASE RunRule(5, ZombieFindings \cup ShadowFindings)
    BY <2>5, RuleKeeps, SurfaceFindingsOK
  <2> QED BY <1>4, <2>1, <2>2, <2>3, <2>4, <2>5 DEF CorrelateNext
<1>5. CASE Finish \/ CorrelationFails \/ UNCHANGED vars
  <2>1. /\ UNCHANGED <<matcherVars, specFindings, sourceFindings, rulesRun, correlated>>
        /\ matched' = matched
    BY <1>5 DEF Finish, CorrelationFails, vars, workVars, matcherVars
  <2>2. OperationsSaid => OperationsSaid'
    BY <2>1, SaidKept
  <2>3. (EndpointsSaid => EndpointsSaid') /\ FindingsTyped'
    BY <2>1, SaidKept DEF FindingsInv
  <2>4. \A f \in correlated' : FindingOK(f)'
    BY <2>1, FindingKept DEF FindingsInv
  <2>5. (ContradictionsReported => ContradictionsReported') /\ (SurfaceReported => SurfaceReported')
    BY <2>1, ReportsKept
  <2>6. CASE Finish
    <3>1. /\ stage = "correlation" /\ stage' = "over" /\ answer' = "result" /\ matched
          /\ metrics' = ComputeMetrics /\ rulesRun = 5
      BY <2>6 DEF Finish, EndWith
    <3>2. metrics' \in [DOMAIN NoMetrics' -> Nat] /\ CountsAddUp'
      BY <2>1, <3>1, MetricsAddUp DEF CountsAddUp, NoMetrics, matcherVars
    <3> QED BY <2>1, <2>2, <2>3, <2>4, <2>5, <3>1, <3>2 DEF FindingsInv, Stages, Answers
  <2>7. CASE CorrelationFails
    BY <2>1, <2>2, <2>3, <2>4, <2>5, <2>7
    DEF CorrelationFails, EndWith, FindingsInv, CountsAddUp, NoMetrics, Stages, Answers
  <2>8. CASE UNCHANGED vars
    <3>1. CountsAddUp'
      BY <2>8 DEF vars, workVars, matcherVars, CountsAddUp, FindingsInv
    <3> QED BY <2>1, <2>2, <2>3, <2>4, <2>5, <2>8, <3>1
        DEF vars, workVars, FindingsInv, NoMetrics
  <2> QED BY <1>5, <2>6, <2>7, <2>8
<1> QED BY <1>1, <1>2, <1>3, <1>4, <1>5 DEF Next

----------------------------------------------------------------------------
LEMMA MatcherAlways == Spec => []MatcherInv
<1>1. Init => MatcherInv
  BY MatcherStart DEF Init
<1>2. MatcherInv /\ [Next]_vars => MatcherInv'
  <2>1. CASE Match
    BY <2>1, MatcherStep DEF Match
  <2>2. CASE UNCHANGED matcherVars
    BY <2>2, MatcherStutter
  <2> QED BY <2>1, <2>2
      DEF Next, AnalyzeSpecification, AnalyzeSource, CorrelateNext, RunRule, Finish,
          CorrelationFails, vars
<1> QED BY <1>1, <1>2, PTL DEF Spec

LEMMA FindingsAlways == Spec => []FindingsInv
<1>1. Spec => []MatcherInv
  BY MatcherAlways
<1>2. Init => FindingsInv
  BY FindingsStart
<1>3. MatcherInv /\ FindingsInv /\ [Next]_vars => FindingsInv'
  BY FindingsStep
<1> QED BY <1>1, <1>2, <1>3, PTL DEF Spec

(* Every variable of the matcher and of the analysis stays in its type.    *)
THEOREM EvidenceTypeOK == Spec => []TypeOK
<1>1. MatcherInv /\ FindingsInv => TypeOK
  BY DEF MatcherInv, FindingsInv, FindingOK, FindingsTyped, TypeOK
<1> QED BY <1>1, MatcherAlways, FindingsAlways, PTL

(* An operation is given an endpoint that an earlier one has only when     *)
(* all those it could have had are taken (matcher.py:101-103, 127-128).    *)
THEOREM EndpointsAreSharedWhenScarce == Spec => []SharedOnlyWhenScarce
<1>1. MatcherInv => SharedOnlyWhenScarce
  BY DEF MatcherInv, PairOK, SharedOnlyWhenScarce
<1> QED BY <1>1, MatcherAlways, PTL

(* The operations reported as not implemented are those for which no       *)
(* endpoint has the method and the template (matcher.py:52-56, 215-216).   *)
THEOREM LeftoversAreAbsent == Spec => []UnmatchedMeansAbsent
<1>1. ASSUME MatcherInv, matched
      PROVE  unmatched = {i \in DOMAIN operations : SameTemplate(operations[i]) = {}}
  <2>1. CASE Len(pairs) = Len(operations) /\ unmatched = Unpaired
    <3>1. DOMAIN pairs = DOMAIN operations
      BY <1>1, <2>1, Lengths DEF MatcherInv
    <3> QED BY <1>1, <2>1, <3>1 DEF MatcherInv, PairOK, Unpaired
  <2>2. CASE operations = <<>> /\ unmatched = DOMAIN operations
    BY <2>2
  <2>3. CASE endpoints = <<>> /\ unmatched = DOMAIN operations
    <3>1. DOMAIN endpoints = {}
      BY <2>3
    <3>2. \A op : SameTemplate(op) = {}
      BY <3>1 DEF SameTemplate
    <3> QED BY <2>3, <3>2
  <2> QED BY <1>1, <2>1, <2>2, <2>3 DEF MatcherInv, Returned
<1>2. MatcherInv => UnmatchedMeansAbsent
  BY <1>1 DEF UnmatchedMeansAbsent
<1> QED BY <1>2, MatcherAlways, PTL

(* The totals of the metrics count every operation once, and no endpoint   *)
(* twice except a shared one (metrics.py:85-95).                           *)
THEOREM TotalsAddUp == Spec => []CountsAddUp
<1>1. FindingsInv => CountsAddUp
  BY DEF FindingsInv
<1> QED BY <1>1, FindingsAlways, PTL

(* The authentication rule and the aligner, which decide separately, agree *)
(* on every pair (auth_correlation.py:95-241, aligner.py:52-89).           *)
THEOREM RuleAgreesWithAligner == Spec => []AuthRuleFollowsAligner
<1>1. FindingsInv => AuthRuleFollowsAligner
  <2> SUFFICES ASSUME FindingsInv, rulesRun > 0
               PROVE  /\ \A f \in Findings("CORR-AUTH-001") : f.state = AlignAuth(f.pair)
                      /\ \A i \in Joined : AlignAuth(i) = "CONTRADICTED" =>
                            \E f \in Findings("CORR-AUTH-001") : f.pair = i
    BY DEF AuthRuleFollowsAligner
  <2>1. \A f \in Findings("CORR-AUTH-001") : f.state = AlignAuth(f.pair)
    BY DEF Findings, FindingsInv, FindingOK
  <2>2. ContradictionsReported
    BY DEF FindingsInv
  <2> QED BY <2>1, <2>2 DEF Findings, ContradictionsReported
<1> QED BY <1>1, FindingsAlways, PTL

(* What a correlated finding says of a layer, the rule of that layer said  *)
(* by itself (auth_correlation.py:194-199, authz_correlation.py:99).       *)
THEOREM FindingsAreBacked == Spec => []CorroborationIsBacked
<1>1. ASSUME MatcherInv, FindingsInv, NEW f \in Findings("CORR-AUTH-001")
      PROVE  f.state = "SUPPORTED" <=>
                SaidOf(specFindings, "API-AUTH-001", f.pair)
                  = SaidOf(sourceFindings, "API-SOURCE-AUTH-001", f.endpoint)
  <2>1. /\ f.pair \in Joined /\ f.endpoint = pairs[f.pair].endpoint
        /\ f.state = AlignAuth(f.pair) /\ Ep(f.pair).auth # UNKNOWN
    BY <1>1 DEF Findings, FindingsInv, FindingOK
  <2>2. OperationsSaid /\ EndpointsSaid
    <3>1. rulesRun > 0
      BY <1>1 DEF Findings, FindingsInv
    <3> QED BY <1>1, <3>1 DEF FindingsInv
  <2>3. SaidOf(specFindings, "API-AUTH-001", f.pair) <=> ~Op(f.pair).secured
    BY <1>1, <2>1, <2>2, JoinedTyped DEF OperationsSaid, Op
  <2>4. SaidOf(sourceFindings, "API-SOURCE-AUTH-001", f.endpoint) <=> Ep(f.pair).auth = ABSENT
    BY <1>1, <2>1, <2>2, JoinedTyped DEF EndpointsSaid, Ep
  <2>5. Op(f.pair).secured \in BOOLEAN /\ Ep(f.pair).auth \in {PRESENT, ABSENT}
    BY <1>1, <2>1, JoinedTyped
  <2>6. f.state = "SUPPORTED" <=> Op(f.pair).secured = (Ep(f.pair).auth = PRESENT)
    BY <2>1 DEF AlignAuth
  <2>7. Ep(f.pair).auth = ABSENT <=> ~(Ep(f.pair).auth = PRESENT)
    BY <2>5 DEF PRESENT, ABSENT
  <2>8. SaidOf(specFindings, "API-AUTH-001", f.pair) \in BOOLEAN
        /\ SaidOf(sourceFindings, "API-SOURCE-AUTH-001", f.endpoint) \in BOOLEAN
    BY DEF SaidOf
  <2> QED BY <2>3, <2>4, <2>5, <2>6, <2>7, <2>8
<1>2. ASSUME MatcherInv, FindingsInv, NEW f \in Findings("CORR-AUTHZ-001")
      PROVE  SaidOf(sourceFindings, "API-SOURCE-AUTHZ-001", f.endpoint)
  <2>1. /\ f.pair \in Joined /\ f.endpoint = pairs[f.pair].endpoint
        /\ Ep(f.pair).lookup /\ ~Ep(f.pair).authz
    BY <1>2 DEF Findings, FindingsInv, FindingOK
  <2>2. EndpointsSaid
    <3>1. rulesRun > 0
      BY <1>2 DEF Findings, FindingsInv
    <3> QED BY <1>2, <3>1 DEF FindingsInv
  <2> QED BY <1>2, <2>1, <2>2, JoinedTyped DEF EndpointsSaid, Ep
<1>3. MatcherInv /\ FindingsInv => CorroborationIsBacked
  BY <1>1, <1>2 DEF CorroborationIsBacked, SaidOf
<1> QED BY <1>3, MatcherAlways, FindingsAlways, PTL

(* The surface rule, which recomputes the leftovers from methods and       *)
(* paths, never calls a paired endpoint a shadow, and calls zombies what   *)
(* the matcher left over (surface_divergence.py:38-40, 89-98).             *)
THEOREM SurfaceAgreesWithMatcher == Spec => []SurfaceFollowsMatcher
<1>1. ASSUME MatcherInv, FindingsInv, rulesRun = 5
      PROVE  SurfaceFollowsMatcher
  <2> DEFINE surface == Findings("CORR-SURF-001")
             shadows == {f.endpoint : f \in {g \in surface : g.pair = 0}}
             zombies == {f.pair : f \in surface} \ {0}
  <2>1. matched /\ SurfaceReported
    BY <1>1 DEF FindingsInv
  <2>2. /\ Len(pairs) \in Nat /\ DOMAIN pairs = 1 .. Len(pairs)
        /\ claimed = TakenBy(Len(pairs)) /\ claimed \subseteq DOMAIN endpoints
    BY <1>1, Lengths DEF MatcherInv, MatcherTypeOK
  <2>3. \A c \in claimed : \E i \in Joined : pairs[i].endpoint = c
    BY <2>2 DEF TakenBy, Joined
  <2>4. \A i \in Joined : pairs[i].endpoint \in claimed
    BY <1>1, JoinedTyped
  <2>5. \A f \in surface : \/ f.pair = 0 /\ f.endpoint \in DOMAIN endpoints /\ Unknown(f.endpoint)
                           \/ f.pair \in Unpaired
    BY <1>1 DEF Findings, FindingsInv, FindingOK
  <2>6. 0 \notin Unpaired
    BY <2>2 DEF Unpaired
  <2>7. shadows \cap claimed = {}
    BY <2>3, <2>5, <2>6 DEF Unknown
  <2>8. \A e \in DOMAIN endpoints \ (claimed \cup shadows) : \E c \in claimed :
           endpoints[c].path = endpoints[e].path /\ endpoints[c].method = endpoints[e].method
    <3> TAKE e \in DOMAIN endpoints \ (claimed \cup shadows)
    <3>1. ~Unknown(e)
      BY <2>1 DEF SurfaceReported, Findings
    <3>2. PICK i \in Joined : SurfaceKey(pairs[i].endpoint) = SurfaceKey(e)
      BY <3>1 DEF Unknown
    <3>3. pairs[i].endpoint \in claimed
      BY <2>4
    <3> QED BY <3>2, <3>3 DEF SurfaceKey
  <2>9. zombies = Unpaired
    BY <2>1, <2>5, <2>6 DEF SurfaceReported, Findings
  <2>10. endpoints # <<>> => unmatched = Unpaired
    BY <1>1, <2>1 DEF MatcherInv, Returned, Unpaired
  <2> HIDE DEF shadows, zombies
  <2>11. /\ shadows \cap claimed = {}
         /\ \A e \in DOMAIN endpoints \ (claimed \cup shadows) : \E c \in claimed :
               /\ endpoints[c].path = endpoints[e].path
               /\ endpoints[c].method = endpoints[e].method
         /\ endpoints # <<>> => zombies = unmatched
    BY <2>7, <2>8, <2>9, <2>10
  <2> QED BY <2>11 DEF SurfaceFollowsMatcher, shadows, zombies
<1>2. MatcherInv /\ FindingsInv => SurfaceFollowsMatcher
  BY <1>1 DEF SurfaceFollowsMatcher
<1> QED BY <1>2, MatcherAlways, FindingsAlways, PTL

(* Both together: the findings about a pair are those the matcher and the  *)
(* aligner call for (aligner.py, rules/correlation).                       *)
THEOREM FindingsFollowPairs == Spec => []RulesFollowPairs
BY RuleAgreesWithAligner, SurfaceAgreesWithMatcher, PTL DEF RulesFollowPairs
=============================================================================
