-------------------------- MODULE Evaluation_proofs --------------------------
(***************************************************************************)
(* Proofs about the evaluation harness for any benchmark, any cases and    *)
(* any engines, and about the registration protocol for any fixtures:      *)
(* every proposition is judged once, on the evidence of its own case, and  *)
(* the tables of a report are about the same outcomes.                     *)
(*                                                                         *)
(* HarnessInv says, for every moment, which propositions have been judged  *)
(* in which mode: the classifications of a mode are the judgements of the  *)
(* propositions so far, one by one and in order, so that everything the    *)
(* reports compute is a fact about one and the same list.                  *)
(***************************************************************************)
EXTENDS Evaluation, ConnexionProtocol, DataLemmas

-----------------------------------------------------------------------------
(* The inductive invariant of the harness.                                 *)

IsList(s) == s \in Seq(ToSet(s))

Parts == ToSet(Partitions(input.benchmark))
Cases == UNION {ToSet(input.truth[p]) : p \in Parts}
ItemsOf(case) == [j \in DOMAIN case.propositions |-> <<case.id, case.propositions[j]>>]
Items == UNION {ToSet(ItemsOf(case)) : case \in Cases}

HarnessTyped ==
    /\ input \in Inputs /\ dataset \in Seq(Cases)
    /\ stage \in {"load", "analyse", "evaluate", "statistics", "done", "failed"}
    /\ at \in Nat \ {0} /\ next \in Nat \ {0} /\ mode \in 1 .. 3
    /\ tables = [m \in ModeNames |-> tables[m]]
    /\ \A m \in ModeNames : DOMAIN tables[m] = {"classifications", "byCategory", "b", "c", "findings"}
    /\ stage \notin {"evaluate", "statistics", "done"} => mode = 1
    /\ stage \in {"statistics", "done"} => mode = 3
    /\ stage # "evaluate" => next = 1

(* The first n cases of a partition have different ids.                    *)
Distinct(truth, n) == \A j, k \in 1 .. n : truth[j].id = truth[k].id => j = k

LoadInv ==
    /\ loading \in Seq(Parts)
    /\ stage = "load" =>
          /\ loading # <<>> /\ at <= Len(Raw) + 1
          /\ seen = {Raw[j].id : j \in 1 .. at - 1}
          /\ Distinct(Raw, at - 1)
    /\ stage \notin {"load", "failed"} => loading = <<>>
    /\ \A p \in Parts \ ToSet(loading) : Distinct(input.truth[p], Len(input.truth[p]))

ResultInv ==
    /\ \A id \in DOMAIN results : Holding(id) # {} /\ results[id] = RunSingleCase(CaseFiles(id))
    /\ stage = "analyse" => \A i \in 1 .. at - 1 : i \in DOMAIN dataset => dataset[i].id \in DOMAIN results
    /\ stage \in {"evaluate", "statistics", "done"} =>
          \A i \in DOMAIN dataset : dataset[i].id \in DOMAIN results

(* What the first k cases of the dataset d ask, and what has been judged   *)
(* when a is the case and n its next proposition.                          *)
Flat(d, k) == FlattenSeq([i \in 1 .. k |-> ItemsOf(d[i])])
Prefix(d, a, n) == IF a \in DOMAIN d THEN Flat(d, a - 1) \o SubSeq(ItemsOf(d[a]), 1, n - 1)
                   ELSE Flat(d, Len(d))

Judged(item, m, r) == Classify(item[2], item[1], r[item[1]].findings[m])

(* The categories together have each outcome as often as the mode has.     *)
CategoriesFit(classifications, byCategory) ==
    /\ \A c \in DOMAIN byCategory : IsList(byCategory[c])
    /\ \A o \in Outcomes : /\ IsFiniteSet(Entries(byCategory, o))
                            /\ Cardinality(Entries(byCategory, o)) = Count(classifications, o)

Fits(table, items, m, r) ==
    /\ table.classifications = [i \in 1 .. Len(items) |-> Judged(items[i], m, r)]
    /\ CategoriesFit(table.classifications, table.byCategory)
    /\ IsList(table.findings)

Judgeable(k) ==
    CASE stage \in {"statistics", "done"}    -> Propositions
      [] stage = "evaluate" /\ k < mode      -> Propositions
      [] stage = "evaluate" /\ k = mode      -> Prefix(dataset, at, next)
      [] OTHER                               -> <<>>

EvaluateInv ==
    /\ stage = "evaluate" =>
          /\ at <= Len(dataset) + 1
          /\ next <= IF at \in DOMAIN dataset THEN Len(dataset[at].propositions) + 1 ELSE 1
    /\ \A k \in 1 .. 3 : Fits(tables[Modes[k]], Judgeable(k), Modes[k], results)

HarnessInv ==
    /\ HarnessTyped /\ LoadInv /\ ResultInv /\ EvaluateInv
    /\ stage = "done" => report = Report

-----------------------------------------------------------------------------
(* Lists.                                                                  *)
LEMMA ListOfAny ==
    ASSUME NEW S, NEW s \in Seq(S)
    PROVE  IsList(s) /\ ToSet(s) \subseteq S
  BY DEF IsList, ToSet

(* A function over the first n numbers is a list.                          *)
LEMMA ListByIndex ==
    ASSUME NEW n \in Nat, NEW s, s = [i \in 1 .. n |-> s[i]]
    PROVE  IsList(s) /\ Len(s) = n
<1>1. \A i \in 1 .. n : s[i] \in ToSet(s)
  BY DEF ToSet
<1>2. s \in [1 .. n -> ToSet(s)]
  BY <1>1
<1> QED  BY <1>2 DEF IsList

(* A judgement names the case and the proposition it is about              *)
(* (runner.py:115).                                                        *)
LEMMA JudgedNames ==
    ASSUME NEW item, NEW m, NEW r
    PROVE  Judged(item, m, r).case = item[1] /\ Judged(item, m, r).id = item[2].id
  BY DEF Judged, Classify

(* Two lists in a row are a list.                                          *)
LEMMA ListsJoin ==
    ASSUME NEW s, IsList(s), NEW t, IsList(t)
    PROVE  IsList(s \o t)
<1> DEFINE U == ToSet(s) \cup ToSet(t)
<1>1. s \in Seq(U) /\ t \in Seq(U)
  BY SeqMonotonic DEF IsList
<1> HIDE DEF U
<1>2. s \o t \in Seq(U)
  BY <1>1
<1> QED  BY <1>2, ListOfAny

(* A list with one more at its end.                                        *)
LEMMA ListGrows ==
    ASSUME NEW s, IsList(s), NEW c
    PROVE  /\ IsList(Append(s, c)) /\ Len(s) \in Nat /\ DOMAIN s = 1 .. Len(s)
           /\ Len(Append(s, c)) = Len(s) + 1
           /\ DOMAIN Append(s, c) = 1 .. Len(s) + 1
           /\ \A i \in 1 .. Len(s) : Append(s, c)[i] = s[i]
           /\ Append(s, c)[Len(s) + 1] = c
<1> DEFINE U == ToSet(s) \cup {c}
<1>1. s \in Seq(U) /\ c \in U
  BY SeqMonotonic DEF IsList
<1> HIDE DEF U
<1>2. Append(s, c) \in Seq(U)
  BY <1>1
<1>3. IsList(Append(s, c))
  BY <1>2, ListOfAny
<1>4. /\ Len(s) \in Nat /\ DOMAIN s = 1 .. Len(s)
      /\ Len(Append(s, c)) = Len(s) + 1
      /\ DOMAIN Append(s, c) = 1 .. Len(s) + 1
      /\ \A i \in 1 .. Len(s) : Append(s, c)[i] = s[i]
      /\ Append(s, c)[Len(s) + 1] = c
  BY <1>1, AppendProperties
<1> QED  BY <1>3, <1>4

(* One more classification has one more outcome.                           *)
LEMMA HavingGrows ==
    ASSUME NEW s, IsList(s), NEW c, NEW o
    PROVE  Having(Append(s, c), {o})
             = Having(s, {o}) \cup (IF c.outcome = o THEN {Len(s) + 1} ELSE {})
<1>1. \A i \in 1 .. Len(s) + 1 : i \in 1 .. Len(s) \/ i = Len(s) + 1
  BY ListGrows
<1>2. \A i \in 1 .. Len(s) : i \in 1 .. Len(s) + 1
  BY ListGrows
<1>3. Len(s) + 1 \in 1 .. Len(s) + 1
  BY ListGrows
<1> QED  BY <1>1, <1>2, <1>3, ListGrows DEF Having

(* The places with an outcome are places of the list.                      *)
LEMMA HavingFinite ==
    ASSUME NEW s, IsList(s), NEW O
    PROVE  /\ IsFiniteSet(Having(s, O)) /\ Having(s, O) \subseteq 1 .. Len(s)
           /\ Len(s) + 1 \notin Having(s, O)
<1>1. Len(s) \in Nat /\ DOMAIN s = 1 .. Len(s)
  BY DEF IsList
<1>2. IsFiniteSet(1 .. Len(s))
  BY <1>1, FS_Interval
<1>3. Having(s, O) \subseteq 1 .. Len(s)
  BY <1>1 DEF Having
<1>4. Len(s) + 1 \notin 1 .. Len(s)
  BY <1>1
<1> QED  BY <1>2, <1>3, <1>4, FS_Subset

(* Push keeps the categories in step with the classifications.             *)
LEMMA PushCounts ==
    ASSUME NEW s, IsList(s), NEW table, CategoriesFit(s, table), NEW c
    PROVE  CategoriesFit(Append(s, c), Push(table, c))
<1> DEFINE k == c.category
           old == IF k \in DOMAIN table THEN table[k] ELSE <<>>
           T == Push(table, c)
<1>1. IsList(old)
  <2>1. IsList(<<>>)
    BY DEF IsList, ToSet
  <2> QED  BY <2>1 DEF CategoriesFit
<1>2. /\ DOMAIN T = DOMAIN table \cup {k}
      /\ \A x \in DOMAIN table : x # k => T[x] = table[x]
      /\ T[k] = Append(old, c)
  <2>1. Append(<<>>, c) = <<c>>
    OBVIOUS
  <2> QED  BY <2>1 DEF Push
<1> HIDE DEF T, old
<1>3. \A x \in DOMAIN T : IsList(T[x])
  <2>1. IsList(Append(old, c))
    BY <1>1, ListGrows
  <2> QED  BY <1>2, <2>1 DEF CategoriesFit
<1>4. \A o : Having(Append(old, c), {o})
                = Having(old, {o}) \cup (IF c.outcome = o THEN {Len(old) + 1} ELSE {})
  BY <1>1, HavingGrows
<1>5. k \notin DOMAIN table => \A o : Having(old, {o}) = {}
  BY DEF Having, old
<1> DEFINE new == <<k, Len(old) + 1>>
<1>6. ASSUME NEW o
      PROVE  Entries(T, o) = Entries(table, o) \cup (IF c.outcome = o THEN {new} ELSE {})
  <2>1. ASSUME NEW e PROVE e \in Entries(T, o) <=> \E x \in DOMAIN T : e \in {x} \X Having(T[x], {o})
    BY DEF Entries
  <2>2. ASSUME NEW e PROVE e \in Entries(table, o)
                              <=> \E x \in DOMAIN table : e \in {x} \X Having(table[x], {o})
    BY DEF Entries
  <2>3. {k} \X Having(T[k], {o})
          = ({k} \X Having(old, {o})) \cup (IF c.outcome = o THEN {new} ELSE {})
    <3>1. Having(T[k], {o}) = Having(old, {o}) \cup (IF c.outcome = o THEN {Len(old) + 1} ELSE {})
      BY <1>2, <1>4
    <3>2. CASE c.outcome = o
      <4>1. \A H, h : {k} \X (H \cup {h}) = ({k} \X H) \cup {<<k, h>>}
        OBVIOUS
      <4>2. Having(T[k], {o}) = Having(old, {o}) \cup {Len(old) + 1}
        BY <3>1, <3>2
      <4>3. {k} \X Having(T[k], {o}) = ({k} \X Having(old, {o})) \cup {<<k, Len(old) + 1>>}
        BY ONLY <4>1, <4>2
      <4> QED  BY <3>2, <4>3
    <3>3. CASE c.outcome # o
      BY <3>1, <3>3
    <3> QED  BY <3>2, <3>3
  <2>4. k \in DOMAIN table => table[k] = old
    BY DEF old
  <2> HIDE DEF new
  <2>5. ASSUME NEW e, e \in Entries(T, o)
        PROVE  e \in Entries(table, o) \cup (IF c.outcome = o THEN {new} ELSE {})
    <3>1. PICK x \in DOMAIN T : e \in {x} \X Having(T[x], {o})
      BY <2>1, <2>5
    <3>2. CASE x # k
      BY <1>2, <2>2, <3>1, <3>2
    <3>3. CASE x = k
      <4>1. e \in {k} \X Having(old, {o}) \/ e \in (IF c.outcome = o THEN {new} ELSE {})
        BY <2>3, <3>1, <3>3
      <4>2. CASE k \in DOMAIN table
        BY <2>2, <2>4, <4>1, <4>2
      <4>3. CASE k \notin DOMAIN table
        BY <1>5, <4>1, <4>3
      <4> QED  BY <4>2, <4>3
    <3> QED  BY <3>2, <3>3
  <2>6. ASSUME NEW e, e \in Entries(table, o) PROVE e \in Entries(T, o)
    <3>1. PICK x \in DOMAIN table : e \in {x} \X Having(table[x], {o})
      BY <2>2, <2>6
    <3>2. CASE x # k
      BY <1>2, <2>1, <3>1, <3>2
    <3>3. CASE x = k
      <4>1. e \in {k} \X Having(T[k], {o})
        BY <2>3, <2>4, <3>1, <3>3
      <4> QED  BY <1>2, <2>1, <4>1
    <3> QED  BY <3>2, <3>3
  <2>7. ASSUME c.outcome = o PROVE new \in Entries(T, o)
    <3>1. new \in {k} \X Having(T[k], {o})
      BY <2>3, <2>7
    <3> QED  BY <1>2, <2>1, <3>1
  <2> QED  BY <2>5, <2>6, <2>7
<1>7. ASSUME NEW o PROVE new \notin Entries(table, o)
  <2>1. ASSUME NEW x \in DOMAIN table, new \in {x} \X Having(table[x], {o}) PROVE FALSE
    <3>1. x = k /\ Len(old) + 1 \in Having(old, {o})
      BY <2>1 DEF old
    <3> QED  BY <1>1, <3>1, HavingFinite
  <2> QED  BY <2>1 DEF Entries
<1> HIDE DEF new
<1>8. ASSUME NEW o \in Outcomes
      PROVE  /\ IsFiniteSet(Entries(T, o))
             /\ Cardinality(Entries(T, o)) = Count(Append(s, c), o)
  <2>1. /\ IsFiniteSet(Entries(table, o))
        /\ Cardinality(Entries(table, o)) = Cardinality(Having(s, {o}))
    BY DEF CategoriesFit, Count
  <2>2. Having(Append(s, c), {o}) = Having(s, {o}) \cup (IF c.outcome = o THEN {Len(s) + 1} ELSE {})
    BY HavingGrows
  <2>3. Len(s) + 1 \notin Having(s, {o}) /\ IsFiniteSet(Having(s, {o}))
    BY HavingFinite
  <2>4. CASE c.outcome = o
    <3>1. Entries(T, o) = Entries(table, o) \cup {new}
      BY <1>6, <2>4
    <3>2. Having(Append(s, c), {o}) = Having(s, {o}) \cup {Len(s) + 1}
      BY <2>2, <2>4
    <3>3. /\ IsFiniteSet(Entries(T, o))
          /\ Cardinality(Entries(T, o)) = Cardinality(Entries(table, o)) + 1
      BY <1>7, <2>1, <3>1, FS_AddElement
    <3>4. Cardinality(Having(Append(s, c), {o})) = Cardinality(Having(s, {o})) + 1
      BY <2>3, <3>2, FS_AddElement
    <3> QED  BY <2>1, <3>3, <3>4 DEF Count
  <2>5. CASE c.outcome # o
    <3>1. Entries(T, o) = Entries(table, o) /\ Having(Append(s, c), {o}) = Having(s, {o})
      BY <1>6, <2>2, <2>5
    <3> QED  BY <2>1, <3>1 DEF Count
  <2> QED  BY <2>4, <2>5
<1> QED  BY <1>3, <1>8 DEF CategoriesFit, T

-----------------------------------------------------------------------------
(* The dataset and the propositions in it.                                 *)
LEMMA PartsShape ==
    ASSUME HarnessTyped
    PROVE  /\ Parts \subseteq Directories
           /\ Partitions(input.benchmark) \in Seq(Parts) /\ Partitions(input.benchmark) # <<>>
<1>1. input.benchmark \in {"baseline", "external", "combined"}
  BY EvaluationAssumption DEF HarnessTyped
<1>2. CASE input.benchmark = "combined"
  <2>1. Partitions(input.benchmark) = <<"baseline", "external">>
    BY <1>2 DEF Partitions
  <2>2. Parts = {"baseline", "external"}
    BY <2>1 DEF Parts, ToSet
  <2> QED  BY <2>1, <2>2 DEF Directories
<1>3. CASE input.benchmark # "combined"
  <2>1. Partitions(input.benchmark) = <<input.benchmark>>
    BY <1>3 DEF Partitions
  <2>2. Parts = {input.benchmark}
    BY <2>1 DEF Parts, ToSet
  <2> QED  BY <1>1, <1>3, <2>1, <2>2 DEF Directories
<1> QED  BY <1>2, <1>3

(* A case of the benchmark is well formed, and so are its items.           *)
LEMMA CaseShape ==
    ASSUME HarnessTyped, NEW case \in Cases
    PROVE  /\ WellFormed(case)
           /\ Len(case.propositions) \in Nat
           /\ DOMAIN case.propositions = 1 .. Len(case.propositions)
           /\ ItemsOf(case) \in Seq(Items)
           /\ Len(ItemsOf(case)) = Len(case.propositions)
           /\ \A j \in 1 .. Len(case.propositions) :
                 ItemsOf(case)[j] = <<case.id, case.propositions[j]>>
<1>1. WellFormed(case)
  <2>1. PICK p \in Parts : case \in ToSet(input.truth[p])
    BY DEF Cases
  <2>2. input \in Inputs /\ p \in Directories
    BY <2>1, PartsShape DEF HarnessTyped
  <2> QED  BY <2>1, <2>2, EvaluationAssumption
<1>2. Len(case.propositions) \in Nat /\ DOMAIN case.propositions = 1 .. Len(case.propositions)
  BY <1>1 DEF WellFormed
<1>3. ItemsOf(case) = [j \in 1 .. Len(case.propositions) |-> <<case.id, case.propositions[j]>>]
  BY <1>2 DEF ItemsOf
<1>4. ItemsOf(case) \in Seq(ToSet(ItemsOf(case))) /\ Len(ItemsOf(case)) = Len(case.propositions)
  <2>1. PICK t : t = ItemsOf(case)
    OBVIOUS
  <2>2. t = [j \in 1 .. Len(case.propositions) |-> t[j]]
    BY <1>3, <2>1
  <2> QED  BY <1>2, <2>1, <2>2, ListByIndex DEF IsList
<1>5. ToSet(ItemsOf(case)) \subseteq Items
  BY DEF Items
<1>6. ItemsOf(case) \in Seq(Items)
  BY <1>4, <1>5, SeqMonotonic
<1> QED  BY <1>1, <1>2, <1>3, <1>4, <1>6

(* The items of the first k cases, case by case.                           *)
LEMMA FlatMoves ==
    ASSUME HarnessTyped
    PROVE  /\ Flat(dataset, 0) = <<>>
           /\ \A k \in 0 .. Len(dataset) : Flat(dataset, k) \in Seq(Items)
           /\ \A k \in 1 .. Len(dataset) :
                 Flat(dataset, k) = Flat(dataset, k - 1) \o ItemsOf(dataset[k])
           /\ Propositions = Flat(dataset, Len(dataset))
<1> DEFINE part(k) == [i \in 1 .. k |-> ItemsOf(dataset[i])]
<1>1. /\ Len(dataset) \in Nat /\ DOMAIN dataset = 1 .. Len(dataset)
      /\ \A i \in 1 .. Len(dataset) : dataset[i] \in Cases
  BY DEF HarnessTyped
<1>2. \A i \in 1 .. Len(dataset) : ItemsOf(dataset[i]) \in Seq(Items)
  BY <1>1, CaseShape
<1>3. \A k \in 0 .. Len(dataset) : part(k) \in Seq(Seq(Items)) /\ Len(part(k)) = k
  BY <1>1, <1>2
<1>4. part(0) = <<>> /\ FlattenSeq(<<>>) = <<>>
  BY DEF FlattenSeq
<1>5. ASSUME NEW k \in 1 .. Len(dataset)
      PROVE  part(k) = Append(part(k - 1), ItemsOf(dataset[k]))
  <2>1. k - 1 \in 0 .. Len(dataset) /\ k \in 0 .. Len(dataset) /\ k - 1 + 1 = k
    BY <1>1
  <2>2. /\ part(k - 1) \in Seq(Seq(Items)) /\ Len(part(k - 1)) = k - 1
        /\ ItemsOf(dataset[k]) \in Seq(Items)
    BY <1>2, <1>3, <2>1
  <2>3. \A i \in 1 .. k : i \in 1 .. k - 1 \/ i = k
    BY <1>1
  <2>4. part(k) \in Seq(Seq(Items)) /\ Len(part(k)) = k
    BY <1>3, <2>1
  <2> DEFINE q == Append(part(k - 1), ItemsOf(dataset[k]))
  <2>5. q \in Seq(Seq(Items)) /\ Len(q) = k
    BY <2>1, <2>2, AppendProperties
  <2>6. \A i \in 1 .. k - 1 : q[i] = part(k - 1)[i]
    BY <2>2, AppendProperties
  <2>7. q[k] = ItemsOf(dataset[k])
    BY <2>1, <2>2, AppendProperties
  <2>8. \A i \in 1 .. k : part(k)[i] = ItemsOf(dataset[i])
    OBVIOUS
  <2>9. \A i \in 1 .. k - 1 : part(k - 1)[i] = ItemsOf(dataset[i])
    OBVIOUS
  <2> HIDE DEF part, q
  <2>10. \A i \in 1 .. k : part(k)[i] = q[i]
    BY <2>3, <2>6, <2>7, <2>8, <2>9
  <2> QED  BY <2>4, <2>5, <2>10, SeqEqual DEF q
<1>6. \A k \in 0 .. Len(dataset) : Flat(dataset, k) = FlattenSeq(part(k))
  BY DEF Flat
<1>7. Propositions = Flat(dataset, Len(dataset))
  BY <1>1 DEF Propositions, Flat, ItemsOf
<1> HIDE DEF part
<1>8. \A k \in 0 .. Len(dataset) : Flat(dataset, k) \in Seq(Items)
  BY <1>3, <1>6, FlattenTyped
<1>9. ASSUME NEW k \in 1 .. Len(dataset)
      PROVE  Flat(dataset, k) = Flat(dataset, k - 1) \o ItemsOf(dataset[k])
  <2>1. k - 1 \in 0 .. Len(dataset) /\ k \in 0 .. Len(dataset)
    BY <1>1
  <2>2. part(k - 1) \in Seq(Seq(Items)) /\ ItemsOf(dataset[k]) \in Seq(Items)
    BY <1>2, <1>3, <2>1
  <2>3. FlattenSeq(part(k)) = FlattenSeq(part(k - 1)) \o ItemsOf(dataset[k])
    BY <1>5, <2>2, FlattenAppend
  <2> QED  BY <1>6, <2>1, <2>3
<1>10. Flat(dataset, 0) = <<>>
  BY <1>1, <1>4, <1>6
<1> QED  BY <1>7, <1>8, <1>9, <1>10

(* How the propositions judged so far grow.                                *)
LEMMA PrefixMoves ==
    ASSUME HarnessTyped
    PROVE  /\ Prefix(dataset, 1, 1) = <<>>
           /\ Prefix(dataset, Len(dataset) + 1, 1) = Propositions
           /\ \A a \in DOMAIN dataset : \A n \in 1 .. Len(dataset[a].propositions) :
                 /\ Prefix(dataset, a, n) \in Seq(Items)
                 /\ Prefix(dataset, a, n + 1)
                       = Append(Prefix(dataset, a, n), <<dataset[a].id, dataset[a].propositions[n]>>)
           /\ \A a \in DOMAIN dataset :
                 Prefix(dataset, a, Len(dataset[a].propositions) + 1) = Prefix(dataset, a + 1, 1)
<1>1. /\ Len(dataset) \in Nat /\ DOMAIN dataset = 1 .. Len(dataset)
      /\ \A i \in 1 .. Len(dataset) : dataset[i] \in Cases
  BY DEF HarnessTyped
<1>2. \A s \in Seq(Items) : SubSeq(s, 1, 0) = <<>> /\ s \o <<>> = s /\ SubSeq(s, 1, Len(s)) = s
  OBVIOUS
<1>3. Len(dataset) + 1 \notin DOMAIN dataset
  BY <1>1
<1>4. ASSUME NEW a \in 1 .. Len(dataset)
      PROVE  Prefix(dataset, a, 1) = Flat(dataset, a - 1)
  <2>1. a - 1 \in 0 .. Len(dataset) /\ 1 - 1 = 0
    BY <1>1
  <2>2. ItemsOf(dataset[a]) \in Seq(Items) /\ Flat(dataset, a - 1) \in Seq(Items)
    BY <1>1, <2>1, CaseShape, FlatMoves
  <2> QED  BY <1>1, <1>2, <2>1, <2>2 DEF Prefix
<1>5. Prefix(dataset, Len(dataset) + 1, 1) = Propositions
  BY <1>3, FlatMoves DEF Prefix
<1>6. Prefix(dataset, 1, 1) = <<>>
  <2>1. CASE 1 \in 1 .. Len(dataset)
    BY <1>4, <2>1, FlatMoves
  <2>2. CASE 1 \notin 1 .. Len(dataset)
    <3>1. Len(dataset) = 0
      BY <1>1, <2>2
    <3> QED  BY <1>1, <2>2, <3>1, FlatMoves DEF Prefix
  <2> QED  BY <2>1, <2>2
<1>7. ASSUME NEW a \in 1 .. Len(dataset), NEW n \in 1 .. Len(dataset[a].propositions)
      PROVE  /\ Prefix(dataset, a, n) \in Seq(Items)
             /\ Prefix(dataset, a, n + 1)
                   = Append(Prefix(dataset, a, n), <<dataset[a].id, dataset[a].propositions[n]>>)
  <2>1. PICK t : t = ItemsOf(dataset[a])
    OBVIOUS
  <2>2. /\ t \in Seq(Items) /\ n \in 1 .. Len(t) /\ Len(t) \in Nat
        /\ t[n] = <<dataset[a].id, dataset[a].propositions[n]>>
    BY <1>1, <2>1, CaseShape
  <2>3. PICK f : f = Flat(dataset, a - 1)
    OBVIOUS
  <2>4. f \in Seq(Items)
    <3>1. a - 1 \in 0 .. Len(dataset)
      BY <1>1
    <3> QED  BY <2>3, <3>1, FlatMoves
  <2>5. Prefix(dataset, a, n) = f \o SubSeq(t, 1, n - 1) /\ Prefix(dataset, a, n + 1) = f \o SubSeq(t, 1, n)
    <3>1. n + 1 - 1 = n
      BY <2>2
    <3> QED  BY <1>1, <2>1, <2>3, <3>1 DEF Prefix
  <2>6. SubSeq(t, 1, n - 1) \in Seq(Items) /\ SubSeq(t, 1, n) = Append(SubSeq(t, 1, n - 1), t[n])
    BY <2>2
  <2>7. PICK u : u = SubSeq(t, 1, n - 1)
    OBVIOUS
  <2>8. f \o Append(u, t[n]) = Append(f \o u, t[n]) /\ f \o u \in Seq(Items)
    <3>1. u \in Seq(Items)
      BY <2>6, <2>7
    <3>2. t[n] \in Items
      BY <2>2, ElementOfSeq, Zenon
    <3> QED  BY <2>4, <3>1, <3>2
  <2> QED  BY <2>2, <2>5, <2>6, <2>7, <2>8
<1>8. ASSUME NEW a \in 1 .. Len(dataset)
      PROVE  Prefix(dataset, a, Len(dataset[a].propositions) + 1) = Prefix(dataset, a + 1, 1)
  <2>1. PICK t : t = ItemsOf(dataset[a])
    OBVIOUS
  <2>2. t \in Seq(Items) /\ Len(t) = Len(dataset[a].propositions) /\ Len(t) \in Nat
    BY <1>1, <2>1, CaseShape
  <2>3. Prefix(dataset, a, Len(t) + 1) = Flat(dataset, a - 1) \o SubSeq(t, 1, Len(t))
    <3>1. PICK l : l = Len(t) + 1
      OBVIOUS
    <3>2. l - 1 = Len(t)
      BY <2>2, <3>1
    <3>3. Prefix(dataset, a, l) = Flat(dataset, a - 1) \o SubSeq(t, 1, l - 1)
      BY <1>1, <2>1 DEF Prefix
    <3> QED  BY <3>1, <3>2, <3>3
  <2>4. Prefix(dataset, a, Len(t) + 1) = Flat(dataset, a)
    BY <1>2, <2>1, <2>2, <2>3, FlatMoves
  <2>5. CASE a < Len(dataset)
    <3>1. a + 1 \in 1 .. Len(dataset) /\ a + 1 - 1 = a
      BY <1>1, <2>5
    <3> QED  BY <1>4, <2>2, <2>4, <3>1
  <2>6. CASE a = Len(dataset)
    <3>1. Prefix(dataset, a + 1, 1) = Propositions /\ Propositions = Flat(dataset, a)
      BY <1>5, <2>6, FlatMoves
    <3> QED  BY <2>2, <2>4, <3>1
  <2>7. a < Len(dataset) \/ a = Len(dataset)
    <3>1. a \in Nat /\ Len(dataset) \in Nat /\ a <= Len(dataset)
      BY <1>1
    <3> QED  BY ONLY <3>1
  <2> QED  BY ONLY <2>5, <2>6, <2>7
<1> QED  BY <1>1, <1>5, <1>6, <1>7, <1>8

-----------------------------------------------------------------------------
(* The steps.  The input never changes.                                    *)
LEMMA InputKept ==
    ASSUME input' = input
    PROVE  /\ Parts' = Parts /\ Cases' = Cases
           /\ \A id : Holding(id)' = Holding(id) /\ CaseFiles(id)' = CaseFiles(id)
  BY DEF Parts, Cases, Holding, CaseFiles, CaseDirectory, Partitions

(* The partition being loaded is a list of cases.                          *)
LEMMA RawShape ==
    ASSUME HarnessTyped, LoadInv, loading # <<>>
    PROVE  /\ Head(loading) \in Parts /\ Len(Raw) \in Nat /\ DOMAIN Raw = 1 .. Len(Raw)
           /\ \A i \in DOMAIN Raw : Raw[i] \in Cases
<1>1. Head(loading) \in Parts
  BY DEF LoadInv
<1>2. Raw \in Seq(ToSet(Raw))
  BY <1>1, PartsShape, EvaluationAssumption DEF HarnessTyped, Raw
<1>3. ToSet(Raw) \subseteq Cases
  BY <1>1 DEF Cases, Raw
<1>4. \A i \in DOMAIN Raw : Raw[i] \in ToSet(Raw)
  BY DEF ToSet
<1> QED  BY <1>1, <1>2, <1>3, <1>4

(* A table without classifications fits whatever the results are.          *)
LEMMA EmptyFits ==
    ASSUME NEW table, NEW m, NEW r, NEW q, Fits(table, <<>>, m, r)
    PROVE  Fits(table, <<>>, m, q)
<1>1. Len(<<>>) = 0 /\ \A i \in 1 .. 0 : FALSE
  OBVIOUS
<1>2. [i \in 1 .. Len(<<>>) |-> Judged(<<>>[i], m, r)] = [i \in 1 .. Len(<<>>) |-> Judged(<<>>[i], m, q)]
  BY <1>1
<1> QED  BY <1>2 DEF Fits

(* Nothing has been judged before the evaluation.                          *)
LEMMA NotYet ==
    ASSUME EvaluateInv, tables' = tables,
           stage \notin {"evaluate", "statistics", "done"}, stage' \notin {"evaluate", "statistics", "done"}
    PROVE  EvaluateInv'
<1>1. ASSUME NEW k \in 1 .. 3 PROVE Judgeable(k) = <<>> /\ Judgeable(k)' = <<>>
  BY DEF Judgeable
<1>2. ASSUME NEW k \in 1 .. 3 PROVE Fits(tables[Modes[k]], Judgeable(k), Modes[k], results)'
  <2>1. Fits(tables[Modes[k]], <<>>, Modes[k], results)
    BY <1>1 DEF EvaluateInv
  <2>2. Fits(tables'[Modes[k]], <<>>, Modes[k], results')
    BY <2>1, EmptyFits
  <2> QED  BY <1>1, <2>2
<1> QED  BY <1>2 DEF EvaluateInv

(* Loading keeps the ids of a partition distinct.                          *)
LEMMA LoadStep ==
    ASSUME HarnessInv, LoadCase \/ RefuseDataset \/ EndPartition
    PROVE  HarnessInv'
<1>1. /\ HarnessTyped /\ LoadInv /\ ResultInv /\ EvaluateInv /\ stage = "load"
      /\ UNCHANGED <<input, next, results, mode, tables, report>>
      /\ stage' \in {"load", "failed", "analyse"}
  BY DEF HarnessInv, LoadCase, RefuseDataset, EndPartition
<1>2. EvaluateInv' /\ stage' # "done"
  BY <1>1, NotYet
<1>3. loading # <<>> /\ at <= Len(Raw) + 1 /\ at \in Nat /\ at >= 1
  BY <1>1 DEF LoadInv, HarnessTyped
<1>4. /\ Head(loading) \in Parts /\ Len(Raw) \in Nat /\ DOMAIN Raw = 1 .. Len(Raw)
      /\ \A i \in DOMAIN Raw : Raw[i] \in Cases
  BY <1>1, <1>3, RawShape
<1>5. /\ Parts' = Parts /\ Cases' = Cases
      /\ \A id : Holding(id)' = Holding(id) /\ CaseFiles(id)' = CaseFiles(id)
  BY <1>1, InputKept
<1>6. CASE LoadCase
  <2>1. /\ at \in 1 .. Len(Raw) /\ Raw[at].id \notin seen /\ seen' = seen \cup {Raw[at].id}
        /\ dataset' = Append(dataset, Raw[at]) /\ at' = at + 1 /\ UNCHANGED <<stage, loading>>
    BY <1>4, <1>6 DEF LoadCase
  <2>2. dataset' \in Seq(Cases')
    BY <1>1, <1>4, <1>5, <2>1 DEF HarnessTyped
  <2>3. HarnessTyped'
    BY <1>1, <2>1, <2>2 DEF HarnessTyped
  <2>4. Raw' = Raw
    BY <1>1, <2>1 DEF Raw
  <2>5. /\ seen = {Raw[j].id : j \in 1 .. at - 1}
        /\ \A j, k \in 1 .. at - 1 : Raw[j].id = Raw[k].id => j = k
    BY <1>1 DEF LoadInv, Distinct
  <2>6. \A j : j \in 1 .. at <=> j \in 1 .. at - 1 \/ j = at
    BY <1>3
  <2>7. \A j \in 1 .. at - 1 : Raw[j].id # Raw[at].id
    BY <2>1, <2>5
  <2>8. \A j, k \in 1 .. at : Raw[j].id = Raw[k].id => j = k
    BY <2>5, <2>6, <2>7
  <2>9. seen' = {Raw[j].id : j \in 1 .. at}
    BY <2>1, <2>5, <2>6
  <2>10. at' - 1 = at /\ at' <= Len(Raw') + 1
    BY <1>3, <1>4, <2>1, <2>4
  <2>11. Distinct(Raw', at' - 1) /\ seen' = {Raw'[j].id : j \in 1 .. at' - 1}
    BY <2>4, <2>8, <2>9, <2>10 DEF Distinct
  <2>12. LoadInv'
    BY <1>1, <1>3, <1>5, <2>1, <2>10, <2>11 DEF LoadInv
  <2>13. ResultInv'
    BY <1>1, <1>5, <2>1 DEF ResultInv
  <2> QED  BY <1>2, <2>3, <2>12, <2>13 DEF HarnessInv
<1>7. CASE RefuseDataset
  <2>1. stage' = "failed" /\ UNCHANGED <<loading, dataset, at>>
    BY <1>7 DEF RefuseDataset
  <2>2. HarnessTyped'
    BY <1>1, <1>5, <2>1 DEF HarnessTyped
  <2>3. LoadInv'
    BY <1>1, <1>5, <2>1 DEF LoadInv
  <2>4. ResultInv'
    BY <1>1, <1>5, <2>1 DEF ResultInv
  <2> QED  BY <1>2, <2>2, <2>3, <2>4 DEF HarnessInv
<1>8. CASE EndPartition
  <2>1. /\ at > Len(Raw) /\ loading' = Tail(loading) /\ seen' = {} /\ at' = 1 /\ dataset' = dataset
        /\ stage' = IF loading' = <<>> THEN "analyse" ELSE "load"
    BY <1>8 DEF EndPartition
  <2>2. HarnessTyped'
    BY <1>1, <1>5, <2>1 DEF HarnessTyped
  <2>3. at - 1 = Len(Raw)
    BY <1>3, <1>4, <2>1
  <2>4. Distinct(input.truth[Head(loading)], Len(input.truth[Head(loading)]))
    BY <1>1, <2>3 DEF LoadInv, Raw
  <2>5. loading' \in Seq(Parts) /\ \A p \in ToSet(loading) : p = Head(loading) \/ p \in ToSet(loading')
    <3>1. loading \in Seq(Parts)
      BY <1>1 DEF LoadInv
    <3>2. /\ Tail(loading) \in Seq(Parts) /\ Len(Tail(loading)) = Len(loading) - 1
          /\ \A i \in 1 .. Len(loading) - 1 : Tail(loading)[i] = loading[i + 1]
      BY <1>3, <3>1
    <3>3. ASSUME NEW i \in 1 .. Len(loading)
          PROVE  loading[i] = Head(loading) \/ \E j \in 1 .. Len(loading) - 1 : Tail(loading)[j] = loading[i]
      <4>1. CASE i = 1
        BY <3>1, <4>1
      <4>2. CASE i # 1
        <5>1. i - 1 \in 1 .. Len(loading) - 1 /\ i - 1 + 1 = i
          BY <3>1, <4>2
        <5> QED  BY <3>2, <5>1
      <4> QED  BY <4>1, <4>2
    <3>4. DOMAIN loading = 1 .. Len(loading) /\ DOMAIN Tail(loading) = 1 .. Len(loading) - 1
      BY <3>1, <3>2
    <3>5. ASSUME NEW p \in ToSet(loading) PROVE p = Head(loading) \/ p \in ToSet(Tail(loading))
      <4>1. PICK i \in 1 .. Len(loading) : loading[i] = p
        BY <3>4 DEF ToSet
      <4>2. p = Head(loading) \/ \E j \in 1 .. Len(loading) - 1 : Tail(loading)[j] = p
        BY <3>3, <4>1
      <4> QED  BY <3>4, <4>2 DEF ToSet
    <3> QED  BY <2>1, <3>2, <3>5
  <2>6. \A p \in Parts' \ ToSet(loading') : Distinct(input'.truth[p], Len(input'.truth[p]))
    BY <1>1, <1>5, <2>4, <2>5 DEF LoadInv
  <2>7. ASSUME stage' = "load"
        PROVE  /\ loading' # <<>> /\ at' <= Len(Raw') + 1
               /\ seen' = {Raw'[j].id : j \in 1 .. at' - 1}
               /\ Distinct(Raw', at' - 1)
    <3>1. loading' # <<>> /\ Head(loading') \in Parts
      BY <2>1, <2>5, <2>7
    <3>2. Raw' = input.truth[Head(loading')]
      BY <1>1 DEF Raw
    <3>3. Len(Raw') \in Nat
      BY <1>1, <3>1, <3>2, PartsShape, EvaluationAssumption DEF HarnessTyped
    <3>4. at' - 1 = 0 /\ \A j \in 1 .. 0 : FALSE
      BY <2>1
    <3>5. at' <= Len(Raw') + 1
      BY <2>1, <3>3
    <3>6. Distinct(Raw', at' - 1)
      BY <3>4 DEF Distinct
    <3>7. seen' = {Raw'[j].id : j \in 1 .. at' - 1}
      BY <2>1, <3>4
    <3> QED  BY <3>1, <3>5, <3>6, <3>7
  <2>8. LoadInv'
    BY <1>5, <2>1, <2>5, <2>6, <2>7 DEF LoadInv
  <2>9. ResultInv'
    <3>1. \A i \in 1 .. at' - 1 : FALSE
      BY <2>1
    <3>2. stage' \in {"load", "analyse"}
      BY <2>1
    <3> QED  BY <1>1, <1>5, <3>1, <3>2 DEF ResultInv
  <2> QED  BY <1>2, <2>2, <2>8, <2>9 DEF HarnessInv
<1> QED  BY <1>6, <1>7, <1>8

(* An analysed case has the result of its own files.                       *)
LEMMA AnalyseStep ==
    ASSUME HarnessInv, AnalyseCase
    PROVE  HarnessInv'
<1>1. /\ HarnessTyped /\ LoadInv /\ ResultInv /\ EvaluateInv /\ stage = "analyse"
      /\ UNCHANGED <<input, loading, seen, dataset, next, mode, tables, report>>
      /\ stage' \in {"analyse", "failed"} /\ at \in DOMAIN dataset
  BY DEF HarnessInv, AnalyseCase
<1>2. EvaluateInv' /\ stage' # "done"
  BY <1>1, NotYet
<1>3. /\ Parts' = Parts /\ Cases' = Cases
      /\ \A id : Holding(id)' = Holding(id) /\ CaseFiles(id)' = CaseFiles(id)
  BY <1>1, InputKept
<1>4. LoadInv'
  BY <1>1, <1>3 DEF LoadInv
<1>5. CASE Holding(dataset[at].id) = {}
  <2>1. stage' = "failed" /\ UNCHANGED <<results, at>>
    BY <1>5 DEF AnalyseCase
  <2>2. HarnessTyped' /\ ResultInv'
    BY <1>1, <1>3, <2>1 DEF HarnessTyped, ResultInv
  <2> QED  BY <1>2, <1>4, <2>2 DEF HarnessInv
<1>6. CASE Holding(dataset[at].id) # {}
  <2> DEFINE id == dataset[at].id
  <2>1. /\ results' = [x \in DOMAIN results \cup {id} |->
                          IF x = id THEN RunSingleCase(CaseFiles(id)) ELSE results[x]]
        /\ at' = at + 1 /\ stage' = stage
    BY <1>6 DEF AnalyseCase
  <2>2. HarnessTyped'
    BY <1>1, <1>3, <2>1 DEF HarnessTyped
  <2>3. \A x \in DOMAIN results' : Holding(x) # {} /\ results'[x] = RunSingleCase(CaseFiles(x))
    BY <1>1, <1>6, <2>1 DEF ResultInv
  <2>4. ASSUME NEW i \in 1 .. at' - 1, i \in DOMAIN dataset PROVE dataset[i].id \in DOMAIN results'
    <3>1. i \in 1 .. at - 1 \/ i = at
      BY <1>1, <2>1 DEF HarnessTyped
    <3> QED  BY <1>1, <2>1, <2>4, <3>1 DEF ResultInv
  <2>5. ResultInv'
    BY <1>1, <1>3, <2>1, <2>3, <2>4 DEF ResultInv
  <2> QED  BY <1>2, <1>4, <2>2, <2>5 DEF HarnessInv
<1> QED  BY <1>5, <1>6

(* Once the cases are analysed, the dataset and the results stay.          *)
LEMMA EvaluationKeeps ==
    ASSUME HarnessTyped, LoadInv, ResultInv,
           stage \in {"evaluate", "statistics"}, stage' \in {"evaluate", "statistics", "done"},
           UNCHANGED <<input, loading, seen, dataset, results>>
    PROVE  LoadInv' /\ ResultInv' /\ Cases' = Cases
<1>1. /\ Parts' = Parts /\ Cases' = Cases
      /\ \A id : Holding(id)' = Holding(id) /\ CaseFiles(id)' = CaseFiles(id)
  BY InputKept
<1>2. LoadInv'
  BY <1>1 DEF LoadInv
<1>3. ResultInv'
  BY <1>1 DEF ResultInv
<1> QED  BY <1>1, <1>2, <1>3

(* The three modes are three.                                              *)
LEMMA ModesDiffer ==
    /\ Len(Modes) = 3 /\ ModeNames = {Modes[1], Modes[2], Modes[3]}
    /\ \A k \in 1 .. 3 : Modes[k] \in ModeNames
    /\ \A j, k \in 1 .. 3 : Modes[j] = Modes[k] => j = k
    /\ ModeNames = {"SPEC_ONLY", "SOURCE_ONLY", "CORRELATED"}
<1>1. Modes = <<"SPEC_ONLY", "SOURCE_ONLY", "CORRELATED">>
  BY DEF Modes
<1>2. ModeNames = {"SPEC_ONLY", "SOURCE_ONLY", "CORRELATED"}
  BY <1>1 DEF ModeNames, ToSet
<1> QED  BY <1>1, <1>2

(* One more proposition judged.                                            *)
LEMMA FitsGrows ==
    ASSUME NEW table, NEW S, NEW items \in Seq(S), NEW item \in S, NEW m, NEW r,
           Fits(table, items, m, r), {"classifications", "byCategory", "findings"} \subseteq DOMAIN table,
           NEW c, c = Judged(item, m, r), NEW new,
           new = [table EXCEPT !.classifications = Append(@, c), !.byCategory = Push(@, c)]
    PROVE  Fits(new, Append(items, item), m, r)
<1>1. /\ new.classifications = Append(table.classifications, c)
      /\ new.byCategory = Push(table.byCategory, c)
      /\ new.findings = table.findings
  OBVIOUS
<1> DEFINE n == Len(items)
           q == Append(items, item)
<1>2. n \in Nat /\ Len(q) = n + 1 /\ q[n + 1] = item /\ \A i \in 1 .. n : q[i] = items[i]
  BY AppendProperties
<1>3. IsList(table.classifications) /\ Len(table.classifications) = n
  <2>1. PICK t : t = table.classifications
    OBVIOUS
  <2>2. t = [i \in 1 .. n |-> Judged(items[i], m, r)]
    BY <2>1 DEF Fits
  <2> HIDE DEF n
  <2>3. t = [i \in 1 .. n |-> t[i]]
    BY <2>2
  <2> QED  BY <1>2, <2>1, <2>3, ListByIndex
<1> DEFINE t == Append(table.classifications, c)
<1>4. IsList(t) /\ Len(t) = n + 1
  BY <1>3, ListGrows
<1>5. ASSUME NEW i \in 1 .. n + 1 PROVE t[i] = Judged(q[i], m, r)
  <2>1. i \in 1 .. n \/ i = n + 1
    BY <1>2
  <2>2. CASE i \in 1 .. n
    <3>1. t[i] = table.classifications[i]
      BY <1>3, <2>2, ListGrows
    <3>2. table.classifications[i] = Judged(items[i], m, r)
      BY <2>2 DEF Fits
    <3>3. q[i] = items[i]
      BY <1>2, <2>2
    <3> HIDE DEF q, t, n
    <3> QED  BY <3>1, <3>2, <3>3
  <2>3. CASE i = n + 1
    <3>1. t[i] = c /\ q[i] = item
      BY <1>2, <1>3, <2>3, ListGrows
    <3> HIDE DEF q, t, n
    <3> QED  BY <3>1
  <2> QED  BY <2>1, <2>2, <2>3
<1> HIDE DEF q, n
<1>6. t = [i \in 1 .. Len(q) |-> Judged(q[i], m, r)]
  <2> HIDE DEF t
  <2>1. t = [i \in 1 .. Len(t) |-> t[i]]
    BY <1>4 DEF IsList
  <2> QED  BY <1>2, <1>4, <1>5, <2>1
<1>7. CategoriesFit(t, new.byCategory)
  BY <1>1, <1>3, PushCounts DEF Fits
<1> QED  BY <1>1, <1>6, <1>7 DEF Fits, q

(* The findings of an analysed case are lists.                             *)
LEMMA ResultsAreLists ==
    ASSUME HarnessTyped, ResultInv, NEW id \in DOMAIN results, NEW m \in ModeNames
    PROVE  IsList(results[id].findings[m])
<1>1. Holding(id) # {} /\ results[id] = RunSingleCase(CaseFiles(id))
  BY DEF ResultInv
<1>2. CaseDirectory(id) \in Holding(id)
  <2>1. \E p \in Holding(id) : TRUE
    BY <1>1
  <2>2. (CHOOSE p \in Holding(id) : TRUE) \in Holding(id)
    BY <2>1
  <2> QED  BY <2>2 DEF CaseDirectory
<1>3. CaseDirectory(id) \in Directories /\ id \in DOMAIN input.disk[CaseDirectory(id)]
  BY <1>2 DEF Holding
<1>4. input \in Inputs
  BY DEF HarnessTyped
<1>5. PICK f : f = RunSingleCase(input.disk[CaseDirectory(id)][id]).findings[m]
  OBVIOUS
<1>6. f \in Seq(ToSet(f))
  BY <1>3, <1>4, <1>5, EvaluationAssumption
<1> QED  BY <1>1, <1>5, <1>6 DEF IsList, CaseFiles

(* The evaluation starts with nothing judged and every case analysed.      *)
LEMMA EndAnalysisStep ==
    ASSUME HarnessInv, EndAnalysis
    PROVE  HarnessInv'
<1>1. /\ HarnessTyped /\ LoadInv /\ ResultInv /\ EvaluateInv /\ stage = "analyse" /\ stage' = "evaluate"
      /\ at > Len(dataset) /\ at' = 1
      /\ UNCHANGED <<input, loading, seen, dataset, next, results, mode, tables, report>>
  BY DEF HarnessInv, EndAnalysis
<1>2. /\ Parts' = Parts /\ Cases' = Cases
      /\ \A id : Holding(id)' = Holding(id) /\ CaseFiles(id)' = CaseFiles(id)
  BY <1>1, InputKept
<1>3. Len(dataset) \in Nat /\ DOMAIN dataset = 1 .. Len(dataset)
  BY <1>1 DEF HarnessTyped
<1>4. HarnessTyped' /\ LoadInv'
  BY <1>1, <1>2 DEF HarnessTyped, LoadInv
<1>5. ResultInv'
  <2>1. ASSUME NEW i \in DOMAIN dataset PROVE dataset[i].id \in DOMAIN results
    <3>1. i \in 1 .. at - 1
      BY <1>1, <1>3 DEF HarnessTyped
    <3> QED  BY <1>1, <3>1 DEF ResultInv
  <2> QED  BY <1>1, <1>2, <2>1 DEF ResultInv
<1>6. ASSUME NEW k \in 1 .. 3 PROVE Fits(tables[Modes[k]], Judgeable(k), Modes[k], results)'
  <2>1. mode = 1 /\ next = 1
    BY <1>1 DEF HarnessTyped
  <2>2. Judgeable(k) = <<>>
    BY <1>1 DEF Judgeable
  <2>3. Prefix(dataset', at', next') = <<>>
    BY <1>1, <2>1, PrefixMoves
  <2>4. Judgeable(k)' = <<>>
    BY <1>1, <2>1, <2>3 DEF Judgeable
  <2> QED  BY <1>1, <2>2, <2>4 DEF EvaluateInv
<1>7. at' <= Len(dataset') + 1
  BY <1>1, <1>3
<1>8. next' <= IF at' \in DOMAIN dataset' THEN Len(dataset'[at'].propositions) + 1 ELSE 1
  <2>1. next' = 1
    BY <1>1 DEF HarnessTyped
  <2>2. CASE at' \in DOMAIN dataset'
    <3>1. Len(dataset'[at'].propositions) \in Nat
      BY <1>1, <2>2, CaseShape DEF HarnessTyped
    <3> QED  BY <2>1, <2>2, <3>1
  <2> QED  BY <2>1, <2>2
<1>9. EvaluateInv'
  BY <1>6, <1>7, <1>8 DEF EvaluateInv
<1> QED  BY <1>1, <1>4, <1>5, <1>9 DEF HarnessInv

(* Of a step of the evaluation only the table of the mode is in question.  *)
LEMMA OtherModesKept ==
    ASSUME EvaluateInv, stage = "evaluate", mode \in 1 .. 3,
           UNCHANGED <<input, stage, dataset, results, mode>>,
           \A k \in 1 .. 3 : k # mode => tables'[Modes[k]] = tables[Modes[k]],
           Fits(tables'[Modes[mode]], Prefix(dataset', at', next'), Modes[mode], results')
    PROVE  \A k \in 1 .. 3 : Fits(tables[Modes[k]], Judgeable(k), Modes[k], results)'
<1>1. SUFFICES ASSUME NEW k \in 1 .. 3
               PROVE  Fits(tables[Modes[k]], Judgeable(k), Modes[k], results)'
  OBVIOUS
<1>2. CASE k = mode
  <2>1. Judgeable(k)' = Prefix(dataset', at', next')
    BY <1>2 DEF Judgeable
  <2> QED  BY <1>2, <2>1
<1>3. CASE k # mode
  <2>1. Propositions' = Propositions
    BY DEF Propositions
  <2>2. Judgeable(k)' = Judgeable(k)
    BY <1>3, <2>1 DEF Judgeable
  <2>3. Fits(tables[Modes[k]], Judgeable(k), Modes[k], results)
    BY DEF EvaluateInv
  <2> QED  BY <1>3, <2>2, <2>3
<1> QED  BY <1>2, <1>3

(* A classification joins the table of its mode and of its category.       *)
LEMMA PropositionStep ==
    ASSUME HarnessInv, EvaluateProposition
    PROVE  HarnessInv'
<1>1. /\ HarnessTyped /\ LoadInv /\ ResultInv /\ EvaluateInv /\ stage = "evaluate"
      /\ UNCHANGED <<input, stage, loading, seen, dataset, at, results, mode, report>>
      /\ at \in DOMAIN dataset /\ next \in DOMAIN dataset[at].propositions /\ next' = next + 1
  BY DEF HarnessInv, EvaluateProposition
<1> DEFINE m == Modes[mode]
           item == <<dataset[at].id, dataset[at].propositions[next]>>
           c == Classify(item[2], item[1], results[dataset[at].id].findings[m])
           new == [tables[m] EXCEPT !.classifications = Append(@, c), !.byCategory = Push(@, c)]
<1>2. m \in ModeNames
  BY <1>1, ModesDiffer DEF HarnessTyped
<1>3. tables' = [tables EXCEPT ![m] = new]
  BY DEF EvaluateProposition
<1>4. /\ DOMAIN tables = ModeNames
      /\ DOMAIN tables[m] = {"classifications", "byCategory", "b", "c", "findings"}
  BY <1>1, <1>2 DEF HarnessTyped
<1>5. tables'[m] = new /\ \A x \in ModeNames : x # m => tables'[x] = tables[x]
  BY <1>2, <1>3, <1>4
<1>6. DOMAIN new = DOMAIN tables[m]
  OBVIOUS
<1>7. LoadInv' /\ ResultInv' /\ Cases' = Cases
  BY <1>1, EvaluationKeeps
<1>8. Judged(item, m, results) = c
  BY DEF Judged
<1>9. dataset[at] \in Cases /\ next \in 1 .. Len(dataset[at].propositions) /\ Len(dataset[at].propositions) \in Nat
  <2>1. dataset[at] \in Cases
    BY <1>1 DEF HarnessTyped
  <2> QED  BY <1>1, <2>1, CaseShape
<1>10. item \in Items
  <2>1. ItemsOf(dataset[at])[next] = item
    BY <1>1, <1>9, CaseShape
  <2>2. ItemsOf(dataset[at]) \in Seq(Items) /\ Len(ItemsOf(dataset[at])) = Len(dataset[at].propositions)
    BY <1>1, <1>9, CaseShape
  <2> HIDE DEF item
  <2> QED  BY <1>9, <2>1, <2>2
<1>11. /\ Prefix(dataset, at, next) \in Seq(Items)
       /\ Prefix(dataset, at, next + 1) = Append(Prefix(dataset, at, next), item)
  BY <1>1, <1>9, PrefixMoves
<1>12. Fits(tables[m], Prefix(dataset, at, next), m, results)
  BY <1>1 DEF EvaluateInv, Judgeable, HarnessTyped
<1>13. tables' = [x \in ModeNames |-> tables'[x]]
  BY <1>3, <1>4
<1>18. Propositions' = Propositions
  BY <1>1 DEF Propositions
<1> HIDE DEF new, c, item
<1>14. Fits(new, Prefix(dataset, at, next + 1), m, results)
  <2>1. {"classifications", "byCategory", "findings"} \subseteq DOMAIN tables[m]
    BY <1>4
  <2>2. new = [tables[m] EXCEPT !.classifications = Append(@, c), !.byCategory = Push(@, c)]
    BY DEF new
  <2>3. PICK table : table = tables[m]
    OBVIOUS
  <2>4. PICK items : items = Prefix(dataset, at, next)
    OBVIOUS
  <2>5. Fits(new, Append(items, item), m, results)
    BY <1>8, <1>10, <1>11, <1>12, <2>1, <2>2, <2>3, <2>4, FitsGrows
  <2> QED  BY <1>11, <2>4, <2>5
<1>15. \A k \in 1 .. 3 : k # mode => tables'[Modes[k]] = tables[Modes[k]]
  BY <1>1, <1>5, ModesDiffer DEF HarnessTyped
<1>16. HarnessTyped'
  <2>1. \A x \in ModeNames : DOMAIN tables'[x] = {"classifications", "byCategory", "b", "c", "findings"}
    BY <1>1, <1>4, <1>5, <1>6 DEF HarnessTyped
  <2>2. next' \in Nat \ {0}
    BY <1>1 DEF HarnessTyped
  <2> QED  BY <1>1, <1>7, <1>13, <2>1, <2>2 DEF HarnessTyped
<1>17. EvaluateInv'
  <2>1. \A k \in 1 .. 3 : Fits(tables[Modes[k]], Judgeable(k), Modes[k], results)'
    <3>1. Fits(tables'[Modes[mode]], Prefix(dataset', at', next'), Modes[mode], results')
      BY <1>1, <1>5, <1>14
    <3>2. mode \in 1 .. 3
      BY <1>1 DEF HarnessTyped
    <3> QED  BY <1>1, <1>15, <3>1, <3>2, OtherModesKept
  <2>2. at' <= Len(dataset') + 1
    BY <1>1 DEF EvaluateInv
  <2>3. next' <= IF at' \in DOMAIN dataset' THEN Len(dataset'[at'].propositions) + 1 ELSE 1
    BY <1>1, <1>9
  <2> QED  BY <2>1, <2>2, <2>3 DEF EvaluateInv
<1> QED  BY <1>1, <1>7, <1>16, <1>17 DEF HarnessInv

(* A case ends where the next one begins.                                  *)
LEMMA CaseStep ==
    ASSUME HarnessInv, EvaluateCase
    PROVE  HarnessInv'
<1>1. /\ HarnessTyped /\ LoadInv /\ ResultInv /\ EvaluateInv /\ stage = "evaluate"
      /\ UNCHANGED <<input, stage, loading, seen, dataset, results, mode, report>>
      /\ at \in DOMAIN dataset /\ next > Len(dataset[at].propositions) /\ at' = at + 1 /\ next' = 1
  BY DEF HarnessInv, EvaluateCase
<1> DEFINE m == Modes[mode]
           result == results[dataset[at].id]
           table == [tables[m] EXCEPT !.findings = @ \o result.findings[m]]
           new == IF m = "CORRELATED" THEN CrossLayer(table, dataset[at], result) ELSE table
<1>2. m \in ModeNames
  BY <1>1, ModesDiffer DEF HarnessTyped
<1>3. tables' = [tables EXCEPT ![m] = new]
  BY DEF EvaluateCase
<1>4. /\ DOMAIN tables = ModeNames
      /\ DOMAIN tables[m] = {"classifications", "byCategory", "b", "c", "findings"}
  BY <1>1, <1>2 DEF HarnessTyped
<1>5. tables'[m] = new /\ \A x \in ModeNames : x # m => tables'[x] = tables[x]
  BY <1>2, <1>3, <1>4
<1>6. tables' = [x \in ModeNames |-> tables'[x]]
  BY <1>3, <1>4
<1>7. /\ DOMAIN new = DOMAIN tables[m] /\ new.classifications = tables[m].classifications
      /\ new.byCategory = tables[m].byCategory
      /\ new.findings = tables[m].findings \o result.findings[m]
  <2>1. /\ DOMAIN table = DOMAIN tables[m] /\ table.classifications = tables[m].classifications
        /\ table.byCategory = tables[m].byCategory
        /\ table.findings = tables[m].findings \o result.findings[m]
    BY <1>4
  <2> HIDE DEF table
  <2>2. \A case : LET t == CrossLayer(table, case, result)
                  IN  /\ DOMAIN t = DOMAIN table /\ t.classifications = table.classifications
                      /\ t.byCategory = table.byCategory /\ t.findings = table.findings
    BY DEF CrossLayer
  <2> QED  BY <2>1, <2>2
<1> HIDE DEF new, result
<1>8. IsList(result.findings[m])
  <2>1. dataset[at].id \in DOMAIN results
    BY <1>1 DEF ResultInv
  <2> QED  BY <1>1, <1>2, <2>1, ResultsAreLists DEF result
<1>9. dataset[at] \in Cases /\ Len(dataset[at].propositions) \in Nat
  <2>1. dataset[at] \in Cases
    BY <1>1 DEF HarnessTyped
  <2> QED  BY <1>1, <2>1, CaseShape
<1>10. next = Len(dataset[at].propositions) + 1
  BY <1>1, <1>9 DEF EvaluateInv, HarnessTyped
<1>11. Fits(tables[m], Prefix(dataset, at, next), m, results)
  BY <1>1 DEF EvaluateInv, Judgeable, HarnessTyped
<1>12. Prefix(dataset, at, next) = Prefix(dataset, at + 1, 1)
  BY <1>1, <1>10, PrefixMoves
<1>13. Fits(new, Prefix(dataset, at + 1, 1), m, results)
  <2>1. IsList(new.findings)
    BY <1>7, <1>8, <1>11, ListsJoin DEF Fits
  <2> QED  BY <1>7, <1>11, <1>12, <2>1 DEF Fits
<1>14. \A k \in 1 .. 3 : k # mode => tables'[Modes[k]] = tables[Modes[k]]
  BY <1>1, <1>5, ModesDiffer DEF HarnessTyped
<1>15. LoadInv' /\ ResultInv' /\ Cases' = Cases
  BY <1>1, EvaluationKeeps
<1>16. HarnessTyped'
  <2>1. \A x \in ModeNames : DOMAIN tables'[x] = {"classifications", "byCategory", "b", "c", "findings"}
    BY <1>1, <1>4, <1>5, <1>7 DEF HarnessTyped
  <2>2. at' \in Nat \ {0} /\ next' \in Nat \ {0}
    BY <1>1 DEF HarnessTyped
  <2> QED  BY <1>1, <1>6, <1>15, <2>1, <2>2 DEF HarnessTyped
<1>17. EvaluateInv'
  <2>1. \A k \in 1 .. 3 : Fits(tables[Modes[k]], Judgeable(k), Modes[k], results)'
    <3>1. Fits(tables'[Modes[mode]], Prefix(dataset', at', next'), Modes[mode], results')
      BY <1>1, <1>5, <1>13
    <3>2. mode \in 1 .. 3
      BY <1>1 DEF HarnessTyped
    <3> QED  BY <1>1, <1>14, <3>1, <3>2, OtherModesKept
  <2>2. at' <= Len(dataset') + 1
    <3>1. Len(dataset) \in Nat /\ DOMAIN dataset = 1 .. Len(dataset)
      BY <1>1 DEF HarnessTyped
    <3> QED  BY <1>1, <3>1
  <2>3. next' <= IF at' \in DOMAIN dataset' THEN Len(dataset'[at'].propositions) + 1 ELSE 1
    <3>1. CASE at' \in DOMAIN dataset'
      <4>1. dataset'[at'] \in Cases
        BY <1>1, <3>1 DEF HarnessTyped
      <4>2. Len(dataset'[at'].propositions) \in Nat
        BY <1>1, <4>1, CaseShape
      <4> QED  BY <1>1, <3>1, <4>2
    <3> QED  BY <1>1, <3>1
  <2> QED  BY <2>1, <2>2, <2>3 DEF EvaluateInv
<1> QED  BY <1>1, <1>15, <1>16, <1>17 DEF HarnessInv

(* A mode ends with all propositions judged.                               *)
LEMMA EndModeStep ==
    ASSUME HarnessInv, EndMode
    PROVE  HarnessInv'
<1>1. /\ HarnessTyped /\ LoadInv /\ ResultInv /\ EvaluateInv /\ stage = "evaluate"
      /\ UNCHANGED <<input, loading, seen, dataset, next, results, tables, report>>
      /\ at > Len(dataset) /\ at' = 1
  BY DEF HarnessInv, EndMode
<1>2. \/ mode < 3 /\ mode' = mode + 1 /\ stage' = "evaluate"
      \/ mode = 3 /\ stage' = "statistics" /\ mode' = mode
  BY <1>1, ModesDiffer DEF EndMode, HarnessTyped
<1>3. Len(dataset) \in Nat /\ DOMAIN dataset = 1 .. Len(dataset)
  BY <1>1 DEF HarnessTyped
<1>4. at = Len(dataset) + 1 /\ at \notin DOMAIN dataset
  BY <1>1, <1>3 DEF EvaluateInv, HarnessTyped
<1>5. next = 1
  BY <1>1, <1>4 DEF EvaluateInv, HarnessTyped
<1>6. LoadInv' /\ ResultInv' /\ Cases' = Cases
  BY <1>1, <1>2, EvaluationKeeps
<1>7. mode \in 1 .. 3 /\ mode' \in 1 .. 3
  BY <1>1, <1>2 DEF HarnessTyped
<1>8. HarnessTyped'
  <2>1. at' \in Nat \ {0} /\ next' = 1
    BY <1>1, <1>5
  <2> QED  BY <1>1, <1>2, <1>6, <1>7, <2>1 DEF HarnessTyped
<1>9. ASSUME NEW k \in 1 .. 3 PROVE Judgeable(k)' = Judgeable(k)
  <2>1. Prefix(dataset, at, next) = Propositions /\ Prefix(dataset', at', next') = <<>>
    BY <1>1, <1>4, <1>5, PrefixMoves
  <2>2. Propositions' = Propositions
    BY <1>1 DEF Propositions
  <2>3. Judgeable(k) = IF k <= mode THEN Propositions ELSE <<>>
    BY <1>1, <1>7, <2>1 DEF Judgeable
  <2>4. CASE mode < 3 /\ mode' = mode + 1 /\ stage' = "evaluate"
    <3>1. k < mode' <=> k <= mode
      BY <1>7, <2>4
    <3>2. Judgeable(k)' = IF k < mode' THEN Propositions ELSE <<>>
      BY <1>7, <2>1, <2>2, <2>4 DEF Judgeable
    <3> QED  BY <2>3, <3>1, <3>2
  <2>5. CASE mode = 3 /\ stage' = "statistics"
    <3>1. k <= mode
      BY <2>5
    <3> QED  BY <2>2, <2>3, <2>5, <3>1 DEF Judgeable
  <2> QED  BY <1>2, <2>4, <2>5
<1>10. EvaluateInv'
  <2>1. at' <= Len(dataset') + 1
    BY <1>1, <1>3
  <2>2. next' <= IF at' \in DOMAIN dataset' THEN Len(dataset'[at'].propositions) + 1 ELSE 1
    <3>1. CASE at' \in DOMAIN dataset'
      <4>1. dataset'[at'] \in Cases
        BY <1>1, <3>1 DEF HarnessTyped
      <4>2. Len(dataset'[at'].propositions) \in Nat
        BY <1>1, <4>1, CaseShape
      <4> QED  BY <1>1, <1>5, <3>1, <4>2
    <3> QED  BY <1>1, <1>5, <3>1
  <2> QED  BY <1>1, <1>9, <2>1, <2>2 DEF EvaluateInv
<1> QED  BY <1>2, <1>6, <1>8, <1>10 DEF HarnessInv

(* A report is a function of the tables.                                   *)
LEMMA ReportKept ==
    ASSUME tables' = tables
    PROVE  Report' = Report
<1>1. ASSUME NEW m PROVE ById(m)' = ById(m) /\ Errors(m)' = Errors(m)
  BY DEF ById, Errors
<1>2. Transitions' = Transitions
  BY <1>1 DEF Transitions
<1>3. ReportedEffects' = ReportedEffects
  BY <1>2 DEF ReportedEffects
<1>4. Comparisons' = Comparisons
  BY DEF Comparisons
<1>5. ASSUME NEW m, NEW rubric PROVE Assessed(m, rubric)' = Assessed(m, rubric)
  BY DEF Assessed
<1> QED  BY <1>1, <1>2, <1>3, <1>4, <1>5 DEF Report

(* The statistics are the report on the final tables.                      *)
LEMMA StatisticsStep ==
    ASSUME HarnessInv, Statistics
    PROVE  HarnessInv'
<1>1. /\ HarnessTyped /\ LoadInv /\ ResultInv /\ EvaluateInv /\ stage = "statistics" /\ stage' = "done"
      /\ UNCHANGED <<input, loading, seen, dataset, at, next, results, mode, tables>>
      /\ report' = Report
  BY DEF HarnessInv, Statistics
<1>2. LoadInv' /\ ResultInv' /\ Cases' = Cases
  BY <1>1, EvaluationKeeps
<1>3. HarnessTyped'
  BY <1>1, <1>2 DEF HarnessTyped
<1>4. ASSUME NEW k \in 1 .. 3 PROVE Judgeable(k)' = Judgeable(k)
  BY <1>1 DEF Judgeable, Propositions
<1>5. EvaluateInv'
  BY <1>1, <1>4 DEF EvaluateInv
<1>6. Report' = Report
  BY <1>1, ReportKept
<1> QED  BY <1>1, <1>2, <1>3, <1>5, <1>6 DEF HarnessInv

(* Nothing happens when nothing changes.                                   *)
LEMMA HarnessStutters ==
    ASSUME HarnessInv, UNCHANGED vars
    PROVE  HarnessInv'
<1>1. UNCHANGED <<input, stage, loading, seen, dataset, at, next, results, mode, tables, report>>
  BY DEF vars
<1>2. /\ Parts' = Parts /\ Cases' = Cases
      /\ \A id : Holding(id)' = Holding(id) /\ CaseFiles(id)' = CaseFiles(id)
  BY <1>1, InputKept
<1>3. HarnessTyped' /\ LoadInv' /\ ResultInv'
  <2>1. Raw' = Raw
    BY <1>1 DEF Raw
  <2> QED  BY <1>1, <1>2, <2>1 DEF HarnessInv, HarnessTyped, LoadInv, ResultInv
<1>4. ASSUME NEW k \in 1 .. 3 PROVE Judgeable(k)' = Judgeable(k)
  BY <1>1 DEF Judgeable, Propositions
<1>5. EvaluateInv'
  BY <1>1, <1>4 DEF EvaluateInv, HarnessInv
<1>6. Report' = Report
  BY <1>1, ReportKept
<1> QED  BY <1>1, <1>3, <1>5, <1>6 DEF HarnessInv

(* The invariant holds of every benchmark before it is loaded.             *)
LEMMA HarnessStarts == Init => HarnessInv
<1>1. SUFFICES ASSUME Init PROVE HarnessInv
  OBVIOUS
<1>2. /\ input \in Inputs /\ stage = "load" /\ loading = Partitions(input.benchmark)
      /\ seen = {} /\ dataset = <<>> /\ at = 1 /\ next = 1 /\ DOMAIN results = {}
      /\ mode = 1 /\ tables = [m \in ModeNames |-> NoTable]
  BY <1>1 DEF Init
<1>3. HarnessTyped
  BY <1>2 DEF HarnessTyped, NoTable
<1>4. loading \in Seq(Parts) /\ loading # <<>> /\ Parts \ ToSet(loading) = {}
  BY <1>2, <1>3, PartsShape DEF Parts
<1>5. LoadInv
  <2>1. Head(loading) \in Directories
    BY <1>3, <1>4, PartsShape
  <2>2. Len(Raw) \in Nat
    BY <1>2, <2>1, EvaluationAssumption DEF Raw
  <2>3. at - 1 = 0 /\ \A j \in 1 .. 0 : FALSE
    BY <1>2
  <2>4. at <= Len(Raw) + 1
    BY <1>2, <2>2
  <2>5. Distinct(Raw, at - 1) /\ seen = {Raw[j].id : j \in 1 .. at - 1}
    BY <1>2, <2>3 DEF Distinct
  <2> QED  BY <1>2, <1>4, <2>4, <2>5 DEF LoadInv
<1>6. ResultInv
  BY <1>2 DEF ResultInv
<1>7. EvaluateInv
  <2>1. ASSUME NEW m \in ModeNames PROVE Fits(tables[m], <<>>, m, results)
    <3>1. /\ tables[m].classifications = <<>> /\ tables[m].findings = <<>>
          /\ DOMAIN tables[m].byCategory = {}
      BY <1>2 DEF NoTable
    <3>2. <<>> = [i \in 1 .. Len(<<>>) |-> Judged(<<>>[i], m, results)]
      <4>1. Len(<<>>) = 0 /\ \A i \in 1 .. 0 : FALSE
        OBVIOUS
      <4>2. PICK t : t = [i \in 1 .. 0 |-> Judged(<<>>[i], m, results)]
        OBVIOUS
      <4>3. t \in Seq({}) /\ Len(t) = 0
        BY <4>2
      <4>4. t = <<>>
        BY <4>3
      <4> QED  BY <4>1, <4>2, <4>4
    <3>3. IsList(<<>>)
      BY DEF IsList, ToSet
    <3>4. ASSUME NEW o PROVE /\ Entries(tables[m].byCategory, o) = {} /\ Having(<<>>, {o}) = {}
      BY <3>1 DEF Entries, Having
    <3>5. IsFiniteSet({}) /\ Cardinality({}) = 0
      BY FS_EmptySet
    <3> QED  BY <3>1, <3>2, <3>3, <3>4, <3>5 DEF Fits, CategoriesFit, Count
  <2> QED  BY <1>2, <2>1, ModesDiffer DEF EvaluateInv, Judgeable
<1> QED  BY <1>2, <1>3, <1>5, <1>6, <1>7 DEF HarnessInv

(* The invariant of the harness holds throughout (evaluation/runner.py:52).*)
THEOREM HarnessInvariant == Spec => []HarnessInv
<1>1. ASSUME HarnessInv, [Next]_vars PROVE HarnessInv'
  <2>1. CASE LoadCase \/ RefuseDataset \/ EndPartition
    BY <1>1, <2>1, LoadStep
  <2>2. CASE AnalyseCase
    BY <1>1, <2>2, AnalyseStep
  <2>3. CASE EndAnalysis
    BY <1>1, <2>3, EndAnalysisStep
  <2>4. CASE EvaluateProposition
    BY <1>1, <2>4, PropositionStep
  <2>5. CASE EvaluateCase
    BY <1>1, <2>5, CaseStep
  <2>6. CASE EndMode
    BY <1>1, <2>6, EndModeStep
  <2>7. CASE Statistics
    BY <1>1, <2>7, StatisticsStep
  <2>8. CASE UNCHANGED vars
    BY <1>1, <2>8, HarnessStutters
  <2> QED  BY <1>1, <2>1, <2>2, <2>3, <2>4, <2>5, <2>6, <2>7, <2>8 DEF Next
<1> QED  BY <1>1, HarnessStarts, PTL DEF Spec

(* The propositions are those of the loaded cases.                         *)
LEMMA PropositionsShape ==
    ASSUME HarnessTyped
    PROVE  /\ Propositions \in Seq(Items)
           /\ \A i \in 1 .. Len(Propositions) :
                 \E a \in DOMAIN dataset : \E j \in DOMAIN dataset[a].propositions :
                    Propositions[i] = <<dataset[a].id, dataset[a].propositions[j]>>
<1> DEFINE S == UNION {ToSet(ItemsOf(dataset[a])) : a \in DOMAIN dataset}
           s == [a \in DOMAIN dataset |-> ItemsOf(dataset[a])]
<1>1. /\ Len(dataset) \in Nat /\ DOMAIN dataset = 1 .. Len(dataset)
      /\ \A a \in DOMAIN dataset : dataset[a] \in Cases
  BY DEF HarnessTyped
<1>2. \A a \in DOMAIN dataset : ItemsOf(dataset[a]) \in Seq(Items)
  BY <1>1, CaseShape
<1>3. ASSUME NEW a \in DOMAIN dataset PROVE ItemsOf(dataset[a]) \in Seq(S)
  <2>1. IsList(ItemsOf(dataset[a]))
    BY <1>2, ListOfAny
  <2>2. ToSet(ItemsOf(dataset[a])) \subseteq S
    OBVIOUS
  <2> HIDE DEF S
  <2> QED  BY <2>1, <2>2, SeqMonotonic DEF IsList
<1>4. Propositions = FlattenSeq(s)
  BY DEF Propositions, ItemsOf
<1>5. ASSUME NEW x \in S
      PROVE  \E a \in DOMAIN dataset : \E j \in DOMAIN dataset[a].propositions :
                x = <<dataset[a].id, dataset[a].propositions[j]>>
  <2>1. PICK a \in DOMAIN dataset : x \in ToSet(ItemsOf(dataset[a]))
    OBVIOUS
  <2> QED  BY <2>1 DEF ToSet, ItemsOf
<1> HIDE DEF S
<1>6. s \in Seq(Seq(S))
  BY <1>1, <1>3
<1> HIDE DEF s
<1>7. Propositions \in Seq(S)
  BY <1>4, <1>6, FlattenTyped
<1>8. Propositions \in Seq(Items)
  <2>1. Len(dataset) \in 0 .. Len(dataset)
    BY <1>1
  <2> QED  BY <2>1, FlatMoves
<1>9. \A i \in 1 .. Len(Propositions) : Propositions[i] \in S
  BY <1>7
<1> QED  BY <1>5, <1>8, <1>9

(* What a finished mode has in its table.                                  *)
LEMMA Judgements ==
    ASSUME HarnessInv, NEW k \in Evaluated
    PROVE  /\ k \in 1 .. 3 /\ stage \in {"evaluate", "statistics", "done"}
           /\ Propositions \in Seq(Items)
           /\ Fits(tables[Modes[k]], Propositions, Modes[k], results)
           /\ LET all == tables[Modes[k]].classifications
              IN  /\ IsList(all) /\ Len(all) = Len(Propositions)
                  /\ DOMAIN all = 1 .. Len(Propositions)
                  /\ \A i \in 1 .. Len(Propositions) : all[i] = Judged(Propositions[i], Modes[k], results)
<1>1. HarnessTyped /\ EvaluateInv
  BY DEF HarnessInv
<1>2. k \in 1 .. 3 /\ (stage \in {"statistics", "done"} \/ k < mode)
  BY ModesDiffer DEF Evaluated
<1>3. stage \in {"evaluate", "statistics", "done"} /\ Judgeable(k) = Propositions
  <2>1. CASE stage \in {"statistics", "done"}
    BY <2>1 DEF Judgeable
  <2>2. CASE stage \notin {"statistics", "done"}
    <3>1. mode # 1
      BY <1>2, <2>2
    <3>2. stage = "evaluate"
      BY <1>1, <2>2, <3>1 DEF HarnessTyped
    <3> QED  BY <1>2, <2>2, <3>2 DEF Judgeable
  <2> QED  BY <2>1, <2>2
<1>4. Fits(tables[Modes[k]], Propositions, Modes[k], results)
  BY <1>1, <1>2, <1>3 DEF EvaluateInv
<1>5. Propositions \in Seq(Items) /\ Len(Propositions) \in Nat
  BY <1>1, PropositionsShape
<1>6. PICK all : all = tables[Modes[k]].classifications
  OBVIOUS
<1>7. all = [i \in 1 .. Len(Propositions) |-> Judged(Propositions[i], Modes[k], results)]
  BY <1>4, <1>6 DEF Fits
<1>8. all = [i \in 1 .. Len(Propositions) |-> all[i]]
  BY <1>7
<1>9. IsList(all) /\ Len(all) = Len(Propositions)
  BY <1>5, <1>8, ListByIndex
<1> QED  BY <1>2, <1>3, <1>4, <1>5, <1>6, <1>7, <1>9

(* For any benchmark, a finished mode has classified every proposition of  *)
(* every case exactly once and in order, and its categories hold the same  *)
(* outcomes, one by one (runner.py:115).                                   *)
THEOREM PropositionsAreCounted == Spec => []EveryPropositionCounted
<1>1. ASSUME HarnessInv PROVE EveryPropositionCounted
  <2>1. SUFFICES ASSUME NEW k \in Evaluated
                 PROVE  LET table == tables[Modes[k]]
                            all   == table.classifications
                        IN  /\ [i \in DOMAIN all |-> <<all[i].case, all[i].id>>]
                                 = [i \in DOMAIN Propositions |-> <<Propositions[i][1], Propositions[i][2].id>>]
                            /\ \A o \in Outcomes :
                                  Count(all, o) = Cardinality(Entries(table.byCategory, o))
    BY DEF EveryPropositionCounted
  <2>2. /\ Propositions \in Seq(Items)
        /\ Fits(tables[Modes[k]], Propositions, Modes[k], results)
    BY <1>1, Judgements
  <2>3. PICK all : all = tables[Modes[k]].classifications
    OBVIOUS
  <2>4. /\ DOMAIN all = 1 .. Len(Propositions)
        /\ \A i \in 1 .. Len(Propositions) : all[i] = Judged(Propositions[i], Modes[k], results)
    BY <1>1, <2>3, Judgements
  <2>5. DOMAIN Propositions = 1 .. Len(Propositions)
    BY <2>2
  <2>6. \A i \in 1 .. Len(Propositions) :
           all[i].case = Propositions[i][1] /\ all[i].id = Propositions[i][2].id
    BY <2>4, JudgedNames
  <2>7. [i \in DOMAIN all |-> <<all[i].case, all[i].id>>]
          = [i \in DOMAIN Propositions |-> <<Propositions[i][1], Propositions[i][2].id>>]
    BY <2>4, <2>5, <2>6
  <2>8. \A o \in Outcomes : Count(all, o) = Cardinality(Entries(tables[Modes[k]].byCategory, o))
    BY <2>2, <2>3 DEF Fits, CategoriesFit
  <2> QED  BY <2>3, <2>7, <2>8
<1> QED  BY <1>1, HarnessInvariant, PTL

-----------------------------------------------------------------------------
(* A case has its files in the directory of the partition declaring it.    *)
LEMMA OwnFiles ==
    ASSUME HarnessTyped, NEW p \in Parts, NEW case \in ToSet(input.truth[p]), Holding(case.id) # {}
    PROVE  CaseFiles(case.id) = input.disk[p][case.id]
<1> DEFINE id == case.id
<1>1. OwnDirectory(input, p, id)
  BY EvaluationAssumption DEF HarnessTyped, Parts
<1>2. p \in Directories
  BY PartsShape
<1> HIDE DEF id
<1>3. p \in Holding(id)
  <2>1. PICK q \in Holding(id) : TRUE
    BY DEF id
  <2> QED  BY <1>1, <1>2, <2>1 DEF OwnDirectory, Holding
<1>4. \A q \in Holding(id) : q # p => p = FirstDirectory(input.benchmark)
  BY <1>1 DEF OwnDirectory, Holding
<1>5. CaseDirectory(id) = p
  <2>1. CASE FirstDirectory(input.benchmark) = p
    BY <1>3, <2>1 DEF CaseDirectory
  <2>2. CASE FirstDirectory(input.benchmark) # p
    <3>1. \A q \in Holding(id) : q = p
      BY <1>4, <2>2
    <3>2. FirstDirectory(input.benchmark) \notin Holding(id)
      BY <2>2, <3>1
    <3>3. (CHOOSE q \in Holding(id) : TRUE) \in Holding(id)
      BY <1>3
    <3> QED  BY <3>1, <3>2, <3>3 DEF CaseDirectory
  <2> QED  BY <2>1, <2>2
<1> QED  BY <1>5 DEF CaseFiles, id

(* A case is declared by one partition, once.                              *)
LEMMA OneDeclaration ==
    ASSUME HarnessInv, stage \in {"evaluate", "statistics", "done"},
           NEW p \in Parts, NEW case \in ToSet(input.truth[p])
    PROVE  /\ \A q \in Parts : (\E j \in DOMAIN input.truth[q] : input.truth[q][j].id = case.id) => q = p
           /\ \A j \in DOMAIN input.truth[p] : input.truth[p][j].id = case.id => input.truth[p][j] = case
<1>1. HarnessTyped /\ LoadInv /\ loading = <<>>
  BY DEF HarnessInv, LoadInv
<1>2. input \in Inputs /\ p \in Directories
  BY <1>1, PartsShape DEF HarnessTyped
<1>3. \A q \in Parts \ {p} : \A other \in ToSet(input.truth[q]) : other.id # case.id
  BY <1>2, EvaluationAssumption DEF Parts
<1>4. ASSUME NEW q \in Parts, NEW j \in DOMAIN input.truth[q], input.truth[q][j].id = case.id
      PROVE  q = p
  <2>1. input.truth[q][j] \in ToSet(input.truth[q])
    BY DEF ToSet
  <2> QED  BY <1>3, <1>4, <2>1
<1>5. input.truth[p] \in Seq(ToSet(input.truth[p]))
  BY <1>2, EvaluationAssumption
<1>6. PICK i \in DOMAIN input.truth[p] : input.truth[p][i] = case
  BY DEF ToSet
<1>7. Distinct(input.truth[p], Len(input.truth[p]))
  <2>1. p \notin ToSet(loading)
    BY <1>1 DEF ToSet
  <2> QED  BY <1>1, <2>1 DEF LoadInv
<1>8. \A j \in DOMAIN input.truth[p] : input.truth[p][j].id = case.id => j = i
  BY <1>5, <1>6, <1>7 DEF Distinct
<1> QED  BY <1>4, <1>6, <1>8

(* An outcome is that of the proposition over its own case's findings.     *)
LEMMA EvidenceOfCase ==
    ASSUME HarnessInv, NEW k \in Evaluated,
           NEW i \in DOMAIN tables[Modes[k]].classifications
    PROVE  LET c    == tables[Modes[k]].classifications[i]
               home == CHOOSE p \in ToSet(Partitions(input.benchmark)) :
                           \E j \in DOMAIN input.truth[p] : input.truth[p][j].id = c.case
               own  == RunSingleCase(input.disk[home][c.case]).findings[Modes[k]]
               prop == CHOOSE q \in UNION {ToSet(input.truth[home][j].propositions) :
                                              j \in {x \in DOMAIN input.truth[home] :
                                                       input.truth[home][x].id = c.case}} : q.id = c.id
           IN  c.outcome = OutcomeOf(prop.expected, \E f \in ToSet(own) : Matches(f, prop))
<1>1. HarnessTyped /\ ResultInv /\ k \in 1 .. 3 /\ stage \in {"evaluate", "statistics", "done"}
  BY Judgements DEF HarnessInv
<1> DEFINE c == tables[Modes[k]].classifications[i]
<1> HIDE DEF c
<1>3. i \in 1 .. Len(Propositions) /\ c = Judged(Propositions[i], Modes[k], results)
  BY Judgements DEF c
<1>4. PICK a \in DOMAIN dataset : \E j \in DOMAIN dataset[a].propositions :
         Propositions[i] = <<dataset[a].id, dataset[a].propositions[j]>>
  BY <1>1, <1>3, PropositionsShape
<1>5. PICK case : case = dataset[a]
  OBVIOUS
<1>6. PICK j \in DOMAIN case.propositions : Propositions[i] = <<case.id, case.propositions[j]>>
  BY <1>4, <1>5
<1>7. PICK item : item = case.propositions[j]
  OBVIOUS
<1>8. case \in Cases /\ case.id \in DOMAIN results
  BY <1>1, <1>5 DEF HarnessTyped, ResultInv
<1>9. PICK p \in Parts : case \in ToSet(input.truth[p])
  BY <1>8 DEF Cases
<1>10. PICK found : found = RunSingleCase(input.disk[p][case.id]).findings[Modes[k]]
  OBVIOUS
<1>11. results[case.id].findings[Modes[k]] = found
  BY <1>1, <1>8, <1>9, <1>10, OwnFiles DEF ResultInv
<1>12. /\ c.case = case.id /\ c.id = item.id
       /\ c.outcome = OutcomeOf(item.expected, Matching(found, item) # {})
  BY <1>3, <1>6, <1>7, <1>11 DEF Judged, Classify
<1>13. /\ \A q \in Parts : (\E x \in DOMAIN input.truth[q] : input.truth[q][x].id = case.id) => q = p
       /\ \A x \in DOMAIN input.truth[p] : input.truth[p][x].id = case.id => input.truth[p][x] = case
  BY <1>1, <1>9, OneDeclaration
<1>14. \E x \in DOMAIN input.truth[p] : input.truth[p][x].id = c.case /\ input.truth[p][x] = case
  BY <1>9, <1>12 DEF ToSet
<1> DEFINE home == CHOOSE q \in Parts : \E x \in DOMAIN input.truth[q] : input.truth[q][x].id = c.case
<1>15. home = p
  <2>1. \E q \in Parts : \E x \in DOMAIN input.truth[q] : input.truth[q][x].id = c.case
    BY <1>14
  <2>2. home \in Parts /\ \E x \in DOMAIN input.truth[home] : input.truth[home][x].id = c.case
    BY <2>1
  <2> HIDE DEF home
  <2> QED  BY <1>12, <1>13, <2>2
<1> DEFINE pool == UNION {ToSet(input.truth[home][x].propositions) :
                             x \in {y \in DOMAIN input.truth[home] : input.truth[home][y].id = c.case}}
<1> HIDE DEF home
<1>16. pool = ToSet(case.propositions)
  <2>1. \A y \in {y \in DOMAIN input.truth[p] : input.truth[p][y].id = c.case} : input.truth[p][y] = case
    BY <1>12, <1>13
  <2>2. \E y \in {y \in DOMAIN input.truth[p] : input.truth[p][y].id = c.case} : input.truth[p][y] = case
    BY <1>14
  <2> QED  BY <1>15, <2>1, <2>2
<1> HIDE DEF pool
<1> DEFINE prop == CHOOSE q \in pool : q.id = c.id
<1>17. prop = item
  <2>1. item \in pool /\ item.id = c.id
    BY <1>7, <1>12, <1>16 DEF ToSet
  <2>2. prop \in pool /\ prop.id = c.id
    BY <2>1
  <2> HIDE DEF prop
  <2>3. PICK l \in DOMAIN case.propositions : case.propositions[l] = prop
    BY <1>16, <2>2 DEF ToSet
  <2>4. \A x, y \in DOMAIN case.propositions : case.propositions[x].id = case.propositions[y].id => x = y
    BY <1>1, <1>8, CaseShape DEF WellFormed
  <2>5. l = j
    BY <1>7, <2>1, <2>2, <2>3, <2>4
  <2> QED  BY <1>7, <2>3, <2>5
<1>18. (Matching(found, item) # {}) = (\E f \in ToSet(found) : Matches(f, item))
  BY DEF Matching, ToSet
<1>19. c.outcome = OutcomeOf(item.expected, \E f \in ToSet(found) : Matches(f, item))
  BY <1>12, <1>18
<1>20. RunSingleCase(input.disk[home][c.case]).findings[Modes[k]] = found
  BY <1>10, <1>12, <1>15
<1> HIDE DEF prop
<1>21. c.outcome = OutcomeOf(prop.expected,
                             \E f \in ToSet(RunSingleCase(input.disk[home][c.case]).findings[Modes[k]]) :
                                Matches(f, prop))
  BY <1>17, <1>19, <1>20
<1> QED  BY <1>21 DEF c, prop, pool, home, Parts

(* For any engines and any benchmark whose case directories are its own, an*)
(* outcome rests on the findings about the files of the proposition's own  *)
(* case, and a single-layer mode on its own layer (runner.py:52-110,       *)
(* loader.py:127).                                                         *)
THEOREM EvidenceStaysOwn == Spec => []EvidenceIsOwn
<1>1. ASSUME HarnessInv PROVE EvidenceIsOwn
  <2>1. OwnEvidence
    BY <1>1, EvidenceOfCase DEF OwnEvidence
  <2>2. LayersIndependent
    <3>1. \A x \in DOMAIN results : results[x] = RunSingleCase(CaseFiles(x))
      BY <1>1 DEF HarnessInv, ResultInv
    <3>2. \A x \in DOMAIN results :
             /\ results[x].findings["SOURCE_ONLY"] = SourceEngine(SourceTree(CaseFiles(x).source, <<>>))
             /\ results[x].findings["SPEC_ONLY"] = SpecEngine(CaseFiles(x).spec)
      BY <3>1 DEF RunSingleCase
    <3> QED  BY <3>2 DEF LayersIndependent
  <2> QED  BY <2>1, <2>2 DEF EvidenceIsOwn
<1> QED  BY <1>1, HarnessInvariant, PTL

-----------------------------------------------------------------------------
(* Every outcome is counted under one of the four names.                   *)
LEMMA OutcomesPartition ==
    ASSUME NEW s, IsList(s), \A i \in 1 .. Len(s) : s[i].outcome \in Outcomes
    PROVE  /\ \A o : Count(s, o) \in Nat
           /\ Count(s, "TP") + Count(s, "FN") + Count(s, "FP") + Count(s, "TN") = Len(s)
           /\ Cardinality(Having(s, {"FN", "FP"})) = Count(s, "FN") + Count(s, "FP")
<1> DEFINE H(O) == Having(s, O)
<1>1. Len(s) \in Nat /\ DOMAIN s = 1 .. Len(s)
  BY DEF IsList
<1>2. \A O : IsFiniteSet(H(O)) /\ Cardinality(H(O)) \in Nat
  BY HavingFinite, FS_CardinalityType
<1>3. \A O, P : H(O) \cup H(P) = H(O \cup P)
  BY DEF Having
<1>4. \A O, P : O \cap P = {} => H(O) \cap H(P) = {}
  BY DEF Having
<1>5. H({"TP", "FN", "FP", "TN"}) = 1 .. Len(s)
  BY <1>1 DEF Having, Outcomes
<1> HIDE DEF H
<1>6. ASSUME NEW O, NEW P, O \cap P = {}
      PROVE  Cardinality(H(O \cup P)) = Cardinality(H(O)) + Cardinality(H(P))
  <2>1. /\ Cardinality(H(O) \cup H(P)) = Cardinality(H(O)) + Cardinality(H(P)) - Cardinality(H(O) \cap H(P))
    BY <1>2, FS_Union
  <2>2. Cardinality({}) = 0
    BY FS_EmptySet
  <2>3. H(O) \cap H(P) = {}
    BY <1>4, <1>6
  <2>4. H(O) \cup H(P) = H(O \cup P)
    BY <1>3
  <2>5. Cardinality(H(O)) \in Nat /\ Cardinality(H(P)) \in Nat
    BY <1>2
  <2>6. Cardinality(H(O) \cap H(P)) = 0
    BY <2>2, <2>3
  <2>7. Cardinality(H(O \cup P)) = Cardinality(H(O) \cup H(P))
    BY <2>4
  <2>8. PICK a, b : a = Cardinality(H(O)) /\ b = Cardinality(H(P))
    OBVIOUS
  <2>9. Cardinality(H(O) \cup H(P)) = a + b - 0 /\ a \in Nat /\ b \in Nat
    BY <2>1, <2>5, <2>6, <2>8
  <2> QED  BY <2>7, <2>8, <2>9
<1>7. {"FN"} \cup {"FP"} = {"FN", "FP"} /\ {"FN"} \cap {"FP"} = {}
  OBVIOUS
<1>8. {"TP"} \cup {"TN"} = {"TP", "TN"} /\ {"TP"} \cap {"TN"} = {}
  OBVIOUS
<1>9. /\ {"FN", "FP"} \cup {"TP", "TN"} = {"TP", "FN", "FP", "TN"}
      /\ {"FN", "FP"} \cap {"TP", "TN"} = {}
  OBVIOUS
<1>10. Cardinality(H({"FN", "FP"})) = Cardinality(H({"FN"})) + Cardinality(H({"FP"}))
  BY <1>6, <1>7
<1>11. Cardinality(H({"TP", "TN"})) = Cardinality(H({"TP"})) + Cardinality(H({"TN"}))
  BY <1>6, <1>8
<1>12. Cardinality(H({"TP", "FN", "FP", "TN"}))
         = Cardinality(H({"FN", "FP"})) + Cardinality(H({"TP", "TN"}))
  BY <1>6, <1>9
<1>13. Cardinality(1 .. Len(s)) = Len(s)
  BY <1>1, FS_Interval
<1>14. \A o : Count(s, o) = Cardinality(H({o}))
  BY DEF Count, H
<1>15. /\ \A o : Count(s, o) \in Nat
       /\ Cardinality(H({"FN", "FP"})) = Count(s, "FN") + Count(s, "FP")
       /\ Cardinality(H({"TP", "TN"})) = Count(s, "TP") + Count(s, "TN")
  BY <1>2, <1>10, <1>11, <1>14
<1>16. Len(s) = Cardinality(H({"FN", "FP"})) + Cardinality(H({"TP", "TN"}))
  BY <1>5, <1>12, <1>13
<1>17. Count(s, "TP") + Count(s, "FN") + Count(s, "FP") + Count(s, "TN") = Len(s)
  BY <1>15, <1>16
<1> QED  BY <1>15, <1>17 DEF H

(* A metric has bounds exactly when it has a value.                        *)
LEMMA IntervalsAgree ==
    ASSUME NEW table, IsList(table.classifications),
           \A i \in 1 .. Len(table.classifications) : table.classifications[i].outcome \in Outcomes
    PROVE  LET ci == Intervals(table)
               n  == Population(table.classifications).counts
           IN  /\ ci.recall.size + ci.fpr.size = Len(table.classifications)
               /\ Cardinality(Having(table.classifications, {"FN", "FP"})) = n["FN"] + n["FP"]
               /\ \A x \in DOMAIN ci : ci[x].bounded <=> ci[x].estimate # <<>>
<1> DEFINE all == table.classifications
           n == Population(all).counts
           p == Population(all)
           ci == Intervals(table)
<1>1. /\ \A o : Count(all, o) \in Nat
      /\ Count(all, "TP") + Count(all, "FN") + Count(all, "FP") + Count(all, "TN") = Len(all)
      /\ Cardinality(Having(all, {"FN", "FP"})) = Count(all, "FN") + Count(all, "FP")
  BY OutcomesPartition
<1>2. n = [o \in Outcomes |-> Count(all, o)]
  BY DEF Population
<1>3. /\ n["TP"] = Count(all, "TP") /\ n["FN"] = Count(all, "FN")
      /\ n["FP"] = Count(all, "FP") /\ n["TN"] = Count(all, "TN")
  BY <1>2 DEF Outcomes
<1>4. /\ p.precision = Ratio(n["TP"], n["TP"] + n["FP"])
      /\ p.recall = Ratio(n["TP"], n["TP"] + n["FN"])
      /\ p.fpr = Ratio(n["FP"], n["FP"] + n["TN"])
      /\ p.fnr = Ratio(n["FN"], n["FN"] + n["TP"])
  BY DEF Population
<1>5. ci = [precision |-> Interval(p.precision, n["TP"] + n["FP"]),
            recall    |-> Interval(p.recall, n["TP"] + n["FN"]),
            fpr       |-> Interval(p.fpr, n["FP"] + n["TN"]),
            fnr       |-> Interval(p.fnr, n["FN"] + n["TP"]),
            f1        |-> [estimate |-> p.f1, size |-> Len(all), bounded |-> p.f1 # <<>>]]
  <2>1. n["FN"] + n["TP"] = n["TP"] + n["FN"]
    BY <1>1, <1>3
  <2> QED  BY <2>1 DEF Intervals
<1> HIDE DEF ci, p, n
<1>6. \A k, d : LET i == Interval(Ratio(k, d), d) IN i.size = d /\ (i.bounded <=> i.estimate # <<>>)
  <2>1. \A k, d : <<k, d>> # <<>>
    OBVIOUS
  <2> QED  BY <2>1 DEF Interval, Ratio
<1>7. ci.recall.size = n["TP"] + n["FN"] /\ ci.fpr.size = n["FP"] + n["TN"]
  BY <1>4, <1>5, <1>6
<1>8. ci.recall.size + ci.fpr.size = Len(all)
  BY <1>1, <1>3, <1>7
<1>9. DOMAIN ci = {"precision", "recall", "fpr", "fnr", "f1"}
  BY <1>5
<1>10. /\ ci["precision"].bounded <=> ci["precision"].estimate # <<>>
       /\ ci["recall"].bounded <=> ci["recall"].estimate # <<>>
       /\ ci["fpr"].bounded <=> ci["fpr"].estimate # <<>>
       /\ ci["fnr"].bounded <=> ci["fnr"].estimate # <<>>
       /\ ci["f1"].bounded <=> ci["f1"].estimate # <<>>
  <2>1. ci["precision"] = Interval(p.precision, n["TP"] + n["FP"])
    BY <1>5
  <2>2. ci["recall"] = Interval(p.recall, n["TP"] + n["FN"])
    BY <1>5
  <2>3. ci["fpr"] = Interval(p.fpr, n["FP"] + n["TN"])
    BY <1>5
  <2>4. ci["fnr"] = Interval(p.fnr, n["FN"] + n["TP"])
    BY <1>5
  <2>5. (ci["f1"].bounded <=> p.f1 # <<>>) /\ ci["f1"].estimate = p.f1
    BY <1>5
  <2>6. \A k, d : Interval(Ratio(k, d), d).bounded <=> Interval(Ratio(k, d), d).estimate # <<>>
    BY <1>6
  <2>7. ci["precision"].bounded <=> ci["precision"].estimate # <<>>
    BY <1>4, <2>1, <2>6
  <2>8. ci["recall"].bounded <=> ci["recall"].estimate # <<>>
    BY <1>4, <2>2, <2>6
  <2>9. ci["fpr"].bounded <=> ci["fpr"].estimate # <<>>
    BY <1>4, <2>3, <2>6
  <2>10. ci["fnr"].bounded <=> ci["fnr"].estimate # <<>>
    BY <1>4, <2>4, <2>6
  <2> QED  BY <2>5, <2>7, <2>8, <2>9, <2>10
<1>11. \A x \in DOMAIN ci : ci[x].bounded <=> ci[x].estimate # <<>>
  BY <1>9, <1>10
<1> QED  BY <1>1, <1>3, <1>8, <1>11 DEF ci, n, p

(* The two rubrics leave out the same, and what the first misses the second*)
(* misses too.                                                             *)
LEMMA RubricsAgree ==
    ASSUME NEW m, IsList(tables[m].findings)
    PROVE  LET c == Totals(Assessed(m, "completeness"))
               e == Totals(Assessed(m, "explainability"))
           IN  c["n/a"] = e["n/a"] /\ c["missing"] <= e["missing"]
<1> DEFINE c == Assessed(m, "completeness")
           e == Assessed(m, "explainability")
           findings == tables[m].findings
           n == Len(findings)
<1>1. DOMAIN findings = 1 .. n /\ n \in Nat
  BY DEF IsList
<1>2. /\ DOMAIN c = 1 .. n /\ DOMAIN e = 1 .. n
      /\ \A i \in 1 .. n : c[i] = Completeness(m, findings[i]) /\ e[i] = Explainability(m, findings[i])
  BY <1>1 DEF Assessed
<1> HIDE DEF c, e
<1>3. ASSUME NEW f, NEW x \in Fields
      PROVE  /\ x \in DOMAIN Completeness(m, f) /\ Completeness(m, f)[x] = "n/a"
                <=> x \in DOMAIN Explainability(m, f) /\ Explainability(m, f)[x] = "n/a"
             /\ x \in DOMAIN Completeness(m, f) /\ Completeness(m, f)[x] = "missing"
                => x \in DOMAIN Explainability(m, f) /\ Explainability(m, f)[x] = "missing"
  <2>1. \A b : Status(b) # "n/a"
    BY DEF Status
  <2>2. /\ DOMAIN Completeness(m, f) = {"rule", "rationale", "evidence", "provenance", "relation"}
        /\ DOMAIN Explainability(m, f) = Fields
    BY DEF Completeness, Explainability, Fields
  <2>3. /\ Completeness(m, f)["rule"] = Explainability(m, f)["rule"]
        /\ Completeness(m, f)["rationale"] = Explainability(m, f)["rationale"]
        /\ Completeness(m, f)["evidence"] = Explainability(m, f)["evidence"]
        /\ Completeness(m, f)["provenance"] = Explainability(m, f)["provenance"]
        /\ Completeness(m, f)["relation"] = Explainability(m, f)["relation"]
    BY DEF Completeness, Explainability
  <2>4. Explainability(m, f)["endpoint"] # "n/a" /\ Explainability(m, f)["condition"] # "n/a"
    BY <2>1 DEF Explainability
  <2> QED  BY <2>2, <2>3, <2>4 DEF Fields
<1>4. Marked(c, "n/a") = Marked(e, "n/a")
  BY <1>2, <1>3 DEF Marked
<1>5. Marked(c, "missing") \subseteq Marked(e, "missing")
  BY <1>2, <1>3 DEF Marked
<1>6. IsFiniteSet(Marked(e, "missing"))
  <2>1. IsFiniteSet(1 .. n)
    BY <1>1, FS_Interval
  <2>2. IsFiniteSet(Fields)
    <3>1. IsFiniteSet({}) BY FS_EmptySet
    <3>2. Fields = ((((((({} \cup {"rule"}) \cup {"rationale"}) \cup {"evidence"}) \cup {"provenance"})
                       \cup {"relation"}) \cup {"endpoint"}) \cup {"condition"})
      BY DEF Fields
    <3> QED  BY <3>1, <3>2, FS_AddElement
  <2>3. IsFiniteSet((1 .. n) \X Fields)
    BY <2>1, <2>2, FS_Product
  <2>4. Marked(e, "missing") \subseteq (1 .. n) \X Fields
    BY <1>2 DEF Marked
  <2> QED  BY <2>3, <2>4, FS_Subset
<1>7. Cardinality(Marked(c, "missing")) <= Cardinality(Marked(e, "missing"))
  BY <1>5, <1>6, FS_Subset
<1> QED  BY <1>4, <1>7 DEF Totals, c, e

(* An outcome tells what was expected.                                     *)
OutcomesFor(expected) == IF expected THEN {"TP", "FN"} ELSE {"FP", "TN"}

(* What is judged has an outcome of its expectation, and its own id.       *)
LEMMA JudgedOutcome ==
    ASSUME NEW item, item[2].expected \in BOOLEAN, NEW m, NEW r
    PROVE  /\ Judged(item, m, r).outcome \in OutcomesFor(item[2].expected)
           /\ Judged(item, m, r).id = item[2].id
<1>1. PICK found \in BOOLEAN : Judged(item, m, r).outcome = OutcomeOf(item[2].expected, found)
  BY DEF Judged, Classify
<1>2. Judged(item, m, r).id = item[2].id
  BY DEF Judged, Classify
<1> QED  BY <1>1, <1>2 DEF OutcomeOf, OutcomesFor

(* The outcomes of a proposition are about one expectation in all modes.   *)
LEMMA OneExpectation ==
    ASSUME HarnessInv, stage = "done", NEW id \in DOMAIN ById("SPEC_ONLY")
    PROVE  \E expected \in BOOLEAN : \A m \in ModeNames :
              ById(m)[id].outcome \in OutcomesFor(expected)
<1> DEFINE P == Propositions
           T == {i \in 1 .. Len(P) : P[i][2].id = id}
           x == Max(T)
<1>1. HarnessTyped /\ Evaluated = 1 .. 3
  BY ModesDiffer DEF HarnessInv, Evaluated
<1>2. P \in Seq(Items) /\ Len(P) \in Nat
  BY <1>1, PropositionsShape
<1>3. ASSUME NEW k \in 1 .. 3
      PROVE  LET all == tables[Modes[k]].classifications
             IN  /\ DOMAIN all = 1 .. Len(P)
                 /\ \A i \in 1 .. Len(P) : all[i] = Judged(P[i], Modes[k], results)
  BY <1>1, Judgements
<1>4. ASSUME NEW k \in 1 .. 3
      PROVE  LET all == tables[Modes[k]].classifications
             IN  /\ {i \in DOMAIN all : all[i].id = id} = T
                 /\ {all[i].id : i \in DOMAIN all} = {P[i][2].id : i \in 1 .. Len(P)}
  <2>1. PICK all : all = tables[Modes[k]].classifications
    OBVIOUS
  <2> HIDE DEF P
  <2>4. DOMAIN all = 1 .. Len(P) /\ \A i \in 1 .. Len(P) : all[i] = Judged(P[i], Modes[k], results)
    BY <1>3, <2>1
  <2>5. \A i \in 1 .. Len(P) : all[i].id = P[i][2].id
    BY <2>4, JudgedNames
  <2>2. DOMAIN all = 1 .. Len(P) /\ \A i \in 1 .. Len(P) : all[i].id = P[i][2].id
    BY <2>4, <2>5
  <2>3. {i \in DOMAIN all : all[i].id = id} = T /\ {all[i].id : i \in DOMAIN all} = {P[i][2].id : i \in 1 .. Len(P)}
    BY <2>2
  <2> QED  BY <2>1, <2>3
<1>5. id \in {P[i][2].id : i \in 1 .. Len(P)}
  <2>1. Modes[1] = "SPEC_ONLY"
    BY DEF Modes
  <2>2. DOMAIN ById("SPEC_ONLY") = {tables["SPEC_ONLY"].classifications[i].id :
                                      i \in DOMAIN tables["SPEC_ONLY"].classifications}
    BY DEF ById
  <2> HIDE DEF P
  <2> QED  BY <1>4, <2>1, <2>2
<1> HIDE DEF P
<1>6. x \in T
  <2>1. T \in SUBSET (1 .. Len(P)) /\ T # {}
    BY <1>5
  <2> HIDE DEF T
  <2> QED  BY <1>2, <2>1, LastIndex
<1>7. ASSUME NEW k \in 1 .. 3
      PROVE  ById(Modes[k])[id] = tables[Modes[k]].classifications[x]
  <2>1. PICK all : all = tables[Modes[k]].classifications
    OBVIOUS
  <2>2. ById(Modes[k]) = [y \in {all[i].id : i \in DOMAIN all} |->
                             all[Max({i \in DOMAIN all : all[i].id = y})]]
    BY <2>1 DEF ById
  <2>3. id \in {all[i].id : i \in DOMAIN all} /\ {i \in DOMAIN all : all[i].id = id} = T
    BY <1>4, <1>5, <2>1
  <2> HIDE DEF T
  <2> QED  BY <2>1, <2>2, <2>3
<1>8. x \in 1 .. Len(P)
  BY <1>6
<1> HIDE DEF x, T
<1>9. P[x][2].expected \in BOOLEAN
  <2>1. PICK a \in DOMAIN dataset : \E j \in DOMAIN dataset[a].propositions :
            P[x] = <<dataset[a].id, dataset[a].propositions[j]>>
    BY <1>1, <1>8, PropositionsShape DEF P
  <2>2. PICK j \in DOMAIN dataset[a].propositions : P[x] = <<dataset[a].id, dataset[a].propositions[j]>>
    BY <2>1
  <2>3. WellFormed(dataset[a])
    BY <1>1, CaseShape DEF HarnessTyped
  <2>4. P[x][2] = dataset[a].propositions[j]
    BY <2>2
  <2> QED  BY <2>3, <2>4 DEF WellFormed
<1>10. ASSUME NEW k \in 1 .. 3
       PROVE  ById(Modes[k])[id].outcome \in OutcomesFor(P[x][2].expected)
  <2>1. ById(Modes[k])[id] = Judged(P[x], Modes[k], results)
    BY <1>3, <1>7, <1>8
  <2> QED  BY <1>9, <2>1, JudgedOutcome
<1>11. \A m \in ModeNames : \E k \in 1 .. 3 : m = Modes[k]
  BY ModesDiffer
<1> QED  BY <1>9, <1>10, <1>11

(* No proposition goes from TP to TN, so both reports see one effect.      *)
LEMMA EffectsAgree ==
    ASSUME HarnessInv, stage = "done"
    PROVE  \A id \in DOMAIN ReportedEffects : ReportedEffects[id] = Transitions[id].effect
<1>1. SUFFICES ASSUME NEW id \in DOMAIN ReportedEffects
               PROVE  ReportedEffects[id] = Transitions[id].effect
  OBVIOUS
<1>2. /\ id \in DOMAIN Transitions
      /\ ReportedEffects[id] =
            IF Transitions[id].outcomes[2] = "TP" /\ Transitions[id].outcomes[3] = "TN"
                  /\ Transitions[id].effect # "FP_REMOVED"
            THEN "TP_LOST" ELSE Transitions[id].effect
  BY DEF ReportedEffects
<1>3. /\ id \in DOMAIN ById("SPEC_ONLY")
      /\ Transitions[id].outcomes[2] = ById("SOURCE_ONLY")[id].outcome
      /\ Transitions[id].outcomes[3] = ById("CORRELATED")[id].outcome
  BY <1>2 DEF Transitions
<1>4. PICK expected \in BOOLEAN : \A m \in ModeNames :
         ById(m)[id].outcome \in OutcomesFor(expected)
  BY <1>3, OneExpectation
<1>6. ~(ById("SOURCE_ONLY")[id].outcome = "TP" /\ ById("CORRELATED")[id].outcome = "TN")
  BY <1>4, ModesDiffer DEF OutcomesFor
<1> QED  BY <1>2, <1>3, <1>6

(* For any outcomes the tables of a report agree: what the intervals, the  *)
(* errors, the rubrics and the effects say is said of the same outcomes    *)
(* (statistics.py:384, reporter.py:287).                                   *)
THEOREM ReportsAgree == Spec => []StatisticsAgree
<1>1. ASSUME HarnessInv, stage = "done" PROVE StatisticsAgree
  <2>1. Evaluated = 1 .. 3 /\ HarnessTyped /\ report = Report
    BY <1>1, ModesDiffer DEF HarnessInv, Evaluated
  <2>2. /\ report.intervals = [m \in ModeNames |-> Intervals(tables[m])]
        /\ report.errors = [m \in ModeNames |-> Errors(m)]
        /\ report.completeness = [m \in ModeNames |-> Totals(Assessed(m, "completeness"))]
        /\ report.explainability = [m \in ModeNames |-> Totals(Assessed(m, "explainability"))]
        /\ report.transitions = Transitions /\ report.effects = ReportedEffects
    BY <2>1 DEF Report
  <2>3. ASSUME NEW m \in ModeNames
        PROVE  /\ IsList(tables[m].classifications) /\ IsList(tables[m].findings)
               /\ Len(tables[m].classifications) = Len(Propositions)
               /\ \A i \in 1 .. Len(tables[m].classifications) :
                     tables[m].classifications[i].outcome \in Outcomes
    <3>1. PICK k \in 1 .. 3 : m = Modes[k]
      BY ModesDiffer
    <3>2. k \in Evaluated
      BY <2>1
    <3>3. PICK all : all = tables[m].classifications
      OBVIOUS
    <3>4. /\ IsList(all) /\ Len(all) = Len(Propositions)
          /\ \A i \in 1 .. Len(all) : all[i] = Judged(Propositions[i], m, results)
      BY <1>1, <3>1, <3>2, <3>3, Judgements
    <3>5. IsList(tables[m].findings)
      BY <1>1, <3>1, <3>2, Judgements DEF Fits
    <3>6. ASSUME NEW i \in 1 .. Len(all) PROVE all[i].outcome \in Outcomes
      <4>1. PICK a \in DOMAIN dataset : \E j \in DOMAIN dataset[a].propositions :
                Propositions[i] = <<dataset[a].id, dataset[a].propositions[j]>>
        BY <2>1, <3>4, PropositionsShape
      <4>2. PICK j \in DOMAIN dataset[a].propositions :
                Propositions[i] = <<dataset[a].id, dataset[a].propositions[j]>>
        BY <4>1
      <4>3. WellFormed(dataset[a])
        BY <2>1, CaseShape DEF HarnessTyped
      <4>4. Propositions[i][2].expected \in BOOLEAN
        BY <4>2, <4>3 DEF WellFormed
      <4>5. all[i].outcome \in OutcomesFor(Propositions[i][2].expected)
        BY <3>4, <4>4, JudgedOutcome
      <4> QED  BY <4>4, <4>5 DEF OutcomesFor, Outcomes
    <3> QED  BY <3>3, <3>4, <3>5, <3>6
  <2>4. ASSUME NEW m \in ModeNames
        PROVE  LET ci == report.intervals[m]
                   n  == Population(tables[m].classifications).counts
               IN  /\ ci.recall.size + ci.fpr.size = Len(Propositions)
                   /\ Cardinality(DOMAIN report.errors[m]) = n["FN"] + n["FP"]
                   /\ \A x \in DOMAIN ci : ci[x].bounded <=> ci[x].estimate # <<>>
                   /\ report.completeness[m]["n/a"] = report.explainability[m]["n/a"]
                   /\ report.completeness[m]["missing"] <= report.explainability[m]["missing"]
    <3>1. report.intervals[m] = Intervals(tables[m])
      BY <2>2
    <3>2. DOMAIN report.errors[m] = Having(tables[m].classifications, {"FN", "FP"})
      BY <2>2 DEF Errors
    <3>3. /\ report.completeness[m]["n/a"] = report.explainability[m]["n/a"]
          /\ report.completeness[m]["missing"] <= report.explainability[m]["missing"]
      BY <2>2, <2>3, RubricsAgree
    <3> QED  BY <2>3, <3>1, <3>2, <3>3, IntervalsAgree
  <2>5. \A id \in DOMAIN report.effects : report.effects[id] = report.transitions[id].effect
    BY <1>1, <2>2, EffectsAgree
  <2> QED  BY <2>4, <2>5 DEF StatisticsAgree
<1>2. HarnessInv => StatisticsAgree
  BY <1>1 DEF StatisticsAgree
<1> QED  BY <1>2, HarnessInvariant, PTL

-----------------------------------------------------------------------------
(* The protocol of the fixtures.                                           *)
FixtureShaped(f) ==
    /\ f.registered \in BOOLEAN /\ f.expectedRegistration \in BOOLEAN
    /\ IsList(f.observed) /\ IsList(f.expected)

CounterType ==
    [registration : [tp : Nat, fp : Nat, fn : Nat, tn : Nat],
     mapping      : [tp : Nat, fp : Nat, fn : Nat],
     provenance   : [passed : Nat, total : Nat],
     failures     : [missed_registration : Nat, false_registration : Nat, false_mapping : Nat,
                     missed_mapping : Nat, wrong_evidence_provenance : Nat]]

ProtocolInv ==
    /\ IsList(fixtures) /\ IsList(taken)
    /\ \A f \in ToSet(fixtures) \cup ToSet(taken) : FixtureShaped(f)
    /\ counted \in CounterType
    /\ IsFiniteSet(Registered) /\ IsFiniteSet(ExpectedKeys) /\ IsFiniteSet(ObservedKeys)
    /\ ProtocolAddsUp

(* A list has finitely many keys.                                          *)
LEMMA KeysFinite ==
    ASSUME NEW list, IsList(list)
    PROVE  IsFiniteSet(Keys(list))
<1> DEFINE f == [i \in 1 .. Len(list) |-> list[i].key]
<1>1. Len(list) \in Nat /\ DOMAIN list = 1 .. Len(list)
  BY DEF IsList
<1>2. f \in Surjection(1 .. Len(list), Keys(list))
  <2>1. f \in [1 .. Len(list) -> Keys(list)]
    BY <1>1 DEF Keys
  <2>2. \A k \in Keys(list) : \E i \in 1 .. Len(list) : f[i] = k
    BY <1>1 DEF Keys
  <2> HIDE DEF f
  <2> QED  BY <2>1, <2>2 DEF Surjection
<1>3. IsFiniteSet(1 .. Len(list))
  BY <1>1, FS_Interval
<1> HIDE DEF f
<1> QED  BY <1>2, <1>3, FS_Surjection

(* What two sets share and what one has alone make it up.                  *)
LEMMA SharedAndAlone ==
    ASSUME NEW S, IsFiniteSet(S), NEW T
    PROVE  /\ Cardinality(S \cap T) \in Nat /\ Cardinality(S \ T) \in Nat
           /\ IsFiniteSet(S \cap T)
           /\ Cardinality(S \cap T) + Cardinality(S \ T) = Cardinality(S)
<1>1. Cardinality(S) \in Nat /\ IsFiniteSet(S \ T) /\ Cardinality(S \ T) = Cardinality(S) - Cardinality(S \cap T)
  BY FS_CardinalityType, FS_Difference
<1>2. IsFiniteSet(S \cap T)
  <2>1. S \cap T \subseteq S
    OBVIOUS
  <2> QED  BY <2>1, FS_Subset
<1>3. Cardinality(S \cap T) \in Nat /\ Cardinality(S \ T) \in Nat
  BY <1>1, <1>2, FS_CardinalityType
<1> QED  BY <1>1, <1>2, <1>3

(* One more fixture has its own keys, under its own place.                 *)
LEMMA KeysOfOneMore ==
    ASSUME NEW old, IsFiniteSet(old), NEW n \in Nat, \A z \in old : z[1] # n + 1,
           NEW K, IsFiniteSet(K), NEW new, new = old \cup ({n + 1} \X K)
    PROVE  IsFiniteSet(new) /\ Cardinality(new) = Cardinality(old) + Cardinality(K)
<1> DEFINE P == {n + 1} \X K
<1>1. IsFiniteSet({n + 1}) /\ Cardinality({n + 1}) = 1 /\ Cardinality(K) \in Nat /\ Cardinality(old) \in Nat
  BY FS_Singleton, FS_CardinalityType
<1>2. IsFiniteSet(P) /\ Cardinality(P) = Cardinality(K)
  <2>1. IsFiniteSet(P) /\ Cardinality(P) = 1 * Cardinality(K)
    BY <1>1, FS_Product
  <2> QED  BY <1>1, <2>1
<1>3. old \cap P = {}
  <2>1. \A z \in P : z[1] = n + 1
    OBVIOUS
  <2> HIDE DEF P
  <2> QED  BY <2>1
<1> HIDE DEF P
<1>4. new = old \cup P
  BY DEF P
<1>5. /\ IsFiniteSet(old \cup P)
      /\ Cardinality(old \cup P) = Cardinality(old) + Cardinality(P) - Cardinality(old \cap P)
  BY <1>2, FS_Union
<1>6. Cardinality({}) = 0
  BY FS_EmptySet
<1>7. PICK a, b : a = Cardinality(old) /\ b = Cardinality(K)
  OBVIOUS
<1>8. Cardinality(new) = a + b - 0 /\ a \in Nat /\ b \in Nat
  BY <1>1, <1>2, <1>3, <1>4, <1>5, <1>6, <1>7
<1>9. IsFiniteSet(new)
  BY <1>4, <1>5
<1>10. a + b - 0 = a + b
  BY <1>8
<1> QED  BY <1>7, <1>8, <1>9, <1>10

(* Sums that grow together.                                                *)
LEMMA SumsGrow ==
    /\ \A a, b, c, w, x, y \in Nat : a + b = c /\ w + x = y => (a + w) + (b + x) = c + y
    /\ \A a, b, c, d, w, x, y, z, n \in Nat :
          a + b + c + d = n /\ w + x + y + z = 1 => (a + w) + (b + x) + (c + y) + (d + z) = n + 1
  OBVIOUS

(* A fixture adds to each counter what it adds to each set.                *)
LEMMA ProtocolStep ==
    ASSUME ProtocolInv, ProtocolCase
    PROVE  ProtocolInv'
<1> DEFINE f == Head(fixtures)
           n == Len(taken)
           O == Keys(f.observed)
           X == Keys(f.expected)
           c == counted
<1>1. /\ fixtures # <<>> /\ fixtures' = Tail(fixtures) /\ taken' = Append(taken, f)
      /\ counted' = CountFixture(f, counted)
  BY DEF ProtocolCase
<1>2. IsList(fixtures') /\ ToSet(fixtures') \subseteq ToSet(fixtures) /\ f \in ToSet(fixtures)
  <2>1. fixtures \in Seq(ToSet(fixtures))
    BY DEF ProtocolInv, IsList
  <2>2. Tail(fixtures) \in Seq(ToSet(fixtures)) /\ f \in ToSet(fixtures)
    BY <1>1, <2>1
  <2> QED  BY <1>1, <2>2, ListOfAny
<1>3. FixtureShaped(f)
  BY <1>2 DEF ProtocolInv
<1> HIDE DEF f
<1>4. /\ IsList(taken') /\ n \in Nat /\ DOMAIN taken = 1 .. n /\ DOMAIN taken' = 1 .. n + 1 /\ Len(taken') = n + 1
      /\ \A i \in 1 .. n : taken'[i] = taken[i]
      /\ taken'[n + 1] = f
  BY <1>1, ListGrows DEF ProtocolInv
<1> HIDE DEF n
<1>5. \A i : i \in 1 .. n + 1 <=> i \in 1 .. n \/ i = n + 1
  BY <1>4
<1>6. \A g \in ToSet(fixtures') \cup ToSet(taken') : FixtureShaped(g)
  <2>1. \A g \in ToSet(taken') : g \in ToSet(taken) \/ g = f
    BY <1>4, <1>5 DEF ToSet
  <2> QED  BY <1>2, <1>3, <2>1 DEF ProtocolInv
<1>7. IsFiniteSet(O) /\ IsFiniteSet(X)
  BY <1>3, KeysFinite DEF FixtureShaped
<1>8. /\ IsFiniteSet(Registered')
      /\ Cardinality(Registered') = Cardinality(Registered) + (IF f.registered THEN 1 ELSE 0)
  <2>1. IsFiniteSet(Registered) /\ n + 1 \notin Registered /\ Cardinality(Registered) \in Nat
    BY <1>4, FS_CardinalityType DEF ProtocolInv, Registered
  <2>2. CASE f.registered
    <3>1. Registered' = Registered \cup {n + 1}
      BY <1>4, <1>5, <2>2 DEF Registered
    <3> QED  BY <2>1, <2>2, <3>1, FS_AddElement
  <2>3. CASE ~f.registered
    <3>1. Registered' = Registered
      BY <1>4, <1>5, <2>3 DEF Registered
    <3> QED  BY <2>1, <2>3, <3>1
  <2> QED  BY <2>2, <2>3
<1> HIDE DEF O, X
<1>9. /\ IsFiniteSet(ExpectedKeys') /\ Cardinality(ExpectedKeys') = Cardinality(ExpectedKeys) + Cardinality(X)
  <2>1. \A i \in 1 .. n : Keys(taken'[i].expected) = Keys(taken[i].expected)
    BY <1>4
  <2>2. Keys(taken'[n + 1].expected) = X
    BY <1>4 DEF X
  <2>3. ExpectedKeys = UNION {{i} \X Keys(taken[i].expected) : i \in 1 .. n}
    BY <1>4 DEF ExpectedKeys
  <2>4. ExpectedKeys' = UNION {{i} \X Keys(taken'[i].expected) : i \in 1 .. n + 1}
    BY <1>4 DEF ExpectedKeys
  <2>5. ExpectedKeys' = ExpectedKeys \cup ({n + 1} \X X)
    BY <1>5, <2>1, <2>2, <2>3, <2>4
  <2>6. \A z \in ExpectedKeys : z[1] # n + 1
    <3>1. \A i \in 1 .. n : i # n + 1
      BY <1>4
    <3> QED  BY <2>3, <3>1
  <2> QED  BY <1>4, <1>7, <2>5, <2>6, KeysOfOneMore DEF ProtocolInv
<1>10. /\ IsFiniteSet(ObservedKeys') /\ Cardinality(ObservedKeys') = Cardinality(ObservedKeys) + Cardinality(O)
  <2>1. \A i \in 1 .. n : Keys(taken'[i].observed) = Keys(taken[i].observed)
    BY <1>4
  <2>2. Keys(taken'[n + 1].observed) = O
    BY <1>4 DEF O
  <2>3. ObservedKeys = UNION {{i} \X Keys(taken[i].observed) : i \in 1 .. n}
    BY <1>4 DEF ObservedKeys
  <2>4. ObservedKeys' = UNION {{i} \X Keys(taken'[i].observed) : i \in 1 .. n + 1}
    BY <1>4 DEF ObservedKeys
  <2>5. ObservedKeys' = ObservedKeys \cup ({n + 1} \X O)
    BY <1>5, <2>1, <2>2, <2>3, <2>4
  <2>6. \A z \in ObservedKeys : z[1] # n + 1
    <3>1. \A i \in 1 .. n : i # n + 1
      BY <1>4
    <3> QED  BY <2>3, <3>1
  <2> QED  BY <1>4, <1>7, <2>5, <2>6, KeysOfOneMore DEF ProtocolInv
(* The counters, with the sizes the fixture adds to them.                  *)
<1> DEFINE valid == {k \in O \cap X : LineOf(f.observed, k) = LineOf(f.expected, k)}
           found == Cardinality(O \cap X)
           false == Cardinality(O \ X)
           missed == Cardinality(X \ O)
           right == Cardinality(valid)
           wrong == Cardinality((O \cap X) \ valid)
           cell == RegistrationCell(f)
           one(b) == IF b THEN 1 ELSE 0
<1>11. /\ found \in Nat /\ false \in Nat /\ missed \in Nat /\ right \in Nat /\ wrong \in Nat
       /\ found + false = Cardinality(O) /\ found + missed = Cardinality(X)
       /\ right + wrong = found
  <2>1. found \in Nat /\ false \in Nat /\ IsFiniteSet(O \cap X) /\ found + false = Cardinality(O)
    BY <1>7, SharedAndAlone
  <2>2. missed \in Nat /\ found + missed = Cardinality(X)
    <3>1. X \cap O = O \cap X
      OBVIOUS
    <3> QED  BY <1>7, <3>1, SharedAndAlone
  <2>3. (O \cap X) \cap valid = valid
    OBVIOUS
  <2> HIDE DEF valid
  <2>4. right \in Nat /\ wrong \in Nat /\ right + wrong = found
    BY <2>1, <2>3, SharedAndAlone
  <2> QED  BY <2>1, <2>2, <2>4
<1>12. counted' =
          [registration |-> [c.registration EXCEPT ![cell] = @ + 1],
           mapping    |-> [tp |-> c.mapping.tp + found, fp |-> c.mapping.fp + false,
                           fn |-> c.mapping.fn + missed],
           provenance |-> [passed |-> c.provenance.passed + right, total |-> c.provenance.total + found],
           failures   |->
              [missed_registration |-> c.failures.missed_registration + one(cell = "fn"),
               false_registration  |-> c.failures.false_registration + one(cell = "fp"),
               false_mapping  |-> c.failures.false_mapping + false,
               missed_mapping |-> c.failures.missed_mapping + missed,
               wrong_evidence_provenance |-> c.failures.wrong_evidence_provenance + wrong]]
  BY <1>1 DEF CountFixture, O, X
<1>13. /\ c.registration \in [tp : Nat, fp : Nat, fn : Nat, tn : Nat]
       /\ c.mapping \in [tp : Nat, fp : Nat, fn : Nat]
       /\ c.provenance \in [passed : Nat, total : Nat]
       /\ c.failures \in [missed_registration : Nat, false_registration : Nat, false_mapping : Nat,
                          missed_mapping : Nat, wrong_evidence_provenance : Nat]
  BY DEF ProtocolInv, CounterType
<1>14. /\ cell \in {"tp", "fp", "fn", "tn"}
       /\ f.registered <=> cell \in {"tp", "fp"}
  BY <1>3 DEF RegistrationCell, FixtureShaped
<1> HIDE DEF valid, found, false, missed, right, wrong, cell
<1> DEFINE r == counted'.registration
<1>15. /\ r = [c.registration EXCEPT ![cell] = @ + 1]
       /\ counted'.mapping = [tp |-> c.mapping.tp + found, fp |-> c.mapping.fp + false, fn |-> c.mapping.fn + missed]
       /\ counted'.provenance = [passed |-> c.provenance.passed + right, total |-> c.provenance.total + found]
       /\ counted'.failures.missed_registration = c.failures.missed_registration + one(cell = "fn")
       /\ counted'.failures.false_registration = c.failures.false_registration + one(cell = "fp")
       /\ counted'.failures.false_mapping = c.failures.false_mapping + false
       /\ counted'.failures.missed_mapping = c.failures.missed_mapping + missed
       /\ counted'.failures.wrong_evidence_provenance = c.failures.wrong_evidence_provenance + wrong
  BY <1>12
<1>16. /\ r.tp = c.registration.tp + one(cell = "tp") /\ r.fp = c.registration.fp + one(cell = "fp")
       /\ r.fn = c.registration.fn + one(cell = "fn") /\ r.tn = c.registration.tn + one(cell = "tn")
       /\ r \in [tp : Nat, fp : Nat, fn : Nat, tn : Nat]
  <2> HIDE DEF r
  <2>1. CASE cell = "tp"
    BY <1>13, <1>15, <2>1
  <2>2. CASE cell = "fp"
    BY <1>13, <1>15, <2>2
  <2>3. CASE cell = "fn"
    BY <1>13, <1>15, <2>3
  <2>4. CASE cell = "tn"
    BY <1>13, <1>15, <2>4
  <2> QED  BY <1>14, <2>1, <2>2, <2>3, <2>4
<1>17. counted' \in CounterType
  BY <1>11, <1>12, <1>13, <1>16 DEF CounterType
<1> HIDE DEF r, c
<1>18. ProtocolAddsUp'
  <2>1. /\ c.registration.tp + c.registration.fp + c.registration.fn + c.registration.tn = n
        /\ c.registration.tp + c.registration.fp = Cardinality(Registered)
        /\ c.mapping.tp + c.mapping.fn = Cardinality(ExpectedKeys)
        /\ c.mapping.tp + c.mapping.fp = Cardinality(ObservedKeys)
        /\ c.provenance.total = c.mapping.tp
        /\ c.provenance.passed + c.failures.wrong_evidence_provenance = c.provenance.total
        /\ c.failures.false_mapping + c.failures.missed_mapping = c.mapping.fp + c.mapping.fn
        /\ c.failures.missed_registration + c.failures.false_registration
             = c.registration.fn + c.registration.fp
    BY DEF ProtocolInv, ProtocolAddsUp, c, n
  <2>11. /\ c.registration.tp \in Nat /\ c.registration.fp \in Nat
         /\ c.registration.fn \in Nat /\ c.registration.tn \in Nat
    BY <1>13
  <2>12. /\ c.provenance.passed \in Nat /\ c.mapping.fp \in Nat /\ c.mapping.fn \in Nat
         /\ c.failures.wrong_evidence_provenance \in Nat
         /\ c.failures.false_mapping \in Nat /\ c.failures.missed_mapping \in Nat
    BY <1>13
  <2>13. PICK tp, fp, fn, tn \in {0, 1} : /\ tp = one(cell = "tp") /\ fp = one(cell = "fp")
                                         /\ fn = one(cell = "fn") /\ tn = one(cell = "tn")
    OBVIOUS
  <2>14. tp + fp + fn + tn = 1
    BY <1>14, <2>13
  <2>15. /\ r.tp = c.registration.tp + tp /\ r.fp = c.registration.fp + fp
         /\ r.fn = c.registration.fn + fn /\ r.tn = c.registration.tn + tn
    BY <1>16, <2>13
  <2>2. r.tp + r.fp + r.fn + r.tn = Len(taken')
    <3>1. PICK a, b, d, e \in Nat : /\ a = c.registration.tp /\ b = c.registration.fp
                                    /\ d = c.registration.fn /\ e = c.registration.tn
      BY <2>11
    <3>2. a + b + d + e = n
      BY <2>1, <3>1
    <3>3. (a + tp) + (b + fp) + (d + fn) + (e + tn) = n + 1
      BY <1>4, <2>14, <3>2, SumsGrow
    <3> QED  BY <1>4, <2>15, <3>1, <3>3
  <2>3. r.tp + r.fp = Cardinality(Registered')
    BY <1>8, <1>13, <1>14, <1>16, <2>1
  <2>4. /\ counted'.mapping.tp = c.mapping.tp + found /\ counted'.mapping.fp = c.mapping.fp + false
        /\ counted'.mapping.fn = c.mapping.fn + missed
        /\ counted'.provenance.passed = c.provenance.passed + right
        /\ counted'.provenance.total = c.provenance.total + found
    BY <1>15
  <2>5. counted'.mapping.tp + counted'.mapping.fn = Cardinality(ExpectedKeys')
    BY <1>9, <1>11, <1>13, <2>1, <2>4
  <2>6. counted'.mapping.tp + counted'.mapping.fp = Cardinality(ObservedKeys')
    BY <1>10, <1>11, <1>13, <2>1, <2>4
  <2>7. counted'.provenance.total = counted'.mapping.tp
    BY <2>1, <2>4
  <2>8. counted'.provenance.passed + counted'.failures.wrong_evidence_provenance = counted'.provenance.total
    <3>1. c.provenance.total \in Nat
      BY <1>13
    <3> QED  BY <1>11, <1>15, <2>1, <2>4, <2>12, <3>1, SumsGrow
  <2>9. counted'.failures.false_mapping + counted'.failures.missed_mapping
          = counted'.mapping.fp + counted'.mapping.fn
    <3>1. PICK a, b, x, y \in Nat : /\ a = c.failures.false_mapping /\ b = c.failures.missed_mapping
                                    /\ x = c.mapping.fp /\ y = c.mapping.fn
      BY <2>12
    <3>2. PICK v, w \in Nat : v = false /\ w = missed
      BY <1>11
    <3>3. a + b = x + y /\ (a + v) + (b + w) = (x + v) + (y + w)
      BY <2>1, <3>1
    <3> QED  BY <1>15, <2>4, <3>1, <3>2, <3>3
  <2>10. counted'.failures.missed_registration + counted'.failures.false_registration = r.fn + r.fp
    <3>1. PICK a, b, x, y \in Nat : /\ a = c.failures.missed_registration
                                    /\ b = c.failures.false_registration
                                    /\ x = c.registration.fn /\ y = c.registration.fp
      BY <1>13
    <3>2. a + b = x + y /\ (a + fn) + (b + fp) = (x + fn) + (y + fp)
      BY <2>1, <3>1
    <3>3. /\ counted'.failures.missed_registration = a + fn
          /\ counted'.failures.false_registration = b + fp
      BY <1>15, <2>13, <3>1
    <3> QED  BY <2>15, <3>1, <3>2, <3>3
  <2> QED  BY <2>2, <2>3, <2>5, <2>6, <2>7, <2>8, <2>9, <2>10 DEF ProtocolAddsUp, r
<1> QED  BY <1>2, <1>4, <1>6, <1>8, <1>9, <1>10, <1>17, <1>18 DEF ProtocolInv

(* For any fixtures the counters of the protocol are the sizes of the sets *)
(* they are divided by (connexion_protocol_v1.py:89 to 134).               *)
THEOREM ProtocolCounts == ProtocolSpec => []ProtocolAddsUp
<1>1. ASSUME ProtocolInit PROVE ProtocolInv
  <2>1. fixtures \in Fixtures /\ taken = <<>> /\ counted = Zero
    BY <1>1 DEF ProtocolInit
  <2>2. IsList(fixtures) /\ \A f \in ToSet(fixtures) : FixtureShaped(f)
    BY <2>1, ProtocolAssumption DEF FixtureShaped, IsList
  <2>3. IsList(taken) /\ ToSet(taken) = {} /\ DOMAIN taken = {} /\ Len(taken) = 0
    BY <2>1 DEF IsList, ToSet
  <2>4. Registered = {} /\ ExpectedKeys = {} /\ ObservedKeys = {}
    BY <2>3 DEF Registered, ExpectedKeys, ObservedKeys
  <2>5. counted \in CounterType
    BY <2>1 DEF CounterType, Zero
  <2>6. IsFiniteSet({}) /\ Cardinality({}) = 0
    BY FS_EmptySet
  <2>7. ProtocolAddsUp
    BY <2>1, <2>3, <2>4, <2>6 DEF ProtocolAddsUp, Zero
  <2> QED  BY <2>2, <2>3, <2>4, <2>5, <2>6, <2>7 DEF ProtocolInv
<1>2. ASSUME ProtocolInv, [ProtocolNext]_protocolVars PROVE ProtocolInv'
  <2>1. CASE ProtocolCase
    BY <1>2, <2>1, ProtocolStep
  <2>2. CASE UNCHANGED protocolVars
    BY <1>2, <2>2 DEF protocolVars, ProtocolInv, ProtocolAddsUp, Registered, ExpectedKeys, ObservedKeys
  <2> QED  BY <1>2, <2>1, <2>2 DEF ProtocolNext
<1>3. ProtocolInv => ProtocolAddsUp
  BY DEF ProtocolInv
<1> QED  BY <1>1, <1>2, <1>3, PTL DEF ProtocolSpec
=============================================================================
