----------------------------- MODULE Evaluation -----------------------------
(***************************************************************************)
(* The evaluation harness (app/evaluation): the ground truth of one or two *)
(* benchmark partitions is loaded, every case is analysed once, its        *)
(* propositions are classified in three modes against the findings of the  *)
(* mode, and the reports are computed from the classifications.            *)
(*                                                                         *)
(* The engines are parameters (SourceExtraction, SecurityRules and         *)
(* EvidenceCorrelation model them): what matters here is which of them is  *)
(* given which input, whose findings a proposition is compared with, and   *)
(* what the tables built from the outcomes say.                            *)
(***************************************************************************)
EXTENDS Naturals, Sequences, FiniteSets, SequencesExt

CONSTANTS
    Inputs,                      \* the benchmarks and disks the runs start from
    SpecEngine(_),               \* findings of the OpenAPI rules on a document
    SourceTree(_, _),            \* tree of a source directory, with <<spec>> or <<>>
    SourceEngine(_),             \* findings of the source rules on a tree
    CorrelationEngine(_, _)      \* findings of the correlation rules on both

Modes    == <<"SPEC_ONLY", "SOURCE_ONLY", "CORRELATED">>
Outcomes == {"TP", "FP", "FN", "TN"}
Secret   == "PROP-SECRET-001"    \* the proposition the taxonomy names
NotAvailable == <<>>             \* the endpoint "N/A"

VARIABLES
    input,      \* [benchmark, truth: partition -> cases, disk: partition -> id -> files]
    stage,      \* "load", "analyse", "evaluate", "statistics", "done" or "failed"
    loading,    \* the partitions still to load
    seen,       \* seen_ids of the partition being loaded
    dataset,    \* the loaded cases
    at,         \* position in the sequence the stage walks over
    next,       \* position among the propositions of the case being evaluated
    results,    \* analysis_results, by case_id
    mode,       \* index of the mode being evaluated
    tables,     \* what evaluate_mode accumulates, by mode
    report      \* the statistics, once computed

vars == <<input, stage, loading, seen, dataset, at, next, results, mode, tables, report>>

Partitions(benchmark) ==
    IF benchmark = "combined" THEN <<"baseline", "external">> ELSE <<benchmark>>

ModeNames == ToSet(Modes)

NoTable == [classifications |-> <<>>, byCategory |-> [c \in {} |-> <<>>],
            b |-> <<>>, c |-> <<>>, findings |-> <<>>]

Init ==
    /\ input \in Inputs
    /\ stage = "load"
    /\ loading = Partitions(input.benchmark)
    /\ seen = {} /\ dataset = <<>> /\ at = 1 /\ next = 1
    /\ results = [id \in {} |-> <<>>]
    /\ mode = 1
    /\ tables = [m \in ModeNames |-> NoTable]
    /\ report = <<>>

-----------------------------------------------------------------------------
(* load_dataset: duplicates are looked for within one partition.            *)

Raw == input.truth[Head(loading)]

LoadCase ==
    /\ stage = "load" /\ at \in DOMAIN Raw
    /\ Raw[at].id \notin seen
    /\ seen' = seen \cup {Raw[at].id}
    /\ dataset' = Append(dataset, Raw[at])
    /\ at' = at + 1
    /\ UNCHANGED <<input, stage, loading, next, results, mode, tables, report>>

RefuseDataset ==
    /\ stage = "load"
    /\ \/ Raw = <<>>
       \/ at \in DOMAIN Raw /\ Raw[at].id \in seen
    /\ stage' = "failed"
    /\ UNCHANGED <<input, loading, seen, dataset, at, next, results, mode, tables, report>>

EndPartition ==
    /\ stage = "load" /\ Raw # <<>> /\ at > Len(Raw)
    /\ loading' = Tail(loading)
    /\ stage' = IF Tail(loading) = <<>> THEN "analyse" ELSE "load"
    /\ seen' = {} /\ at' = 1
    /\ UNCHANGED <<input, dataset, next, results, mode, tables, report>>

-----------------------------------------------------------------------------
(* Analysis of a case: the directory of the benchmark first, then the two   *)
(* partitions; "combined" starts from the baseline directory.               *)

Directories == {"baseline", "external"}
FirstDirectory(benchmark) == IF benchmark = "external" THEN "external" ELSE "baseline"

Holding(id) == {partition \in Directories : id \in DOMAIN input.disk[partition]}

(* Mutant of CaseDirectory: the baseline directory is always looked at first.*)
CaseDirectoryBaseline(id) ==
    IF "baseline" \in Holding(id) THEN "baseline" ELSE CHOOSE partition \in Holding(id) : TRUE

CaseDirectory(id) ==
    LET first == FirstDirectory(input.benchmark)
    IN  IF first \in Holding(id) THEN first ELSE CHOOSE partition \in Holding(id) : TRUE

CaseFiles(id) == input.disk[CaseDirectory(id)][id]

RunSingleCase(files) ==
    LET tree == SourceTree(files.source, <<>>)
        both == CorrelationEngine(files.spec, tree)
    IN  [findings |-> [SPEC_ONLY   |-> SpecEngine(files.spec),
                       SOURCE_ONLY |-> SourceEngine(tree),
                       CORRELATED  |-> both.findings],
         matched  |-> both.matched]

(* What is asked of a benchmark, and holds of the two in evaluation/: lists *)
(* are lists, a case names each of its propositions once, no case is in     *)
(* both partitions of "combined", and a directory of a case's name is its   *)
(* own, or is looked at after its own.                                      *)
OwnDirectory(x, partition, id) ==
    \A other \in Directories : id \in DOMAIN x.disk[other] =>
        /\ id \in DOMAIN x.disk[partition]
        /\ other # partition => partition = FirstDirectory(x.benchmark)

WellFormed(case) ==
    /\ case.propositions \in Seq(ToSet(case.propositions))
    /\ \A i \in DOMAIN case.propositions : case.propositions[i].expected \in BOOLEAN
    /\ \A i, j \in DOMAIN case.propositions :
          case.propositions[i].id = case.propositions[j].id => i = j

ASSUME EvaluationAssumption ==
    \A x \in Inputs :
        /\ x.benchmark \in {"baseline", "external", "combined"}
        /\ \A p \in Directories :
              /\ x.truth[p] \in Seq(ToSet(x.truth[p]))
              /\ \A case \in ToSet(x.truth[p]) : WellFormed(case)
              /\ \A id \in DOMAIN x.disk[p] : \A m \in ModeNames :
                    LET found == RunSingleCase(x.disk[p][id]).findings[m]
                    IN  found \in Seq(ToSet(found))
        /\ \A p \in ToSet(Partitions(x.benchmark)) : \A case \in ToSet(x.truth[p]) :
              /\ OwnDirectory(x, p, case.id)
              /\ \A q \in ToSet(Partitions(x.benchmark)) \ {p} :
                    \A other \in ToSet(x.truth[q]) : other.id # case.id

AnalyseCase ==
    /\ stage = "analyse" /\ at \in DOMAIN dataset
    /\ LET id == dataset[at].id
       IN  IF Holding(id) = {}
           THEN stage' = "failed" /\ UNCHANGED <<results, at>>
           ELSE /\ results' = [x \in DOMAIN results \cup {id} |->
                                  IF x = id THEN RunSingleCase(CaseFiles(id)) ELSE results[x]]
                /\ at' = at + 1
                /\ UNCHANGED stage
    /\ UNCHANGED <<input, loading, seen, dataset, next, mode, tables, report>>

EndAnalysis ==
    /\ stage = "analyse" /\ at > Len(dataset)
    /\ stage' = "evaluate" /\ at' = 1
    /\ UNCHANGED <<input, loading, seen, dataset, next, results, mode, tables, report>>

-----------------------------------------------------------------------------
(* Classification of a proposition.                                         *)

(* Words a category looks for anywhere in an upper-cased rule id; the words *)
(* of CATEGORY_RULE_MAP that contain one of them add nothing and are left   *)
(* out.                                                                     *)
Keywords(category) ==
    CASE category = "authentication"   -> {"AUTH", "SRC-002"}
      [] category = "authorization"    -> {"AUTHZ", "AUTHORIZATION", "BOLA", "IDOR", "SRC-003"}
      [] category = "input_validation" -> {"INPUT", "CONSTRAINT", "VALIDATION"}
      [] category = "sensitive_data"   -> {"DATA", "SENSITIVE", "EXPOSURE"}
      [] category = "secrets"          -> {"SECRET", "CREDENTIAL", "HARDCODED", "SRC-001"}
      [] OTHER                         -> {}

(* The words in the rule ids of the analyzer: "AUTHZ" contains "AUTH".      *)
WordsIn(rule) ==
    CASE rule \in {"API-AUTH-001", "API-AUTH-002", "API-SOURCE-AUTH-001", "CORR-AUTH-001"}
                                                          -> {"AUTH"}
      [] rule \in {"API-AUTHZ-001", "API-SOURCE-AUTHZ-001", "CORR-AUTHZ-001"}
                                                          -> {"AUTH", "AUTHZ"}
      [] rule \in {"API-INPUT-001", "CORR-INPUT-001"}     -> {"INPUT"}
      [] rule \in {"API-DATA-001", "CORR-DATA-001"}       -> {"DATA"}
      [] rule = "API-SECRET-001"                          -> {"SECRET"}
      [] OTHER                                            -> {}

RuleMatchesCategory(rule, category) == WordsIn(rule) \cap Keywords(category) # {}

(* A path is the sequence of its segments; the code tests for a substring.  *)
Mentions(text, endpoint) ==
    \E i \in 0 .. Len(text) - Len(endpoint) :
        SubSeq(text, i + 1, i + Len(endpoint)) = endpoint

Matches(finding, proposition) ==
    /\ RuleMatchesCategory(finding.rule, proposition.category)
    /\ \/ proposition.endpoint = NotAvailable
       \/ \E pair \in ToSet(finding.matched) :
              proposition.endpoint \in {pair.spec_path, pair.canonical}
       \/ \E text \in finding.texts : Mentions(text, proposition.endpoint)

(* Which of the findings it could be; find_matching_finding takes the first.*)
Matching(findings, proposition) == {i \in DOMAIN findings : Matches(findings[i], proposition)}

OutcomeOf(expected, found) ==
    CASE expected /\ found   -> "TP"  [] expected /\ ~found  -> "FN"
      [] ~expected /\ found  -> "FP"  [] ~expected /\ ~found -> "TN"

Classify(proposition, case, findings) ==
    LET matching == Matching(findings, proposition)
    IN  [id |-> proposition.id, case |-> case, category |-> proposition.category,
         outcome |-> OutcomeOf(proposition.expected, matching # {}),
         rule |-> IF matching = {} THEN <<>> ELSE <<findings[Min(matching)].rule>>]

(* The state the engine gave the first correlated finding about the target. *)
CorrelationState(expected, result) ==
    LET about == SelectSeq(result.findings["CORRELATED"], LAMBDA f :
                   /\ RuleMatchesCategory(f.rule, expected.category)
                   /\ \/ expected.endpoint = NotAvailable
                      \/ \E pair \in ToSet(f.matched) : pair.spec_path = expected.endpoint)
        actual == IF about = <<>> THEN "INCONCLUSIVE" ELSE Head(about).state
    IN  [actual |-> actual, correct |-> actual = expected.state]

EndpointPair(expected, result) ==
    LET about  == SelectSeq(result.matched, LAMBDA p :
                    <<p.spec_path, p.spec_method>> = <<expected.path, expected.method>>)
        actual == IF about = <<>> THEN "NO_MATCH" ELSE Head(about).state
    IN  [actual |-> actual, correct |-> actual = expected.state]

-----------------------------------------------------------------------------
(* evaluate_mode: one proposition of one mode per step, and one step per    *)
(* case for the rest.                                                       *)

(* Mutant of Push: a category keeps its last classification only.        *)
PushLast(table, c) ==
    [key \in DOMAIN table \cup {c.category} |-> IF key = c.category THEN <<c>> ELSE table[key]]

Push(table, c) ==
    [key \in DOMAIN table \cup {c.category} |->
        IF key # c.category THEN table[key]
        ELSE IF key \in DOMAIN table THEN Append(table[key], c) ELSE <<c>>]

EvaluateProposition ==
    /\ stage = "evaluate" /\ at \in DOMAIN dataset
    /\ next \in DOMAIN dataset[at].propositions
    /\ LET m    == Modes[mode]
           case == dataset[at]
           c    == Classify(case.propositions[next], case.id, results[case.id].findings[m])
       IN  tables' = [tables EXCEPT ![m].classifications = Append(@, c), ![m].byCategory = Push(@, c)]
    /\ next' = next + 1
    /\ UNCHANGED <<input, stage, loading, seen, dataset, at, results, mode, report>>

CrossLayer(table, case, result) ==
    [table EXCEPT !.b = @ \o [i \in DOMAIN case.states |-> CorrelationState(case.states[i], result)],
                  !.c = @ \o [i \in DOMAIN case.pairs |-> EndpointPair(case.pairs[i], result)]]

EvaluateCase ==
    /\ stage = "evaluate" /\ at \in DOMAIN dataset
    /\ next > Len(dataset[at].propositions)
    /\ LET m      == Modes[mode]
           result == results[dataset[at].id]
           table  == [tables[m] EXCEPT !.findings = @ \o result.findings[m]]
       IN  tables' = [tables EXCEPT ![m] = IF m = "CORRELATED"
                                          THEN CrossLayer(table, dataset[at], result) ELSE table]
    /\ at' = at + 1 /\ next' = 1
    /\ UNCHANGED <<input, stage, loading, seen, dataset, results, mode, report>>

EndMode ==
    /\ stage = "evaluate" /\ at > Len(dataset)
    /\ IF mode < Len(Modes) THEN mode' = mode + 1 /\ UNCHANGED stage
                            ELSE stage' = "statistics" /\ UNCHANGED mode
    /\ at' = 1
    /\ UNCHANGED <<input, loading, seen, dataset, next, results, tables, report>>

-----------------------------------------------------------------------------
(* Metrics.  A ratio is <<numerator, denominator>>, or <<>> for None.       *)

Having(classifications, outcomes) ==
    {i \in DOMAIN classifications : classifications[i].outcome \in outcomes}
Count(classifications, outcome) == Cardinality(Having(classifications, {outcome}))

Ratio(n, d) == IF d > 0 THEN <<n, d>> ELSE <<>>

Population(classifications) ==
    LET n == [o \in Outcomes |-> Count(classifications, o)]
    IN  [counts    |-> n,
         precision |-> Ratio(n["TP"], n["TP"] + n["FP"]),
         recall    |-> Ratio(n["TP"], n["TP"] + n["FN"]),
         f1        |-> IF n["TP"] > 0 THEN <<2 * n["TP"], 2 * n["TP"] + n["FP"] + n["FN"]>> ELSE <<>>,
         fpr       |-> Ratio(n["FP"], n["FP"] + n["TN"]),
         fnr       |-> Ratio(n["FN"], n["FN"] + n["TP"])]

(* No evaluation at all is an accuracy of 1.0, and has no interval.         *)
Accuracy(evaluations) ==
    IF evaluations = <<>> THEN <<1, 1>>
    ELSE <<Len(SelectSeq(evaluations, LAMBDA e : e.correct)), Len(evaluations)>>

(* Wilson intervals: [estimate, sample size]; bounds exist for a sample > 0.*)
Interval(estimate, size) == [estimate |-> estimate, size |-> size, bounded |-> size > 0]

Intervals(table) ==
    LET p == Population(table.classifications)
        n == p.counts
    IN  [precision |-> Interval(p.precision, n["TP"] + n["FP"]),
         recall    |-> Interval(p.recall, n["TP"] + n["FN"]),
         fpr       |-> Interval(p.fpr, n["FP"] + n["TN"]),
         fnr       |-> Interval(p.fnr, n["FN"] + n["TP"]),
         f1        |-> [estimate |-> p.f1, size |-> Len(table.classifications),
                        bounded |-> p.f1 # <<>>]]

Dimensions(table) ==
    [dimension_b |-> Interval(Accuracy(table.b), Len(table.b)),
     dimension_c |-> Interval(Accuracy(table.c), Len(table.c))]

Comparisons ==
    [baseline \in {"SPEC_ONLY", "SOURCE_ONLY"} |->
        [metric \in {"precision", "recall", "f1", "fpr", "fnr"} |->
            LET base == Population(tables[baseline].classifications)[metric]
                corr == Population(tables["CORRELATED"].classifications)[metric]
            IN  [base |-> base, corr |-> corr, difference |-> base # <<>> /\ corr # <<>>]]]

(* The two rubrics over the findings of a mode: for each field "present",   *)
(* "missing" or "n/a"; completeness sums the fields, explainability keeps   *)
(* them by criterion.                                                       *)
Status(holds) == IF holds THEN "present" ELSE "missing"

Fields == {"rule", "rationale", "evidence", "provenance", "relation", "endpoint", "condition"}

Completeness(m, f) ==
    [rule       |-> Status(f.rule # ""),
     rationale  |-> Status(f.rationale),
     evidence   |-> Status(f.evidence),
     provenance |-> IF m = "SPEC_ONLY" THEN "n/a" ELSE Status(f.file),
     relation   |-> IF m # "CORRELATED" THEN "n/a" ELSE Status(f.state # "")]

Explainability(m, f) ==
    [endpoint   |-> Status(f.matched # <<>> \/ f.texts # {}),
     condition  |-> Status(f.title),
     rule       |-> Status(f.rule # ""),
     evidence   |-> Status(f.evidence),
     provenance |-> IF m = "SPEC_ONLY" THEN "n/a" ELSE Status(f.file),
     rationale  |-> Status(f.rationale),
     relation   |-> IF m # "CORRELATED" THEN "n/a" ELSE Status(f.state # "")]

(* The findings of a mode under one rubric, and the marks they were given.  *)
Assessed(m, rubric) ==
    LET findings == tables[m].findings
    IN  [i \in DOMAIN findings |-> IF rubric = "completeness" THEN Completeness(m, findings[i])
                                   ELSE Explainability(m, findings[i])]

Marked(assessed, mark) ==
    {z \in (DOMAIN assessed) \X Fields :
        z[2] \in DOMAIN assessed[z[1]] /\ assessed[z[1]][z[2]] = mark}

Totals(assessed) == [mark \in {"present", "missing", "n/a"} |-> Cardinality(Marked(assessed, mark))]

-----------------------------------------------------------------------------
(* How an outcome changes from the single layers to the correlated mode,    *)
(* once for the statistics and once for the HTML report; both read the      *)
(* classifications through a map by proposition id.                         *)

ById(m) ==
    LET all == tables[m].classifications
    IN  [id \in {all[i].id : i \in DOMAIN all} |->
            all[Max({i \in DOMAIN all : all[i].id = id})]]

EffectType(spec, source, corr) ==
    CASE "FN" \in {spec, source} /\ corr = "TP"           -> "FN_REMOVED"
      [] "FP" \in {spec, source} /\ corr = "TN"           -> "FP_REMOVED"
      [] source = "TP" /\ corr = "FN"                     -> "FN_INTRODUCED"
      [] {spec, source} = {"TN"} /\ corr = "TP"           -> "TP_INTRODUCED"
      [] {spec, source} = {"TN"} /\ corr = "FP"           -> "NEW_FP"
      [] OTHER                                            -> <<source, corr>>

Transitions ==
    LET spec == ById("SPEC_ONLY")  source == ById("SOURCE_ONLY")  corr == ById("CORRELATED")
    IN  [id \in DOMAIN spec |->
            LET outcomes == <<spec[id].outcome, source[id].outcome, corr[id].outcome>>
            IN  [outcomes |-> outcomes,
                 effect   |-> EffectType(outcomes[1], outcomes[2], outcomes[3])]]

(* The report leaves out what did not change and has a type of its own.     *)
ReportedEffects ==
    LET all     == Transitions
        changed == {id \in DOMAIN all : Cardinality(ToSet(all[id].outcomes)) > 1}
    IN  [id \in changed |->
            IF all[id].outcomes[2] = "TP" /\ all[id].outcomes[3] = "TN" /\ all[id].effect # "FP_REMOVED"
            THEN "TP_LOST" ELSE all[id].effect]

ErrorSource(c, m) ==
    CASE c.id = Secret /\ m = "CORRELATED"              -> "SOURCE_INTRINSIC_NON_ENDPOINT"
      [] m = "SPEC_ONLY"                                -> "SPECIFICATION"
      [] m = "SOURCE_ONLY"                              -> "SOURCE"
      [] c.outcome = "FN" /\ c.category \in {"secrets", "sensitive_data"}
                                                        -> "SOURCE_INTRINSIC_NON_ENDPOINT"
      [] OTHER                                          -> "CORRELATION"

(* Mutant of Errors: a missed secret is no error of the correlated mode. *)
ErrorsWithoutSecret(m) ==
    LET all   == tables[m].classifications
        wrong == {i \in Having(all, {"FN", "FP"}) : ~(all[i].id = Secret /\ m = "CORRELATED")}
    IN  [i \in wrong |-> [id |-> all[i].id, case |-> all[i].case, source |-> ErrorSource(all[i], m)]]

(* The wrong outcomes, by their place among the classifications.            *)
Errors(m) ==
    LET all == tables[m].classifications
    IN  [i \in Having(all, {"FN", "FP"}) |->
            [id |-> all[i].id, case |-> all[i].case, source |-> ErrorSource(all[i], m)]]

Report ==
    [intervals   |-> [m \in ModeNames |-> Intervals(tables[m])],
     dimensions  |-> Dimensions(tables["CORRELATED"]),
     categories  |-> [m \in ModeNames |->
                        [c \in DOMAIN tables[m].byCategory |-> Population(tables[m].byCategory[c])]],
     comparisons |-> Comparisons,
     transitions |-> Transitions,
     effects     |-> ReportedEffects,
     errors      |-> [m \in ModeNames |-> Errors(m)],
     completeness   |-> [m \in ModeNames |-> Totals(Assessed(m, "completeness"))],
     explainability |-> [m \in ModeNames |-> Totals(Assessed(m, "explainability"))]]

Statistics ==
    /\ stage = "statistics"
    /\ report' = Report
    /\ stage' = "done"
    /\ UNCHANGED <<input, loading, seen, dataset, at, next, results, mode, tables>>

Next == \/ LoadCase \/ RefuseDataset \/ EndPartition
        \/ AnalyseCase \/ EndAnalysis
        \/ EvaluateProposition \/ EvaluateCase \/ EndMode \/ Statistics

Spec == Init /\ [][Next]_vars

-----------------------------------------------------------------------------
(* Properties.                                                              *)

Evaluated == {m \in 1 .. Len(Modes) : stage \in {"statistics", "done"} \/ m < mode}

(* The propositions with their cases, in the order of the dataset.          *)
Propositions == FlattenSeq([i \in DOMAIN dataset |->
                   [j \in DOMAIN dataset[i].propositions |->
                       <<dataset[i].id, dataset[i].propositions[j]>>]])

(* The entries of the categories with an outcome: <<category, position>>.   *)
Entries(table, outcome) ==
    UNION {{c} \X Having(table[c], {outcome}) : c \in DOMAIN table}

(* Every mode classifies every proposition of every case exactly once, in   *)
(* the order of the dataset, and the populations of the categories add up   *)
(* to the population of the mode, outcome by outcome (runner.py:115).       *)
EveryPropositionCounted ==
    \A k \in Evaluated :
        LET table == tables[Modes[k]]
            all   == table.classifications
        IN  /\ [i \in DOMAIN all |-> <<all[i].case, all[i].id>>]
                 = [i \in DOMAIN Propositions |-> <<Propositions[i][1], Propositions[i][2].id>>]
            /\ \A o \in Outcomes : Count(all, o) = Cardinality(Entries(table.byCategory, o))

(* An outcome comes from the files of the proposition's own case, in the    *)
(* partition that declares the case: analysis_results is keyed by case_id   *)
(* and the files are looked for in up to three directories, which must not  *)
(* let one case answer for another (runner.py:110, loader.py:127).          *)
OwnEvidence ==
    \A k \in Evaluated : \A i \in DOMAIN tables[Modes[k]].classifications :
        LET c    == tables[Modes[k]].classifications[i]
            home == CHOOSE p \in ToSet(Partitions(input.benchmark)) :
                        \E j \in DOMAIN input.truth[p] : input.truth[p][j].id = c.case
            own  == RunSingleCase(input.disk[home][c.case]).findings[Modes[k]]
            prop == CHOOSE q \in UNION {ToSet(input.truth[home][j].propositions) :
                                           j \in {x \in DOMAIN input.truth[home] :
                                                    input.truth[home][x].id = c.case}} : q.id = c.id
        IN  c.outcome = OutcomeOf(prop.expected, \E f \in ToSet(own) : Matches(f, prop))

(* A single-layer mode sees its own layer only: cases with the same source  *)
(* have the same SOURCE_ONLY findings whatever their contracts, and cases   *)
(* with the same contract the same SPEC_ONLY findings (runner.py:63).       *)
LayersIndependent ==
    \A x, y \in DOMAIN results :
        /\ CaseFiles(x).source = CaseFiles(y).source =>
               results[x].findings["SOURCE_ONLY"] = results[y].findings["SOURCE_ONLY"]
        /\ CaseFiles(x).spec = CaseFiles(y).spec =>
               results[x].findings["SPEC_ONLY"] = results[y].findings["SPEC_ONLY"]

(* The evidence behind an outcome is that of the proposition's case and of  *)
(* the layers of the mode, and of nothing else (runner.py:52-110).          *)
EvidenceIsOwn == OwnEvidence /\ LayersIndependent

(* The tables of a report are about the same outcomes: recall and the false *)
(* positive rate partition the propositions, the taxonomy explains exactly  *)
(* the wrong outcomes, a metric has bounds exactly when it has a value, both*)
(* rubrics leave out the same fields, and the HTML report and the           *)
(* statistics give every changed proposition the same effect                *)
(* (statistics.py:384, reporter.py:287).                                    *)
StatisticsAgree ==
    stage = "done" =>
        /\ \A m \in ModeNames :
               LET ci == report.intervals[m]
                   n  == Population(tables[m].classifications).counts
               IN  /\ ci.recall.size + ci.fpr.size = Len(Propositions)
                   /\ Cardinality(DOMAIN report.errors[m]) = n["FN"] + n["FP"]
                   /\ \A x \in DOMAIN ci :
                          ci[x].bounded <=> ci[x].estimate # <<>>
                   /\ report.completeness[m]["n/a"] = report.explainability[m]["n/a"]
                   /\ report.completeness[m]["missing"] <= report.explainability[m]["missing"]
        /\ \A id \in DOMAIN report.effects :
               report.effects[id] = report.transitions[id].effect
=============================================================================
