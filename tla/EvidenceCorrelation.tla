------------------------ MODULE EvidenceCorrelation ------------------------
(***************************************************************************)
(* One analysis in the child process (services/analysis_worker.py): the    *)
(* rules of the specification, the rules of the source, and the            *)
(* correlation engine, which matches the endpoints and runs its own five   *)
(* rules over the pairs (analysis/correlation/engine.py and aligner.py,    *)
(* analysis/rules/correlation).  Each stage ends the analysis with an      *)
(* error of its own when it raises.                                        *)
(*                                                                         *)
(* A correlated finding keeps as its lineage the findings of both layers   *)
(* that the rule believes to be about the same operation.  The code looks  *)
(* for the operation's path in the text of their messages.                 *)
(***************************************************************************)
EXTENDS EndpointMatcher, SecurityRules

ASSUME EvidenceAssumption ==
    /\ \A ops \in Specifications : \A i \in DOMAIN ops : ops[i].secured \in BOOLEAN
    /\ \A eps \in Sources : \A e \in DOMAIN eps :
          eps[e].auth \in {PRESENT, ABSENT, UNKNOWN}

VARIABLES
    stage,              \* of execute_analysis_worker
    specFindings, sourceFindings,
    rulesRun,           \* how many of DEFAULT_CORRELATION_RULES have run
    correlated,         \* the correlated findings
    metrics,            \* the counts of compute_correlation_metrics
    answer              \* "result", or the prefix of the error message

workVars == <<stage, specFindings, sourceFindings, rulesRun, correlated, metrics, answer>>
vars == <<matcherVars, workVars>>

Stages == {"specification", "source", "correlation", "over"}
States == {"SUPPORTED", "CONTRADICTED", "COMPLEMENTARY", "INCONCLUSIVE"}
Answers == {"none", "result", "OPENAPI_PARSING_ERROR", "SOURCE_ANALYSIS_ERROR",
            "CORRELATION_ERROR"}
NoMetrics == [matched |-> 0, ambiguous |-> 0, shadow |-> 0, zombie |-> 0,
              totalSpec |-> 0, totalSource |-> 0]

TypeOK ==
    /\ MatcherTypeOK
    /\ stage \in Stages /\ answer \in Answers /\ rulesRun \in 0 .. 5
    /\ \A f \in specFindings : f.of \in DOMAIN operations
    /\ \A f \in sourceFindings : f.of \in DOMAIN endpoints
    /\ \A f \in correlated : /\ f.pair \in 0 .. Len(pairs)
                             /\ f.endpoint \in 0 .. Len(endpoints)
                             /\ f.state \in States
                             /\ f.spec \subseteq specFindings
                             /\ f.source \subseteq sourceFindings
    /\ metrics \in [DOMAIN NoMetrics -> Nat]
    /\ stage = "over" <=> answer # "none"

Init ==
    /\ MatcherInit
    /\ stage = "specification"
    /\ specFindings = {} /\ sourceFindings = {}
    /\ rulesRun = 0
    /\ correlated = {}
    /\ metrics = NoMetrics
    /\ answer = "none"

----------------------------------------------------------------------------
(* path in message, for a message that names the path about: the text of   *)
(* one, each segment after a slash, occurs in that of the other.  No name  *)
(* is taken to be a proper prefix of another, nor to occur elsewhere in a  *)
(* message.                                                                *)
Mentions(path, about) ==
    \E shift \in 0 .. Len(about) - Len(path) : \A k \in DOMAIN path :
        \/ about[shift + k] = path[k]
        \/ k = Len(path) /\ path[k] = ""

SpecLineage(op, rules) ==
    {f \in specFindings : f.rule \in rules /\ Mentions(op.path, operations[f.of].path)}

SourceLineage(op, rule) ==
    {f \in sourceFindings : f.rule = rule /\ Mentions(op.path, endpoints[f.of].path)}

AuthRules == {"API-AUTH-001", "API-AUTH-002"}

(* The pairs with an operation and an endpoint. *)
Joined == {i \in DOMAIN pairs : pairs[i].endpoint # 0}

Op(i) == operations[i]
Ep(i) == endpoints[pairs[i].endpoint]

(* Mutant of AlignAuth: an unknown state is taken for an absent one.       *)
AlignAuthUnknownAbsent(i) ==
    IF Op(i).secured = (Ep(i).auth = PRESENT) THEN "SUPPORTED" ELSE "CONTRADICTED"

(* align_authentication_evidence *)
AlignAuth(i) ==
    IF Ep(i).auth = UNKNOWN THEN "INCONCLUSIVE"
    ELSE IF Op(i).secured = (Ep(i).auth = PRESENT) THEN "SUPPORTED" ELSE "CONTRADICTED"

(* align_authorization_evidence *)
AlignAuthz(i) ==
    IF ~(Op(i).objectParam /\ Ep(i).lookup) THEN "INCONCLUSIVE"
    ELSE IF Ep(i).authz \/ Ep(i).tenant THEN "SUPPORTED" ELSE "COMPLEMENTARY"

(* The symbol of a check occurs in the title of a finding, in the name of  *)
(* the parameter or in the path.                                           *)
Titled(f, symbol) ==
    symbol = f.name \/ \E k \in DOMAIN Op(f.of).path : Op(f.of).path[k] = symbol

(* align_input_validation_evidence *)
AlignInput(i) ==
    LET defects == SpecLineage(Op(i), {"API-INPUT-001"})
    IN  IF defects = {} THEN "INCONCLUSIVE"
        ELSE IF \E f \in defects, symbol \in Ep(i).checks : Titled(f, symbol)
             THEN "CONTRADICTED"
        ELSE IF Ep(i).checks = {} THEN "SUPPORTED" ELSE "INCONCLUSIVE"

----------------------------------------------------------------------------
Correlated(rule, i, e, state, severity, spec, source) ==
    [rule |-> rule, pair |-> i, endpoint |-> e, state |-> state,
     severity |-> severity, spec |-> spec, source |-> source]

OfPair(rule, i, state, severity, spec, source) ==
    Correlated(rule, i, pairs[i].endpoint, state, severity, spec, source)

(* AuthenticationCorrelationRule decides its three cases by itself. *)
AuthFinding(i, state, severity) ==
    OfPair("CORR-AUTH-001", i, state, severity,
           SpecLineage(Op(i), AuthRules), SourceLineage(Op(i), "API-SOURCE-AUTH-001"))

AuthFindings ==
    LET divergent == {i \in Joined : Op(i).secured /\ Ep(i).auth = ABSENT}
        drifted   == {i \in Joined : ~Op(i).secured /\ Ep(i).auth = PRESENT}
        open      == {i \in Joined : /\ ~Op(i).secured /\ Ep(i).auth = ABSENT
                                     /\ Op(i).method \in Mutations}
    IN  {AuthFinding(i, "CONTRADICTED", SeverityOf(Op(i).method)) : i \in divergent}
          \cup {AuthFinding(i, "CONTRADICTED", "LOW") : i \in drifted}
          \cup {AuthFinding(i, "SUPPORTED", "HIGH") : i \in open}

AuthzFindings ==
    {OfPair("CORR-AUTHZ-001", i, "COMPLEMENTARY", "HIGH",
            SpecLineage(Op(i), {"API-AUTHZ-001"}),
            SourceLineage(Op(i), "API-SOURCE-AUTHZ-001")) :
        i \in {i \in Joined : AlignAuthz(i) = "COMPLEMENTARY"}}

DataFindings ==
    UNION {{OfPair("CORR-DATA-001", i, "SUPPORTED", f.severity, {f}, {}) :
               f \in SpecLineage(Op(i), {"API-DATA-001"})} : i \in Joined}

(* Both cases need a finding of the specification; AlignInput gives it. *)
InputFindings ==
    {OfPair("CORR-INPUT-001", i, AlignInput(i),
            IF AlignInput(i) = "CONTRADICTED" THEN "LOW" ELSE "MEDIUM",
            SpecLineage(Op(i), {"API-INPUT-001"}), {}) :
        i \in {i \in Joined : AlignInput(i) # "INCONCLUSIVE"}}

(* matched_source_paths of SurfaceDivergenceCorrelationRule holds methods  *)
(* and paths, not indices.                                                 *)
SurfaceKey(e) == <<endpoints[e].method, endpoints[e].path>>

ZombieFindings ==
    {OfPair("CORR-SURF-001", i, "CONTRADICTED", "LOW", {}, {}) :
        i \in {i \in DOMAIN pairs : pairs[i].state = NONE}}

ShadowFindings ==
    LET known == {SurfaceKey(pairs[i].endpoint) : i \in Joined}
    IN  {Correlated("CORR-SURF-001", 0, e, "CONTRADICTED", "MEDIUM", {}, {}) :
            e \in {e \in DOMAIN endpoints : SurfaceKey(e) \notin known}}

----------------------------------------------------------------------------
EndWith(what) == stage' = "over" /\ answer' = what

AnalyzeSpecification ==
    /\ stage = "specification"
    /\ \/ /\ specFindings' = SpecificationFindings(operations)
          /\ stage' = "source"
          /\ UNCHANGED answer
       \/ EndWith("OPENAPI_PARSING_ERROR") /\ UNCHANGED specFindings
    /\ UNCHANGED <<matcherVars, sourceFindings, rulesRun, correlated, metrics>>

AnalyzeSource ==
    /\ stage = "source"
    /\ \/ /\ sourceFindings' = SourceFindings(endpoints)
          /\ stage' = "correlation"
          /\ UNCHANGED answer
       \/ EndWith("SOURCE_ANALYSIS_ERROR") /\ UNCHANGED sourceFindings
    /\ UNCHANGED <<matcherVars, specFindings, rulesRun, correlated, metrics>>

Match ==
    /\ stage = "correlation"
    /\ MatchEndpoints
    /\ UNCHANGED workVars

(* The n-th of DEFAULT_CORRELATION_RULES *)
RunRule(n, findings) ==
    /\ stage = "correlation" /\ matched
    /\ rulesRun = n - 1
    /\ rulesRun' = n
    /\ correlated' = correlated \cup findings
    /\ UNCHANGED <<matcherVars, stage, specFindings, sourceFindings, metrics, answer>>

CorrelateNext ==
    \/ RunRule(1, AuthFindings) \/ RunRule(2, AuthzFindings)
    \/ RunRule(3, DataFindings) \/ RunRule(4, InputFindings)
    \/ RunRule(5, ZombieFindings \cup ShadowFindings)

CountOf(states) == Cardinality({i \in DOMAIN pairs : pairs[i].state \in states})

(* compute_correlation_metrics knows the pairs and two numbers. *)
ComputeMetrics ==
    LET found     == CountOf({EXACT, NORMALIZED})
        ambiguous == CountOf({AMBIGUOUS})
        shadow    == Cardinality(DOMAIN endpoints \ claimed)
        zombie    == Cardinality(unmatched)
    IN  [matched |-> found, ambiguous |-> ambiguous, shadow |-> shadow, zombie |-> zombie,
         totalSpec |-> found + ambiguous + zombie, totalSource |-> found + shadow]

Finish ==
    /\ stage = "correlation" /\ matched /\ rulesRun = 5
    /\ metrics' = ComputeMetrics
    /\ EndWith("result")
    /\ UNCHANGED <<matcherVars, specFindings, sourceFindings, rulesRun, correlated>>

CorrelationFails ==
    /\ stage = "correlation"
    /\ EndWith("CORRELATION_ERROR")
    /\ UNCHANGED <<matcherVars, specFindings, sourceFindings, rulesRun, correlated, metrics>>

Next ==
    \/ AnalyzeSpecification \/ AnalyzeSource
    \/ Match \/ CorrelateNext \/ Finish \/ CorrelationFails

Spec == Init /\ [][Next]_vars

----------------------------------------------------------------------------
Findings(rule) == {f \in correlated : f.rule = rule}

(* The metrics are counted from the pairs, and two totals are put together *)
(* from parts; each operation is counted once, wherever it ended, and the  *)
(* total of the source exceeds its endpoints only by those that operations *)
(* had to share (metrics.py:86-95).                                        *)
CountsAddUp ==
    answer = "result" =>
        /\ metrics.totalSpec = Len(operations)
        /\ metrics.totalSource - metrics.matched = Len(endpoints) - Cardinality(claimed)
        /\ metrics.matched >= Cardinality(claimed)

(* The authentication rule decides its cases without the aligner whose     *)
(* evidence it attaches; both come to the same state for every pair, and   *)
(* no contradiction the aligner sees goes unreported                       *)
(* (aligner.py:49-94, auth_correlation.py:95-234).                         *)
AuthRuleFollowsAligner ==
    rulesRun > 0 =>
        /\ \A f \in Findings("CORR-AUTH-001") : f.state = AlignAuth(f.pair)
        /\ \A i \in Joined : AlignAuth(i) = "CONTRADICTED" =>
              \E f \in Findings("CORR-AUTH-001") : f.pair = i

(* What a correlated finding says of a layer, the rule of that layer has   *)
(* said by itself: a drift or a missing authentication is an API-AUTH-001  *)
(* of the operation, a divergence is not; an endpoint without              *)
(* authentication is an API-SOURCE-AUTH-001, and an unprotected lookup an  *)
(* API-SOURCE-AUTHZ-001, whatever paths the two sides use.                 *)
CorroborationIsBacked ==
    /\ \A f \in Findings("CORR-AUTH-001") :
          LET open == \E g \in specFindings : g.rule = "API-AUTH-001" /\ g.of = f.pair
              bare == \E g \in sourceFindings :
                         g.rule = "API-SOURCE-AUTH-001" /\ g.of = f.endpoint
          IN  f.state = "SUPPORTED" <=> open = bare
    /\ \A f \in Findings("CORR-AUTHZ-001") : \E g \in sourceFindings :
          g.rule = "API-SOURCE-AUTHZ-001" /\ g.of = f.endpoint

(* The surface rule recomputes what the matcher has left over, from        *)
(* methods and paths: no endpoint that was paired is called a shadow, and  *)
(* one that was not is passed over in silence only when a paired one has   *)
(* its method and path; each unmatched operation is called a zombie,       *)
(* unless the source has no endpoint at all                                *)
(* (surface_divergence.py:40 and 91-101).                                  *)
SurfaceFollowsMatcher ==
    rulesRun = 5 =>
        LET shadows == {f.endpoint : f \in {g \in Findings("CORR-SURF-001") : g.pair = 0}}
            zombies == {f.pair : f \in Findings("CORR-SURF-001")} \ {0}
        IN  /\ shadows \cap claimed = {}
            /\ \A e \in DOMAIN endpoints \ (claimed \cup shadows) : \E c \in claimed :
                  /\ endpoints[c].path = endpoints[e].path
                  /\ endpoints[c].method = endpoints[e].method
            /\ endpoints # <<>> => zombies = unmatched

(* The single-layer rules and the correlation rules speak of the pairs the *)
(* matcher made, of all of them and of no others (aligner.py, rules/).     *)
RulesFollowPairs == AuthRuleFollowsAligner /\ SurfaceFollowsMatcher
============================================================================
