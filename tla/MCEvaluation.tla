---------------------------- MODULE MCEvaluation ----------------------------
(***************************************************************************)
(* Two cases in the baseline partition and one in the external one, over   *)
(* two paths of which one is the beginning of the other.  The engines are  *)
(* small stand-ins that keep what the harness depends on: a rule of each   *)
(* layer per path, routes that exist only once the contract is known, and  *)
(* correlated findings on the paths both layers have.  The protocol runs   *)
(* on its own fixtures, one at a time beside the harness.                  *)
(***************************************************************************)
EXTENDS Evaluation, ConnexionProtocol

Users == <<"users">>
User  == <<"users", "id">>

Finding(rule, path, state) ==
    [rule |-> rule, texts |-> {path}, state |-> state, title |-> TRUE,
     matched |-> IF state = "" THEN <<>> ELSE <<[spec_path |-> path, canonical |-> path]>>,
     rationale |-> path = Users, evidence |-> TRUE, file |-> state = ""]

(* A contract is the paths it lists and those it leaves without security.   *)
Contracts == {[paths |-> {Users, User}, open |-> {User}], [paths |-> {Users}, open |-> {}]}

(* A source is the routes it declares and those its contract would give it. *)
Sources == {[declared |-> {Users}, byContract |-> {User}],
            [declared |-> {}, byContract |-> {Users, User}],
            [declared |-> {Users, User}, byContract |-> {}]}

MCSpecEngine(spec) == SetToSeq({Finding("API-AUTH-001", p, "") : p \in spec.open})

MCSourceTree(source, contract) ==
    source.declared \cup UNION {source.byContract \cap c.paths : c \in ToSet(contract)}

MCSourceEngine(tree) ==
    SetToSeq({Finding("API-SOURCE-AUTHZ-001", p, "") : p \in tree} \cup
             {Finding("API-SECRET-001", p, "") : p \in tree \cap {User}})

MCCorrelationEngine(spec, tree) ==
    [findings |-> SetToSeq({Finding("CORR-AUTH-001", p, IF p \in spec.open THEN "SUPPORTED"
                                                        ELSE "CONTRADICTED")
                              : p \in spec.paths \cap tree}),
     matched  |-> SetToSeq({[spec_path |-> p, spec_method |-> "GET",
                             state |-> IF p \in tree THEN "EXACT" ELSE "SPEC_ONLY"]
                              : p \in spec.paths})]

Proposition(id, category, endpoint, expected) ==
    [id |-> id, category |-> category, endpoint |-> endpoint, expected |-> expected]

Case(id, propositions) ==
    [id |-> id, propositions |-> propositions,
     states |-> <<[category |-> "authentication", endpoint |-> User, state |-> "SUPPORTED"]>>,
     pairs  |-> <<[path |-> User, method |-> "GET", state |-> "EXACT"]>>]

CasesOf(id) ==
    {Case(id, <<Proposition("P1", "authentication", endpoint, expected),
                Proposition(Secret, "secrets", NotAvailable, ~expected)>>)
        : endpoint \in {Users, User}, expected \in BOOLEAN}

CaseFamily ==
    {<<>>} \cup {<<a>> : a \in CasesOf("A")} \cup {<<a, a>> : a \in CasesOf("A")}
    \cup {<<a, b>> : a \in CasesOf("A"), b \in CasesOf("B")}

Files == [spec : Contracts, source : Sources]

(* A directory may be missing; the external case may also have one under    *)
(* the baseline directory, unless both partitions are loaded.               *)
MCInputs ==
    {[benchmark |-> "baseline", truth |-> [baseline |-> cases, external |-> <<>>],
      disk |-> [baseline |-> disk, external |-> [id \in {} |-> <<>>]]]
        : cases \in CaseFamily, disk \in [{"A", "B"} -> Files] \cup [{"A"} -> Files]}
    \cup
    {[benchmark |-> "external", truth |-> [baseline |-> <<>>, external |-> <<x>>],
      disk |-> [baseline |-> base, external |-> disk]]
        : x \in CasesOf("X"), base \in [{"X"} -> Files], disk \in [{"X"} -> Files]}
    \cup
    {[benchmark |-> "combined", truth |-> [baseline |-> <<a>>, external |-> <<x>>],
      disk |-> [baseline |-> base, external |-> disk]]
        : a \in CasesOf("A"), x \in CasesOf("X"),
          base \in [{"A"} -> Files], disk \in [{"X"} -> Files]}
-----------------------------------------------------------------------------
(* Fixtures: two keys, a line that may be wrong, and a key listed twice.    *)
Mapping(key, line) == [key |-> key, line |-> line]

Lists == {<<>>, <<Mapping("k", 1)>>, <<Mapping("k", 2), Mapping("l", 1)>>,
          <<Mapping("k", 1), Mapping("k", 2)>>}

FixtureSet ==
    [registered : BOOLEAN, expectedRegistration : BOOLEAN, observed : Lists, expected : Lists]

MCFixtures ==
    {<<f>> : f \in FixtureSet} \cup {<<f, g>> : f, g \in {h \in FixtureSet : h.registered}}

(* The two programs of this run; each has the disk and the process alone.   *)
EvaluationIdle == /\ input = [benchmark |-> "none"] /\ stage = "idle" /\ loading = <<>> /\ seen = {}
                  /\ dataset = <<>> /\ at = 1 /\ next = 1 /\ results = <<>> /\ mode = 1 /\ tables = <<>>
                  /\ report = <<>>

MCInit == \/ Init /\ fixtures = <<>> /\ taken = <<>> /\ counted = Zero
          \/ EvaluationIdle /\ ProtocolInit

MCNext == \/ Next /\ UNCHANGED protocolVars
          \/ ProtocolNext /\ UNCHANGED vars

MCSpec == MCInit /\ [][MCNext]_<<vars, protocolVars>>
=============================================================================
