-------------------------- MODULE ConnexionProtocol --------------------------
(***************************************************************************)
(* evaluate_connexion_protocol (evaluation/connexion_protocol_v1.py): the  *)
(* registration, the mappings and the source lines observed on a fixture   *)
(* are compared with the expected ones, fixture by fixture, and counted.   *)
(* What a fixture makes the analyzer observe is part of the input          *)
(* (SourceExtraction models how it is found).                              *)
(***************************************************************************)
EXTENDS Naturals, Sequences, FiniteSets, SequencesExt

CONSTANT Fixtures    \* sequences of fixtures

ASSUME ProtocolAssumption ==
    \A fs \in Fixtures :
        /\ fs \in Seq(ToSet(fs))
        /\ \A f \in ToSet(fs) :
              /\ f.registered \in BOOLEAN /\ f.expectedRegistration \in BOOLEAN
              /\ f.observed \in Seq(ToSet(f.observed)) /\ f.expected \in Seq(ToSet(f.expected))

VARIABLES
    fixtures,   \* the cases still to evaluate
    taken,      \* the cases evaluated
    counted     \* the counters

protocolVars == <<fixtures, taken, counted>>

Zero == [registration |-> [tp |-> 0, fp |-> 0, fn |-> 0, tn |-> 0],
         mapping      |-> [tp |-> 0, fp |-> 0, fn |-> 0],
         provenance   |-> [passed |-> 0, total |-> 0],
         failures     |-> [missed_registration |-> 0, false_registration |-> 0,
                           false_mapping |-> 0, missed_mapping |-> 0,
                           wrong_evidence_provenance |-> 0]]

ProtocolInit == fixtures \in Fixtures /\ taken = <<>> /\ counted = Zero

(* Endpoints and expected mappings are lists of [key, line]; they are       *)
(* compared as sets of keys, and the line of a key is that of its last one. *)
Keys(list) == {list[i].key : i \in DOMAIN list}
LineOf(list, key) == list[Max({i \in DOMAIN list : list[i].key = key})].line

RegistrationCell(f) ==
    CASE f.expectedRegistration /\ f.registered  -> "tp"
      [] f.expectedRegistration /\ ~f.registered -> "fn"
      [] ~f.expectedRegistration /\ f.registered -> "fp"
      [] OTHER                                   -> "tn"

(* Mutant of CountFixture: the lines of mappings nobody expected pass too.  *)
CountFixtureAllLines(f, c) ==
    LET observed == Keys(f.observed)
        expected == Keys(f.expected)
    IN  [c EXCEPT
            !.registration[RegistrationCell(f)] = @ + 1,
            !.mapping = [tp |-> @.tp + Cardinality(observed \cap expected),
                         fp |-> @.fp + Cardinality(observed \ expected),
                         fn |-> @.fn + Cardinality(expected \ observed)],
            !.provenance = [passed |-> @.passed + Cardinality(observed),
                            total  |-> @.total + Cardinality(observed)]]

CountFixture(f, c) ==
    LET observed == Keys(f.observed)
        expected == Keys(f.expected)
        found    == observed \cap expected
        valid    == {k \in found : LineOf(f.observed, k) = LineOf(f.expected, k)}
        cell     == RegistrationCell(f)
        one(b)   == IF b THEN 1 ELSE 0
    IN  [registration |-> [c.registration EXCEPT ![cell] = @ + 1],
         mapping    |-> [tp |-> c.mapping.tp + Cardinality(found),
                         fp |-> c.mapping.fp + Cardinality(observed \ expected),
                         fn |-> c.mapping.fn + Cardinality(expected \ observed)],
         provenance |-> [passed |-> c.provenance.passed + Cardinality(valid),
                         total  |-> c.provenance.total + Cardinality(found)],
         failures   |->
            [missed_registration |-> c.failures.missed_registration + one(cell = "fn"),
             false_registration  |-> c.failures.false_registration + one(cell = "fp"),
             false_mapping  |-> c.failures.false_mapping + Cardinality(observed \ expected),
             missed_mapping |-> c.failures.missed_mapping + Cardinality(expected \ observed),
             wrong_evidence_provenance |->
                 c.failures.wrong_evidence_provenance + Cardinality(found \ valid)]]

ProtocolCase ==
    /\ fixtures # <<>>
    /\ fixtures' = Tail(fixtures)
    /\ taken' = Append(taken, Head(fixtures))
    /\ counted' = CountFixture(Head(fixtures), counted)

ProtocolNext == ProtocolCase
ProtocolSpec == ProtocolInit /\ [][ProtocolNext]_protocolVars

-----------------------------------------------------------------------------
(* What the fixtures evaluated so far have in all.                          *)
Registered   == {i \in DOMAIN taken : taken[i].registered}
ExpectedKeys == UNION {{i} \X Keys(taken[i].expected) : i \in DOMAIN taken}
ObservedKeys == UNION {{i} \X Keys(taken[i].observed) : i \in DOMAIN taken}

(* The rates of the protocol have the denominators they claim: every case   *)
(* is in one cell of the registration table, recall is over what the        *)
(* fixtures expect and precision over what was observed, provenance is      *)
(* judged on the mappings found and on no other, and every miss is in a     *)
(* failure category (connexion_protocol_v1.py:89 to 134).                   *)
ProtocolAddsUp ==
    /\ counted.registration.tp + counted.registration.fp
         + counted.registration.fn + counted.registration.tn = Len(taken)
    /\ counted.registration.tp + counted.registration.fp
         = Cardinality(Registered)
    /\ counted.mapping.tp + counted.mapping.fn = Cardinality(ExpectedKeys)
    /\ counted.mapping.tp + counted.mapping.fp = Cardinality(ObservedKeys)
    /\ counted.provenance.total = counted.mapping.tp
    /\ counted.provenance.passed + counted.failures.wrong_evidence_provenance
         = counted.provenance.total
    /\ counted.failures.false_mapping + counted.failures.missed_mapping
         = counted.mapping.fp + counted.mapping.fn
    /\ counted.failures.missed_registration + counted.failures.false_registration
         = counted.registration.fn + counted.registration.fp
=============================================================================
