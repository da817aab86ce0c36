--------------------------- MODULE SecurityRules ---------------------------
(***************************************************************************)
(* The rules that look at one layer only (analysis/rules/openapi and       *)
(* analysis/rules/source), as functions from the operations of a           *)
(* specification, or the endpoints of a source tree, to sets of findings.  *)
(*                                                                         *)
(* Of an operation they use its method and path, whether a security        *)
(* requirement is in effect (secured) and names an object scope (scoped),  *)
(* the parameters whose constraints are missing (loose) and the sensitive  *)
(* names in its responses (leaks).  Of an endpoint: what was recognised of *)
(* authentication (auth), of authorization (authz) and of an object lookup *)
(* (lookup).  HardcodedSecretRule reads files, not endpoints, and is left  *)
(* out.                                                                    *)
(***************************************************************************)
EXTENDS Naturals, Sequences

CONSTANTS
    ObjectParameters,   \* path parameters named like an object's key
    StrongNames         \* properties that are sensitive beyond doubt

(* AuthState *)
PRESENT == "AUTH_PRESENT"
ABSENT == "AUTH_ABSENT_IN_ANALYZABLE_SCOPE"
UNKNOWN == "AUTH_UNKNOWN"

Mutations == {"post", "put", "delete", "patch"}
ObjectAccess == {"get", "put", "delete", "patch"}

SeverityOf(method) == IF method \in Mutations THEN "HIGH" ELSE "MEDIUM"

(* A finding about the operation or the endpoint with index of; name is    *)
(* the parameter or the property it is about, if any.                      *)
Finding(rule, of, name, severity) ==
    [rule |-> rule, of |-> of, name |-> name, severity |-> severity]

(* Mutant of MissingAuth: only operations that change state are reported.  *)
MissingAuthOfMutations(ops) ==
    {Finding("API-AUTH-001", i, "", SeverityOf(ops[i].method)) :
        i \in {i \in DOMAIN ops : ~ops[i].secured /\ ops[i].method \in Mutations}}

MissingAuth(ops) ==
    {Finding("API-AUTH-001", i, "", SeverityOf(ops[i].method)) :
        i \in {i \in DOMAIN ops : ~ops[i].secured}}

(* A secured operation of the same path is the evidence. *)
InconsistentAuth(ops) ==
    {Finding("API-AUTH-002", i, "", SeverityOf(ops[i].method)) :
        i \in {i \in DOMAIN ops :
                  /\ ~ops[i].secured
                  /\ \E j \in DOMAIN ops : ops[j].path = ops[i].path /\ ops[j].secured}}

InputConstraints(ops) ==
    UNION {{Finding("API-INPUT-001", i, name, "MEDIUM") : name \in ops[i].loose} :
               i \in DOMAIN ops}

SensitiveData(ops) ==
    UNION {{Finding("API-DATA-001", i, name,
                    IF name \in StrongNames THEN "HIGH" ELSE "MEDIUM") :
               name \in ops[i].leaks} : i \in DOMAIN ops}

BolaIndicator(ops) ==
    {Finding("API-AUTHZ-001", i, "", "HIGH") :
        i \in {i \in DOMAIN ops :
                  /\ \E k \in DOMAIN ops[i].path : ops[i].path[k] \in ObjectParameters
                  /\ ops[i].method \in ObjectAccess
                  /\ ~ops[i].scoped}}

SpecificationFindings(ops) ==
    MissingAuth(ops) \cup InconsistentAuth(ops) \cup InputConstraints(ops)
        \cup SensitiveData(ops) \cup BolaIndicator(ops)

SourceMissingAuth(eps) ==
    {Finding("API-SOURCE-AUTH-001", e, "", SeverityOf(eps[e].method)) :
        e \in {e \in DOMAIN eps : eps[e].auth = ABSENT}}

SourceMissingAuthz(eps) ==
    {Finding("API-SOURCE-AUTHZ-001", e, "", "HIGH") :
        e \in {e \in DOMAIN eps : eps[e].lookup /\ ~eps[e].authz}}

SourceFindings(eps) == SourceMissingAuth(eps) \cup SourceMissingAuthz(eps)
============================================================================
