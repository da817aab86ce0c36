-------------------------- MODULE EndpointMatcher --------------------------
(***************************************************************************)
(* match_endpoints (analysis/correlation/matcher.py): the operations of a  *)
(* specification are paired, one after the other, with the endpoints found *)
(* in the source.  An operation takes the first endpoint with its own path *)
(* that is still free, or else one whose path differs only in the names of *)
(* the parameters, or else is left over.  What an operation takes depends  *)
(* on what the earlier ones have taken.                                    *)
(*                                                                         *)
(* A path is the sequence of its segments; one that ends in a slash ends   *)
(* in an empty segment.  Parameters are the names that stand in braces.    *)
(***************************************************************************)
EXTENDS Naturals, Sequences, FiniteSets, FiniteSetsExt

CONSTANTS
    Parameters,         \* segments in braces
    Specifications,     \* bound: operations of a specification, as sorted
    Sources,            \* bound: endpoints of a source tree, as sorted
    NoName              \* an operation without operationId

ASSUME MatcherAssumption ==
    /\ \A ops \in Specifications : Len(ops) \in Nat /\ DOMAIN ops = 1 .. Len(ops)
    /\ \A eps \in Sources :
          /\ Len(eps) \in Nat /\ DOMAIN eps = 1 .. Len(eps)
          /\ \A e \in DOMAIN eps : eps[e].handler # NoName

VARIABLES
    operations,     \* spec_ops
    endpoints,      \* source_eps
    pairs,          \* matched_pairs, the i-th of them for the i-th operation
    claimed,        \* matched_source_indices
    unmatched,      \* unmatched_spec_ops, as indices of operations
    matched         \* whether match_endpoints has returned

matcherVars == <<operations, endpoints, pairs, claimed, unmatched, matched>>

(* EndpointMatchState *)
EXACT == "EXACT_MATCH"
NORMALIZED == "PARAMETER_NORMALIZED_MATCH"
AMBIGUOUS == "AMBIGUOUS_MATCH"
NONE == "NO_MATCH"

(* The pair of an operation without an endpoint has the endpoint 0. *)
Pairs == [endpoint : Nat, state : {EXACT, NORMALIZED, AMBIGUOUS, NONE}]

MatcherTypeOK ==
    /\ operations \in Specifications
    /\ endpoints \in Sources
    /\ pairs \in Seq(Pairs) /\ Len(pairs) <= Len(operations)
    /\ \A i \in DOMAIN pairs : pairs[i].endpoint \in 0 .. Len(endpoints)
    /\ claimed \subseteq DOMAIN endpoints
    /\ unmatched \subseteq DOMAIN operations
    /\ matched \in BOOLEAN

MatcherInit ==
    /\ operations \in Specifications
    /\ endpoints \in Sources
    /\ pairs = <<>>
    /\ claimed = {}
    /\ unmatched = {}
    /\ matched = FALSE

----------------------------------------------------------------------------
(* path.strip("/") *)
Strip(path) ==
    LET filled == {i \in DOMAIN path : path[i] # ""}
    IN  IF filled = {} THEN <<>> ELSE SubSeq(path, Min(filled), Max(filled))

(* normalize_to_canonical_template drops empty segments and the names of   *)
(* the parameters.                                                         *)
Template(segments) ==
    LET filled == SelectSeq(segments, LAMBDA segment : segment # "")
    IN  [i \in DOMAIN filled |->
            IF filled[i] \in Parameters THEN "{param}" ELSE filled[i]]

Canonical(path) == Template(Strip(path))

(* exact_source_map and canonical_source_map, at the keys of op *)
SamePath(op) ==
    {e \in DOMAIN endpoints : /\ endpoints[e].method = op.method
                              /\ Strip(endpoints[e].path) = Strip(op.path)}

SameTemplate(op) ==
    {e \in DOMAIN endpoints : /\ endpoints[e].method = op.method
                              /\ Canonical(endpoints[e].path) = Canonical(op.path)}

(* Mutant of Pool: endpoints that are taken are offered again.             *)
PoolOfAll(candidates) == candidates

(* The candidates still free; all of them when none is. *)
Pool(candidates) ==
    IF candidates \subseteq claimed THEN candidates ELSE candidates \ claimed

Named(op, pool) == {e \in pool : endpoints[e].handler = op.id}

First(e, set) == e \in set /\ \A f \in set : e <= f

----------------------------------------------------------------------------
Claim(e, state) ==
    /\ pairs' = Append(pairs, [endpoint |-> e, state |-> state])
    /\ claimed' = claimed \cup {e}
    /\ UNCHANGED <<operations, endpoints, unmatched, matched>>

(* The operation the loop has come to. *)
Current == operations[Len(pairs) + 1]

Matching ==
    /\ ~matched
    /\ endpoints # <<>>
    /\ Len(pairs) < Len(operations)

MatchExact ==
    /\ Matching
    /\ \E e \in Pool(SamePath(Current)) :
          First(e, Pool(SamePath(Current))) /\ Claim(e, EXACT)

MatchTemplate ==
    /\ Matching
    /\ SamePath(Current) = {}
    /\ \E e \in Pool(SameTemplate(Current)) :
          Pool(SameTemplate(Current)) = {e} /\ Claim(e, NORMALIZED)

MatchHandler ==
    /\ Matching
    /\ SamePath(Current) = {}
    /\ Cardinality(Pool(SameTemplate(Current))) > 1
    /\ \E e \in Named(Current, Pool(SameTemplate(Current))) :
          /\ First(e, Named(Current, Pool(SameTemplate(Current))))
          /\ Claim(e, NORMALIZED)

MatchAmbiguous ==
    /\ Matching
    /\ SamePath(Current) = {}
    /\ Cardinality(Pool(SameTemplate(Current))) > 1
    /\ Named(Current, Pool(SameTemplate(Current))) = {}
    /\ pairs' = Append(pairs, [endpoint |-> 0, state |-> AMBIGUOUS])
    /\ UNCHANGED <<operations, endpoints, claimed, unmatched, matched>>

(* Mutant of MatchNone: the operation is dropped from the leftovers.       *)
MatchNoneUncounted ==
    /\ Matching
    /\ SamePath(Current) = {}
    /\ SameTemplate(Current) = {}
    /\ pairs' = Append(pairs, [endpoint |-> 0, state |-> NONE])
    /\ UNCHANGED <<operations, endpoints, claimed, unmatched, matched>>

MatchNone ==
    /\ Matching
    /\ SamePath(Current) = {}
    /\ SameTemplate(Current) = {}
    /\ pairs' = Append(pairs, [endpoint |-> 0, state |-> NONE])
    /\ unmatched' = unmatched \cup {Len(pairs) + 1}
    /\ UNCHANGED <<operations, endpoints, claimed, matched>>

(* Without operations or without endpoints it returns before the loop. *)
ReturnEarly ==
    /\ ~matched
    /\ operations = <<>> \/ endpoints = <<>>
    /\ matched' = TRUE
    /\ unmatched' = DOMAIN operations
    /\ UNCHANGED <<operations, endpoints, pairs, claimed>>

(* The pairs are already in the order of the last sort. *)
ReturnPairs ==
    /\ ~matched
    /\ operations # <<>> /\ endpoints # <<>>
    /\ Len(pairs) = Len(operations)
    /\ matched' = TRUE
    /\ UNCHANGED <<operations, endpoints, pairs, claimed, unmatched>>

MatchEndpoints ==
    \/ MatchExact \/ MatchTemplate \/ MatchHandler \/ MatchAmbiguous \/ MatchNone
    \/ ReturnEarly \/ ReturnPairs

----------------------------------------------------------------------------
(* The endpoints taken by the first n operations. *)
TakenBy(n) == {pairs[i].endpoint : i \in 1 .. n} \ {0}

(* The endpoints the i-th operation could have been paired with. *)
Eligible(i) ==
    IF pairs[i].state = EXACT THEN SamePath(operations[i])
    ELSE SameTemplate(operations[i])

(* Two operations share an endpoint only when there are not enough of      *)
(* them: the later one shares because every endpoint it could have had was *)
(* taken (matcher.py:105-108 and 134-136).                                 *)
SharedOnlyWhenScarce ==
    \A i \in DOMAIN pairs :
        pairs[i].endpoint \in TakenBy(i - 1) => Eligible(i) \subseteq TakenBy(i - 1)

(* An operation is reported as not implemented exactly when no endpoint    *)
(* has its method and template, whatever the others have taken             *)
(* (matcher.py:207-226).                                                   *)
UnmatchedMeansAbsent ==
    matched => unmatched = {i \in DOMAIN operations : SameTemplate(operations[i]) = {}}
============================================================================
