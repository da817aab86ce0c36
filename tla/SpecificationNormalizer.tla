---------------------- MODULE SpecificationNormalizer ----------------------
(***************************************************************************)
(* analysis/openapi/normalizer.py and the resolver of local references it  *)
(* uses: security schemes, then the operations one by one, with the status *)
(* of every reference met on the way.                                      *)
(*                                                                         *)
(* A dictionary of the document is a record of the keys that are looked    *)
(* at: "$ref", a parameter's name and place, "type", "items",              *)
(* "properties", and the schema of a parameter, body or response.  An      *)
(* optional value is a sequence of at most one.                            *)
(***************************************************************************)
EXTENDS Naturals, Sequences, FiniteSets, SequencesExt

CONSTANTS
    References,         \* the texts of the references
    ForeignReferences,  \* those that do not begin with #
    NoReference,        \* a dictionary without $ref
    NoKey,              \* a dictionary without name and in
    Dictionaries,       \* the dictionaries of the documents
    Nesting(_),         \* of a dictionary: how deep its items are written in place
    MaxNesting,
    OpenAPIDocuments

(* A document is a finite tree: a dictionary is nested less deep than the  *)
(* one it is the items of.  A target is at most one dictionary, and there  *)
(* is none for a foreign reference.                                        *)
ASSUME NormalizerAssumption ==
    /\ IsFiniteSet(References) /\ NoReference \notin References /\ MaxNesting \in Nat
    /\ ForeignReferences \subseteq References
    /\ \A raw \in Dictionaries :
          /\ raw.ref \in References \cup {NoReference}
          /\ Nesting(raw) \in 0 .. MaxNesting
          /\ raw.items \in Seq(Dictionaries) /\ Len(raw.items) <= 1
          /\ raw.props \in Seq(Dictionaries)
          /\ raw.schema \in Seq(Dictionaries) /\ Len(raw.schema) <= 1
          /\ \A item \in ToSet(raw.items) : Nesting(item) < Nesting(raw)
          /\ raw.empty \in BOOLEAN
          /\ raw.empty => raw.ref = NoReference /\ raw.items = <<>>
    /\ \A document \in OpenAPIDocuments :
          /\ \A ref \in References :
                /\ document.targets[ref] \in Seq(Dictionaries) /\ Len(document.targets[ref]) <= 1
                /\ ref \in ForeignReferences => document.targets[ref] = <<>>
          /\ document.schemes \in Seq(Dictionaries)
          /\ Len(document.operations) \in Nat
          /\ \A o \in 1 .. Len(document.operations) :
                LET op == document.operations[o]
                IN  \A list \in {op.pathParameters, op.parameters, op.body, op.responses} :
                       list \in Seq(Dictionaries)

VARIABLES
    spec,               \* the document
    place, index,       \* how far normalize_openapi_spec is
    recorded,           \* the references with the status recorded for them
    normalized          \* the normalised operations

normalizerVars == <<spec, place, index, recorded, normalized>>

----------------------------------------------------------------------------
Resolution(status, data) == [status |-> status, data |-> data]

(* Mutant of Resolve: the next reference of a chain counts as visited      *)
(* before it is looked at.                                                 *)
ResolveEager(targets) ==
    LET resolve[visited \in SUBSET References] ==
            [ref \in References |->
               IF ref \in visited THEN Resolution("circular", <<>>)
               ELSE IF targets[ref] = <<>> THEN Resolution("unresolved_internal", <<>>)
               ELSE IF targets[ref][1].ref = NoReference
                    THEN Resolution("resolved_internal", targets[ref])
               ELSE resolve[visited \cup {ref, targets[ref][1].ref}][targets[ref][1].ref]]
    IN  resolve

(* resolve_internal_ref, of the references visited and the one to resolve: *)
(* a target that is itself a reference is followed, with the references on *)
(* the way as visited.                                                     *)
Resolve(targets) ==
    LET resolve[visited \in SUBSET References] ==
            [ref \in References |->
               IF ref \in ForeignReferences THEN Resolution("unsupported_external", <<>>)
               ELSE IF ref \in visited THEN Resolution("circular", <<>>)
               ELSE IF targets[ref] = <<>> THEN Resolution("unresolved_internal", <<>>)
               ELSE IF targets[ref][1].ref = NoReference
                    THEN Resolution("resolved_internal", targets[ref])
               ELSE resolve[visited \cup {ref}][targets[ref][1].ref]]
    IN  resolve

(* if res.resolved_data: an empty dictionary counts as nothing. *)
Usable(resolution) == resolution.data # <<>> /\ ~resolution.data[1].empty

(* The reference of a dictionary leads to something that is gone on with.  *)
Follows(targets, raw, visited) ==
    raw.ref # NoReference /\ Usable(Resolve(targets)[visited][raw.ref])
Target(targets, raw, visited) ==
    IF Follows(targets, raw, visited) THEN Resolve(targets)[visited][raw.ref].data[1] ELSE raw

(* p = res.resolved_data, at a place without references above it. *)
Deref(targets, raw) == Target(targets, raw, {})

StatusOf(targets, raw, visited) ==
    IF raw.ref = NoReference THEN {}
    ELSE {<<raw.ref, Resolve(targets)[visited][raw.ref].status>>}

StatusesOf(targets, raws) == UNION {StatusOf(targets, raws[i], {}) : i \in DOMAIN raws}

----------------------------------------------------------------------------
(* normalize_schema is called for a dictionary with the references of its  *)
(* branch.                                                                 *)
Visits == [raw : Dictionaries, visited : SUBSET References]
Visit(raw, visited) == [raw |-> raw, visited |-> visited]

Dangling(targets, v) == v.raw.ref # NoReference /\ ~Follows(targets, v.raw, v.visited)

(* The references of the branch from here on. *)
Branch(targets, v) ==
    IF Follows(targets, v.raw, v.visited) THEN v.visited \cup {v.raw.ref} ELSE v.visited

(* One schema, without its items: what it is, and the statuses that        *)
(* record_ref_status gets.  A property is resolved, not normalised: its    *)
(* type, and no further.                                                   *)
NormalizedSchema(targets, v) ==
    LET status == IF v.raw.ref = NoReference THEN "none"
                  ELSE Resolve(targets)[v.visited][v.raw.ref].status
        target == Target(targets, v.raw, v.visited)
        own == StatusOf(targets, v.raw, v.visited)
        branch == Branch(targets, v)
    IN  IF Dangling(targets, v)
        THEN [type |-> IF status = "circular" THEN "circular" ELSE "unresolved",
              status |-> status, types |-> <<>>, reported |-> own]
        ELSE [type |-> target.type, status |-> status,
              types |-> [i \in DOMAIN target.props |-> Target(targets, target.props[i], branch).type],
              reported |-> own \cup UNION {StatusOf(targets, target.props[i], branch) :
                                             i \in DOMAIN target.props}]

(* A schema and, from the outermost in, the schemas of its items.          *)
NormalizeSchema(targets) ==
    LET normalize[v \in Visits] ==
            LET items == Target(targets, v.raw, v.visited).items
            IN  IF Dangling(targets, v) \/ items = <<>> THEN <<NormalizedSchema(targets, v)>>
                ELSE <<NormalizedSchema(targets, v)>>
                       \o normalize[Visit(items[1], Branch(targets, v))]
    IN  normalize

----------------------------------------------------------------------------
(* merged_param_map: path-level parameters first, then those of the        *)
(* operation, each under its name and place.                               *)
Declared(targets, op) ==
    [i \in DOMAIN op.pathParameters |->
        [level |-> "path", raw |-> Deref(targets, op.pathParameters[i])]]
      \o [i \in DOMAIN op.parameters |->
            [level |-> "operation", raw |-> Deref(targets, op.parameters[i])]]

MergedParameters(targets, op) ==
    LET declared == Declared(targets, op)
    IN  [key \in {declared[i].raw.key : i \in DOMAIN declared} \ {NoKey} |->
            declared[CHOOSE i \in DOMAIN declared :
                       /\ declared[i].raw.key = key
                       /\ \A j \in DOMAIN declared : j > i => declared[j].raw.key # key]]

(* The type of a parameter: of its schema, else its own. *)
OperationParameters(targets, op) ==
    LET merged == MergedParameters(targets, op)
    IN  [key \in DOMAIN merged |->
            LET raw == merged[key].raw
                schema == IF raw.schema = <<>> THEN raw ELSE Deref(targets, raw.schema[1])
            IN  [level |-> merged[key].level,
                 type |-> IF schema.type = "none" THEN raw.type ELSE schema.type]]

ParameterStatuses(targets, op) ==
    LET merged == MergedParameters(targets, op)
    IN  StatusesOf(targets, op.pathParameters) \cup StatusesOf(targets, op.parameters)
          \cup UNION {StatusesOf(targets, merged[key].raw.schema) : key \in DOMAIN merged}

(* An operation with a list of its own, be it empty, inherits nothing. *)
EffectiveSecurity(document, op) ==
    IF op.security = <<>> THEN document.security ELSE op.security[1]

(* The schemas of the request body and the responses, which may be         *)
(* references themselves.                                                  *)
Contents(op) == op.body \o op.responses
ContentSchemas(targets, op) ==
    [i \in DOMAIN Contents(op) |->
        LET schema == Deref(targets, Contents(op)[i]).schema
        IN  [k \in DOMAIN schema |-> NormalizeSchema(targets)[Visit(schema[k], {})]]]

ContentStatuses(targets, op) ==
    LET schemas == ContentSchemas(targets, op)
    IN  StatusesOf(targets, Contents(op)) \cup
        UNION {UNION {UNION {schemas[i][k][n].reported : n \in DOMAIN schemas[i][k]} :
                        k \in DOMAIN schemas[i]} : i \in DOMAIN schemas}

NormalizedOperation(document, op) ==
    [parameters |-> OperationParameters(document.targets, op),
     security |-> EffectiveSecurity(document, op),
     schemas |-> ContentSchemas(document.targets, op)]

----------------------------------------------------------------------------
NormalizerInit ==
    /\ spec \in OpenAPIDocuments
    /\ place = "schemes"
    /\ index = 0
    /\ recorded = {}
    /\ normalized = <<>>

SecuritySchemes ==
    /\ place = "schemes"
    /\ recorded' = StatusesOf(spec.targets, spec.schemes)
    /\ place' = "operations"
    /\ UNCHANGED <<spec, index, normalized>>

NormalizeOperation ==
    /\ place = "operations" /\ index < Len(spec.operations)
    /\ LET op == spec.operations[index + 1]
       IN  /\ recorded' = recorded \cup ParameterStatuses(spec.targets, op)
                            \cup ContentStatuses(spec.targets, op)
           /\ normalized' = Append(normalized, NormalizedOperation(spec, op))
    /\ index' = index + 1
    /\ UNCHANGED <<spec, place>>

ReturnNormalized ==
    /\ place = "operations" /\ index = Len(spec.operations)
    /\ place' = "returned"
    /\ UNCHANGED <<spec, index, recorded, normalized>>

NormalizerNext == SecuritySchemes \/ NormalizeOperation \/ ReturnNormalized
NormalizerSpec == NormalizerInit /\ [][NormalizerNext]_normalizerVars

----------------------------------------------------------------------------
(* The references a dictionary uses: its own; that of its items, through   *)
(* items that are written in place; and with those of the properties on    *)
(* the way.                                                                *)
OwnReference == [raw \in Dictionaries |-> {raw.ref} \ {NoReference}]
PropertyReferences ==
    [raw \in Dictionaries |-> UNION {OwnReference[p] : p \in ToSet(raw.props)}]

ItemReference[raw \in Dictionaries] ==
    IF raw.ref # NoReference THEN {raw.ref}
    ELSE UNION {ItemReference[item] : item \in ToSet(raw.items)}

UsedReferences[raw \in Dictionaries] ==
    IF raw.ref # NoReference THEN {raw.ref}
    ELSE PropertyReferences[raw] \cup UNION {UsedReferences[item] : item \in ToSet(raw.items)}

(* Where a reference leads next, by the references its target uses.        *)
Leads(targets, uses) ==
    [ref \in References |-> UNION {uses[target] : target \in ToSet(targets[ref])}]

(* The references reached from ref in one or more steps: those in every    *)
(* set that has the next of ref and with a reference all that are next.    *)
Reached(leads, ref) ==
    {q \in References :
        \A C \in SUBSET References :
            leads[ref] \subseteq C /\ (\A r \in C : leads[r] \subseteq C) => q \in C}

(* From ref one gets to a reference that leads back to itself.             *)
NeverEnds(leads, ref) == \E q \in {ref} \cup Reached(leads, ref) : q \in Reached(leads, q)

(* A schema is cut off as circular exactly when following its references   *)
(* and items would never end, and no reference is reported as circular     *)
(* that leads to no cycle; a schema used twice is no cycle                 *)
(* (resolver.py:60-68, normalizer.py:148-157).                             *)
CircularIffCycle ==
    LET targets == spec.targets
    IN  /\ \A o \in DOMAIN normalized : \A i \in DOMAIN normalized[o].schemas :
              \A k \in DOMAIN normalized[o].schemas[i] :
                 LET schema == normalized[o].schemas[i][k]
                     raw == Deref(targets, Contents(spec.operations[o])[i]).schema[k]
                 IN  (\E n \in DOMAIN schema : schema[n].status = "circular")
                       <=> \E ref \in ItemReference[raw] :
                              NeverEnds(Leads(targets, ItemReference), ref)
        /\ \A r \in recorded :
              r[2] = "circular" => NeverEnds(Leads(targets, UsedReferences), r[1])

(* What is reported as unresolved is a reference whose chain ends at a     *)
(* target that does not exist, and it is reported wherever it is met       *)
(* (resolver.py:80-117, normalizer.py:65-71).                              *)
UnresolvedIsDangling ==
    LET targets == spec.targets
    IN  \A r \in recorded :
           r[2] = "unresolved_internal"
             <=> \E q \in ({r[1]} \cup Reached(Leads(targets, OwnReference), r[1]))
                             \ ForeignReferences : targets[q] = <<>>

(* For each name and place an operation has one parameter, and its own     *)
(* declaration wins over that of the path, whichever of them is written as *)
(* a reference (normalizer.py:256-283).                                    *)
OverrideByIdentity ==
    \A o \in DOMAIN normalized :
        LET op == spec.operations[o]
            keys(list) == {Deref(spec.targets, list[i]).key : i \in DOMAIN list} \ {NoKey}
        IN  /\ DOMAIN normalized[o].parameters = keys(op.parameters) \cup keys(op.pathParameters)
            /\ \A key \in keys(op.parameters) : normalized[o].parameters[key].level = "operation"

(* The statuses of references and schemas are those of the document: a     *)
(* cycle, a missing target, or neither (normalizer.py:127-157).            *)
StatusesAreReal == CircularIffCycle /\ UnresolvedIsDangling

(* An operation comes out of the normaliser as the document has it: its    *)
(* own parameters win over those of its path by name and place, through    *)
(* references too, and neither the sharing of a schema is taken for a      *)
(* cycle nor a cycle for sharing (normalizer.py:127-157 and 256-283).      *)
NormalizedAsWritten == StatusesAreReal /\ OverrideByIdentity
============================================================================
