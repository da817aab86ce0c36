------------------------- MODULE NormalizerInputs -------------------------
(* Documents for SpecificationNormalizer.                                  *)
EXTENDS Naturals, Sequences, SequencesExt

CONSTANTS References, NoReference, NoKey

Raw(ref, key, type, items, props, schema) ==
    [ref |-> ref, key |-> key, type |-> type, items |-> items, props |-> props,
     schema |-> schema, empty |-> FALSE]
Ref(r) == Raw(r, NoKey, "none", <<>>, <<>>, <<>>)
Schema(items, props) == Raw(NoReference, NoKey, "object", items, props, <<>>)
Parameter(key) == Raw(NoReference, key, "string", <<>>, <<>>, <<>>)
Content(schema) == Raw(NoReference, NoKey, "none", <<>>, <<>>, <<schema>>)
EmptyDict == [Ref(NoReference) EXCEPT !.empty = TRUE]

Operation(pathParameters, parameters, security, body, responses) ==
    [pathParameters |-> pathParameters, parameters |-> parameters, security |-> security,
     body |-> body, responses |-> responses]
Document(targets, schemes, security, op) ==
    [targets |-> targets, schemes |-> schemes, security |-> security, operations |-> <<op>>]

(* A body whose schema is r1, over every graph of three references: each   *)
(* leads nowhere, to an empty dictionary, to another reference, or to a    *)
(* schema whose items and one of whose properties may be references.       *)
OneOrNone == {<<>>} \cup {<<Ref(r)>> : r \in {"r1", "r2", "r3"}}
Targets == {<<>>, <<EmptyDict>>} \cup {<<Ref(r)>> : r \in {"r1", "r2", "r3"}}
             \cup {<<Schema(i, p)>> : i \in OneOrNone, p \in OneOrNone}
SchemaDocuments ==
    {Document([r \in References |->
                 IF r = "r1" THEN t1 ELSE IF r = "r2" THEN t2
                 ELSE IF r = "r3" THEN t3 ELSE <<>>], <<>>, "none",
              Operation(<<>>, <<>>, <<>>, <<Content(Ref("r1"))>>, <<>>)) :
        t1 \in Targets, t2 \in Targets, t3 \in Targets}

(* Parameters k1 and k2 in place or by reference, on both levels; a        *)
(* parameter whose schema is a reference; a response that is a reference   *)
(* to one whose schema has items in place; security of both levels.        *)
Written == {Parameter("k1"), Parameter("k2"), Ref("r1"), Ref("r2")}
Lists == {<<>>} \cup {<<p>> : p \in Written} \cup {<<p, q>> : p \in Written, q \in Written}
ParameterDocuments ==
    {Document([r \in References |->
                 IF r = "r1" THEN t1
                 ELSE IF r = "r2" THEN <<[Parameter("k2") EXCEPT !.schema = <<Ref("r3")>>]>>
                 ELSE IF r = "r3" THEN t3 ELSE <<>>], <<Ref("r3")>>, "global",
              Operation(l, m, s, <<>>, <<Ref("r3"), Content(Ref("far"))>>)) :
        l \in Lists, m \in Lists, t1 \in {<<>>, <<Parameter("k1")>>, <<Ref("r2")>>},
        t3 \in {<<>>, <<Content(Schema(<<Schema(<<Ref("r3")>>, <<>>)>>, <<>>))>>},
        s \in {<<>>, <<"open">>}}

AllSpecifications == SchemaDocuments \cup ParameterDocuments

(* Their dictionaries, and how deep items are written in place. *)
Below(raws) ==
    raws \cup UNION {ToSet(raw.items) \cup ToSet(raw.props) \cup ToSet(raw.schema) : raw \in raws}
AllDictionaries ==
    Below(Below(Below(
        Written \cup {t[1] : t \in Targets \ {<<>>}}
          \cup {Ref("r3"), Content(Ref("r1")), Content(Ref("far")),
                [Parameter("k2") EXCEPT !.schema = <<Ref("r3")>>],
                Content(Schema(<<Schema(<<Ref("r3")>>, <<>>)>>, <<>>))})))
NestingOf(raw) ==
    IF raw.items = <<>> THEN 0 ELSE IF raw.items[1].items = <<>> THEN 1 ELSE 2
============================================================================
