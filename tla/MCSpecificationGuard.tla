------------------------ MODULE MCSpecificationGuard ------------------------
EXTENDS SpecificationGuard

(* Three containers; a document of mappings of up to two entries that are  *)
(* containers, in every way they can refer to each other.                  *)
Plain(v) == [key |-> "plain", value |-> v]
Shapes == {<<>>} \cup {<<Plain(v)>> : v \in Containers}
            \cup {<<Plain(v), Plain(w)>> : v \in Containers, w \in Containers}

Doc(kind, entries, text, supported) ==
    [kind |-> kind, entries |-> entries, text |-> text, supported |-> supported]
Maps == [n \in Containers |-> "map"]

Graphs == {Doc(Maps, e, "readable", TRUE) : e \in [Containers -> Shapes]}

(* References, merge keys, lists: the root leads to the container "a",     *)
(* whose one entry varies; "b" is reached or not.                          *)
Special ==
    {Doc([n \in Containers |-> IF n = Root THEN k ELSE l],
         [n \in Containers |->
            IF n = Root THEN <<Plain("a"), Plain(v)>>
            ELSE IF n = "a" THEN <<[key |-> key, value |-> w]>>
            ELSE <<[key |-> key, value |-> "foreign"]>>],
         text, supported) :
       k \in Kinds, l \in Kinds, key \in Keys,
       v \in {"b", "foreign", "local"}, w \in {"b", "foreign", "local"},
       text \in {"readable", "broken", "large"}, supported \in BOOLEAN}

AllDocuments == Graphs \cup Special
=============================================================================
