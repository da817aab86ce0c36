----------------------- MODULE MCEvidenceCorrelation -----------------------
EXTENDS EvidenceCorrelation, SequencesExt

CONSTANTS MaxOperations, MaxEndpoints   \* bounds

(* The paths /users, /users/{id}, /users/{id}/ and /users/{key} in the     *)
(* order in which they sort.                                               *)
Users == <<"users">>
UserById == <<"users", "id">>
UserBySlash == <<"users", "id", "">>
UserByKey == <<"users", "key">>
PathOrder == <<Users, UserById, UserBySlash, UserByKey>>

PlaceOf(path) == CHOOSE n \in DOMAIN PathOrder : PathOrder[n] = path

O(method, path, id, secured, scoped, loose, leaks) ==
    [method |-> method, path |-> path, id |-> id, secured |-> secured, scoped |-> scoped,
     objectParam |-> Len(path) > 1, loose |-> loose, leaks |-> leaks]

E(method, path, handler, file, auth, lookup, authz, tenant, checks) ==
    [method |-> method, path |-> path, handler |-> handler, file |-> file, auth |-> auth,
     lookup |-> lookup, authz |-> authz, tenant |-> tenant, checks |-> checks]

Operations ==
    {O("get", Users, NoName, TRUE, FALSE, {"limit"}, {}),
     O("post", Users, NoName, FALSE, FALSE, {}, {"password"}),
     O("get", UserById, "show", TRUE, TRUE, {}, {}),
     O("get", UserBySlash, NoName, FALSE, FALSE, {}, {}),
     O("get", UserByKey, "show", FALSE, FALSE, {"limit"}, {"ssn"}),
     O("post", UserById, "edit", FALSE, FALSE, {}, {})}

Endpoints ==
    {E("get", Users, "index", "a", ABSENT, FALSE, FALSE, FALSE, {"limit"}),
     E("post", Users, "create", "a", ABSENT, FALSE, FALSE, FALSE, {}),
     E("get", UserById, "show", "a", ABSENT, TRUE, FALSE, FALSE, {}),
     E("get", UserById, "show", "b", PRESENT, TRUE, TRUE, FALSE, {"id"}),
     E("get", UserByKey, "read", "a", UNKNOWN, TRUE, FALSE, TRUE, {}),
     E("get", UserByKey, "show", "b", ABSENT, FALSE, FALSE, FALSE, {"name"}),
     E("post", UserByKey, "edit", "a", ABSENT, TRUE, FALSE, FALSE, {})}

MethodOrder == <<"get", "post">>
FileOrder == <<"a", "b">>
Position(seq, x) == CHOOSE n \in DOMAIN seq : seq[n] = x

(* sort by path and method, then by file; handlers of one file are told    *)
(* apart by the path                                                       *)
OperationRank(op) == 2 * PlaceOf(op.path) + Position(MethodOrder, op.method)
EndpointRank(ep) == 2 * OperationRank(ep) + Position(FileOrder, ep.file)

SortedOperations ==
    {SetToSortSeq(S, LAMBDA x, y : OperationRank(x) < OperationRank(y)) :
        S \in {T \in SUBSET Operations : Cardinality(T) <= MaxOperations}}
SortedEndpoints ==
    {SetToSortSeq(S, LAMBDA x, y : EndpointRank(x) < EndpointRank(y)) :
        S \in {T \in SUBSET Endpoints : Cardinality(T) <= MaxEndpoints}}
============================================================================
