--------------------------- MODULE SourceInputs ---------------------------
(* Source directories for SourceExtraction.                                *)
EXTENDS Naturals, Sequences

CONSTANT Names

LowerCase == [n \in Names |-> IF n = "Router" THEN "router" ELSE n]

(* Statements. *)
Statement(kind, names, value, body, other) ==
    [kind |-> kind, name |-> "f", names |-> names, value |-> value, body |-> body,
     other |-> other]
Nothing == <<"other", "-">>
Simple(kind, names, value) == Statement(kind, names, value, <<>>, <<>>)
Construct(m) == <<"module.App()", m>>

ImportConnexion == Simple("import", {"c"}, <<"other", "connexion">>)
FromConnexion == Simple("from", {"c"}, <<"other", "App">>)

Bindings == {Simple("assign", {n}, v) : n \in {"c", "a"}, v \in {Construct("c"), Nothing}}
              \cup {Simple("assign", {"b"}, v) : v \in {<<"name", "a">>, <<"name", "c">>, Construct("c")}}
              \cup {Simple("assign", {"a"}, <<"symbol()", "c">>)}
Calls == {Simple("add_api", {}, v) : v \in {<<"name", "a">>, <<"name", "b">>, Construct("c")}}
Others == {Simple("other", {"a"}, Nothing), Simple("import", {"a"}, <<"other", "other">>),
           Simple("import", {"a"}, <<"other", "connexion">>)}
Simples == Bindings \cup Calls \cup Others

Suites == {<<s>> : s \in Simples} \cup {<<s, t>> : s \in Bindings, t \in Calls}
Nested == {Statement("while", {}, Nothing, body, <<>>) : body \in Suites}
Compounds ==
    {Statement(kind, names, Nothing, body, other) :
       kind \in {"if", "while", "try"}, names \in {{}},
       body \in Suites, other \in {<<>>} \cup {<<s>> : s \in Bindings}}
      \cup {Statement(kind, names, Nothing, body, <<>>) :
              kind \in {"for", "with", "def"}, names \in {{}, {"a"}}, body \in Suites}
      \cup {Statement("if", {}, Nothing, <<loop>>, <<>>) : loop \in Nested}

Beginnings ==
    {<<ImportConnexion, Simple("assign", {n}, Construct("c"))>> : n \in {"a", "b"}}
      \cup {<<FromConnexion, Simple("assign", {"a"}, <<"symbol()", "c">>)>>}

WrittenPrograms == {begin \o <<s, call>> : begin \in Beginnings, s \in Compounds \cup Simples, call \in Calls}

(* The nodes of a program. *)
RECURSIVE SizeOf(_)
SizeOf(p) == IF p = <<>> THEN 0
             ELSE 1 + SizeOf(Head(p).body) + SizeOf(Head(p).other) + SizeOf(Tail(p))

(* Files. *)
File(path, size, readable) ==
    [path |-> path, size |-> size, readable |-> readable, excluded |-> FALSE, syntax |-> TRUE,
     imports |-> <<>>, symbols |-> <<>>, program |-> <<>>, routers |-> <<>>,
     functions |-> <<>>, assignments |-> <<>>]
Project(files, operations, specified) ==
    [files |-> files, operations |-> operations, specified |-> specified]

ProgramProjects ==
    {Project(<<[File(<<"x">>, 1, "text") EXCEPT !.program = p]>>, <<>>, FALSE) : p \in WrittenPrograms}

Loadables == {File(<<"x">>, n, r) : n \in 1 .. 3, r \in {"text", "undecodable", "unreadable"}}
               \cup {File(<<"x">>, 1, "gone"),
                     [File(<<"x">>, 1, "text") EXCEPT !.excluded = TRUE],
                     [File(<<"x">>, 1, "text") EXCEPT !.syntax = FALSE]}
LoaderProjects ==
    {Project(<<f, g, h>>, <<>>, FALSE) : f \in Loadables, g \in Loadables, h \in Loadables}
      \cup {Project(<<f, f, f, f>>, <<>>, FALSE) : f \in Loadables}

(* Functions and decorators. *)
Decorator(receiver, attribute, path, methods, dependencies) ==
    [receiver |-> receiver, attribute |-> attribute, path |-> path, methods |-> methods,
     dependencies |-> dependencies]
Node(node, name, mentions) == [node |-> node, name |-> name, mentions |-> mentions]
Body == {Node("call", "authorize", {}), Node("compare", "equal", {"owner", "tenant"}),
         Node("call", "filter", {"tenant", "id"}), Node("if", "-", {"id"})}
Function(name, decorators) ==
    [name |-> name, decorators |-> decorators, depends |-> FALSE, parameters |-> {"id"},
     helpers |-> {"verify_token"}, nodes |-> Body]

Registration == <<ImportConnexion, Simple("add_api", {}, Construct("c"))>>
Operation(method, path, id) == [method |-> method, path |-> path, id |-> id]
Ids == {<<>>, <<<<"get">>>>, <<<<"m", "get">>>>, <<<<"p", "m", "get">>>>, <<<<"m", "put">>>>}

Routes == {<<>>, <<Decorator(<<"app">>, "get", <<<<"things", "id">>>>, <<>>, FALSE)>>,
           <<Decorator(<<"app">>, "route", <<<<"things">>>>, <<<<"get", "post">>>>, FALSE)>>}
MappingProjects ==
    {Project(<<[File(<<"m">>, 1, "text") EXCEPT
                  !.functions = <<Function("get", d), Function(name, e)>>,
                  !.imports = imports],
               [File(<<"p", "m">>, 1, "text") EXCEPT
                  !.functions = <<Function("get", <<>>)>>, !.program = p]>>,
             <<Operation("get", <<"things", "id">>, i), Operation("post", <<"things">>, j)>>,
             specified) :
        d \in Routes, e \in Routes, name \in {"get", "put"}, imports \in {<<>>, <<"flask">>},
        p \in {<<>>, Registration}, i \in Ids, j \in Ids, specified \in BOOLEAN}

Routers == {[name |-> n, class |-> c, prefix |-> p, dependencies |-> d] :
              n \in {"router"}, c \in {"APIRouter", "Blueprint"},
              p \in {<<>>, <<<<"v1">>>>, <<<<>>>>}, d \in BOOLEAN}
RouterProjects ==
    {Project(<<[File(<<"m">>, 1, "text") EXCEPT
                  !.routers = <<r>>, !.imports = imports, !.symbols = <<"generic">>,
                  !.functions = <<[Function("get",
                      <<Decorator(receiver, attribute, path, methods, dependencies),
                        Decorator(<<>>, "login_required", <<>>, <<>>, FALSE)>>)
                      EXCEPT !.depends = dependencies]>>,
                  !.assignments = <<[name |-> "strong", value |-> value],
                                    [name |-> "moderate", value |-> value]>>]>>,
             <<>>, FALSE) :
        r \in Routers, imports \in {<<>>, <<"generic", "fastapi", "flask">>, <<"flask">>},
        receiver \in {<<>>, <<"router">>, <<"app">>},
        attribute \in {"get", "api_route", "route"}, path \in {<<>>, <<<<"things">>>>},
        methods \in {<<>>, <<<<"get", "trace">>>>}, dependencies \in BOOLEAN,
        value \in {"literal", "environment", "placeholder", "expression"}}

CamelCase ==
    {Project(<<[File(<<"m">>, 1, "text") EXCEPT
                  !.routers = <<[name |-> n, class |-> "APIRouter", prefix |-> <<<<"v1">>>>,
                                 dependencies |-> FALSE]>>,
                  !.imports = <<"fastapi">>,
                  !.functions = <<Function("get",
                      <<Decorator(<<n>>, m, <<<<"things">>>>, <<>>, FALSE)>>)>>]>>,
             <<>>, FALSE) : n \in {"router", "Router"}, m \in {"get", "put"}}

(* The programs, their suites, and what is left of each from a statement on. *)
AllPrograms ==
    {SubSeq(p, n, Len(p)) :
        p \in WrittenPrograms \cup Suites \cup {<<s>> : s \in Nested} \cup {Registration}, n \in 1 .. 5}

AllProjects ==
    {ProgramProjects, LoaderProjects, MappingProjects, RouterProjects, CamelCase}
============================================================================
