-------------------------- MODULE SourceExtraction --------------------------
(***************************************************************************)
(* analysis/source: the Python files of a scan are loaded one by one within*)
(* limits, parsed, asked for a Connexion registration, and normalised one  *)
(* by one: framework, endpoints, security evidence, secrets.               *)
(*                                                                         *)
(* A path is the sequence of its segments, a parameter the segment of its  *)
(* name; joining, stripping and the converters of Flask are done on it.    *)
(* An optional value is a sequence of at most one.  What is left out: the  *)
(* texts, and the order of the lists, which are sorted at the end.         *)
(***************************************************************************)
EXTENDS ConnexionRegistration

CONSTANTS
    Lower,              \* str.lower on the names of routers
    Projects,           \* families of source directories with a specification
    MaxSourceFiles, MaxSourceTotal, MaxSourceSize

(* What parse_source_file finds in a file, and an operation of the         *)
(* specification: its id is the dotted path of a function.                 *)
Words == Seq(STRING)
Decorators ==
    [receiver : Words, attribute : STRING, path : Seq(Words), methods : Seq(Words),
     dependencies : BOOLEAN]
Definitions ==
    [name : STRING, decorators : Seq(Decorators), depends : BOOLEAN,
     parameters : SUBSET STRING, helpers : SUBSET STRING,
     nodes : SUBSET [node : STRING, name : STRING, mentions : SUBSET STRING]]
SourceFiles ==
    [path : Words, size : Nat, readable : {"text", "gone", "unreadable", "undecodable"},
     excluded : BOOLEAN, syntax : BOOLEAN, imports : Words, symbols : Words,
     program : Programs, functions : Seq(Definitions),
     routers : Seq([name : STRING, class : STRING, prefix : Seq(Words), dependencies : BOOLEAN]),
     assignments : Seq([name : STRING, value : STRING])]
MappedOperations == [method : STRING, path : Words, id : Seq(Words)]

(* A file has a name, an optional value is one at most, and of a method and*)
(* a path there is one operation.                                          *)
ASSUME SourceAssumption ==
    /\ MaxSourceFiles \in Nat /\ MaxSourceTotal \in Nat /\ MaxSourceSize \in Nat
    /\ \A family \in Projects : \A p \in family :
          /\ p.files \in Seq(SourceFiles) /\ p.operations \in Seq(MappedOperations)
          /\ \A i \in DOMAIN p.files : p.files[i].path # <<>>
          /\ \A i \in DOMAIN p.operations : Len(p.operations[i].id) <= 1
          /\ \A i, j \in DOMAIN p.operations :
                p.operations[i].method = p.operations[j].method
                   /\ p.operations[i].path = p.operations[j].path => i = j

VARIABLES
    project,
    phase, at,          \* how far load and normalize_source_tree are
    loaded,             \* the positions of the files that were loaded
    total,              \* total_size
    diagnostics,        \* <<file, kind>>
    tree                \* the normalised files

sourceVars == <<project, phase, at, loaded, total, diagnostics, tree>>

Methods == {"get", "post", "put", "delete", "patch", "options", "head"}
AuthDecorators == {"login_required", "jwt_required", "auth_required", "token_required",
                   "require_auth", "require_login"}
(* The elements at some of the places, in their order. *)
Picked(s, places) ==
    LET upTo[i \in 0 .. Len(s)] ==
            IF i = 0 THEN <<>>
            ELSE IF i \in places THEN Append(upTo[i - 1], s[i]) ELSE upTo[i - 1]
    IN  upTo[Len(s)]

(* Of several entries with one name a dictionary keeps the last. *)
LastNamed(entries, name) ==
    LET at_ == {i \in DOMAIN entries : entries[i].name = name}
    IN  IF at_ = {} THEN <<>>
        ELSE <<entries[CHOOSE i \in at_ : \A j \in at_ : j <= i]>>
FirstNamed(entries, name) ==
    LET at_ == {i \in DOMAIN entries : entries[i].name = name}
    IN  IF at_ = {} THEN <<>>
        ELSE <<entries[CHOOSE i \in at_ : \A j \in at_ : i <= j]>>

----------------------------------------------------------------------------
(* The decorator patterns of step 3 of detect_framework. *)
DecoratorFramework(dec) ==
    IF dec.attribute \in Methods /\ dec.receiver # <<>> THEN "fastapi"
    ELSE IF dec.attribute = "route" THEN "flask" ELSE "generic"

(* The first module, symbol or decorator that tells. *)
DetectFramework(file) ==
    LET decorators == FlattenSeq([i \in DOMAIN file.functions |-> file.functions[i].decorators])
        clues == file.imports \o file.symbols
                   \o [i \in DOMAIN decorators |-> DecoratorFramework(decorators[i])]
        telling == Picked(clues, {i \in DOMAIN clues : clues[i] # "generic"})
    IN  IF telling = <<>> THEN "generic" ELSE telling[1]

(* _normalize_fastapi_path and normalize_flask_path: a prefix that is a    *)
(* mere slash leaves an empty segment behind, here "/", which no other is. *)
Join(prefix, path) ==
    IF prefix = <<>> THEN path
    ELSE IF prefix[1] = <<>> /\ path # <<>> THEN <<"/">> \o path
    ELSE prefix[1] \o path

(* The dictionaries of _find_router_prefixes and _find_blueprint_prefixes  *)
(* keep the case of a name; the decorator was put into lower case before.  *)
RouterOf(file, dec, class) ==
    IF dec.receiver = <<>> THEN <<>>
    ELSE LastNamed(Picked(file.routers, {i \in DOMAIN file.routers : file.routers[i].class = class}),
                   Lower[dec.receiver[1]])
PrefixOf(router) == IF router = <<>> THEN <<>> ELSE router[1].prefix

PathOf(dec) == IF dec.path = <<>> THEN <<>> ELSE dec.path[1]
ListedMethods(dec) == IF dec.methods = <<>> THEN <<>> ELSE dec.methods[1]

Endpoint(method, path, function, file, framework, auth) ==
    [method |-> method, path |-> path, handler |-> function.name, file |-> file.path,
     framework |-> framework, auth |-> auth,
     parameters |-> {p \in function.parameters : p \in ToSet(path)},
     authz |-> {}, object |-> {}, tenant |-> {}, validation |-> {}, database |-> {}]

(* Evidence of authentication: dependencies of a parameter, of the         *)
(* decorator and of the router.                                            *)
FastapiAuth(function, dec, router) ==
    {source \in {"parameter", "decorator", "router"} :
        \/ source = "parameter" /\ function.depends
        \/ source = "decorator" /\ dec.dependencies
        \/ source = "router" /\ router # <<>> /\ router[1].dependencies}

FastapiMethods(dec) ==
    LET named == IF dec.attribute # "api_route" THEN <<dec.attribute>> ELSE ListedMethods(dec)
    IN  Picked(named, {i \in DOMAIN named : named[i] \in Methods})

FastapiEndpoints(file) ==
    LET of(function, dec) ==
            LET router == RouterOf(file, dec, "APIRouter")
                path == Join(PrefixOf(router), PathOf(dec))
            IN  IF dec.receiver = <<>> THEN <<>>
                ELSE [i \in DOMAIN FastapiMethods(dec) |->
                        Endpoint(FastapiMethods(dec)[i], path, function, file, "fastapi",
                                 FastapiAuth(function, dec, router))]
        decorated == [i \in DOMAIN file.functions |->
            FlattenSeq([k \in DOMAIN file.functions[i].decorators |->
                          IF file.functions[i].decorators[k].attribute \in Methods \cup {"api_route"}
                          THEN of(file.functions[i], file.functions[i].decorators[k]) ELSE <<>>])]
    IN  FlattenSeq(decorated)

FlaskMethods(dec) == IF ListedMethods(dec) = <<>> THEN <<"get">> ELSE ListedMethods(dec)
FlaskAuth(function) ==
    {d.attribute : d \in ToSet(function.decorators)} \cap AuthDecorators

FlaskEndpoints(file) ==
    LET of(function, dec) ==
            LET path == Join(PrefixOf(RouterOf(file, dec, "Blueprint")), PathOf(dec))
            IN  [i \in DOMAIN FlaskMethods(dec) |->
                   Endpoint(FlaskMethods(dec)[i], path, function, file, "flask",
                            FlaskAuth(function))]
        decorated == [i \in DOMAIN file.functions |->
            FlattenSeq([k \in DOMAIN file.functions[i].decorators |->
                          IF file.functions[i].decorators[k].attribute = "route"
                          THEN of(file.functions[i], file.functions[i].decorators[k]) ELSE <<>>])]
    IN  FlattenSeq(decorated)

----------------------------------------------------------------------------
(* Mutant of IsModuleOf: operation ids are matched against the end of the  *)
(* path.                                                                   *)
IsModuleOfSuffix(file, module) == IsSuffix(module, file.path)

(* _operation_module_path: the dotted id names the file from the root. *)
IsModuleOf(file, module) == file.path = module

ConnexionAuth(file, handler) ==
    LET first == FirstNamed(file.functions, handler)
    IN  IF first = <<>> THEN {} ELSE first[1].helpers

ConnexionEndpoints(file) ==
    LET names(op) == /\ op.id # <<>> /\ Len(op.id[1]) > 1
                     /\ IsModuleOf(file, Front(op.id[1]))
                     /\ LastNamed(file.functions, Last(op.id[1])) # <<>>
        bound == Picked(project.operations,
                        {i \in DOMAIN project.operations : names(project.operations[i])})
    IN  [i \in DOMAIN bound |->
            LET handler == LastNamed(file.functions, Last(bound[i].id[1]))[1]
            IN  Endpoint(bound[i].method, bound[i].path, handler, file, "connexion",
                         ConnexionAuth(file, handler.name))]

----------------------------------------------------------------------------
(* extract_function_security_evidence: a node of the function's body is    *)
(* [node, name, mentions], its mentions the words found in its text.       *)
Roles == "role"     Owners == "owner"     Tenants == "tenant"
Lookups == {"get", "filter"}

Authorization(node) ==
    \/ node.node = "call" /\ node.name = "authorize"
    \/ node.node = "compare" /\ Roles \in node.mentions
    \/ node.node = "compare" /\ Owners \in node.mentions /\ node.name = "equal"
TenantIsolation(node) ==
    /\ Tenants \in node.mentions
    /\ node.node = "compare" \/ (node.node = "call" /\ node.name = "filter")

Evidence(function, parameters) ==
    [authz |-> {n \in function.nodes : Authorization(n)},
     tenant |-> {n \in function.nodes : TenantIsolation(n)},
     object |-> {use \in function.nodes \X parameters :
                    /\ use[1].node = "call" /\ use[1].name \in Lookups
                    /\ use[2] \in use[1].mentions},
     validation |-> {use \in function.nodes \X parameters :
                        use[1].node = "if" /\ use[2] \in use[1].mentions},
     database |-> {n \in function.nodes : n.node = "call" /\ n.name = "execute"
                                           /\ "sql" \in n.mentions}]

(* The function is looked up by its name again; tenant isolation counts as *)
(* authorisation too.                                                      *)
Enrich(file, endpoint) ==
    LET function == LastNamed(file.functions, endpoint.handler)[1]
        evidence == Evidence(function, endpoint.parameters)
    IN  [endpoint EXCEPT
            !.authz = @ \cup evidence.authz \cup evidence.tenant,
            !.object = evidence.object, !.tenant = evidence.tenant,
            !.validation = evidence.validation, !.database = evidence.database]

(* _classify_assignment: the environment before the literal, its length    *)
(* before the placeholder.                                                 *)
SecretOf(assignment) ==
    CASE assignment.name = "plain" -> <<>>
      [] assignment.value = "environment" -> <<"configuration", "strong">>
      [] assignment.value \in {"expression", "short"} -> <<>>
      [] assignment.value = "placeholder" -> <<"secret", "weak">>
      [] OTHER -> <<"secret", IF assignment.name = "strong" \/ assignment.value = "token"
                              THEN "strong" ELSE "medium">>
Secrets(file) ==
    LET secrets == [i \in DOMAIN file.assignments |-> SecretOf(file.assignments[i])]
    IN  Picked(secrets, {i \in DOMAIN secrets : secrets[i] # <<>>})

----------------------------------------------------------------------------
(* parse_source_file of a file with a syntax error gives an empty module.  *)
Parsed(file) ==
    IF file.syntax THEN file
    ELSE [file EXCEPT !.imports = <<>>, !.symbols = <<>>, !.program = <<>>, !.routers = <<>>,
                      !.functions = <<>>, !.assignments = <<>>]

Registered == \E i \in ToSet(loaded) : HasConnexionRegistration(Parsed(project.files[i]).program)

AddConnexion(file, endpoints) ==
    LET existing == {<<e.method, e.path>> : e \in ToSet(endpoints)}
        mapped == ConnexionEndpoints(file)
    IN  IF Registered /\ project.specified
        THEN endpoints \o Picked(mapped, {i \in DOMAIN mapped :
                                            <<mapped[i].method, mapped[i].path>> \notin existing})
        ELSE endpoints

NormalizedFile(file) ==
    LET framework == DetectFramework(file)
        decorated == IF framework = "fastapi" THEN FastapiEndpoints(file)
                     ELSE IF framework = "flask" THEN FlaskEndpoints(file) ELSE <<>>
        endpoints == AddConnexion(file, decorated)
    IN  [path |-> file.path,
         framework |-> IF \E e \in ToSet(endpoints) : e.framework = "connexion"
                       THEN "connexion" ELSE framework,
         endpoints |-> [i \in DOMAIN endpoints |-> Enrich(file, endpoints[i])],
         secrets |-> Secrets(file)]

----------------------------------------------------------------------------
SourceInit ==
    /\ \E family \in Projects : project \in family
    /\ phase = "counting" /\ at = 0
    /\ loaded = <<>> /\ total = 0 /\ diagnostics = {} /\ tree = <<>>

Included ==
    Picked([i \in DOMAIN project.files |-> i],
           {i \in DOMAIN project.files : ~project.files[i].excluded})

CountFiles ==
    /\ phase = "counting"
    /\ phase' = IF Len(Included) > MaxSourceFiles THEN "SourceLoadingError" ELSE "loading"
    /\ UNCHANGED <<project, at, loaded, total, diagnostics, tree>>

(* Mutant of LoadFile: the total is compared before the file is added.     *)
LoadFileLate ==
    /\ phase = "loading" /\ at < Len(Included)
    /\ LET file == project.files[Included[at + 1]]
       IN  /\ total' = total + file.size
           /\ IF total > MaxSourceTotal
              THEN phase' = "SourceLoadingError" /\ UNCHANGED <<at, loaded, diagnostics>>
              ELSE /\ at' = at + 1
                   /\ loaded' = Append(loaded, Included[at + 1])
                   /\ UNCHANGED <<phase, diagnostics>>
    /\ UNCHANGED <<project, tree>>

(* One turn of the loop of load_source_from_disk: a file that cannot be    *)
(* looked at, is too large, cannot be read or decoded is skipped with a    *)
(* diagnostic, but what it adds to the total stays.                        *)
LoadFile ==
    /\ phase = "loading" /\ at < Len(Included)
    /\ LET i == Included[at + 1]
           file == project.files[i]
           skip(kind) == /\ diagnostics' = diagnostics \cup {<<i, kind>>}
                         /\ at' = at + 1
                         /\ UNCHANGED <<phase, loaded>>
       IN  /\ total' = IF file.readable = "gone" THEN total ELSE total + file.size
           /\ IF file.readable = "gone" THEN skip("io")
              ELSE IF file.size > MaxSourceSize THEN skip("size")
              ELSE IF total' > MaxSourceTotal
              THEN phase' = "SourceLoadingError" /\ UNCHANGED <<at, loaded, diagnostics>>
              ELSE IF file.readable = "unreadable" THEN skip("io")
              ELSE IF file.readable = "undecodable" THEN skip("decoding")
              ELSE /\ at' = at + 1
                   /\ loaded' = Append(loaded, i)
                   /\ UNCHANGED <<phase, diagnostics>>
    /\ UNCHANGED <<project, tree>>

Loaded ==
    /\ phase = "loading" /\ at = Len(Included)
    /\ phase' = "normalizing" /\ at' = 0
    /\ UNCHANGED <<project, loaded, total, diagnostics, tree>>

NormalizeFile ==
    /\ phase = "normalizing" /\ at < Len(loaded)
    /\ LET i == loaded[at + 1]
           file == project.files[i]
       IN  /\ tree' = Append(tree, NormalizedFile(Parsed(file)))
           /\ diagnostics' = diagnostics \cup (IF file.syntax THEN {} ELSE {<<i, "syntax">>})
    /\ at' = at + 1
    /\ UNCHANGED <<project, phase, loaded, total>>

(* The endpoints of all files, which it sorts for the matcher, are left out*)
(* here: EvidenceCorrelation starts from them.                             *)
Return ==
    /\ phase = "normalizing" /\ at = Len(loaded)
    /\ phase' = "returned"
    /\ UNCHANGED <<project, at, loaded, total, diagnostics, tree>>

SourceNext == CountFiles \/ LoadFile \/ Loaded \/ NormalizeFile \/ Return
SourceSpec == SourceInit /\ [][SourceNext]_sourceVars

----------------------------------------------------------------------------
(* The bytes of the loaded files, one by one. *)
LoadedBytes == UNION {{i} \X (1 .. project.files[i].size) : i \in ToSet(loaded)}

(* Every Python file of the directory is analysed or named in a            *)
(* diagnostic, never both and never neither, and what is analysed is       *)
(* within the three limits, whatever could not be read in between          *)
(* (loader.py:142-214).                                                    *)
EveryFileAccounted ==
    /\ Len(loaded) <= MaxSourceFiles
    /\ \A i \in ToSet(loaded) : project.files[i].size <= MaxSourceSize
    /\ Cardinality(LoadedBytes) <= MaxSourceTotal
    /\ phase = "returned" =>
          /\ \A i \in DOMAIN project.files : ~project.files[i].excluded =>
                (i \in ToSet(loaded)) # (\E d \in diagnostics : d[1] = i /\ d[2] # "syntax")
          /\ \A k \in DOMAIN tree : ~project.files[loaded[k]].syntax =>
                tree[k].endpoints = <<>> /\ <<loaded[k], "syntax">> \in diagnostics

(* With a registration in any file, an operation whose dotted id names a   *)
(* file and a function is mapped to this function, once, unless a decorator*)
(* already declares it; nothing else is mapped, and without a registration *)
(* nothing is (__init__.py:47-69, connexion.py:225-336).                   *)
MappingIsExact ==
    phase = "returned" => \A k \in DOMAIN tree :
        LET file == Parsed(project.files[loaded[k]])
            endpoints == tree[k].endpoints
            mapped == {i \in DOMAIN endpoints : endpoints[i].framework = "connexion"}
            of(op) == {i \in DOMAIN endpoints :
                         endpoints[i].method = op.method /\ endpoints[i].path = op.path}
            names(op, handler) == op.id = <<Append(file.path, handler)>>
        IN  /\ \A op \in ToSet(project.operations) :
                  (/\ \E f \in ToSet(file.functions) : names(op, f.name)
                   /\ Registered /\ project.specified) => of(op) # {}
            /\ \A i \in mapped :
                  /\ Registered
                  /\ \E op \in ToSet(project.operations) :
                        of(op) = {i} /\ names(op, endpoints[i].handler)

(* A module is taken for a Connexion application only if some execution of *)
(* it calls add_api on an App, as long as names are bound by assignments   *)
(* (connexion.py:30-222).                                                  *)
RegistrationIsReal ==
    phase = "counting" => \A i \in DOMAIN project.files :
        LET program == project.files[i].program
        IN  OnlyAssigned(program) /\ HasConnexionRegistration(program) => Executes(program)

(* And an execution that registers an API is not missed, unless an alias   *)
(* is bound in a suite or over the name it is made with                    *)
(* (connexion.py:33-35).                                                   *)
RegistrationFound ==
    phase = "counting" => \A i \in DOMAIN project.files :
        LET program == project.files[i].program
        IN  /\ OnlyAssigned(program) /\ Unconditional(program) /\ Executes(program)
            => HasConnexionRegistration(program)

(* A module is an application if, and only if, some execution of it        *)
(* registers an API (connexion.py:30-222).                                 *)
RegistrationIsExecuted == RegistrationIsReal /\ RegistrationFound
============================================================================
