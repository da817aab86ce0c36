----------------------- MODULE ConnexionRegistration -----------------------
(***************************************************************************)
(* has_connexion_registration of analysis/source/connexion.py: one pass    *)
(* over the statements of a module that follows the names bound to a       *)
(* Connexion App, to the module connexion and to the class App, and looks  *)
(* for a call of add_api on an App.                                        *)
(*                                                                         *)
(* A statement is [kind, names, value, body, other]: the names it binds (of*)
(* a def: its parameters, and itself), an expression, its suite and the    *)
(* else, handlers or finally.  An expression is <<form, name>>.            *)
(***************************************************************************)
EXTENDS Naturals, Sequences, FiniteSets, SequencesExt

CONSTANTS
    Names,
    Programs,           \* lists of statements: of a module, a suite, or the rest of one
    Size(_)             \* of a program: the nodes of its syntax tree

(* A syntax tree is finite, and may be empty. *)
ASSUME ProgramAssumption ==
    /\ <<>> \in Programs
    /\ \A p \in Programs :
          /\ p \in Seq(ToSet(p)) /\ Size(p) \in Nat
          /\ \A s \in ToSet(p) :
                /\ s.names \in SUBSET Names /\ s.name \in Names
                /\ s.value[1] \in {"name", "symbol()", "module.App()"} => s.value[2] \in Names
                /\ \A suite \in {s.body, s.other} : suite \in Programs /\ Size(suite) < Size(p)
                /\ s.kind = "with" => s.other = <<>>
          /\ p # <<>> => Tail(p) \in Programs /\ Size(Tail(p)) < Size(p)

(* What inspect_scope carries: the names it takes for an App, the module   *)
(* and the class, and the answer.                                          *)
Scope(apps, modules, symbols) ==
    [apps |-> apps, modules |-> modules, symbols |-> symbols, found |-> FALSE]
NoNames == Scope({}, {}, {})
Scopes == [apps : SUBSET Names, modules : SUBSET Names, symbols : SUBSET Names, found : BOOLEAN]

Without(scope, names) ==
    [scope EXCEPT !.apps = @ \ names, !.modules = @ \ names, !.symbols = @ \ names]

IsAppConstructor(value, scope) ==
    \/ value[1] = "symbol()" /\ value[2] \in scope.symbols
    \/ value[1] = "module.App()" /\ value[2] \in scope.modules

(* names_bound_in: every name a suite may bind, in itself and in its       *)
(* suites, but not in a function or class of its own.                      *)
NamesBoundIn[statements \in Programs] ==
    UNION {IF s.kind = "def" THEN {s.name}
           ELSE s.names \cup NamesBoundIn[s.body] \cup NamesBoundIn[s.other] : s \in ToSet(statements)}

Import(scope, s) ==
    CASE s.kind = "import" /\ s.value[2] = "connexion" ->
           [scope EXCEPT !.modules = @ \cup s.names]
      [] s.kind = "from" /\ s.value[2] = "App" -> [scope EXCEPT !.symbols = @ \cup s.names]
      [] OTHER -> scope

(* The names of one target are dropped, and then added if the value is an  *)
(* App: the constructor is looked at after, the alias before the drop.     *)
Assign(scope, s) ==
    IF s.kind # "assign" THEN scope
    ELSE LET dropped == Without(scope, s.names)
             isApp == \/ IsAppConstructor(s.value, dropped)
                      \/ s.value[1] = "name" /\ s.value[2] \in scope.apps
         IN  IF isApp THEN [dropped EXCEPT !.apps = @ \cup s.names] ELSE dropped

Registers(scope, s) ==
    /\ s.kind = "add_api"
    /\ IsAppConstructor(s.value, scope) \/ (s.value[1] = "name" /\ s.value[2] \in scope.apps)

Compound == {"if", "for", "while", "with", "try"}

(* Mutant of AfterSuites: what a suite binds is kept. *)
AfterSuitesKept(scope, s) == scope

(* After a suite nothing is known of the names it may have bound. *)
AfterSuites(scope, s) ==
    Without(scope, s.names \cup NamesBoundIn[s.body] \cup NamesBoundIn[s.other])

(* inspect_scope, of one statement: its suites, and a function with its    *)
(* parameters shadowed, are inspected with the names known so far and give *)
(* nothing back.                                                           *)
Inspected(s, known, inspect) ==
    LET bound == Assign(Import(known, s), s)
        found == \/ Registers(bound, s)
                 \/ /\ s.kind \in Compound
                    /\ inspect[s.body][bound].found \/ inspect[s.other][bound].found
    IN  IF s.kind = "def"
        THEN [known EXCEPT !.found = inspect[s.body][Without(known, s.names)].found]
        ELSE [(IF s.kind \in Compound THEN AfterSuites(bound, s) ELSE bound) EXCEPT !.found = found]

(* And of all of them, from the first to the first registration.           *)
InspectScope[statements \in Programs] ==
    [known \in Scopes |->
       IF statements = <<>> \/ known.found THEN known
       ELSE InspectScope[Tail(statements)][Inspected(Head(statements), known, InspectScope)]]

HasConnexionRegistration(program) == InspectScope[program][NoNames].found

----------------------------------------------------------------------------
(* What Python does with the same program.  An environment says of each    *)
(* name whether it is the module, the class, an App or something else; a   *)
(* condition may go either way, a loop may run twice, and an exception may *)
(* be raised anywhere, so that a program has a set of environments.        *)
Environments == [Names -> {"module", "class", "app", "other"}]

ValueOf(value, env) ==
    CASE value[1] = "name" -> env[value[2]]
      [] value[1] = "symbol()" /\ env[value[2]] = "class" -> "app"
      [] value[1] = "module.App()" /\ env[value[2]] = "module" -> "app"
      [] OTHER -> "other"

Bind(env, names, thing) == [n \in Names |-> IF n \in names THEN thing ELSE env[n]]

Bound(env, s) ==
    CASE s.kind = "import" -> Bind(env, s.names, IF s.value[2] = "connexion" THEN "module"
                                                 ELSE "other")
      [] s.kind = "from" -> Bind(env, s.names, IF s.value[2] = "App" THEN "class" ELSE "other")
      [] s.kind = "assign" -> Bind(env, s.names, ValueOf(s.value, env))
      [] s.kind \in {"for", "with", "other"} -> Bind(env, s.names, "other")
      [] s.kind = "def" -> Bind(env, {s.name}, "other")
      [] OTHER -> env

(* The bindings at the end of a run, those at any point before (where an   *)
(* exception may have been raised), and whether an App was registered.     *)
Executions == [envs : SUBSET Environments, seen : SUBSET Environments, hit : BOOLEAN]
Started(envs) == [envs |-> envs, seen |-> envs, hit |-> FALSE]

(* Of what has been done so far and two suites, ending in ends.            *)
Continued(done, ends, first, second) ==
    [envs |-> ends, seen |-> done.seen \cup first.seen \cup second.seen \cup ends,
     hit |-> done.hit \/ first.hit \/ second.hit]

(* One statement.  A function is called once, where it is defined, with    *)
(* names of its own for all it binds.                                      *)
Executed(s, done, run) ==
    LET start == {Bound(env, s) : env \in done.envs}
        once == run[s.body][Started(start)]
        again == run[s.body][Started({Bound(env, s) : env \in once.envs} \cup start)]
        inner == run[s.body][Started({Bind(env, s.names \cup NamesBoundIn[s.body], "other") :
                                         env \in done.envs})]
        otherwise == run[s.other][Started(start)]
        atEnd == run[s.other][Started(done.envs \cup again.envs)]
        handler == run[s.other][Started(once.seen)]
        calls == s.kind = "add_api" /\ \E env \in start : ValueOf(s.value, env) = "app"
    IN  CASE s.kind = "def" -> [Continued(done, start, done, done) EXCEPT !.hit = @ \/ inner.hit]
          [] s.kind = "if" -> Continued(done, once.envs \cup otherwise.envs, once, otherwise)
          [] s.kind \in {"for", "while"} -> Continued(done, again.envs \cup atEnd.envs, again, atEnd)
          [] s.kind = "with" -> Continued(done, once.envs, once, once)
          [] s.kind = "try" -> Continued(done, once.envs \cup handler.envs, once, handler)
          [] OTHER -> [Continued(done, start, done, done) EXCEPT !.hit = @ \/ calls]

Run[statements \in Programs] ==
    [done \in Executions |->
       IF statements = <<>> THEN done
       ELSE Run[Tail(statements)][Executed(Head(statements), done, Run)]]

Executes(program) == Run[program][Started({[n \in Names |-> "other"]})].hit

(* All the statements of a program, at every depth. *)
Statements[program \in Programs] ==
    UNION {{s} \cup Statements[s.body] \cup Statements[s.other] : s \in ToSet(program)}

(* The names a program imports the module as, those it imports the class   *)
(* as, and those it assigns what may be an App.                            *)
Bindings(program, Of(_)) == UNION {s.names : s \in {t \in Statements[program] : Of(t)}}
ImportsModule(s) == s.kind = "import"
ImportsClass(s) == s.kind = "from"
MayMakeApp(s) == s.kind = "assign" /\ s.value[1] \in {"name", "symbol()", "module.App()"}

(* Only assignments, imports of connexion and parameters bind names, no    *)
(* name stands for two of the module, the class and an App, and no         *)
(* function binds a name of its own.                                       *)
OnlyAssigned(program) ==
    /\ \A s \in Statements[program] :
          /\ s.kind \in {"for", "with", "other"} => s.names = {}
          /\ s.kind = "import" => s.value[2] = "connexion"
          /\ s.kind = "from" => s.value[2] = "App"
          /\ s.kind = "def" => /\ \A t \in Statements[program] : s.name \notin t.names
                               /\ NamesBoundIn[s.body] = {}
    /\ Bindings(program, ImportsModule) \cap Bindings(program, ImportsClass) = {}
    /\ Bindings(program, MayMakeApp)
         \cap (Bindings(program, ImportsModule) \cup Bindings(program, ImportsClass)) = {}

(* No suite binds a name, no name is bound to an App of its own module or  *)
(* class, and an alias is not one of the module or the class.              *)
Unconditional(program) ==
    \A s \in Statements[program] :
        /\ s.kind \in Compound => NamesBoundIn[s.body] \cup NamesBoundIn[s.other] \cup s.names = {}
        /\ s.kind = "assign" =>
              /\ s.value[2] \notin s.names
              /\ s.value[1] = "name" =>
                    s.value[2] \notin Bindings(program, ImportsModule) \cup Bindings(program, ImportsClass)
============================================================================
