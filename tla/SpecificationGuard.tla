------------------------- MODULE SpecificationGuard -------------------------
(***************************************************************************)
(* What happens to an uploaded specification before it is normalised:      *)
(* services/specification_guard.py composes the YAML with limits and walks *)
(* it for cyclic aliases and foreign references; analysis/openapi/loader.py*)
(* then walks it again by plain recursion, which has no defence of its own *)
(* against a cycle; analysis/openapi/validator.py has the last word.       *)
(*                                                                         *)
(* A document is a graph of containers: every container is a mapping or a  *)
(* list, and an entry holds a scalar or a container.  The first occurrence *)
(* of a container in the text is its definition, each further one an alias.*)
(***************************************************************************)
EXTENDS Naturals, Sequences, FiniteSets

CONSTANTS
    Containers, Root,
    Scalars,            \* the values that are no containers
    LocalReference,     \* those among them that _validate_reference accepts
    Documents,
    MaxNodes, MaxDepth, MaxAliases

Kinds == {"map", "list"}
Keys == {"$ref", "<<", "plain"}     \* a reference keyword, the merge key, any other
Entry == [key : Keys, value : Containers \cup Scalars]

ASSUME GuardAssumption ==
    /\ IsFiniteSet(Containers) /\ Root \in Containers
    /\ Containers \cap Scalars = {}
    /\ LocalReference \subseteq Scalars
    /\ \A d \in Documents :
          /\ d.kind \in [Containers -> Kinds]
          /\ d.entries \in [Containers -> Seq(Entry)]
          /\ d.text \in {"readable", "broken", "large"}
          /\ d.supported \in BOOLEAN
    /\ MaxNodes \in Nat /\ MaxDepth \in Nat /\ MaxAliases \in Nat

VARIABLES
    document,
    verdict,            \* the place in the stage, or the error it ended with
    frames,             \* the recursion of compose_node, later of walk_node
    composed,           \* the containers with an anchor so far
    nodes, aliases,     \* _composed_nodes, _alias_references
    pending,            \* the stack of the guard: a value and the flag exiting
    active, visited     \* its two sets of identities

guardVars == <<document, verdict, frames, composed, nodes, aliases, pending, active, visited>>

Places == {"composing", "constructing", "guarding", "locating", "validating", "valid"}
Errors == {"unreadable", "complexity", "merge", "object", "cyclic", "reference", "invalid"}

Entries(n) == document.entries[n]
Values(n) == {Entries(n)[i].value : i \in DOMAIN Entries(n)}
Children(n) == Values(n) \cap Containers

(* _validate_reference: a reference keyword holds the text of a pointer or *)
(* of an anchor of this document.                                          *)
BadReference(n) ==
    /\ document.kind[n] = "map"
    /\ \E i \in DOMAIN Entries(n) : /\ Entries(n)[i].key = "$ref"
                                    /\ Entries(n)[i].value \notin LocalReference

----------------------------------------------------------------------------
GuardInit ==
    /\ document \in Documents
    /\ verdict = IF document.text = "large" THEN "unreadable" ELSE "composing"
    /\ frames = <<<<Root, 1>>>>
    /\ composed = {Root}
    /\ nodes = 1 /\ aliases = 0
    /\ pending = <<>> /\ active = {} /\ visited = {}

Top == frames[Len(frames)]
Deeper(n) == Append([frames EXCEPT ![Len(frames)][2] = @ + 1], <<n, 1>>)
Onward == [frames EXCEPT ![Len(frames)][2] = @ + 1]
Back == SubSeq(frames, 1, Len(frames) - 1)

Reject(error) == verdict' = error /\ UNCHANGED <<document, frames, composed, nodes,
                                                  aliases, pending, active, visited>>

(* compose_node for the next entry of the mapping or list on top: a key,   *)
(* if it has one, and a value, each counted before it is composed.         *)
ComposeEntry ==
    /\ verdict = "composing" /\ frames # <<>> /\ Top[2] \in DOMAIN Entries(Top[1])
    /\ LET value == Entries(Top[1])[Top[2]].value
           key == IF document.kind[Top[1]] = "map" THEN 1 ELSE 0
           again == value \in composed
           nodesNow == nodes + key + (IF again THEN 0 ELSE 1)
           aliasesNow == aliases + (IF again THEN 1 ELSE 0)
       IN  IF Len(frames) + 1 > MaxDepth \/ nodesNow > MaxNodes \/ aliasesNow > MaxAliases
           THEN Reject("complexity")
           ELSE /\ nodes' = nodesNow /\ aliases' = aliasesNow
                /\ IF value \in Containers \ composed
                   THEN /\ frames' = Deeper(value)
                        /\ composed' = composed \cup {value}
                   ELSE frames' = Onward /\ UNCHANGED composed
                /\ UNCHANGED <<document, verdict, pending, active, visited>>

Composed ==
    /\ verdict = "composing" /\ frames # <<>> /\ Top[2] \notin DOMAIN Entries(Top[1])
    /\ IF document.text = "broken" /\ Len(frames) = 1
       THEN Reject("unreadable")
       ELSE /\ frames' = Back
            /\ verdict' = IF Len(frames) = 1 THEN "constructing" ELSE "composing"
            /\ UNCHANGED <<document, composed, nodes, aliases, pending, active, visited>>

(* flatten_mapping refuses merge keys; the document must be a mapping. *)
Construct ==
    /\ verdict = "constructing"
    /\ IF \E n \in composed : /\ document.kind[n] = "map"
                              /\ \E i \in DOMAIN Entries(n) : Entries(n)[i].key = "<<"
       THEN Reject("merge")
       ELSE IF document.kind[Root] # "map" THEN Reject("object")
       ELSE /\ verdict' = "guarding"
            /\ pending' = <<<<Root, FALSE>>>>
            /\ UNCHANGED <<document, frames, composed, nodes, aliases, active, visited>>

----------------------------------------------------------------------------
(* The loop of guard_specification_references, one pop per step. *)
Popped == pending[Len(pending)]
Rest == SubSeq(pending, 1, Len(pending) - 1)
Guarding == verdict = "guarding" /\ pending # <<>>

Skip ==
    /\ Guarding
    /\ Popped[1] \notin Containers \/ (~Popped[2] /\ Popped[1] \in visited \ active)
    /\ pending' = Rest
    /\ UNCHANGED <<document, verdict, frames, composed, nodes, aliases, active, visited>>

Exit ==
    /\ Guarding /\ Popped[2]
    /\ pending' = Rest
    /\ active' = active \ {Popped[1]}
    /\ visited' = visited \cup {Popped[1]}
    /\ UNCHANGED <<document, verdict, frames, composed, nodes, aliases>>

Cycle ==
    /\ Guarding /\ ~Popped[2] /\ Popped[1] \in active
    /\ Reject("cyclic")

(* Mutant of Enter: the container counts as visited when it is entered.    *)
EnterVisited ==
    /\ Guarding /\ ~Popped[2] /\ Popped[1] \in Containers \ (active \cup visited)
    /\ ~BadReference(Popped[1])
    /\ visited' = visited \cup {Popped[1]}
    /\ pending' = Rest \o [i \in DOMAIN Entries(Popped[1]) |->
                             <<Entries(Popped[1])[i].value, FALSE>>]
    /\ UNCHANGED <<document, verdict, frames, composed, nodes, aliases, active>>

Enter ==
    /\ Guarding /\ ~Popped[2] /\ Popped[1] \in Containers \ (active \cup visited)
    /\ IF BadReference(Popped[1])
       THEN Reject("reference")
       ELSE /\ active' = active \cup {Popped[1]}
            /\ pending' = Append(Rest, <<Popped[1], TRUE>>)
                            \o [i \in DOMAIN Entries(Popped[1]) |->
                                  <<Entries(Popped[1])[i].value, FALSE>>]
            /\ UNCHANGED <<document, verdict, frames, composed, nodes, aliases, visited>>

Admit ==
    /\ verdict = "guarding" /\ pending = <<>>
    /\ verdict' = "locating"
    /\ frames' = <<<<Root, 1>>>>
    /\ UNCHANGED <<document, composed, nodes, aliases, pending, active, visited>>

----------------------------------------------------------------------------
(* walk_node of the loader: into every value, an alias as often as it      *)
(* occurs.                                                                 *)
Locate ==
    /\ verdict = "locating" /\ frames # <<>>
    /\ LET next == IF Top[2] \in DOMAIN Entries(Top[1])
                   THEN Entries(Top[1])[Top[2]].value ELSE Root
       IN  frames' = IF Top[2] \notin DOMAIN Entries(Top[1]) THEN Back
                     ELSE IF next \in Containers THEN Deeper(next) ELSE Onward
    /\ UNCHANGED <<document, verdict, composed, nodes, aliases, pending, active, visited>>

Load ==
    /\ verdict = "locating" /\ frames = <<>>
    /\ verdict' = "validating"
    /\ UNCHANGED <<document, frames, composed, nodes, aliases, pending, active, visited>>

(* validate_openapi_spec: the version, then the verdict of a library. *)
Validate ==
    /\ verdict = "validating"
    /\ verdict' \in IF document.supported THEN {"valid", "invalid"} ELSE {"invalid"}
    /\ UNCHANGED <<document, frames, composed, nodes, aliases, pending, active, visited>>

GuardNext ==
    \/ ComposeEntry \/ Composed \/ Construct
    \/ Skip \/ Exit \/ Cycle \/ Enter \/ Admit
    \/ Locate \/ Load \/ Validate

GuardSpec == GuardInit /\ [][GuardNext]_guardVars

----------------------------------------------------------------------------
(* A set of containers each of which has a child in the set goes round.    *)
Round(C) == C # {} /\ \A n \in C : Children(n) \cap C # {}

Admitted == verdict \in {"locating", "validating", "valid"}

(* What the guard has seen of a specification that it admits is the whole   *)
(* of it, without a cycle and without a foreign reference.                 *)
AdmittedIsSound ==
    Admitted =>
        /\ Root \in visited
        /\ \A n \in visited : Children(n) \subseteq visited /\ ~BadReference(n)
        /\ \A C \in SUBSET visited : ~Round(C)

(* The containers below the root: those in every set that has the root and *)
(* whatever its containers have in them.                                   *)
Closed(C) == Root \in C /\ \A n \in C : Children(n) \subseteq C
Reachable == {n \in Containers : \A C \in SUBSET Containers : Closed(C) => n \in C}

(* The entries below the root, each of which uses a value once.            *)
Uses == UNION {{n} \X DOMAIN Entries(n) : n \in Reachable}

(* What it refuses, it refuses for a reason that exists.                   *)
CycleExists == \E C \in SUBSET Reachable : Round(C)
BadReferenceExists == \E n \in Reachable : BadReference(n)
LimitsExceeded ==
    \/ 2 * Cardinality(Uses) + 1 > MaxNodes
    \/ Cardinality(Uses) > MaxAliases
    \/ Cardinality(Reachable) >= MaxDepth
RefusedForCause ==
    /\ verdict = "cyclic" => CycleExists
    /\ verdict = "reference" => BadReferenceExists
    /\ verdict = "complexity" => LimitsExceeded

(* The recursion of the loader's walk_node, which has no defence of its    *)
(* own, never holds a container twice: it ends, no deeper than the document*)
(* has containers (loader.py:77-100).                                      *)
LoaderRecursionBounded ==
    verdict = "locating" =>
        \A i, j \in DOMAIN frames : frames[i][1] = frames[j][1] => i = j

(* A specification that passes the guard has no cycle and no foreign       *)
(* reference anywhere below its root, so that the recursion of the loader  *)
(* ends; one that does not pass is refused for a reason that exists:       *)
(* containers used twice are no cycle, a bad reference that nothing reaches*)
(* is none, and the limits are exceeded (specification_guard.py:116-145).  *)
GuardIsExact == AdmittedIsSound /\ LoaderRecursionBounded /\ RefusedForCause
============================================================================
