---------------------------- MODULE ScanAssistant ----------------------------
(***************************************************************************)
(* Questions about a scan: the handler ask_scan_assistant of               *)
(* app/api/v1/scans.py, the retrieval of services/rag_assistant.py and the *)
(* optional local model of services/local_ai.py.                           *)
(*                                                                         *)
(* Every question is a thread of the server.  The threads share one        *)
(* BoundedSemaphore(1) around the calls to the model, taken without        *)
(* blocking: who does not get it answers without the model.  The model     *)
(* (Ollama, external) may be absent, slow, refuse, answer nonsense, cite   *)
(* anything, or make the client raise what no handler catches.             *)
(***************************************************************************)
EXTENDS Naturals, Sequences, FiniteSets, SequencesExt

CONSTANTS
    Questions,              \* the threads
    Findings,               \* ids of the scan's findings and endpoint mappings ...
    Knowledge,              \* ... and of the bundled guidance
    Rankings,               \* sequences of ids a ranking may produce, best first
    Limit,                  \* sources returned (request_data.limit)
    ModelSources,           \* sources shown to the model (8 in the code)
    MaxTexts                \* texts embedded at once (129 in the code)

NoSources == <<>>
IsFinding(id) == id \in Findings

VARIABLES
    pc,         \* where the thread of a question is
    status,     \* its get_local_ai_status: [model, embedding], once asked
    ranked,     \* the ranking of its documents by words and by the model
    sources,    \* what it retrieved
    sent,       \* the ids of the sources it sent to the model
    free,       \* value of _MODEL_SEMAPHORE
    response    \* its end: [code, ai, cited, retrieval], or <<>>

assistantVars == <<pc, status, ranked, sources, sent, free, response>>

AssistantInit ==
    /\ pc = [q \in Questions |-> "asked"]
    /\ status = [q \in Questions |-> [model |-> FALSE, embedding |-> FALSE]]
    /\ ranked \in [Questions -> [words : Rankings, model : Rankings]]
    /\ sources = [q \in Questions |-> NoSources]
    /\ sent = [q \in Questions |-> {}]
    /\ free = 1
    /\ response = [q \in Questions |-> <<>>]

Move(q, from, to) == pc[q] = from /\ pc' = [pc EXCEPT ![q] = to]

Respond(q, r) == response' = [response EXCEPT ![q] = <<r>>]

Refused(code) == [code |-> code, ai |-> FALSE, cited |-> {}, retrieval |-> "none"]

(* get_scan_with_result, verify_scan_access, and 409 without a result.      *)
Admit(q) ==
    /\ Move(q, "asked", "status")
    /\ UNCHANGED <<status, ranked, sources, sent, free, response>>

Refuse(q) ==
    /\ Move(q, "asked", "done")
    /\ \E code \in {403, 404, 409} : Respond(q, Refused(code))
    /\ UNCHANGED <<status, ranked, sources, sent, free>>

(* get_local_ai_status: disabled, unreachable, or the installed models; an  *)
(* answer of another shape is caught by nobody.                             *)
AskStatus(q) ==
    /\ Move(q, "status", "embed")
    /\ \E model, embedding \in BOOLEAN :
           status' = [status EXCEPT ![q] = [model |-> model, embedding |-> embedding]]
    /\ UNCHANGED <<ranked, sources, sent, free, response>>

Crash(q) == Respond(q, Refused(500))

StatusCrashes(q) ==
    /\ Move(q, "status", "done") /\ Crash(q)
    /\ UNCHANGED <<status, ranked, sources, sent, free>>

-----------------------------------------------------------------------------
(* embed_local_texts: the question and every document, if they are not too  *)
(* many, the model is installed and nobody else is using it.                *)

MayEmbed(q) ==
    /\ status[q].embedding
    /\ Cardinality(Findings) + Cardinality(Knowledge) + 1 <= MaxTexts

TakeForEmbedding(q) ==
    /\ MayEmbed(q) /\ free = 1
    /\ Move(q, "embed", "embedding")
    /\ free' = 0
    /\ UNCHANGED <<status, ranked, sources, sent, response>>

(* Retrieval: documents with a word in common or a near vector, best first. *)
Retrieve(q, order) == sources' = [sources EXCEPT ![q] = SubSeq(order, 1, IF Len(order) < Limit THEN Len(order) ELSE Limit)]

WithoutEmbedding(q) ==
    /\ ~MayEmbed(q) \/ free = 0
    /\ Move(q, "embed", "generate")
    /\ Retrieve(q, ranked[q].words)
    /\ UNCHANGED <<status, ranked, sent, free, response>>

(* Vectors of the right number, shape and finite values, or none.           *)
EndEmbedding(q) ==
    /\ Move(q, "embedding", "generate")
    /\ free' = free + 1
    /\ \E good \in BOOLEAN : Retrieve(q, IF good THEN ranked[q].model ELSE ranked[q].words)
    /\ UNCHANGED <<status, ranked, sent, response>>

EmbeddingCrashes(q) ==
    /\ Move(q, "embedding", "done") /\ Crash(q)
    /\ free' = free + 1
    /\ UNCHANGED <<status, ranked, sources, sent>>

-----------------------------------------------------------------------------
(* generate_local_explanation.                                              *)

Deterministic == [code |-> 200, ai |-> FALSE, cited |-> {}, retrieval |-> "words"]

TakeForGeneration(q) ==
    /\ status[q].model /\ free = 1
    /\ Move(q, "generate", "generating")
    /\ free' = 0
    /\ sent' = [sent EXCEPT ![q] = {sources[q][i] : i \in {j \in DOMAIN sources[q] : j <= ModelSources}}]
    /\ UNCHANGED <<status, ranked, sources, response>>

WithoutModel(q) ==
    /\ ~status[q].model \/ free = 0
    /\ Move(q, "generate", "done")
    /\ Respond(q, Deterministic)
    /\ UNCHANGED <<status, ranked, sources, sent, free>>

(* Mutant of Accepts: any citation of a retrieved source will do.           *)
AcceptsAnySource(q, cited) == cited # {} /\ cited \subseteq ToSet(sources[q])

(* An explanation must cite, cite only what the model was given, and cite a *)
(* finding of the scan when one was retrieved.                              *)
Accepts(q, cited) ==
    /\ cited # {} /\ cited \subseteq sent[q]
    /\ LET found == {id \in ToSet(sources[q]) : IsFinding(id)}
       IN  found # {} => found \cap cited # {}

(* Mutant of EndGeneration: a rejected answer returns before the release.   *)
EndGenerationKeeping(q) ==
    /\ Move(q, "generating", "done")
    /\ \E cited \in SUBSET (Findings \cup Knowledge) :
           LET good == sent[q] # {} /\ Accepts(q, cited)
           IN  /\ free' = IF good THEN free + 1 ELSE free
               /\ Respond(q, IF good THEN [Deterministic EXCEPT !.ai = TRUE, !.cited = cited]
                                     ELSE Deterministic)
    /\ UNCHANGED <<status, ranked, sources, sent>>

(* An error of the transport, no sources, a text that is no explanation, or *)
(* citations that are not accepted leave the deterministic answer.          *)
EndGeneration(q) ==
    /\ Move(q, "generating", "done")
    /\ free' = free + 1
    /\ \E cited \in SUBSET (Findings \cup Knowledge) :
           Respond(q, IF sent[q] # {} /\ Accepts(q, cited)
                      THEN [Deterministic EXCEPT !.ai = TRUE, !.cited = cited]
                      ELSE Deterministic)
    /\ UNCHANGED <<status, ranked, sources, sent>>

GenerationCrashes(q) ==
    /\ Move(q, "generating", "done") /\ Crash(q)
    /\ free' = free + 1
    /\ UNCHANGED <<status, ranked, sources, sent>>

Thread(q) ==
    \/ Admit(q) \/ Refuse(q) \/ AskStatus(q) \/ StatusCrashes(q)
    \/ TakeForEmbedding(q) \/ WithoutEmbedding(q) \/ EndEmbedding(q) \/ EmbeddingCrashes(q)
    \/ TakeForGeneration(q) \/ WithoutModel(q) \/ EndGeneration(q) \/ GenerationCrashes(q)

AssistantNext == \E q \in Questions : Thread(q)

AssistantSpec == AssistantInit /\ [][AssistantNext]_assistantVars

-----------------------------------------------------------------------------
(* An answer said to come from the model cites something, nothing but what  *)
(* that model call was shown, and a finding of this scan whenever one was   *)
(* retrieved; otherwise the answer is the deterministic one and cites       *)
(* nothing (local_ai.py:236, scans.py:414).                                 *)
GroundedAnswer ==
    \A q \in Questions : \A r \in ToSet(response[q]) :
        /\ r.ai => /\ r.cited # {} /\ r.cited \subseteq sent[q] /\ sent[q] \subseteq ToSet(sources[q])
                   /\ (\E id \in ToSet(sources[q]) : IsFinding(id)) => \E id \in r.cited : IsFinding(id)
        /\ ~r.ai => r.cited = {}

(* The semaphore is as many as the threads inside a call leave, whichever   *)
(* way each of their calls ended: a permit lost in one early return would   *)
(* silently turn the model off for good (local_ai.py:155, 189).             *)
ModelPermitExact ==
    free + Cardinality({q \in Questions : pc[q] \in {"embedding", "generating"}}) = 1
=============================================================================
