----------------------------- MODULE MCAnalysis -----------------------------
(* The stages an upload goes through before anything of it is stored: the  *)
(* extraction of the archive, then, in the child process, the guard and    *)
(* the loader, the normaliser, the source analysis and the correlation.    *)
(* A stage gets from the one before it no more than its input, so a        *)
(* behaviour of this model is one stage, from every input of its bounds.   *)
EXTENDS MCEvidenceCorrelation, MCSpecificationGuard, MCArchiveExtraction, SourceExtraction,
        SpecificationNormalizer

VARIABLE running    \* the stage

NormalizerInput == INSTANCE NormalizerInputs
SourceInput == INSTANCE SourceInputs
MCOpenAPIDocuments == NormalizerInput!AllSpecifications
MCDictionaries == NormalizerInput!AllDictionaries
MCNesting(raw) == NormalizerInput!NestingOf(raw)
MCPrograms == SourceInput!AllPrograms
MCSize(program) == SourceInput!SizeOf(program)
MCLower == SourceInput!LowerCase
MCProjects == SourceInput!AllProjects

----------------------------------------------------------------------------
NormalizerIdle ==
    /\ spec = [operations |-> <<>>] /\ place = "idle" /\ index = 0
    /\ recorded = {} /\ normalized = <<>>
SourceIdle ==
    /\ project = [files |-> <<>>] /\ phase = "idle" /\ at = 0
    /\ loaded = <<>> /\ total = 0 /\ diagnostics = {} /\ tree = <<>>
GuardIdle ==
    /\ document = <<>> /\ verdict = "unreadable" /\ frames = <<>> /\ composed = {}
    /\ nodes = 0 /\ aliases = 0 /\ pending = <<>> /\ active = {} /\ visited = {}
ArchiveIdle ==
    /\ archive = <<>> /\ step = "idle" /\ member = 0 /\ declaredTotal = 0 /\ actualTotal = 0
    /\ memberBytes = 0 /\ files = <<>> /\ directories = {} /\ zipOnDisk = "absent"
    /\ delivered = <<>> /\ outcome = "none"
CorrelationIdle ==
    /\ operations = <<>> /\ endpoints = <<>> /\ pairs = <<>> /\ claimed = {}
    /\ unmatched = {} /\ matched = FALSE /\ stage = "idle"
    /\ specFindings = {} /\ sourceFindings = {} /\ rulesRun = 0 /\ correlated = {}
    /\ metrics = NoMetrics /\ answer = "none"

AnalysisInit ==
    \/ /\ running = "extraction"
       /\ ArchiveInit /\ GuardIdle /\ NormalizerIdle /\ SourceIdle /\ CorrelationIdle
    \/ /\ running = "guard"
       /\ ArchiveIdle /\ GuardInit /\ NormalizerIdle /\ SourceIdle /\ CorrelationIdle
    \/ /\ running = "normalizer"
       /\ ArchiveIdle /\ GuardIdle /\ NormalizerInit /\ SourceIdle /\ CorrelationIdle
    \/ /\ running = "source"
       /\ ArchiveIdle /\ GuardIdle /\ NormalizerIdle /\ SourceInit /\ CorrelationIdle
    \/ /\ running = "correlation"
       /\ ArchiveIdle /\ GuardIdle /\ NormalizerIdle /\ SourceIdle /\ Init

AnalysisNext ==
    /\ UNCHANGED running
    /\ \/ /\ running = "extraction" /\ ArchiveNext
          /\ UNCHANGED <<guardVars, normalizerVars, sourceVars, vars>>
       \/ /\ running = "guard" /\ GuardNext
          /\ UNCHANGED <<archiveVars, normalizerVars, sourceVars, vars>>
       \/ /\ running = "normalizer" /\ NormalizerNext
          /\ UNCHANGED <<archiveVars, guardVars, sourceVars, vars>>
       \/ /\ running = "source" /\ SourceNext
          /\ UNCHANGED <<archiveVars, guardVars, normalizerVars, vars>>
       \/ /\ running = "correlation" /\ Next
          /\ UNCHANGED <<archiveVars, guardVars, normalizerVars, sourceVars>>

AnalysisSpec ==
    /\ AnalysisInit
    /\ [][AnalysisNext]_<<running, archiveVars, guardVars, normalizerVars, sourceVars, vars>>

============================================================================
