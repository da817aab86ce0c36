SPECIFICATION MCSpec
CONSTANTS
    Fixtures <- MCFixtures
    Inputs <- MCInputs
    SpecEngine <- MCSpecEngine
    SourceTree <- MCSourceTree
    SourceEngine <- MCSourceEngine
    CorrelationEngine <- MCCorrelationEngine
INVARIANTS
    EveryPropositionCounted
    
    
    ProtocolAddsUp
CHECK_DEADLOCK FALSE
