SPECIFICATION AnalysisSpec
CONSTANTS
    \* extraction
    Paths = {"d", "f", "g", "zip"}
    ParentOf <- Tree
    Dest = "dest"
    Outside = "outside"
    TempZip = "zip"
    Archives <- AllArchives
    MaxFiles = 2
    MaxTotal = 3
    MaxSingle = 2
    ChunkBytes = 2
    \* guard
    Containers = {"root", "a", "b"}
    Root = "root"
    Scalars = {"local", "foreign"}
    LocalReference = {"local"}
    Documents <- AllDocuments
    MaxNodes = 10
    MaxDepth = 3
    MaxAliases = 3
    \* normalizer
    References = {"r1", "r2", "r3", "far"}
    ForeignReferences = {"far"}
    NoReference = "no reference"
    NoKey = "no key"
    Dictionaries <- MCDictionaries
    Nesting <- MCNesting
    MaxNesting = 2
    OpenAPIDocuments <- MCOpenAPIDocuments
    \* source
    Names = {"c", "a", "b", "f", "-", "router", "Router", "app"}
    Lower <- MCLower
    Programs <- MCPrograms
    Size <- MCSize
    Projects <- MCProjects
    MaxSourceFiles = 3
    MaxSourceTotal = 5
    MaxSourceSize = 2
    \* correlation
    Parameters = {"id", "key"}
    ObjectParameters = {"id", "key"}
    StrongNames = {"password"}
    NoName = NoName
    MaxOperations = 3
    MaxEndpoints = 3
    Specifications <- SortedOperations
    Sources <- SortedEndpoints
CHECK_DEADLOCK FALSE
INVARIANTS
    
    
    NormalizedAsWritten
    EveryFileAccounted
    MappingIsExact
    
    SharedOnlyWhenScarce
    UnmatchedMeansAbsent
    CorroborationIsBacked
    RulesFollowPairs
