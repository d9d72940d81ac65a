SPECIFICATION SupplySpec
CONSTANTS
    MaxSearches = 2
    MaxRetries = 1
    MaxCorrections = 2
    MaxCalls = 3
    Unparsed = Unparsed
    CatalogTables = {"orders", "visits"}
    Candidates <- Raws
    Emissions <- MCEmissions
    SqlByRef <- MCSqlByRef
    Catalog <- MCCatalog
    Words <- MCWords
    BlueprintExports <- MCBlueprintExports
    KnowledgeExports <- MCKnowledgeExports
    Catalogs <- MCCatalogs
    Deployments <- MCDeployments
    Staged <- MCStaged
    Scopes <- MCScopes
    Plans <- MCPlans
    Designated <- MCDesignated
    CatalogColumns = {"s", "c"}
    MaxPublishes = 1
    MaxDeploys = 1
    MaxFailures = 1
INVARIANT DialogueSound
INVARIANT KeptFiltersTheSame
PROPERTY ExtractionEnds
INVARIANT ReadyMeansComplete
INVARIANT SupplySound
PROPERTY CorpusSurvives
CHECK_DEADLOCK FALSE
