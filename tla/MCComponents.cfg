\* Every engine and service, each on its own.
SPECIFICATION ComponentsSpec
CONSTANTS
    None = None
    Parts = {"transfer", "search", "station", "line", "quest", "calculations", "reports", "comparisons", "rules", "imports", "packages", "networks", "catalog"}
    Requests <- MCRequests
    Flows = {0, 2, 4}
    Ticks = 2
    Gaugings <- MCGaugings
    Residual <- MCResidual
    Searches <- MCSearches
    Abscissas = {0, 1, 2, 3, 4, 5, 6, 7, 8, 9, 10, 11, 12, 13, 14, 15, 16}
    MaxExpansions = 4
    FullSpeed = 2
    LargestFlow = 16
    Stations <- MCStations
    Gravity = 196133
    LibraryGravity = 196200
    FactorError = 1
    Deviations <- MCDeviations
    Studies <- MCStudies
    StationReach = 1
    InjectionReach = 2
    RoundedUp = {1}
    Atmosphere = 2
    InitialFlow = 1
    InitialPressure = 6
    Doublings = 2
    Quests <- MCQuests
    Evaluations <- MCEvaluations
    IdOrder <- MCIdOrder
    Clients <- MCClients
    Intent <- MCIntent
    MaxDraft = 1
    MaxTries = 2
    Officers = {o1, o2}
    Standards = {"norm"}
    RuleSets = {"set"}
    Links <- MCLinks
    Rules <- MCRules
    Definition <- MCDefinition
    Runs = {"once", "twice"}
    Requested <- MCRequested
    Measures <- MCMeasures
    MaxSessions = 3
    File <- MCFile
    NaN = NaN
    Infinite = 99
    Scale <- MCScale
    Mappings <- MCMappings
    Columns = {"a", "b"}
    Importers <- MCImporters
    Key <- MCKey
    Authors = {a1}
    MaxEdits = 3
    Wrong = Wrong
    Refused = Refused
    Documents <- MCDocuments
    Rewritten <- MCRewritten
    RuleManifest = 7
    Whole = 20
    Precision = 10
    Networks <- MCNetworks
    Items <- MCItems
    TanksOnFile = {1, 4}
    Contexts <- MCContexts
    NormalSpeed = 1
    Curators = {u1, u2}
    Codes = {"P"}
    Contents <- MCContents
    Revisions <- MCRevisions
    Canonical <- MCCanonical
    MaxVersions = 3
    MaxWrites = 3
INVARIANTS
    ComponentsTypeOK
    TransferIsSound
    PreflightIsRight
    SearchIsSound
    NoSolutionIsTrue
    StationsWorkAtOneHead
    ResultAccountsForLine
    ApprovableIsSafe
    ChecksAreAccounted
    OutletFallsWithFlow
    EnginesAgree
    EveryCandidateAccounted
    OptimalIsProved
    AnswersAreTrue
    ObjectsFollowRows
    DecisionIsJustified
    DatasetIsOneImport
    PackagesAreFrozen
    NetworksAreComputedAsDrawn
    TopologyComesBack
PROPERTIES
    BracketNarrows
    EvaluationsAreFinal
    CatalogIsKept
    ComponentsEnd
CHECK_DEADLOCK FALSE
