CONSTANTS
    Metrics = {"SALES", "MARGIN", "LATE", "DEAD", "LOOSE", "CHURN", "ODD", "HOURLY"}
    Entities = {"REGION", "PLAN"}
    Domains = {"OPS", "FIN"}
    Topics = {"weather"}
    Values = {"north", "south", "gold", "basic"}
    Units = {"u1", "u2"}
    Regions = {"north", "south", "national", "east"}
    Metric <- MCMetric
    Entity <- MCEntity
    DomainClass <- MCDomainClass
    Adjacent <- MCAdjacent
    LanguageMetrics = {"SALES", "MARGIN", "LATE", "LOOSE"}
    LanguageRank = 1
    Facts <- MCFacts
    RowLimit = 3
    NoValue = "null"
    Columns <- MCColumns
    SeedSpan <- MCSeedSpan
    ScopeMap <- MCScopeMap
    LocalProposals <- MCLocalProposals
    Requests <- MCRequests
    MaximumInput = 2
    MaximumOutput = 1
    InputTokens = {1, 2, 3}
    OutputTokens = {1, 2}
SPECIFICATION Spec
INVARIANTS AnswersCoveredPeriods
