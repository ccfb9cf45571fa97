SPECIFICATION EvalSpec
CONSTANTS
  DocumentOf <- MCDocumentOf
  Items <- MCItems
  Queries <- MCQueries
  CandidateK = 2
  RerankCandidates = 3
  MaxId = 8
INVARIANTS TypeOK FiltersHonoured ScopesRepresented FusionRespectsBoth MeasuresPassages
CHECK_DEADLOCK FALSE
