SPECIFICATION FairSpec
CONSTANTS
  Null = Null
  Call = {a1, a2}
  Provider = {p1, p2}
  Preferred = p1
  Configured = TRUE
  TopUp = 1
  Price = 2
  Funds = {0, 1, 2}
INVARIANTS
  AttestedIsGenuine
  ImplementsAnalyze
PROPERTY
  EveryAnalysisReturns
