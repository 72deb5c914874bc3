CONSTANTS
  MaxRunes = 4
  OverlapRunes = 1
  Doc = {1, 2}
  Word = "a"
  rrfConstant = 1
  Limit = 2
  TopK = {3}
  Revisions <- MCRevisions
  Scenarios <- MCScenarios
SPECIFICATION SearchSpec
INVARIANTS
  EveryRuneIsIndexed
  ServedWasCurrent
  TwoChannelsFirst
CHECK_DEADLOCK FALSE
