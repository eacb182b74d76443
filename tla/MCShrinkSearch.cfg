\* Every outcome of every execution, budgets that may or may not bind.
CONSTANTS
  Dims <- MCDims
  Items <- MCItems
  Protected <- MCProtected
  MinKeep <- MCMinKeep
  Unrunnable <- MCUnrunnable
  MaxCandidates = 14
  MaxRounds = 7
SPECIFICATION FairSpec
INVARIANTS
  LocallyMinimal
  PublishedIsReproduced
PROPERTY
  SearchEnds
\* The search has ended.
CHECK_DEADLOCK FALSE
