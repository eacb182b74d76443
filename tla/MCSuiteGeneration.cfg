CONSTANTS
  None = None
  Refused = Refused
  NoCap = NoCap
  NoUnit = NoUnit
  SyntheticLength = 3
  PerParameter = 3
  PerTool = 5
  PerSpec = 10
  PositivePerSpec = 3
  FaultsPerSpec = 13
  DerivedPack = "derived_tool_risk_v1"
  MaxDerivedRules = 6
  Clock = 60
  RealizedCases = 2
  Generators = {g1, g2}
  Targets <- MCTargets
  Commands <- MCCommands
  KnownPacks <- MCKnownPacks
  Documents <- MCDocuments
SPECIFICATION Spec
CHECK_DEADLOCK FALSE
INVARIANTS
  FrozenSuitesAreWhole
  ConstraintsAreAccounted
  DutifulAgentsPass
  RulesAreEnforced
  BreachesNeverPass
  CoverageIsObservable
  ObligationsAreMet
PROPERTY
  UnforcedNeverReplaces
SYMMETRY BySymmetry
