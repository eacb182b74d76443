SPECIFICATION ReleaseGateSpec
CONSTANTS
  NoCap = NoCap
  NoUnit = NoUnit
  None = None
  agent = agent
  other = other
  d1 = d1
  d2 = d2
  d3 = d3
  risk = risk
  Suites <- MCSuites
  Observations <- MCObservations
  Unstable = {"schema"}
  Obligations = {risk}
  MaxItems = 1
  MaxRuns = 2
INVARIANTS
  PassesAreEarned
  ComparisonsAgree
  SelectionIsSufficient
CHECK_DEADLOCK FALSE
