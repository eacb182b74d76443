SPECIFICATION SuiteSpec
CONSTANTS
  s1 = s1
  s2 = s2
  s3 = s3
  agent = agent
  other = other
  c1 = c1
  c2 = c2
  c3 = c3
  small = small
  None = None
  Source = {s1, s2, s3}
  Original = s1
  Edits <- MCEdits
  Spec = {agent, other}
  SpecOf <- MCSpecOf
  Scenario = {c1, c2, c3, small}
  Clean <- MCClean
  Unsafe = {c3}
  Smaller <- MCSmaller
  RunId = {1, 2, 3, 4}
  VerifyId <- MCVerifyId
  Command <- MCCommand
  MaxConcurrency = 2
  MaxExecutions = 2
  MaxActive = 2
  MaxEdits = 2
  MaxCrashes = 1
INVARIANTS
  PublishedRunIsWhole
  OnlyRevertedEditsUnseen
  OnlyCompleteRunsAreKept
  ReportsAreOfOneRun
PROPERTIES
  PublishedRunsStay
CHECK_DEADLOCK FALSE
