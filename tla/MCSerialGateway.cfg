\* Every sequence of five calls, with budgets of calls, retries and time that
\* all bind within the bounds.
CONSTANTS
  ToolNames <- MCToolNames
  Declared <- MCDeclared
  Calls <- MCCalls
  ToolOf <- MCToolOf
  SchemaValid <- MCSchemaValid
  Fixtures <- MCFixtures
  Paths <- MCPaths
  Values <- MCValues
  InitialWorld <- MCInitialWorld
  Absent = "absent"
  AnyValue = "any"
  NoEffect = NoEffect
  NoFixture = NoFixture
  Unlimited = Unlimited
  MaxToolCalls = 4
  MaxRetries = 1
  MaxWallTime = 2
  MaxClock = 2
  MaxLog = 5
SPECIFICATION Spec
INVARIANTS
  SpendingIsEvidenced
PROPERTY
  WorldMovesOnlyWithEvidence
\* Every call of the bound may have been made.
CHECK_DEADLOCK FALSE
