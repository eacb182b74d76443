\* One tool call allowed, a malformed call ahead of a valid one.
CONSTANTS
  ToolNames <- MCToolNames
  Declared <- MCDeclared
  Calls <- MCCalls
  ToolOf <- MCToolOf
  SchemaValid <- MCSchemaValid
  Fixtures <- MCFixtures
  Paths <- MCPaths
  Values <- MCValues
  InitialWorld <- MCInitialWorld
  Absent = "absent"
  AnyValue = "any"
  NoEffect = NoEffect
  NoFixture = NoFixture
  Unlimited = Unlimited
  MaxToolCalls = 1
  MaxRetries = 1
  MaxWallTime = 2
  MaxClock = 1
  CallIds = {"id1", "id2", "id3"}
  Responses <- MixedBatches
  MaxConcurrency = 2
  MaxResponses = 1
  MaxBatch = 3
SPECIFICATION Spec
INVARIANT
  BudgetRefusalsInOrder
\* The run may have ended.
CHECK_DEADLOCK FALSE
