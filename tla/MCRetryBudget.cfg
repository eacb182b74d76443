\* No retry allowed, no other budget binding.
CONSTANTS
  ToolNames <- MCToolNames
  Declared <- MCDeclared
  Calls <- MCCalls
  ToolOf <- MCToolOf
  SchemaValid <- MCSchemaValid
  Fixtures <- MCFixtures
  Paths <- MCPaths
  Values <- MCValues
  InitialWorld <- MCInitialWorld
  Absent = "absent"
  AnyValue = "any"
  NoEffect = NoEffect
  NoFixture = NoFixture
  Unlimited = Unlimited
  MaxToolCalls = Unlimited
  MaxRetries = 0
  MaxWallTime = Unlimited
  MaxClock = 0
  MaxLog = 4
SPECIFICATION Spec
INVARIANT
  RetryBudgetExact
CHECK_DEADLOCK FALSE
