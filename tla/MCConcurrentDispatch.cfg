\* Two responses of two or three calls, two tasks at a time.  Some repeat a
\* call id, some hold calls the adapter refuses itself.
CONSTANTS
  ToolNames <- MCToolNames
  Declared <- MCDeclared
  Calls <- MCCalls
  ToolOf <- MCToolOf
  SchemaValid <- MCSchemaValid
  Fixtures <- MCFixtures
  Paths <- MCPaths
  Values <- MCValues
  InitialWorld <- MCInitialWorld
  Absent = "absent"
  AnyValue = "any"
  NoEffect = NoEffect
  NoFixture = NoFixture
  Unlimited = Unlimited
  MaxToolCalls = 5
  MaxRetries = 1
  MaxWallTime = 2
  MaxClock = 1
  CallIds = {"id1", "id2", "id3"}
  Responses <- AllBatches
  MaxConcurrency = 2
  MaxResponses = 2
  MaxBatch = 3
SPECIFICATION FairSpec
INVARIANTS
  CommitsInDecisionOrder
  SingleUseFixtures
  AnswersMatchCalls
PROPERTIES
  SerialEquivalence
  DispatchCompletes
\* The run may have ended, or its tasks wait for a rank nobody holds.
CHECK_DEADLOCK FALSE
