SPECIFICATION AdapterRunSpec
CONSTANTS
  Unknown = Unknown
  Adapters = {"openai", "pydantic", "custom"}
  MaxTurns = 3
  MaxToolCalls = 2
  MaxFollowups = 1
  MaxStageCalls = 2
  Calls <- MCCalls
  AgentCalls <- MCAgentCalls
  Usages <- MCUsages
  TokenLimit = 2
  CostLimit = 1
  WallClock = 1
  Latencies = {1, 2}
  ToolNames <- MCToolNames
INVARIANTS
  CompletedRunsAreWhole
  DecisionVerdictsAreTrue
  RetriesAreFound
  BudgetVerdictsAgree
