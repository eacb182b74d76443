\* One call of each operation, two versions of the target's source.
CONSTANTS
  Sources = {"v1", "v2"}
  NoExpectation = "none"
SPECIFICATION FairSpec
INVARIANTS
  ValueIsOfExpectedTarget
  NothingSurvives
  FailureNamesItsPhase
PROPERTY
  CallReturns
\* The call has returned.
CHECK_DEADLOCK FALSE
