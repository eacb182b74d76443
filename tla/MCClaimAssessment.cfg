\* Two messages; up to three calls before one claim, and three sentences around
\* two calls or about one.
CONSTANTS
  Addresses <- MCAddresses
  MessageIds <- MCMessageIds
  ThreadIds = {}
  DraftIds = {}
  MessageOf <- MCMessageOf
  Conversations <- MCConversations
SPECIFICATION ClaimSpec
INVARIANTS
  VerdictsAreEarned
  WithdrawalsHitTheirTarget
PROPERTIES
  HindsightIsBlind
\* A run ends.
CHECK_DEADLOCK FALSE
