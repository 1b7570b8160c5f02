CONSTANTS
  LiveMsgs <- MCLiveMsgs
  PastMsgs <- MCPastMsgs
  Echoes <- MCEchoes
  MaxEpoch = 3
  MaxChunks = 2
  MaxQueue = 1

SPECIFICATION FairHistorySpec

INVARIANTS
  PostedOnce
  HistoryFirst
  OldestFirstPosted

PROPERTIES
  WaitIsBounded
  CapturedHasItsTurn

\* Messages and chunks are bounded.
CHECK_DEADLOCK FALSE
