CONSTANTS
  LiveMsgs <- MCLiveMsgs
  PastMsgs <- MCPastMsgs
  Echoes <- MCEchoes
  MaxEpoch = 2
  MaxChunks = 0
  MaxQueue = 2

SPECIFICATION HistorySpec

PROPERTIES
  QueuedIsNotDelivered

\* Messages and chunks are bounded.
CHECK_DEADLOCK FALSE
