CONSTANTS
  s1 = s1
  s2 = s2
  s3 = s3
  s4 = s4
  t1 = t1
  t2 = t2
  one = one
  two = two
  group = group
  client = client
  NoSend = NoSend
  Sends <- Neighbours
  ConnOf <- MCConnOf
  ChatOf <- MCChatOf
  Reactions <- MCReactions
  PaReplies <- MCPaReplies
  MaxPending = 2
  Burst = 1
  Period = 2
  MaxTime = 2
  Live <- Second

SPECIFICATION FairSpec

INVARIANTS
  EldestRuns
  PendingIsBacklog
  RateWhileBusy

PROPERTIES
  ImplementsLanes
  AcceptedSettles

\* Every send is made once.
CHECK_DEADLOCK FALSE
