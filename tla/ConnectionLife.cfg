CONSTANTS
  n1 = n1
  n2 = n2
  s1 = s1
  s2 = s2
  s3 = s3
  NoNumber = NoNumber
  NoSlot = NoSlot
  Numbers <- MCNumbers
  Slots <- MCSlots
  MaxLinkAttempts = 3
  MaxRejections = 2
  MaxRequests = 2
  MaxReboots = 1

SPECIFICATION FairSpec

INVARIANTS
  OneConnector
  LinkedIsResumable

PROPERTIES
  ComesBack

\* An unlinked connection waits for its operator.
CHECK_DEADLOCK FALSE
