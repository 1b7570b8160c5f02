CONSTANTS
  d1 = d1
  d2 = d2
  e1 = e1
  g1 = g1
  g2 = g2
  kd = kd
  ke = ke
  kg = kg
  kh = kh
  dm = dm
  group = group
  op = op
  NoToken = NoToken
  Attempts <- MCAttempts
  Keys <- MCKeys
  Chats <- MCChats
  Groups <- MCGroups
  KeyOf <- MCKeyOf
  ChatOf <- MCChatOf
  OperatorOf <- MCOperatorOf
  StalePending = 1
  ResponseMax = 1
  Window = 1
  MaxTime = 2
  MaxExtras = 1
  Crashes = TRUE
  Ambiguous = TRUE

SPECIFICATION MCSpec

INVARIANTS
  RecordsTellTheTruth

PROPERTIES
  ImplementsOutboundLog
  SendsOnlyWhereMember
  ClaimsResolve

CHECK_DEADLOCK FALSE
