CONSTANTS
  text = text
  image = image
  ask = ask
  hello = hello
  question = question
  again = again
  own = own
  group = group
  dm = dm
  opParty = opParty
  clientParty = clientParty
  op = op
  other = other
  NoOne = NoOne
  Deliveries <- MCDeliveries
  MsgOf <- MCMsgOf
  ChatOf <- MCChatOf
  PartyOf <- MCPartyOf
  FromOf <- MCFromOf
  Tagged <- MCTagged
  KindOf <- MCKindOf
  Groups <- MCGroups
  MembersOf <- MCMembersOf
  Unregistered = TRUE
  Ladder = 1
  MaxEpoch = 2
  Crashes = TRUE

SPECIFICATION MCSpec

INVARIANTS
  OnlyTriggersAreAnswered
  PausedIffRemoved
  AcceptedInOrder
  ClaimsAccounted
  ChainsMove

PROPERTIES
  RecoveredOnItsBot

\* Every delivery is dealt with once.
CHECK_DEADLOCK FALSE
