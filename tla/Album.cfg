CONSTANTS
  p1 = p1
  p2 = p2
  t = t
  g = g
  h = h
  u = u
  other = other
  dm = dm
  group = group
  sender = sender
  None = None
  Turns <- MCTurns
  Chats <- MCChats
  ChatOf <- MCChatOf
  Parties <- MCParties
  PartyOf <- MCPartyOf
  Photos <- MCPhotos
  MaxFiles = 3
  TextQuiet = 1
  PhotoQuiet = 2
  Crashes = TRUE

SPECIFICATION MCSpec

INVARIANTS
  AnsweredOnce
  TextIsPostedOnce
  RejectedIsKept
  BytesWithTheirAsk

PROPERTIES
  AlbumStaysWhole
  EverythingSettles

\* Every message arrives once.
CHECK_DEADLOCK FALSE
