CONSTANTS
  t1 = t1
  t2 = t2
  shopper = shopper
  pa = pa
  ines = ines
  NoToken = NoToken
  Turns <- MCTurns
  Identities <- MCIdentities
  IdentityOf <- MCIdentityOf
  ShopperOf <- MCShopperOf
  MaxRetries = 1
  Timeout = 1
  ResponseMax = 1
  MaxVersion <- MCMaxVersion
  MaxFiles <- MCMaxFiles

SPECIFICATION FairSpec

INVARIANTS
  AttributedToItsAccount
  RepeatsFollowLosses

PROPERTIES
  TurnsEnd
