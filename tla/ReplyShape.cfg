CONSTANTS
  inv = inv
  book = book
  pic = pic
  chip = chip
  old = old
  Built = Built
  Nothing = Nothing
  Artifacts <- MCArtifacts
  TypeOf <- MCTypeOf
  TitleOf <- MCTitleOf
  IdOf <- MCIdOf
  MayHold <- MCMayHold
  Turns <- MCTurns

SPECIFICATION ReplySpec

INVARIANTS
  PresentedIsDelivered
  NoInvoiceForALookbook

\* An answer is sent or dropped, and that is all.
CHECK_DEADLOCK FALSE
