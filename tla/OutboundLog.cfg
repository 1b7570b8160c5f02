CONSTANTS
  a1 = a1
  a2 = a2
  a3 = a3
  b1 = b1
  k1 = k1
  k2 = k2
  NoToken = NoToken
  Attempts <- MCAttempts
  Keys <- MCKeys
  KeyOf <- MCKeyOf
  StalePending = 1
  MaxTime = 4
  Crashes = TRUE

SPECIFICATION Spec

SYMMETRY MCSymmetry

INVARIANTS
  RowTellsTheTruth
  SendsAreStaleApart

PROPERTIES
  ImplementsLease

\* Every attempt ends and the clock is bounded.
CHECK_DEADLOCK FALSE
