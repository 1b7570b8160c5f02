CONSTANTS
  r1 = r1
  w1 = w1
  w2 = w2
  Routes <- MCRoutes
  Warmups <- MCWarmups
  MaxRoster = 3
  MaxWire = 3
  MaxRestarts = 1

SPECIFICATION Spec

INVARIANTS
  CacheIsCurrent
  AnswersAreCurrent

PROPERTIES
  OwnerIsOfThisStay

\* The rosters are bounded.
CHECK_DEADLOCK FALSE
