SPECIFICATION Spec
CONSTANTS
  A = A
  B = B
  C = C
  Other = Other
  Junk = Junk
  Keys = {A, B, C, Other}
  MaxDistinct = 2
  MaxInt = 3
  MaxAttempts = 4
  Claims <- MCClaims
  Lowest <- MCLowest
  Highest <- MCHighest
CHECK_DEADLOCK FALSE
INVARIANT KeysAreBounded
INVARIANT GateIsTheRange
