CONSTANTS
  acceleration = acceleration
  other = other
  int = int
  float = float
  double = double
  Names <- MCNames
  TypeNames <- MCTypeNames
  MaxEntries = 4
SPECIFICATION Spec
INVARIANT TypeOK
INVARIANT NoEntryLost
INVARIANT KeysFollowRules
CHECK_DEADLOCK FALSE
