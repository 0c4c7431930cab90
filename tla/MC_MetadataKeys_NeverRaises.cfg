CONSTANTS
  acceleration = acceleration
  other = other
  int = int
  float = float
  double = double
  Names <- MCNames
  TypeNames <- MCTypeNames
  MaxEntries = 4
SPECIFICATION Spec
INVARIANT NeverRaises
CHECK_DEADLOCK FALSE
