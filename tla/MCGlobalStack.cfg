CONSTANTS
  Blocks = {a1, a2, a3, a4, a5, a6}
  Singular = Singular
  Mins <- MCMins
  MaxCount = 2
SPECIFICATION Spec
INVARIANTS TypeOK MarkersConsistent BlockBucketsExact ColdMisses
PROPERTY CountsReuseDistances
CHECK_DEADLOCK FALSE
