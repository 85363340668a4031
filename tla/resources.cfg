SPECIFICATION Spec
CONSTANTS
  Worker = {w1, w2}
  Op <- SomeOps
  Object = {1, 2, 3, 4}
  None = None
INVARIANTS PointersSound SessionsBounded OnlyKnownLeaks
PROPERTY Answered
