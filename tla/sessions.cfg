SPECIFICATION Spec
CONSTANTS
  Worker = {w1, w2}
  Client = {c1}
  Email = {ann, bea, cyd}
  EmailLength <- EmailLengths
  MaxGen = 2
  Unusable = Unusable
  None = None
  ann = ann
  bea = bea
  cyd = cyd
INVARIANTS LastLoginDecides LoginLasts
PROPERTY OldKeysAreGone
SYMMETRY Interchangeable
