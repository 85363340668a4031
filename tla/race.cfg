SPECIFICATION Spec
CONSTANTS
  Worker = {w1, w2}
  Client = {c1}
  Email = {ann}
  Password = {p1, p2}
  UserId = {u1, u2, u3, u4}
  EmailLength <- EmailLengths
  Clip <- Clips
  Name = {}
  ProjectId = {}
  NoName = NoName
  NoProject = NoProject
  FaultyCalls = {"exists", "insert", "sign"}
  MaxFaults = 1
  NoRow = NoRow
  NoToken = NoToken
  NoRequest = NoRequest
  ann = ann
  bob = bob
  mid = mid
  full = full
  over1 = over1
  over2 = over2
SYMMETRY Interchangeable
INVARIANTS AckedIsStored DuplicatesBounded
PROPERTIES LockoutIsPermanent IdentitySettles
