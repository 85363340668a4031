SPECIFICATION Spec
CONSTANTS
  Worker = {w1}
  Client = {c1}
  Email = {ann, mid, full, over1, over2}
  Password = {p1, p2}
  UserId = {u1, u2}
  EmailLength <- EmailLengths
  Clip <- Clips
  Name = {}
  ProjectId = {}
  NoName = NoName
  NoProject = NoProject
  FaultyCalls = {"lookup", "exists", "insert", "pwhash", "sign"}
  MaxFaults = 1
  NoRow = NoRow
  NoToken = NoToken
  NoRequest = NoRequest
  ann = ann
  bob = bob
  mid = mid
  full = full
  over1 = over1
  over2 = over2
SYMMETRY Interchangeable
INVARIANTS TypeOK TokensBacked AckedIsStored
