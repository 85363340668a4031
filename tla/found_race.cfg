SPECIFICATION Spec
CONSTANTS
  Worker = {w1, w2}
  Client = {c1}
  Email = {ann}
  Password = {p1}
  UserId = {u1, u2}
  EmailLength <- EmailLengths
  Clip <- Clips
  Name = {}
  ProjectId = {}
  NoName = NoName
  NoProject = NoProject
  FaultyCalls = {}
  MaxFaults = 0
  NoRow = NoRow
  NoToken = NoToken
  NoRequest = NoRequest
  ann = ann
  bob = bob
  mid = mid
  full = full
  over1 = over1
  over2 = over2
INVARIANT EmailUnique
