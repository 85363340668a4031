SPECIFICATION Spec
CONSTANTS
  Worker = {w1}
  Client = {c1}
  Email = {mid}
  Password = {p1}
  UserId = {u1}
  EmailLength <- EmailLengths
  Clip <- Clips
  Name = {}
  ProjectId = {}
  NoName = NoName
  NoProject = NoProject
  FaultyCalls = {}
  MaxFaults = 0
  NoRow = NoRow
  NoToken = NoToken
  NoRequest = NoRequest
  ann = ann
  bob = bob
  mid = mid
  full = full
  over1 = over1
  over2 = over2
INVARIANT JarHoldsWholeJwt
