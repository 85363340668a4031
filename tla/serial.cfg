SPECIFICATION Spec
CONSTANTS
  Worker = {w1}
  Client = {c1, c2}
  Email = {ann, mid}
  Password = {p1, p2}
  UserId = {u1, u2}
  EmailLength <- EmailLengths
  Clip <- Clips
  Name = {}
  ProjectId = {}
  NoName = NoName
  NoProject = NoProject
  FaultyCalls = {"lookup", "insert", "pwhash", "sign"}
  MaxFaults = 2
  NoRow = NoRow
  NoToken = NoToken
  NoRequest = NoRequest
  ann = ann
  bob = bob
  mid = mid
  full = full
  over1 = over1
  over2 = over2
INVARIANT EmailUnique
PROPERTY ImplementsService
