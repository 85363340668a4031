SPECIFICATION ProjectsSpec
CONSTANTS
  Worker = {w1}
  Client = {c1}
  Email = {ann}
  Password = {p1}
  UserId = {u1}
  EmailLength <- EmailLengths
  Clip <- Clips
  Name = {n1}
  ProjectId = {i1}
  Key = {k1, k2}
  FaultyCalls = {}
  MaxFaults = 0
  NoRow = NoRow
  NoToken = NoToken
  NoRequest = NoRequest
  NoName = NoName
  NoProject = NoProject
INVARIANT KeysPageListsKeys
