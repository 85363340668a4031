SPECIFICATION ProjectsSpec
CONSTANTS
  Worker = {w1}
  Client = {c1}
  Email = {ann, bob}
  Password = {p1}
  UserId = {u1, u2}
  EmailLength <- EmailLengths
  Clip <- Clips
  Name = {n1}
  ProjectId = {i1, i2}
  Key = {k1}
  FaultyCalls = {"lookup", "exists", "insert", "create", "list", "show", "keys"}
  MaxFaults = 1
  NoRow = NoRow
  NoToken = NoToken
  NoRequest = NoRequest
  NoName = NoName
  NoProject = NoProject
SYMMETRY Interchangeable
INVARIANTS ProjectsTypeOK OwnPagesOnly NamePerAddress
PROPERTY DashboardComplete
