SPECIFICATION Spec
CONSTANTS
  u1 = u1
  w1 = w1
  e1 = e1
  e2 = e2
  e3 = e3
  n1 = n1
  None = None
  Clients = {u1, w1}
  WSClients = {w1}
  Endpoints = {e1, e2, e3}
  Names = {n1}
  MaxClients = 1
  PingTime = 0
  NoRespTime = 1
  NoRespEvery = 3
  DanglingEvery = 2
  IdleEverySecond = FALSE
  MayFail = TRUE
  Ops = {"startSession", "endSession", "window", "unknown", "event", "garbage", "pong", "close", "hsPart", "hsEnd", "hsBad"}
SYMMETRY Symmetry
INVARIANTS TypeOK PointersSound TablesAgree CountsRight ShutdownClean
CHECK_DEADLOCK FALSE
PROPERTY RegistrySpec
