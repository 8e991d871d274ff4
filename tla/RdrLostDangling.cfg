SPECIFICATION Spec
CONSTANTS
  u1 = u1
  u2 = u2
  e1 = e1
  e2 = e2
  n1 = n1
  None = None
  Clients = {u1, u2}
  WSClients = {}
  Endpoints = {e1, e2}
  Names = {n1}
  MaxClients = 2
  PingTime = 0
  NoRespTime = 1
  NoRespEvery = 2
  DanglingEvery = 1
  IdleEverySecond = FALSE
  MayFail = FALSE
  Ops = {"startSession"}
INVARIANT DanglingHoldsAuthing
CHECK_DEADLOCK FALSE
