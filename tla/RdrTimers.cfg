SPECIFICATION FairSpec
CONSTANTS
  u1 = u1
  w1 = w1
  e1 = e1
  e2 = e2
  n1 = n1
  None = None
  Clients = {u1, w1}
  WSClients = {w1}
  Endpoints = {e1, e2}
  Names = {n1}
  MaxClients = 1
  PingTime = 0
  NoRespTime = 2
  NoRespEvery = 2
  DanglingEvery = 1
  IdleEverySecond = TRUE
  MayFail = FALSE
  Ops = {"startSession", "hsEnd", "pong"}
PROPERTIES DroppedWasPinged SilentRemoved DanglingResolved
CHECK_DEADLOCK FALSE
