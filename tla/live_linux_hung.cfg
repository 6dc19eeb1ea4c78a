\* Desktop Linux: a hung application is not killed.
SPECIFICATION FairSpec
CONSTANTS
  Proc = {p1, p2}
  NoProc = NoProc
  Platform = "linux"
  OperateParameter = FALSE
  AppInstalled = TRUE
  PacketID = {1, 2, 3}
  NoPacket = NoPacket
  IdModulus = 8
  RemoteObject = {}
  Port = {port1}
  NoPort = NoPort
  BufferSize = 1
  MaxTaskkill = 2
  Faults = {"hang"}
  TimeoutCount = 2
  DestoryApp = TRUE
  ExitDestoryApp = TRUE
  MaxReStartCount = 1
PROPERTIES
  HungReplaced
