\* Linux on ARM, remote pause and resume while the guardian replaces a hung application.
SPECIFICATION HistorySpec
CONSTANTS
  Proc = {p1}
  NoProc = NoProc
  Platform = "linux_arm"
  OperateParameter = TRUE
  AppInstalled = TRUE
  PacketID = {1, 2, 3, 4, 5}
  NoPacket = NoPacket
  IdModulus = 8
  RemoteObject = {"pause", "restart"}
  Port = {port1}
  NoPort = NoPort
  BufferSize = 2
  MaxTaskkill = 2
  Faults = {"hang", "recover"}
  TimeoutCount = 2
  DestoryApp = TRUE
  ExitDestoryApp = TRUE
  MaxReStartCount = 1
INVARIANTS
  MirrorAgrees
