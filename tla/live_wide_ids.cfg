\* The identifiers of a clock of today do not fit in 32 bits.
SPECIFICATION HistorySpec
CONSTANTS
  Proc = {p1}
  NoProc = NoProc
  Platform = "windows"
  OperateParameter = FALSE
  AppInstalled = TRUE
  PacketID = {8, 9, 10, 11, 12}
  NoPacket = NoPacket
  IdModulus = 8
  RemoteObject = {}
  Port = {port1}
  NoPort = NoPort
  BufferSize = 2
  MaxTaskkill = 2
  Faults = {}
  TimeoutCount = 2
  DestoryApp = TRUE
  ExitDestoryApp = TRUE
  MaxReStartCount = 1
PROPERTIES
  KillNeedsSilence
