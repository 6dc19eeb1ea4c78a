\* The settings of the ARM build: beats every 5 s, 7 of them, 60 s to start.
SPECIFICATION TimedSpec
CONSTANTS
  Proc = {p1}
  NoProc = NoProc
  Platform = "linux_arm"
  OperateParameter = TRUE
  AppInstalled = TRUE
  PacketID = {1, 2, 3, 4, 5}
  NoPacket = NoPacket
  IdModulus = 8
  RemoteObject = {}
  Port = {port1}
  NoPort = NoPort
  BufferSize = 2
  MaxTaskkill = 1
  Faults = {}
  TimeoutCount = 7
  DestoryApp = TRUE
  ExitDestoryApp = TRUE
  MaxReStartCount = 1
  HeartInterval = 5
  AppStartupTime = 60
  StartupTime = 60
  ReplyTime = 1
  KillTime = 2
  MaxAge = 61
PROPERTIES
  StartupTimeRespected
