\* Windows in seconds: hangs that end or not, crashes, starts of any length up to past the patience.
SPECIFICATION TimedSpec
CONSTANTS
  Proc = {p1}
  NoProc = NoProc
  Platform = "windows"
  OperateParameter = FALSE
  AppInstalled = TRUE
  PacketID = {1, 2, 3, 4, 5, 6, 7}
  NoPacket = NoPacket
  IdModulus = 8
  RemoteObject = {}
  Port = {port1}
  NoPort = NoPort
  BufferSize = 3
  MaxTaskkill = 1
  Faults = {"crash", "hang", "recover"}
  TimeoutCount = 4
  DestoryApp = TRUE
  ExitDestoryApp = TRUE
  MaxReStartCount = 1
  HeartInterval = 4
  AppStartupTime = 6
  StartupTime = 21
  ReplyTime = 3
  KillTime = 2
  MaxAge = 24
INVARIANTS
  HungBounded
  DownBounded
PROPERTIES
  HealthySpared
  StartGetsPatience
  LaunchAfterKill
