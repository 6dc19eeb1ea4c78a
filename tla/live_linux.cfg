\* Desktop Linux, both kinds of pause, a user who launches, launches that fail: Watchdog is implemented, a dead application launched again.
SPECIFICATION FairSpec
CONSTANTS
  Proc = {p1, p2}
  NoProc = NoProc
  Platform = "linux"
  OperateParameter = TRUE
  AppInstalled = TRUE
  PacketID = {1, 2, 3}
  NoPacket = NoPacket
  IdModulus = 8
  RemoteObject = {"pause", "start"}
  Port = {port1}
  NoPort = NoPort
  BufferSize = 1
  MaxTaskkill = 1
  Faults = {"open", "crash", "hang", "launchFail", "serviceCrash", "controller"}
  TimeoutCount = 2
  DestoryApp = TRUE
  ExitDestoryApp = FALSE
  MaxReStartCount = 2
PROPERTIES
  ImplementsFairWatchdog
  DeadRelaunched
  WatchResumes
