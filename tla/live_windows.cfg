\* Windows: every fault of the application and of the service, late answers, a new port.
SPECIFICATION HistorySpec
CONSTANTS
  Proc = {p1, p2}
  NoProc = NoProc
  Platform = "windows"
  OperateParameter = FALSE
  AppInstalled = TRUE
  PacketID = {2, 3, 4, 8, 12}
  NoPacket = NoPacket
  IdModulus = 4
  RemoteObject = {}
  Port = {port1, port2}
  NoPort = NoPort
  BufferSize = 2
  MaxTaskkill = 2
  Faults = {"crash", "hang", "recover", "launchFail", "killFail", "serviceCrash", "controller"}
  TimeoutCount = 2
  DestoryApp = TRUE
  ExitDestoryApp = TRUE
  MaxReStartCount = 2
SYMMETRY Symmetry
INVARIANTS
  HistoryTypeOK
  OneActivity
  AtMostOneInstance
PROPERTIES
  RestartsRecorded
  GivenUpUnheard
  StaleReplyNeverCounts
