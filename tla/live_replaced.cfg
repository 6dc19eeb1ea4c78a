\* Windows, two processes, two ports: what must eventually happen to an application that hangs or ends.
SPECIFICATION FairSpec
CONSTANTS
  Proc = {p1, p2}
  NoProc = NoProc
  Platform = "windows"
  OperateParameter = FALSE
  AppInstalled = TRUE
  PacketID = {1, 2, 3}
  NoPacket = NoPacket
  IdModulus = 8
  RemoteObject = {"pause"}
  Port = {port1, port2}
  NoPort = NoPort
  BufferSize = 1
  MaxTaskkill = 1
  Faults = {"crash", "hang", "recover", "launchFail", "serviceCrash"}
  TimeoutCount = 2
  DestoryApp = TRUE
  ExitDestoryApp = TRUE
  MaxReStartCount = 1
PROPERTIES
  HungReplaced
  DeadRelaunched
  AddressLearned
