\* Clicks, names refused, hangs, crashes and exits in any order.
SPECIFICATION FairSpec
CONSTANTS
  Proc = {p1, p2}
  NoProc = NoProc
  TimeoutCount = 2
  HoldsSegment = TRUE
  Names = {"livedemo", ""}
  KillTime = 2
  MaxReStartCount = 2
  Faults = {"crash", "hang", "recover", "launchFail", "exit"}
INVARIANTS
  ToolTypeOK
  GuardsWhenItSays
  OneLaunchPending
  OneApplication
PROPERTIES
  DeadRelaunched
