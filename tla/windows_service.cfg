\* The flags MyService sets; every control at any time, starts that fail, a process that dies.
SPECIFICATION FairSpec
CONSTANTS
  Flags = {"CanBeSuspended"}
INVARIANTS
  ServiceTypeOK
  AnswersItsOwn
  ReceiverExists
  StarterPastMutex
  ScmAgrees
  StoppedUnguarded
PROPERTIES
  ImplementsServiceLife
  ControlsReturn
  StopCompletes
  StartCompletes
