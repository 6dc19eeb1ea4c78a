\* One client starts the service twice, or stops and starts it, in a row.
SPECIFICATION FairSpec
CONSTANTS
  Client = {c1}
  Service = {s1, s2, s3}
  Nobody = Nobody
  Stale = Stale
  Patient = FALSE
  Killable = {}
CHECK_DEADLOCK FALSE
INVARIANTS
  OneService
