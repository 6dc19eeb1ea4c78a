\* One start or stop at a time, services that are killed.
SPECIFICATION FairSpec
CONSTANTS
  Client = {c1, c2, c3}
  Service = {s1, s2, s3, s4}
  Nobody = Nobody
  Stale = Stale
  Patient = TRUE
  Killable = {"up", "leaving", "closed"}
INVARIANTS
  ControlTypeOK
  OneService
  Reachable
PROPERTIES
  StopsAll
  StartsServed
