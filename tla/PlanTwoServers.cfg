SPECIFICATION Spec
CONSTANTS
  n1 = n1  n2 = n2  p1 = p1
  c1 = c1  r1 = r1  r2 = r2
  Names = {n1, n2}
  Uuids = {u1, u2}
  Unborn = Unborn  Gone = Gone
  NoCall = NoCall  NoPlan = NoPlan  NoUuid = NoUuid
  Plans = {p1}
  Calls = {c1, c2}
  N = 2
  Ops <- PowerOnCreate
  Procs = {r1, r2}
  ProcOf <- TwoServers
  Crashes = FALSE  Outsiders = TRUE
INVARIANTS
  NoStepRunsTwice
