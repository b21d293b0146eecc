SPECIFICATION StoreSpec
CONSTANTS
  c1 = c1  c2 = c2  c3 = c3  server = server  daemon = daemon
  Callers = {c1, c2, c3}
  Procs = {server, daemon}
  ProcOf <- ServerAndDaemon
  Nobody = Nobody
  VmNames = {vm1, vm2}
  Entries = {e1}
  NoTtl = NoTtl  NoUpdate = NoUpdate
  Torn = Torn  ReadsCanFail = TRUE
PROPERTIES
  OthersAreKept
