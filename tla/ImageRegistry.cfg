SPECIFICATION Spec
CONSTANTS
  c1 = c1  c2 = c2  p1 = p1  p2 = p2  v1 = v1  v2 = v2  i1 = i1  i2 = i2
  Nobody = Nobody  Legacy = Legacy  Unreadable = Unreadable  NoScan = NoScan
  Callers = {c1, c2}  Procs = {p1, p2}  ProcOf <- MCProcOf
  Targets = {v1, v2}
  Datastores = {d1}
  Images = {i1, i2}
  MaxChanges = 3
  MaxFaults = 1
SYMMETRY Sym
INVARIANTS
  TypeOK
  OneBrowsePerDatastore
PROPERTIES
  OnlyTheBrowsedIsReplaced
