SPECIFICATION Spec
CONSTANTS
  u1 = u1  u2 = u2  s1 = s1  s2 = s2  h1 = h1  h2 = h2
  Names = {vm1}  Uuids = {u1, u2}  Unborn = Unborn  Gone = Gone
  Snaps = {s1, s2}  SnapNames = {base}
  Hosts = {h1, h2}
  Root = Root  NoUuid = NoUuid  NoSnap = NoSnap  NoHost = NoHost  NoAck = NoAck  NoCall = NoCall
  MaxTasks = 1
  MaxChanges = 4
SYMMETRY Sym
INVARIANT UndoOnlyOfOwn
