SPECIFICATION Spec
CONSTANTS
  Names = {vm1}
  Uuids = {u1, u2}
  Unborn = Unborn  Gone = Gone
  Grants = {g1, g2}
  NoEntry = NoEntry  NoUuid = NoUuid  NoName = NoName
  MaxFaults = 0
  MaxMeddling = 2
INVARIANTS
  RowIsOfTheVm
