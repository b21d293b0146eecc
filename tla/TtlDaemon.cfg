SPECIFICATION FairSpec
CONSTANTS
  Names = {vm1}
  Uuids = {u1, u2}
  Unborn = Unborn  Gone = Gone
  Grants = {g1, g2}
  NoEntry = NoEntry  NoUuid = NoUuid  NoName = NoName
  MaxFaults = 1
  MaxMeddling = 2
INVARIANTS
  TypeOK
  DeletesItsVmUnlessSwapped
  WithdrawnInTimeIsSafe
  FailuresKeepTheEntry
  OutcomesAreRecorded
PROPERTIES
  ExpiredIsHandled
