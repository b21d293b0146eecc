SPECIFICATION MCSpec
CONSTANTS
  i1 = i1  i2 = i2  vm1 = vm1
  Ids = {i1, i2}  Names = {vm1}
  Unborn = Unborn  Gone = Gone  NoId = NoId  NoAck = NoAck
  MaxSnaps = 1  MaxChanges = 1
  Fits = {TRUE}
  Plans <- AllPlans
  Rules <- AllRules
SYMMETRY Sym
INVARIANTS
  TypeOK
  PreviewTellsTheTruth
  DoomedRunsNothing
  DeniedIsNotDone
CHECK_DEADLOCK FALSE
