SPECIFICATION Spec
CONSTANTS
  v1 = v1  v2 = v2
  Vms = {v1, v2}  Windows = {v2}  NoVm = NoVm
  Provisions <- AllProvisions
  MaxChanges = 1
INVARIANTS
  OutputIsCaptured
CHECK_DEADLOCK FALSE
