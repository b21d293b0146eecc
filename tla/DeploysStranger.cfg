SPECIFICATION Spec
CONSTANTS
  v1 = v1  v2 = v2  v3 = v3  a = a  b = b
  Vms = {v1, v2, v3}  Names = {a, b}  NoName = NoName  NoVm = NoVm
  Calls <- AllCalls
  Rules <- AllRules
  MaxChanges = 2
SYMMETRY Sym
INVARIANTS
  FollowUpsStayOnTheirVm
CHECK_DEADLOCK FALSE
