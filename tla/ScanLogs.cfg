SPECIFICATION Spec
CONSTANTS
  v1 = v1  v2 = v2  l1 = l1   a1 = a1  a2 = a2  a3 = a3  e1 = e1
  NoReset = NoReset  NoCursor = NoCursor  NoProbe = NoProbe
  AlarmTarget = v1  Threshold = "warning"  LineKind <- MCLineKind
  Lines = 2
  Targets = {v1, v2}
  Logs = {l1}  TargetOf <- MCTargetOf
  Alarms = {}  EntityType <- NoAlarms  LabelOf <- NoAlarms
  PreviewLimit = 1
  Events = {}  EventSeverity <- NoEvents
  MaxLines = 4
  MaxFaults = 2
  MaxAlarmChanges = 0
INVARIANTS
  TypeOK
  OnceAndNeverSilentlyLost
  AllClearIsTrue
