SPECIFICATION FairSpec
CONSTANTS
  v1 = v1  v2 = v2  l1 = l1   a1 = a1  a2 = a2  a3 = a3  e1 = e1
  NoReset = NoReset  NoCursor = NoCursor  NoProbe = NoProbe
  AlarmTarget = v1  Threshold = "warning"  LineKind <- MCLineKind
  Lines = 2
  Targets = {v1, v2}
  Logs = {}  TargetOf <- NoLogs
  Alarms = {a1, a2, a3}  EntityType <- MCEntityType  LabelOf <- MCLabelOf
  PreviewLimit = 1
  Events = {e1}  EventSeverity <- MCEventSeverity
  MaxLines = 0
  MaxFaults = 1
  MaxAlarmChanges = 2
PROPERTIES
  ResetKeepsToItsScope
  StandingAlarmIsPaged
