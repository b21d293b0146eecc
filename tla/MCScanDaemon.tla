---------------------------- MODULE MCScanDaemon ----------------------------
EXTENDS ScanDaemon, TLC

CONSTANTS l1, a1, a2, a3, v1, v2, e1

NoLogs          == [l \in {} |-> v1]
NoAlarms        == [a \in {} |-> "host"]
NoEvents        == [e \in {} |-> "info"]
MCTargetOf      == (l1 :> v2)
MCEntityType    == (a1 :> "vm") @@ (a2 :> "vm") @@ (a3 :> "other")
MCLabelOf       == (a1 :> "twin") @@ (a2 :> "twin") @@ (a3 :> "single")
MCEventSeverity == (e1 :> "warning")

\* The first line matches no pattern; every third is critical.
MCLineKind == [n \in 1..MaxLines |-> IF n % 3 = 0 THEN "critical"
                                     ELSE IF n = 1 THEN "quiet" ELSE "warning"]
=============================================================================
