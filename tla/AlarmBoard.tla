----------------------------- MODULE AlarmBoard -----------------------------
(***************************************************************************)
(* The triggered alarms of one vCenter, and the two tools that change them.*)
(*                                                                         *)
(* vSphere has no call that clears one alarm.  reset_vcenter_alarm clears  *)
(* every triggered alarm that matches a filter: the status of the named    *)
(* alarm and the type of its entity.  The call reads the named alarm, then *)
(* the alarms its filter matches, and must then clear by the filter it     *)
(* measured, although the named alarm may have changed colour meanwhile.   *)
(***************************************************************************)
EXTENDS FiniteSets, Integers

CONSTANTS
  Alarms,           \* pairs of an alarm definition and an entity
  EntityType,       \* [Alarms -> Kinds]
  PreviewLimit,     \* how many alarms the radius lists at most (50)
  NoReset,          \* no reset call is in progress
  MaxAlarmChanges   \* bound: how often vCenter changes an alarm

VARIABLES
  status,     \* [Alarms -> {"clear", "yellow", "red"}]
  acked,      \* the acknowledged alarms
  reset,      \* the confirmed reset call from its look-up to its clear
  moved,      \* history: the alarms that changed since it read them
  changes     \* how often vCenter changed an alarm (bounded)

alarmVars == <<status, acked, reset, moved, changes>>

Triggered == {a \in Alarms : status[a] # "clear"}

Kinds == {"host", "vm", "other"}

\* The named alarm, the filter, and once it is measured the radius: the alarms
\* counted and those of them that are listed.
ResetCall == [alarm : Alarms, status : {"yellow", "red"}, types : SUBSET Kinds,
              measured : BOOLEAN, will : SUBSET Alarms, listed : SUBSET Alarms]

ASSUME AlarmAssumption ==
  /\ EntityType \in [Alarms -> Kinds] /\ PreviewLimit \in Nat
  /\ NoReset \notin ResetCall /\ MaxAlarmChanges \in Nat

AlarmTypeOK ==
  /\ status \in [Alarms -> {"clear", "yellow", "red"}]
  /\ acked \subseteq Triggered
  /\ reset \in ResetCall \cup {NoReset}
  /\ moved \subseteq Alarms
  /\ changes \in 0..MaxAlarmChanges

AlarmInit ==
  /\ status = [a \in Alarms |-> "clear"]
  /\ acked = {} /\ reset = NoReset /\ moved = {} /\ changes = 0

-----------------------------------------------------------------------------
(* vCenter triggers, escalates or clears an alarm by itself.               *)
AlarmChanges(a) ==
  /\ changes < MaxAlarmChanges
  /\ \E s \in {"clear", "yellow", "red"} \ {status[a]} :
       status' = [status EXCEPT ![a] = s]
  /\ acked' = acked \ {a}
  /\ moved' = IF reset # NoReset /\ reset.measured THEN moved \cup {a} ELSE moved
  /\ changes' = changes + 1
  /\ UNCHANGED reset

\* _find_triggered_alarm, then AcknowledgeAlarm.
Acknowledge(a) ==
  /\ a \in Triggered
  /\ acked' = acked \cup {a}
  /\ UNCHANGED <<status, reset, moved, changes>>

-----------------------------------------------------------------------------
(* reset_vcenter_alarm                                                     *)

Matching(s, types) == {b \in Triggered : status[b] = s /\ EntityType[b] \in types}

\* _find_triggered_alarm and _clear_filter: host and VM alarms are cleared with
\* their own kind.  The entity named may also be one that holds the alarm's, such
\* as its cluster; its filter is that of any other entity, the alarms of every kind.
FindAlarm(a) ==
  /\ reset = NoReset
  /\ a \in Triggered
  /\ \E types \in {{EntityType[a]} \cap {"host", "vm"}, Kinds} \ {{}} :
       reset' = [alarm |-> a, status |-> status[a], types |-> types,
                 measured |-> FALSE, will |-> {}, listed |-> {}]
  /\ UNCHANGED <<status, acked, moved, changes>>

\* The root folder's alarms are read after that; the first ones are listed.
MeasureReset ==
  /\ reset # NoReset /\ ~reset.measured
  /\ LET will == Matching(reset.status, reset.types)
     IN  \E listed \in SUBSET will :
           /\ IF Cardinality(will) > PreviewLimit
              THEN Cardinality(listed) = PreviewLimit ELSE listed = will
           /\ reset' = [reset EXCEPT !.measured = TRUE, !.will = will, !.listed = listed]
  /\ UNCHANGED <<status, acked, moved, changes>>

\* Fault: the filter is made again from what the named alarm is by now.
ScopeByNow == IF reset.alarm \in Triggered
              THEN Matching(status[reset.alarm], reset.types) ELSE {}

\* The alarms the filter of the measured radius matches by now.
ResetScope == Matching(reset.status, reset.types)

ResetAlarm ==
  /\ reset # NoReset /\ reset.measured
  /\ status' = [b \in Alarms |-> IF b \in ResetScope THEN "clear" ELSE status[b]]
  /\ acked' = acked \ ResetScope
  /\ reset' = NoReset
  /\ moved' = {}
  /\ UNCHANGED changes

\* The radius is unreadable and the call refuses, or the clear raises: the session
\* dropped, or the account lacks the privilege.
ResetFails ==
  /\ reset # NoReset
  /\ reset' = NoReset /\ moved' = {}
  /\ UNCHANGED <<status, acked, changes>>

AlarmNext ==
  \/ \E a \in Alarms : AlarmChanges(a) \/ Acknowledge(a) \/ FindAlarm(a)
  \/ MeasureReset \/ ResetAlarm \/ ResetFails
=============================================================================
