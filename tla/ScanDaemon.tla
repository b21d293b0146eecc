----------------------------- MODULE ScanDaemon -----------------------------
(***************************************************************************)
(* The scan cycle of the daemon (scanner/scheduler.py, log_scanner.py,     *)
(* alarm_scanner.py): for each target the triggered alarms, the recent     *)
(* events and the new lines of the host logs; then every issue is written  *)
(* to the scan log and the ones that page go to the webhook.               *)
(*                                                                         *)
(* A host log is a file of numbered lines.  vCenter tells its length and   *)
(* returns lines by number; when the log rotates the numbers start again   *)
(* at 1.  The daemon keeps one number per log, the last line it read, in   *)
(* memory.  A line is named here by its place among all the lines ever     *)
(* written to its log: the file holds the lines base+1 .. written.         *)
(***************************************************************************)
EXTENDS AlarmBoard

CONSTANTS
  Targets,      \* the vCenters and hosts of the configuration
  Logs,         \* (host, log key) pairs
  TargetOf,     \* [Logs -> Targets]
  AlarmTarget,  \* the target whose alarms are modelled
  LabelOf,      \* the names of an alarm and of its entity, which others may have too
  Lines,        \* how many lines one read returns at most (500)
  LineKind,     \* the severity of each line; "quiet" matches no pattern
  Events,       \* events a target may have
  EventSeverity, Threshold,
  NoCursor,     \* the log has no position yet
  NoProbe,      \* no read is in progress
  MaxLines,     \* bound: lines written to one log
  MaxFaults     \* bound: failures and crashes

Severities == {"critical", "warning", "info"}
Rank(s) == CASE s = "critical" -> 0 [] s = "warning" -> 1 [] OTHER -> 2

ASSUME ScanAssumption ==
  /\ TargetOf \in [Logs -> Targets] /\ AlarmTarget \in Targets
  /\ Lines \in Nat \ {0} /\ MaxLines \in Nat /\ MaxFaults \in Nat
  /\ LineKind \in [1..MaxLines -> {"critical", "warning", "quiet"}]
  /\ EventSeverity \in [Events -> Severities] /\ Threshold \in Severities
  /\ NoCursor \notin Nat
  /\ NoProbe \notin [log : Logs, window : [start : Nat, count : Nat, skipped : BOOLEAN],
                     total : Nat, base : Nat]

VARIABLES
  written, base,   \* [Logs -> Nat]: the lines ever written; those rotated away
  recent,          \* the events within lookback_hours
  stage,           \* what the daemon is doing
  first,           \* it is in the cycle start_scheduler runs itself
  pending, target, \* targets still to scan; the one being scanned
  toRead, probe,   \* logs still to read; the read between probe and browse
  pass,            \* the host log pass: rows found and positions reached
  cursors,         \* HostLogCursors: [Logs -> Nat \cup {NoCursor}]
  issues, failed,  \* of this cycle
  faults

VARIABLES          \* history, for the properties
  posBase,         \* the rotation each cursor was taken in
  passed,          \* the last line each cursor stands behind
  logged,          \* lines this daemon run wrote to the scan log
  again,           \* lines it wrote a second time
  owned,           \* lines a skip row or the first read's tail leaves out
  dropped,         \* lines of a cycle that failed, and was audited as an error
  blind,           \* lines lost to a rotation the line count cannot show
  readNow,         \* logs read in this cycle
  summary,         \* the last cycle's summary line
  alarmsPaged      \* the names of the alarms in the last webhook call that went through

envVars  == <<written, base, recent>>
runVars  == <<stage, first, pending, target, toRead, probe, pass, cursors, issues, failed>>
histVars == <<posBase, passed, logged, again, owned, dropped, blind, readNow, summary, alarmsPaged>>
vars == <<alarmVars, envVars, runVars, histVars, faults>>

LineIds == Logs \X (1..MaxLines)

\* Fault: every host's logs are read through every target.
AllLogs(t) == Logs

LogsOf(t) == {l \in Logs : TargetOf[l] = t}
Total(l)  == written[l] - base[l]
UpTo(l, n) == {l} \X (1..n)

-----------------------------------------------------------------------------
(* The rows of the passes and where they go                                *)

LineRow(l, n) == [source |-> "host_log", severity |-> LineKind[n], log |-> l, line |-> n]
SkipRow(l, n) == [source |-> "host_log:skipped", severity |-> "info", log |-> l, until |-> n]
UnreadRow(l)  == [source |-> "host_log:unavailable", severity |-> "info", log |-> l]
ConnectRow(t) == [source |-> "connection", severity |-> "critical", to |-> t]
EventRow(e)   == [source |-> "event", severity |-> EventSeverity[e], event |-> e]

AlarmRow(a)   == [source |-> "alarm", label |-> LabelOf[a],
                  severity |-> IF status[a] = "red" THEN "critical" ELSE "warning"]

\* get_active_alarms: of triggered alarms with the same names, the first one read.
ActiveAlarms == {rows \in SUBSET Triggered :
                   /\ \A a \in Triggered : \E b \in rows : LabelOf[b] = LabelOf[a]
                   /\ \A a, b \in rows : LabelOf[a] = LabelOf[b] => a = b}

\* Fault: the filter is the wrong way round.
AcknowledgedAlarms(rows) == {AlarmRow(a) : a \in rows \cap acked}

\* scan_alarms: then what is acknowledged is not reported.
AlarmIssues(rows) == {AlarmRow(a) : a \in rows \ acked}

\* Fault: a log that cannot be read leaves no row.
NoRow(l) == {}

ReadFailure(l) == {UnreadRow(l)}

Pages(r) == \/ r.severity = "critical"
            \/ r.severity = "warning" /\ r.source # "host_log"

LinesOf(rows)   == {<<r.log, r.line>> : r \in {x \in rows : x.source = "host_log"}}
SkippedBy(rows) == UNION {UpTo(r.log, r.until) : r \in {x \in rows : x.source = "host_log:skipped"}}
AlarmsOf(rows)  == {r.label : r \in {x \in rows : x.source = "alarm"}}

EmptyPass == [rows |-> {}, position |-> [l \in Logs |-> NoCursor],
              rotation |-> [l \in Logs |-> 0], behind |-> [l \in Logs |-> 0],
              tail |-> {}, unseen |-> {}]

\* The pass over the logs goes on from where the cursors stand.
NewPass == [rows |-> {}, position |-> cursors, rotation |-> posBase, behind |-> passed,
            tail |-> {}, unseen |-> {}]

\* A new process: no cursors, and scan the targets once before the scheduler.
Fresh ==
  /\ stage' = "idle" /\ first' = TRUE
  /\ pending' = {} /\ target' = AlarmTarget /\ toRead' = {} /\ probe' = NoProbe
  /\ pass' = EmptyPass /\ cursors' = [l \in Logs |-> NoCursor]
  /\ issues' = {} /\ failed' = FALSE
  /\ posBase' = [l \in Logs |-> 0] /\ passed' = [l \in Logs |-> 0]
  /\ logged' = {} /\ owned' = {} /\ dropped' = {} /\ blind' = {} /\ readNow' = {} /\ summary' = "none"
  /\ UNCHANGED <<again, alarmsPaged>>

TypeOK ==
  /\ AlarmTypeOK
  /\ \A l \in Logs : base[l] <= written[l] /\ written[l] <= MaxLines
  /\ recent \subseteq Events
  /\ stage \in {"idle", "connect", "alarms", "events", "logs", "write", "page"}
  /\ pending \subseteq Targets /\ target \in Targets /\ \A l \in toRead : TargetOf[l] = target
  /\ cursors \in [Logs -> 0..MaxLines \cup {NoCursor}]
  /\ \A r \in issues : r.severity \in Severities
  /\ logged \subseteq LineIds /\ owned \subseteq LineIds /\ blind \subseteq LineIds
  /\ summary \in {"none", "clear", "complete", "incomplete"}
  /\ faults \in 0..MaxFaults

Init ==
  /\ AlarmInit
  /\ written = [l \in Logs |-> 0] /\ base = [l \in Logs |-> 0] /\ recent = {}
  /\ stage = "idle" /\ first = TRUE /\ pending = {} /\ target = AlarmTarget
  /\ toRead = {} /\ probe = NoProbe /\ pass = EmptyPass
  /\ cursors = [l \in Logs |-> NoCursor] /\ issues = {} /\ failed = FALSE /\ faults = 0
  /\ posBase = [l \in Logs |-> 0] /\ passed = [l \in Logs |-> 0]
  /\ logged = {} /\ again = {} /\ owned = {} /\ dropped = {} /\ blind = {} /\ readNow = {}
  /\ summary = "none" /\ alarmsPaged = {}

-----------------------------------------------------------------------------
(* The hosts write and rotate their logs; events happen and grow old.      *)

HostWrites(l) ==
  /\ written[l] < MaxLines
  /\ written' = [written EXCEPT ![l] = @ + 1]
  /\ UNCHANGED <<alarmVars, base, recent, runVars, histVars, faults>>

HostRotates(l) ==
  /\ Total(l) > 0
  /\ base' = [base EXCEPT ![l] = written[l]]
  /\ UNCHANGED <<alarmVars, written, recent, runVars, histVars, faults>>

EventComesOrGoes(e) ==
  /\ changes < MaxAlarmChanges /\ changes' = changes + 1
  /\ recent' = IF e \in recent THEN recent \ {e} ELSE recent \cup {e}
  /\ UNCHANGED <<status, acked, reset, moved, written, base, runVars, histVars, faults>>

AlarmTools == AlarmNext /\ UNCHANGED <<envVars, runVars, histVars, faults>>

-----------------------------------------------------------------------------
(* One cycle                                                               *)

Fault == faults < MaxFaults /\ faults' = faults + 1

StartCycle ==
  /\ stage = "idle"
  /\ stage' = "connect" /\ pending' = Targets
  /\ issues' = {} /\ failed' = FALSE /\ readNow' = {} /\ alarmsPaged' = {}
  /\ UNCHANGED <<alarmVars, envVars, first, target, toRead, probe, pass, cursors, faults,
                 posBase, passed, logged, again, owned, dropped, blind, summary>>

Connect(t) ==
  /\ stage = "connect" /\ t \in pending
  /\ target' = t /\ pending' = pending \ {t} /\ stage' = "alarms"
  /\ UNCHANGED <<alarmVars, envVars, first, toRead, probe, pass, cursors, issues, failed,
                 histVars, faults>>

ConnectFails(t) ==
  /\ stage = "connect" /\ t \in pending /\ Fault
  /\ pending' = pending \ {t}
  /\ issues' = issues \cup {ConnectRow(t)} /\ failed' = TRUE
  /\ UNCHANGED <<alarmVars, envVars, stage, first, target, toRead, probe, pass, cursors, histVars>>

AlarmPass ==
  /\ stage = "alarms" /\ stage' = "events"
  /\ \E rows \in ActiveAlarms :
       issues' = issues \cup IF target = AlarmTarget THEN AlarmIssues(rows) ELSE {}
  /\ UNCHANGED <<alarmVars, envVars, first, pending, target, toRead, probe, pass, cursors,
                 failed, histVars, faults>>

\* scan_logs: the events above the threshold, each cycle they are recent.
EventPass ==
  /\ stage = "events" /\ stage' = "logs"
  /\ LET rows == {e \in recent : /\ EventSeverity[e] # "info"
                                 /\ Rank(EventSeverity[e]) <= Rank(Threshold)}
     IN  issues' = issues \cup IF target = AlarmTarget THEN {EventRow(e) : e \in rows} ELSE {}
  /\ toRead' = LogsOf(target)
  /\ pass' = NewPass
  /\ UNCHANGED <<alarmVars, envVars, first, pending, target, probe, cursors, failed,
                 histVars, faults>>

\* A pass raises: its rows are lost, the next pass runs.
PassFails ==
  /\ stage \in {"alarms", "events", "logs"} /\ Fault
  /\ stage' = CASE stage = "alarms" -> "events" [] stage = "events" -> "logs" [] OTHER -> "connect"
  /\ toRead' = IF stage = "events" THEN LogsOf(target) ELSE {}
  /\ pass' = IF stage = "events" THEN NewPass ELSE EmptyPass
  /\ failed' = TRUE /\ probe' = NoProbe
  /\ UNCHANGED <<alarmVars, envVars, first, pending, target, cursors, issues, histVars>>

-----------------------------------------------------------------------------
(* The host log pass                                                       *)

\* Which lines to read, and whether the scanner knows that it skips some: the
\* log rotated (its length went down), or grew by more than one read.
Window(total, prior) ==
  LET tail == IF total > Lines THEN total - Lines + 1 ELSE 1
  IN  IF prior = NoCursor THEN [start |-> tail, count |-> Lines, skipped |-> FALSE]
      ELSE IF total < prior \/ total - prior > Lines
           THEN [start |-> tail, count |-> Lines, skipped |-> TRUE]
           ELSE [start |-> prior + 1, count |-> total - prior, skipped |-> FALSE]

\* Fault: the length the probe saw is taken for the last line read.
PositionAtProbe(w, text, total) == total

PositionAfter(w, text, total) ==
  IF text = {} THEN total ELSE w.start + Cardinality(text) - 1

\* The pass after a read of log l that returned the file's lines in text.
\* The last two fields are history: what the read leaves out by design, and
\* what it misses because a rotation went unseen.
Recorded(l, w, text, position, probed) ==
  LET knew == IF w.skipped \/ pass.position[l] = NoCursor THEN probed ELSE pass.rotation[l]
      went == text # {} \/ w.count = 0
      now  == IF went THEN base[l] ELSE probed
  IN  [rows     |-> pass.rows
                    \cup {LineRow(l, base[l] + i) : i \in {j \in text : LineKind[base[l] + j] # "quiet"}}
                    \cup IF w.skipped THEN {SkipRow(l, probed + w.start - 1)} ELSE {},
       position |-> [pass.position EXCEPT ![l] = position],
       rotation |-> [pass.rotation EXCEPT ![l] = now],
       behind   |-> [pass.behind EXCEPT ![l] = IF went THEN base[l] + position ELSE @],
       tail     |-> pass.tail \cup IF pass.position[l] = NoCursor
                                   THEN UpTo(l, probed + w.start - 1) ELSE {},
       unseen   |-> pass.unseen \cup IF went /\ base[l] # knew
                                     THEN UpTo(l, base[l] + w.start - 1) ELSE {}]

\* The first call to the host: how long is the log?  Nothing new ends the read.
Probe(l) ==
  /\ stage = "logs" /\ probe = NoProbe /\ l \in toRead
  /\ LET w == Window(Total(l), cursors[l])
     IN  IF w.count = 0
         THEN /\ pass' = Recorded(l, w, {}, Total(l), base[l])
              /\ toRead' = toRead \ {l} /\ readNow' = readNow \cup {l}
              /\ UNCHANGED probe
         ELSE /\ probe' = [log |-> l, window |-> w, total |-> Total(l), base |-> base[l]]
              /\ UNCHANGED <<pass, toRead, readNow>>
  /\ UNCHANGED <<alarmVars, envVars, stage, first, pending, target, cursors, issues, failed,
                 posBase, passed, logged, again, owned, dropped, blind, summary, alarmsPaged, faults>>

\* The second call: the log may have grown or rotated since the first.
Browse ==
  /\ stage = "logs" /\ probe # NoProbe
  /\ LET l == probe.log
         w == probe.window
         text == {i \in w.start..(w.start + w.count - 1) : i <= Total(l)}
     IN  /\ pass' = Recorded(l, w, text, PositionAfter(w, text, probe.total), probe.base)
         /\ toRead' = toRead \ {l} /\ readNow' = readNow \cup {l}
  /\ probe' = NoProbe
  /\ UNCHANGED <<alarmVars, envVars, stage, first, pending, target, cursors, issues, failed,
                 posBase, passed, logged, again, owned, dropped, blind, summary, alarmsPaged, faults>>

\* One log cannot be read: its row says so, its position stays.
ReadFails(l) ==
  /\ stage = "logs" /\ l \in toRead /\ (probe # NoProbe => probe.log = l) /\ Fault
  /\ pass' = [pass EXCEPT !.rows = @ \cup ReadFailure(l)]
  /\ toRead' = toRead \ {l} /\ probe' = NoProbe
  /\ UNCHANGED <<alarmVars, envVars, stage, first, pending, target, cursors, issues, failed, histVars>>

\* The pass returns: the cursors advance, before anything is written.
Advance ==
  /\ stage = "logs" /\ toRead = {} /\ probe = NoProbe
  /\ stage' = "connect"
  /\ cursors' = pass.position /\ issues' = issues \cup pass.rows
  /\ posBase' = pass.rotation /\ passed' = pass.behind
  /\ owned' = owned \cup pass.tail /\ blind' = blind \cup pass.unseen
  /\ pass' = EmptyPass
  /\ UNCHANGED <<alarmVars, envVars, first, pending, target, toRead, probe, failed,
                 logged, again, dropped, readNow, summary, alarmsPaged, faults>>

-----------------------------------------------------------------------------
(* The end of the cycle                                                    *)

Scanned == stage = "connect" /\ pending = {}
ToPage  == {r \in issues : Pages(r)}
Summary == IF failed THEN "incomplete" ELSE IF issues = {} THEN "clear" ELSE "complete"

\* What log_issue appended, with the skip rows among it.
Logged(rows) ==
  /\ logged' = logged \cup LinesOf(rows)
  /\ again'  = again \cup (LinesOf(rows) \cap logged)
  /\ owned'  = owned \cup SkippedBy(rows)

WriteLog ==
  /\ Scanned
  /\ Logged(issues)
  /\ IF ToPage # {}
     THEN stage' = "page" /\ UNCHANGED <<first, summary>>
     ELSE stage' = "idle" /\ first' = FALSE /\ summary' = Summary
  /\ UNCHANGED <<alarmVars, envVars, pending, target, toRead, probe, pass, cursors, issues, failed,
                 posBase, passed, dropped, blind, readNow, alarmsPaged, faults>>

\* Writing an issue raises.  The cycle is audited as an error; its other
\* issues are gone.  Only the scheduler survives it: the first cycle is run by
\* start_scheduler itself, and the process ends.
WriteFails ==
  /\ Scanned /\ issues # {} /\ Fault
  /\ \/ first /\ Fresh
     \/ /\ ~first
        /\ \E rows \in SUBSET issues :
             /\ rows # issues
             /\ Logged(rows)
             /\ dropped' = dropped \cup ((LinesOf(issues) \cup SkippedBy(issues)) \ LinesOf(rows))
        /\ stage' = "idle" /\ summary' = "none"
        /\ UNCHANGED <<first, pending, target, toRead, probe, pass, cursors, issues, failed,
                       posBase, passed, blind, readNow, alarmsPaged>>
  /\ UNCHANGED <<alarmVars, envVars>>

SendWebhook ==
  /\ stage = "page"
  /\ alarmsPaged' = AlarmsOf(ToPage)
  /\ stage' = "idle" /\ first' = FALSE /\ summary' = Summary
  /\ UNCHANGED <<alarmVars, envVars, pending, target, toRead, probe, pass, cursors, issues, failed,
                 posBase, passed, logged, again, owned, dropped, blind, readNow, faults>>

\* The endpoint refuses or cannot be reached (send returns False), which is
\* audited; nothing is sent again.
SendFails ==
  /\ stage = "page" /\ Fault
  /\ stage' = "idle" /\ first' = FALSE /\ summary' = Summary
  /\ UNCHANGED <<alarmVars, envVars, pending, target, toRead, probe, pass, cursors, issues, failed,
                 posBase, passed, logged, again, owned, dropped, blind, readNow, alarmsPaged>>

\* The daemon is stopped or killed, and started again.
Restart == Fault /\ Fresh /\ UNCHANGED <<alarmVars, envVars>>

DaemonStep ==
  \/ StartCycle \/ AlarmPass \/ EventPass \/ Browse \/ Advance \/ WriteLog \/ SendWebhook
  \/ \E t \in Targets : Connect(t)
  \/ \E l \in Logs : Probe(l)

Next ==
  \/ DaemonStep
  \/ PassFails \/ WriteFails \/ SendFails \/ Restart \/ AlarmTools
  \/ \E t \in Targets : ConnectFails(t)
  \/ \E l \in Logs : ReadFails(l) \/ HostWrites(l) \/ HostRotates(l)
  \/ \E e \in Events : EventComesOrGoes(e)

Spec == Init /\ [][Next]_vars

\* The interval trigger starts every cycle, and a cycle runs to its end: every
\* remote call it makes returns or raises.
FairSpec == Spec /\ WF_vars(DaemonStep)

-----------------------------------------------------------------------------
(* Properties                                                              *)

Quiet == {x \in LineIds : LineKind[x[2]] = "quiet"}

\* "Each line is reported once per daemon run" (README.md:325): whatever grew,
\* rotated or failed between the probe and the read, or between two cycles, no
\* line is written to the scan log by two cycles of one process, and a line a
\* cursor has passed is in the scan log, or a record owns up to it: a skip row,
\* the audit record of a cycle that failed, the first read's tail.  Only a
\* rotation that grew past the old position is invisible (scan_host_logs_since
\* says so); reads that fail keep the position.
OnceAndNeverSilentlyLost ==
  /\ again = {}
  /\ stage = "idle" => \A l \in Logs :
       UpTo(l, passed[l]) \subseteq logged \cup Quiet \cup owned \cup dropped \cup blind

\* The same without the failed cycles: what README.md:325 says of a daemon run.
PassedIsReported ==
  stage = "idle" => \A l \in Logs :
    UpTo(l, passed[l]) \subseteq logged \cup Quiet \cup owned \cup blind

\* "All clear" is only said of a cycle that reached every target and read
\* every host log (README.md:329: never "all clear" otherwise).
AllClearIsTrue == stage = "idle" /\ summary = "clear" => readNow = Logs

\* A reset clears only alarms of the colour and kind it told the caller, and of
\* those only the listed ones, the ones counted with a list that says it is cut
\* short, and the ones that changed since it read them (alarm_mgmt.py:215-247, 289).
ResetKeepsToItsScope ==
  [][ \A a \in Alarms :
        status[a] # "clear" /\ status'[a] = "clear" /\ changes' = changes
        => /\ status[a] = reset.status /\ EntityType[a] \in reset.types
           /\ \/ a \in reset.listed \cup moved
              \/ a \in reset.will /\ Cardinality(reset.will) > PreviewLimit ]_vars

Unacknowledged == Triggered \ acked

\* An acknowledged alarm with the same names may be the one the scan keeps.
Hidden(a) == \E b \in Triggered \cap acked : LabelOf[b] = LabelOf[a]

\* An alarm that stays up and unacknowledged, and whose names no acknowledged one
\* has, is sent to the webhook, although calls, passes, writes and sends may fail
\* and the daemon may be restarted (each finitely often): every cycle reports it
\* again (alarm_scanner.py:19-36, health.py:85-92).
StandingAlarmIsPaged ==
  \A a \in Alarms : a \in Unacknowledged /\ ~Hidden(a)
                    ~> LabelOf[a] \in alarmsPaged \/ a \notin Unacknowledged \/ Hidden(a)

\* README.md:328: the webhook receives every critical issue and every alarm warning.
\* Of an unacknowledged alarm whose names an acknowledged one has, it need not.
EveryAlarmIsPaged ==
  \A a \in Alarms : a \in Unacknowledged
                    ~> LabelOf[a] \in alarmsPaged \/ a \notin Unacknowledged
=============================================================================
