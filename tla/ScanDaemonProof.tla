-------------------------- MODULE ScanDaemonProof ---------------------------
(***************************************************************************)
(* The scan cycle of the daemon and the alarms it reads, for any targets,  *)
(* logs, alarms and events, with lines, rotations and faults at any time:  *)
(* it keeps its types; "all clear" is true; no line of a host log is       *)
(* written twice by one process or lost without a record; and the reset of *)
(* an alarm keeps to what it told the caller.                              *)
(*                                                                         *)
(* The line that the log passes need: a cursor stands for a place among    *)
(* all the lines ever written (Front), as long as the log has not rotated  *)
(* since, and everything up to there is accounted for.                     *)
(***************************************************************************)
EXTENDS ScanDaemon, FiniteSetTheorems, TLAPS

-----------------------------------------------------------------------------
(* The alarms                                                              *)

(* The alarms start well-typed.                                            *)
LEMMA AlarmTypeInit == AlarmInit => AlarmTypeOK
BY AlarmAssumption DEF AlarmInit, AlarmTypeOK, Triggered

(* vCenter and the two tools keep the types of the alarms.                 *)
LEMMA AlarmTypeNext == AlarmTypeOK /\ AlarmNext => AlarmTypeOK'
<1> SUFFICES ASSUME AlarmTypeOK, AlarmNext PROVE AlarmTypeOK'
    OBVIOUS
<1>1. ASSUME NEW a \in Alarms, AlarmChanges(a) PROVE AlarmTypeOK'
  <2>1. PICK s \in {"clear", "yellow", "red"} \ {status[a]} : status' = [status EXCEPT ![a] = s]
      BY <1>1 DEF AlarmChanges
  <2>2. status' \in [Alarms -> {"clear", "yellow", "red"}]
      BY <2>1 DEF AlarmTypeOK
  <2>3. acked' \subseteq Triggered'
      BY <1>1, <2>1 DEF AlarmTypeOK, AlarmChanges, Triggered
  <2>4. moved' \subseteq Alarms /\ reset' = reset
      BY <1>1 DEF AlarmTypeOK, AlarmChanges
  <2>5. changes' \in 0..MaxAlarmChanges
      BY <1>1, AlarmAssumption DEF AlarmTypeOK, AlarmChanges
  <2> QED BY <2>2, <2>3, <2>4, <2>5 DEF AlarmTypeOK
<1>2. ASSUME NEW a \in Alarms, Acknowledge(a) PROVE AlarmTypeOK'
    BY <1>2 DEF AlarmTypeOK, Acknowledge, Triggered
<1>3. ASSUME NEW a \in Alarms, FindAlarm(a) PROVE AlarmTypeOK'
  <2>1. status[a] \in {"yellow", "red"}
      BY <1>3 DEF FindAlarm, Triggered, AlarmTypeOK
  <2>2. reset' \in ResetCall
      BY <1>3, <2>1 DEF FindAlarm, ResetCall, Kinds
  <2> QED BY <1>3, <2>2 DEF AlarmTypeOK, FindAlarm, Triggered
<1>4. CASE MeasureReset
  <2>1. PICK listed \in SUBSET Matching(reset.status, reset.types) :
          reset' = [reset EXCEPT !.measured = TRUE, !.will = Matching(reset.status, reset.types),
                                 !.listed = listed]
      BY <1>4 DEF MeasureReset
  <2>2. Matching(reset.status, reset.types) \in SUBSET Alarms
      BY DEF Matching, Triggered
  <2>3. reset' \in ResetCall
      BY <1>4, <2>1, <2>2 DEF MeasureReset, AlarmTypeOK, ResetCall
  <2> QED BY <1>4, <2>3 DEF AlarmTypeOK, MeasureReset, Triggered
<1>5. CASE ResetAlarm
  <2>1. status' \in [Alarms -> {"clear", "yellow", "red"}]
      BY <1>5 DEF ResetAlarm, AlarmTypeOK
  <2>2. acked' \subseteq Triggered'
      BY <1>5 DEF ResetAlarm, AlarmTypeOK, Triggered
  <2> QED BY <1>5, <2>1, <2>2 DEF ResetAlarm, AlarmTypeOK
<1>6. CASE ResetFails
    BY <1>6 DEF ResetFails, AlarmTypeOK, Triggered
<1> QED BY <1>1, <1>2, <1>3, <1>4, <1>5, <1>6 DEF AlarmNext

\* What the caller was told of an alarm a reset clears.
ToldOf(a) ==
  \/ a \in reset.listed \cup moved
  \/ a \in reset.will /\ Cardinality(reset.will) > PreviewLimit

\* A measured reset told the caller of every alarm its filter matches, but for
\* those that changed since.
Told ==
  reset # NoReset /\ reset.measured =>
    \A a \in Alarms : status[a] = reset.status /\ EntityType[a] \in reset.types => ToldOf(a)

(* What a reset was told of stays so.                                      *)
LEMMA ToldNext == AlarmTypeOK /\ Told /\ AlarmNext => Told'
<1> SUFFICES ASSUME AlarmTypeOK, Told, AlarmNext PROVE Told'
    OBVIOUS
<1>1. ASSUME NEW a \in Alarms, AlarmChanges(a) PROVE Told'
    BY <1>1 DEF AlarmChanges, Told, ToldOf, AlarmTypeOK
<1>2. ASSUME NEW a \in Alarms, Acknowledge(a) PROVE Told'
    BY <1>2 DEF Acknowledge, Told, ToldOf
<1>3. ASSUME NEW a \in Alarms, FindAlarm(a) PROVE Told'
    BY <1>3 DEF FindAlarm, Told
<1>4. CASE MeasureReset
  <2> DEFINE will == Matching(reset.status, reset.types)
  <2>1. PICK listed \in SUBSET will :
          /\ IF Cardinality(will) > PreviewLimit
             THEN Cardinality(listed) = PreviewLimit ELSE listed = will
          /\ reset' = [reset EXCEPT !.measured = TRUE, !.will = will, !.listed = listed]
      BY <1>4 DEF MeasureReset
  <2>2. reset \in ResetCall /\ status' = status
      BY <1>4 DEF MeasureReset, AlarmTypeOK
  <2>3. reset'.status = reset.status /\ reset'.types = reset.types
        /\ reset'.will = will /\ reset'.listed = listed
      BY <2>1, <2>2 DEF ResetCall
  <2>4. \A a \in Alarms : status[a] = reset.status /\ EntityType[a] \in reset.types => a \in will
      BY <2>2 DEF Matching, Triggered, ResetCall
  <2> HIDE DEF will
  <2> QED BY <2>1, <2>2, <2>3, <2>4 DEF Told, ToldOf
<1>5. CASE ResetAlarm \/ ResetFails
    BY <1>5 DEF ResetAlarm, ResetFails, Told
<1> QED BY <1>1, <1>2, <1>3, <1>4, <1>5 DEF AlarmNext

(* A step that clears an alarm, and is not vCenter's, is a reset of it.    *)
LEMMA ClearIsToldOf ==
  ASSUME AlarmTypeOK, Told, AlarmNext, changes' = changes,
         NEW a \in Alarms, status[a] # "clear", status'[a] = "clear"
  PROVE  status[a] = reset.status /\ EntityType[a] \in reset.types /\ ToldOf(a)
<1>1. ASSUME NEW b \in Alarms PROVE ~AlarmChanges(b)
    BY <1>1 DEF AlarmChanges, AlarmTypeOK
<1>2. ResetAlarm
    BY <1>1 DEF AlarmNext, Acknowledge, FindAlarm, MeasureReset, ResetFails
<1>3. reset # NoReset /\ reset.measured /\ a \in ResetScope
    BY <1>2 DEF ResetAlarm
<1> QED BY <1>3 DEF ResetScope, Matching, Told

-----------------------------------------------------------------------------
(* Rows                                                                    *)

\* The rows a pass over the logs finds.
LogRow(r) ==
  \/ \E l \in Logs, n \in 1..MaxLines : LineKind[n] # "quiet" /\ r = LineRow(l, n)
  \/ \E l \in Logs, n \in 0..MaxLines : r = SkipRow(l, n)
  \/ \E l \in Logs : r = UnreadRow(l)

\* The rows of a cycle.
IssueRow(r) ==
  \/ LogRow(r)
  \/ \E t \in Targets : r = ConnectRow(t)
  \/ r.source \in {"alarm", "event"} /\ r.severity \in Severities

(* What the rows of two sets stand for.                                    *)
LEMMA RowsAdd ==
  ASSUME NEW some, NEW more
  PROVE  /\ LinesOf(some \cup more) = LinesOf(some) \cup LinesOf(more)
         /\ SkippedBy(some \cup more) = SkippedBy(some) \cup SkippedBy(more)
         /\ LinesOf({}) = {} /\ SkippedBy({}) = {}
BY DEF LinesOf, SkippedBy

(* Most rows stand for no line.                                            *)
LEMMA RowsOfOther ==
  ASSUME NEW rows, \A r \in rows : r.source \notin {"host_log", "host_log:skipped"}
  PROVE  LinesOf(rows) = {} /\ SkippedBy(rows) = {}
BY DEF LinesOf, SkippedBy

(* The rows of lines.                                                      *)
LEMMA RowsOfLines ==
  ASSUME NEW l, NEW at
  PROVE  /\ LinesOf({LineRow(l, n) : n \in at}) = {<<l, n>> : n \in at}
         /\ SkippedBy({LineRow(l, n) : n \in at}) = {}
<1> DEFINE rows == {LineRow(l, n) : n \in at}
<1>1. \A n \in at : /\ LineRow(l, n).source = "host_log" /\ LineRow(l, n).log = l
                    /\ LineRow(l, n).line = n
    BY DEF LineRow
<1>2. \A r \in rows : \E n \in at : r.source = "host_log" /\ r.log = l /\ r.line = n
    BY <1>1
<1>3. \A n \in at : \E r \in rows : r.source = "host_log" /\ r.log = l /\ r.line = n
    BY <1>1
<1> HIDE DEF rows
<1>4. LinesOf(rows) = {<<l, n>> : n \in at}
  <2>1. ASSUME NEW x \in LinesOf(rows) PROVE x \in {<<l, n>> : n \in at}
    <3>1. PICK r \in rows : r.source = "host_log" /\ x = <<r.log, r.line>>
        BY DEF LinesOf
    <3> QED BY <1>2, <3>1
  <2>2. ASSUME NEW n \in at PROVE <<l, n>> \in LinesOf(rows)
      BY <1>3 DEF LinesOf
  <2> QED BY <2>1, <2>2
<1>5. SkippedBy(rows) = {}
    BY <1>2 DEF SkippedBy
<1> QED BY <1>4, <1>5 DEF rows

(* The row of a skip.                                                      *)
LEMMA RowsOfSkip ==
  ASSUME NEW l, NEW n
  PROVE  LinesOf({SkipRow(l, n)}) = {} /\ SkippedBy({SkipRow(l, n)}) = UpTo(l, n)
<1> DEFINE row == SkipRow(l, n)
<1>1. row.source = "host_log:skipped" /\ row.log = l /\ row.until = n
    BY DEF SkipRow
<1> HIDE DEF row
<1>2. {x \in {row} : x.source = "host_log"} = {} /\ {x \in {row} : x.source = "host_log:skipped"} = {row}
    BY <1>1
<1>3. LinesOf({row}) = {} /\ SkippedBy({row}) = UpTo(l, n)
    BY <1>1, <1>2 DEF LinesOf, SkippedBy
<1> QED BY <1>3 DEF row

(* The lines of the rows of a cycle are lines.                             *)
LEMMA RowsTyped ==
  ASSUME NEW rows, \A r \in rows : IssueRow(r)
  PROVE  /\ LinesOf(rows) \subseteq LineIds /\ SkippedBy(rows) \subseteq LineIds
         /\ \A r \in rows : r.severity \in Severities
<1>1. ASSUME NEW r \in rows, r.source = "host_log" PROVE <<r.log, r.line>> \in LineIds
    BY <1>1 DEF IssueRow, LogRow, LineRow, SkipRow, UnreadRow, ConnectRow, LineIds
<1>2. ASSUME NEW r \in rows, r.source = "host_log:skipped" PROVE UpTo(r.log, r.until) \subseteq LineIds
  <2>1. PICK l \in Logs, n \in 0..MaxLines : r = SkipRow(l, n)
      BY <1>2 DEF IssueRow, LogRow, LineRow, UnreadRow, ConnectRow
  <2>2. r.log = l /\ r.until = n
      BY <2>1 DEF SkipRow
  <2> QED BY <2>2, ScanAssumption DEF LineIds, UpTo
<1>3. ASSUME NEW r \in rows PROVE r.severity \in Severities
    BY ScanAssumption DEF IssueRow, LogRow, LineRow, SkipRow, UnreadRow, ConnectRow, Severities
<1> QED BY <1>1, <1>2, <1>3 DEF LinesOf, SkippedBy

-----------------------------------------------------------------------------
(* Types                                                                   *)

Stages  == {"idle", "connect", "alarms", "events", "logs", "page"}
Active  == stage \in {"connect", "alarms", "events", "logs"}
Cursors == 0..MaxLines \cup {NoCursor}
Windows == [start : 1..MaxLines + 1, count : 0..Lines, skipped : BOOLEAN]
Probes  == [log : Logs, window : Windows, total : 0..MaxLines, base : 0..MaxLines]
Passes(rows) == [rows : {rows}, position : [Logs -> Cursors], rotation : [Logs -> 0..MaxLines],
                 behind : [Logs -> 0..MaxLines], tail : SUBSET LineIds, unseen : SUBSET LineIds]

LogsTyped ==
  /\ written \in [Logs -> 0..MaxLines] /\ base \in [Logs -> 0..MaxLines]
  /\ \A l \in Logs : base[l] <= written[l]

RunTyped ==
  /\ stage \in Stages
  /\ pending \subseteq Targets /\ target \in Targets /\ toRead \subseteq LogsOf(target)
  /\ probe \in Probes \cup {NoProbe} /\ (stage # "logs" => toRead = {} /\ probe = NoProbe)
  /\ pass \in Passes(pass.rows) /\ \A r \in pass.rows : LogRow(r)
  /\ cursors \in [Logs -> Cursors] /\ \A r \in issues : IssueRow(r)

HistTyped ==
  /\ posBase \in [Logs -> 0..MaxLines] /\ passed \in [Logs -> 0..MaxLines]
  /\ logged \subseteq LineIds /\ owned \subseteq LineIds /\ blind \subseteq LineIds
  /\ readNow \subseteq Logs /\ summary \in {"none", "clear", "complete", "incomplete"}

Typed ==
  /\ AlarmTypeOK /\ LogsTyped /\ RunTyped /\ HistTyped
  /\ recent \subseteq Events /\ faults \in 0..MaxFaults

(* The parts give the whole.                                               *)
LEMMA TypedIsTypeOK == Typed => TypeOK
<1> SUFFICES ASSUME Typed PROVE TypeOK
    OBVIOUS
<1>1. \A r \in issues : r.severity \in Severities
    BY RowsTyped DEF Typed, RunTyped
<1>2. \A l \in Logs : base[l] <= written[l] /\ written[l] <= MaxLines
    BY ScanAssumption DEF Typed, LogsTyped
<1> QED BY <1>1, <1>2 DEF Typed, LogsTyped, RunTyped, HistTyped, TypeOK, Cursors, LogsOf, Stages

(* A pass that begins, or that is over.                                    *)
LEMMA PassTyped ==
  ASSUME Typed, NEW p, p = NewPass \/ p = EmptyPass
  PROVE  p \in Passes(p.rows) /\ p.rows = {}
<1>1. NewPass \in Passes({}) /\ NewPass.rows = {}
    BY DEF Typed, RunTyped, HistTyped, NewPass, Passes
<1>2. EmptyPass \in Passes({}) /\ EmptyPass.rows = {}
    BY ScanAssumption DEF EmptyPass, Passes, Cursors
<1> QED BY <1>1, <1>2

(* A process that starts is well-typed.                                    *)
LEMMA FreshTyped == ASSUME Typed, Fresh PROVE RunTyped' /\ HistTyped'
<1>1. pass' \in Passes(pass'.rows) /\ pass'.rows = {}
    BY PassTyped DEF Fresh
<1>2. cursors' \in [Logs -> Cursors] /\ target' \in Targets
    BY ScanAssumption DEF Fresh, Cursors
<1>3. RunTyped'
    BY <1>1, <1>2 DEF Fresh, RunTyped, Stages
<1>4. HistTyped'
    BY ScanAssumption DEF Fresh, HistTyped
<1> QED BY <1>3, <1>4

(* The daemon starts well-typed.                                           *)
LEMMA TypedInit == Init => Typed
<1> SUFFICES ASSUME Init PROVE Typed
    OBVIOUS
<1>1. AlarmTypeOK
    BY AlarmTypeInit DEF Init
<1>2. LogsTyped /\ HistTyped /\ recent \subseteq Events /\ faults \in 0..MaxFaults
    BY ScanAssumption DEF Init, LogsTyped, HistTyped
<1>3. pass \in Passes(pass.rows) /\ pass.rows = {}
    BY ScanAssumption DEF Init, EmptyPass, Passes, Cursors
<1>4. cursors \in [Logs -> Cursors] /\ target \in Targets
    BY ScanAssumption DEF Init, Cursors
<1> QED BY <1>1, <1>2, <1>3, <1>4 DEF Init, Typed, RunTyped, Stages

-----------------------------------------------------------------------------
(* One read of a log                                                       *)

(* What the window is: the tail, the tail with a gap, or what is new.      *)
LEMMA WindowIs ==
  ASSUME NEW total \in 0..MaxLines, NEW prior \in Cursors, NEW w, w = Window(total, prior)
  PROVE  /\ w \in Windows /\ w.start <= total + 1
         /\ w.count = 0 => prior # NoCursor /\ prior = total /\ ~w.skipped
         /\ ~w.skipped /\ prior # NoCursor => w.start = prior + 1 /\ prior <= total
         /\ w.skipped => prior # NoCursor /\ (total < prior \/ w.start > prior + 1)
         /\ ~w.skipped /\ prior # NoCursor => w.count = total - prior
         /\ w.count # 0 /\ w.start > total => total = 0 /\ w.start = 1
<1> DEFINE tail == IF total > Lines THEN total - Lines + 1 ELSE 1
<1>1. Lines \in Nat /\ Lines >= 1 /\ MaxLines \in Nat /\ NoCursor \notin Nat
    BY ScanAssumption
<1>2. total \in Nat /\ total <= MaxLines /\ tail \in 1..total + 1 /\ (tail > total => total = 0 /\ tail = 1)
    BY <1>1
<1>3. CASE prior = NoCursor
  <2>1. w = [start |-> tail, count |-> Lines, skipped |-> FALSE]
      BY <1>3 DEF Window
  <2> HIDE DEF tail
  <2>2. w.start = tail /\ w.count = Lines /\ w.skipped = FALSE
      BY <2>1
  <2>3. tail \in 1..MaxLines + 1 /\ Lines \in 0..Lines
      BY <1>1, <1>2
  <2>4. w \in Windows
      BY <2>1, <2>3 DEF Windows
  <2>5. w.start <= total + 1 /\ w.count # 0 /\ (w.start > total => total = 0 /\ w.start = 1)
      BY <1>1, <1>2, <2>2
  <2> QED BY <1>3, <2>2, <2>4, <2>5
<1>4. CASE prior # NoCursor /\ (total < prior \/ total - prior > Lines)
  <2>1. w = [start |-> tail, count |-> Lines, skipped |-> TRUE]
      BY <1>4 DEF Window
  <2>2. prior \in Nat /\ (total < prior \/ tail > prior + 1)
      BY <1>1, <1>4 DEF Cursors
  <2> HIDE DEF tail
  <2> QED BY <1>1, <1>2, <1>4, <2>1, <2>2 DEF Windows
<1>5. CASE prior # NoCursor /\ ~(total < prior \/ total - prior > Lines)
  <2>1. w = [start |-> prior + 1, count |-> total - prior, skipped |-> FALSE]
      BY <1>5 DEF Window
  <2>2. prior \in Nat /\ prior <= total /\ total - prior \in 0..Lines
      BY <1>1, <1>2, <1>5 DEF Cursors
  <2> QED BY <1>1, <1>2, <1>5, <2>1, <2>2 DEF Windows
<1> QED BY <1>3, <1>4, <1>5

\* A read of log l: the probe that found nothing new, or the browse that
\* returned the lines of the window that are there.
IsRead(l, w, text, position, probed, total) ==
  /\ probed \in 0..MaxLines /\ total \in 0..MaxLines
  /\ w = Window(total, cursors[l])
  /\ \/ w.count = 0 /\ text = {} /\ position = total /\ probed = base[l] /\ total = Total(l)
     \/ /\ w.count # 0
        /\ text = {i \in w.start..(w.start + w.count - 1) : i <= Total(l)}
        /\ position = PositionAfter(w, text, total)

(* The lines a browse returns are those up to its position.                *)
LEMMA TextIs ==
  ASSUME Typed, NEW l \in Logs, NEW w, NEW text, NEW position, NEW probed, NEW total,
         IsRead(l, w, text, position, probed, total)
  PROVE  /\ w \in Windows /\ Total(l) \in 0..MaxLines /\ base[l] + Total(l) = written[l]
         /\ position \in 0..MaxLines
         /\ text # {} => /\ w.start <= position /\ position <= Total(l)
                         /\ text = w.start..position
         /\ text = {} => position = total
         /\ text = {} /\ w.count # 0 => Total(l) < w.start
<1>1. cursors[l] \in Cursors /\ w = Window(total, cursors[l]) /\ total \in 0..MaxLines
    BY DEF Typed, RunTyped, IsRead
<1>2. /\ w \in Windows /\ w.start \in Nat /\ w.start >= 1 /\ w.count \in Nat
    BY <1>1, WindowIs, ScanAssumption DEF Windows
<1>3. /\ Total(l) \in 0..MaxLines /\ base[l] + Total(l) = written[l]
      /\ base[l] \in 0..MaxLines /\ written[l] \in 0..MaxLines
    BY ScanAssumption DEF Typed, LogsTyped, Total
<1>4. CASE w.count = 0
    BY <1>1, <1>2, <1>3, <1>4 DEF IsRead
<1>5. CASE w.count # 0
  <2>1. text = {i \in w.start..(w.start + w.count - 1) : i <= Total(l)}
        /\ position = PositionAfter(w, text, total)
      BY <1>5 DEF IsRead
  <2>2. CASE Total(l) < w.start
    <3>1. text = {}
        BY <1>2, <1>3, <2>1, <2>2
    <3> QED BY <1>1, <1>2, <1>3, <2>1, <2>2, <3>1 DEF PositionAfter
  <2>3. CASE Total(l) >= w.start
    <3> DEFINE m == IF Total(l) < w.start + w.count - 1 THEN Total(l) ELSE w.start + w.count - 1
    <3>1. m \in Nat /\ w.start <= m /\ m <= Total(l) /\ m \in 0..MaxLines
      <4>1. Total(l) \in Nat /\ w.count >= 1 /\ Total(l) <= MaxLines /\ MaxLines \in Nat
          BY <1>2, <1>3, <1>5, ScanAssumption
      <4> QED BY <1>2, <2>3, <4>1
    <3>2. text = w.start..m
        BY <1>2, <1>3, <2>1
    <3> HIDE DEF m
    <3>3. Cardinality(text) = m - w.start + 1 /\ text # {}
      <4>1. w.start \in Int /\ m \in Int /\ ~(w.start > m) /\ m \in text
          BY <1>2, <3>1, <3>2
      <4>2. Cardinality(w.start..m) = m - w.start + 1
          BY <4>1, FS_Interval
      <4> QED BY <3>2, <4>1, <4>2
    <3>4. position = m
        BY <1>2, <2>1, <3>1, <3>3 DEF PositionAfter
    <3> QED BY <1>2, <1>3, <3>1, <3>2, <3>3, <3>4
  <2> QED BY <1>2, <1>3, <2>2, <2>3
<1> QED BY <1>4, <1>5

\* The lines of a read that match a pattern.
Loud(l, text) == {n \in 1..MaxLines : n - base[l] \in text /\ LineKind[n] # "quiet"}

(* What a read adds to the pass.                                           *)
LEMMA RecordedIs ==
  ASSUME Typed, NEW l \in Logs, NEW w, NEW text, NEW position, NEW probed, NEW total,
         IsRead(l, w, text, position, probed, total), probed + total <= MaxLines,
         NEW r, r = Recorded(l, w, text, position, probed)
  PROVE  /\ r \in Passes(r.rows) /\ \A row \in r.rows : LogRow(row)
         /\ LinesOf(r.rows) = LinesOf(pass.rows) \cup {<<l, n>> : n \in Loud(l, text)}
         /\ SkippedBy(r.rows) = SkippedBy(pass.rows) \cup
              (IF w.skipped THEN UpTo(l, probed + w.start - 1) ELSE {})
<1>1. /\ w \in Windows /\ w.start \in Nat /\ w.start >= 1 /\ w.count \in Nat
      /\ Total(l) \in 0..MaxLines /\ base[l] + Total(l) = written[l]
      /\ position \in 0..MaxLines /\ w.start <= total + 1 /\ total \in 0..MaxLines
      /\ probed \in 0..MaxLines
  <2>1. cursors[l] \in Cursors
      BY DEF Typed, RunTyped
  <2>2. w = Window(total, cursors[l]) /\ total \in 0..MaxLines /\ probed \in 0..MaxLines
      BY DEF IsRead
  <2>3. w \in Windows /\ w.start <= total + 1
      BY <2>1, <2>2, WindowIs
  <2>4. Total(l) \in 0..MaxLines /\ base[l] + Total(l) = written[l] /\ position \in 0..MaxLines
      BY TextIs
  <2> QED BY <2>2, <2>3, <2>4, ScanAssumption DEF Windows
<1>2. base[l] \in 0..MaxLines /\ written[l] \in 0..MaxLines /\ MaxLines \in Nat
    BY ScanAssumption DEF Typed, LogsTyped
<1>3. \A i \in text : i \in Nat /\ i >= 1 /\ base[l] + i \in 1..MaxLines
  <2>1. text # {} => text = w.start..position /\ position <= Total(l)
      BY TextIs
  <2> SUFFICES ASSUME NEW i \in text
               PROVE  i \in Nat /\ i >= 1 /\ base[l] + i \in 1..MaxLines
      OBVIOUS
  <2>2. i \in Nat /\ i >= 1 /\ i <= Total(l) /\ Total(l) \in Nat
      BY <1>1, <2>1
  <2> QED BY <1>1, <1>2, <2>2
<1> DEFINE loud == {j \in text : LineKind[base[l] + j] # "quiet"}
           lines == {LineRow(l, base[l] + i) : i \in loud}
           skip == IF w.skipped THEN {SkipRow(l, probed + w.start - 1)} ELSE {}
           went == text # {} \/ w.count = 0
<1>4. lines = {LineRow(l, n) : n \in Loud(l, text)}
  <2>1. \A i \in loud : base[l] + i \in Loud(l, text)
      BY <1>2, <1>3 DEF Loud
  <2>2. \A n \in Loud(l, text) : n - base[l] \in loud /\ base[l] + (n - base[l]) = n
      BY <1>2 DEF Loud
  <2> QED BY <2>1, <2>2
<1>5. r.rows = pass.rows \cup lines \cup skip
    BY DEF Recorded
<1> HIDE DEF lines
<1>6. /\ LinesOf(lines) = {<<l, n>> : n \in Loud(l, text)} /\ SkippedBy(lines) = {}
      /\ LinesOf(skip) = {}
      /\ SkippedBy(skip) = IF w.skipped THEN UpTo(l, probed + w.start - 1) ELSE {}
  <2>1. LinesOf(lines) = {<<l, n>> : n \in Loud(l, text)} /\ SkippedBy(lines) = {}
      BY <1>4, RowsOfLines
  <2>2. CASE w.skipped
      BY <2>1, <2>2, RowsOfSkip
  <2>3. CASE ~w.skipped
      BY <2>1, <2>3, RowsAdd
  <2> QED BY <2>2, <2>3
<1>7. \A row \in r.rows : LogRow(row)
  <2>1. \A row \in lines : LogRow(row)
      BY <1>4 DEF LogRow, Loud
  <2>2. \A row \in skip : LogRow(row)
    <3>1. probed + w.start - 1 \in 0..MaxLines
        BY <1>1, <1>2
    <3> QED BY <3>1 DEF LogRow
  <2> QED BY <1>5, <2>1, <2>2 DEF Typed, RunTyped
<1>8. LinesOf(r.rows) = LinesOf(pass.rows) \cup {<<l, n>> : n \in Loud(l, text)}
      /\ SkippedBy(r.rows) = SkippedBy(pass.rows) \cup
           (IF w.skipped THEN UpTo(l, probed + w.start - 1) ELSE {})
  <2> DEFINE gap == IF w.skipped THEN UpTo(l, probed + w.start - 1) ELSE {}
  <2>1. SkippedBy(skip) = gap
      BY <1>6
  <2> HIDE DEF skip, gap
  <2>2. r.rows = (pass.rows \cup lines) \cup skip
      BY <1>5
  <2>3. LinesOf(r.rows) = LinesOf(pass.rows \cup lines) \cup LinesOf(skip)
        /\ SkippedBy(r.rows) = SkippedBy(pass.rows \cup lines) \cup SkippedBy(skip)
    <3>1. LinesOf((pass.rows \cup lines) \cup skip) = LinesOf(pass.rows \cup lines) \cup LinesOf(skip)
          /\ SkippedBy((pass.rows \cup lines) \cup skip)
               = SkippedBy(pass.rows \cup lines) \cup SkippedBy(skip)
        BY RowsAdd
    <3> QED BY <2>2, <3>1
  <2>4. LinesOf(pass.rows \cup lines) = LinesOf(pass.rows) \cup LinesOf(lines)
        /\ SkippedBy(pass.rows \cup lines) = SkippedBy(pass.rows) \cup SkippedBy(lines)
      BY RowsAdd
  <2>5. SkippedBy(r.rows) = SkippedBy(pass.rows) \cup gap
      BY <1>6, <2>1, <2>3, <2>4
  <2> QED BY <1>6, <2>3, <2>4, <2>5 DEF gap
<1>9. r \in Passes(r.rows)
  <2>1. /\ pass.position \in [Logs -> Cursors] /\ pass.rotation \in [Logs -> 0..MaxLines]
        /\ pass.behind \in [Logs -> 0..MaxLines]
        /\ pass.tail \in SUBSET LineIds /\ pass.unseen \in SUBSET LineIds
      BY DEF Typed, RunTyped, Passes
  <2>2. r.position \in [Logs -> Cursors]
      BY <1>1, <2>1 DEF Recorded, Cursors
  <2>3. r.rotation \in [Logs -> 0..MaxLines]
      BY <1>1, <1>2, <2>1 DEF Recorded
  <2>4. r.behind \in [Logs -> 0..MaxLines]
    <3>1. went => base[l] + position \in 0..MaxLines
      <4>1. text # {} => position <= Total(l)
          BY TextIs
      <4>2. w.count = 0 => position = Total(l)
          BY DEF IsRead
      <4> QED BY <1>1, <1>2, <4>1, <4>2
    <3> QED BY <2>1, <3>1 DEF Recorded
  <2>5. r.tail \in SUBSET LineIds
    <3>1. UpTo(l, probed + w.start - 1) \subseteq LineIds
        BY <1>1, <1>2 DEF UpTo, LineIds
    <3> QED BY <2>1, <3>1 DEF Recorded
  <2>6. r.unseen \in SUBSET LineIds
    <3>1. went => UpTo(l, base[l] + w.start - 1) \subseteq LineIds
      <4>1. text # {} => w.start <= position /\ position <= Total(l)
          BY TextIs
      <4>2. w.count = 0 => total = Total(l)
          BY <1>1 DEF IsRead
      <4> QED BY <1>1, <1>2, <4>1, <4>2 DEF UpTo, LineIds
    <3> QED BY <2>1, <3>1 DEF Recorded
  <2>7. r = [rows |-> r.rows, position |-> r.position, rotation |-> r.rotation,
             behind |-> r.behind, tail |-> r.tail, unseen |-> r.unseen]
      BY DEF Recorded
  <2> QED BY <2>2, <2>3, <2>4, <2>5, <2>6, <2>7 DEF Passes
<1> QED BY <1>7, <1>8, <1>9

-----------------------------------------------------------------------------
(* Every step keeps the types                                              *)

(* Hosts and events.                                                       *)
LEMMA EnvTyped ==
  ASSUME Typed,
         \/ AlarmTools \/ \E l \in Logs : HostWrites(l) \/ HostRotates(l)
         \/ \E e \in Events : EventComesOrGoes(e)
  PROVE  Typed'
<1>1. CASE AlarmTools
  <2>1. AlarmTypeOK'
      BY <1>1, AlarmTypeNext DEF AlarmTools, Typed
  <2> QED BY <1>1, <2>1 DEF AlarmTools, envVars, runVars, histVars, Typed, LogsTyped, RunTyped, HistTyped
<1>2. ASSUME NEW l \in Logs, HostWrites(l) \/ HostRotates(l) PROVE Typed'
  <2>1. LogsTyped'
    <3>1. /\ written \in [Logs -> 0..MaxLines] /\ base \in [Logs -> 0..MaxLines]
          /\ MaxLines \in Nat /\ \A k \in Logs : base[k] <= written[k]
        BY ScanAssumption DEF Typed, LogsTyped
    <3>2. CASE HostWrites(l)
      <4>1. written' = [written EXCEPT ![l] = written[l] + 1] /\ base' = base /\ written[l] + 1 \in 0..MaxLines
          BY <3>1, <3>2 DEF HostWrites
      <4>2. \A k \in Logs : base'[k] <= written'[k]
          BY <3>1, <4>1
      <4> QED BY <3>1, <4>1, <4>2 DEF LogsTyped
    <3>3. CASE HostRotates(l)
      <4>1. base' = [base EXCEPT ![l] = written[l]] /\ written' = written
          BY <3>3 DEF HostRotates
      <4>2. \A k \in Logs : base'[k] <= written'[k]
          BY <3>1, <4>1
      <4> QED BY <3>1, <4>1, <4>2 DEF LogsTyped
    <3> QED BY <1>2, <3>2, <3>3
  <2>2. UNCHANGED <<alarmVars, recent, runVars, histVars, faults>>
      BY <1>2 DEF HostWrites, HostRotates
  <2> QED BY <2>1, <2>2 DEF alarmVars, runVars, histVars, Typed, AlarmTypeOK, Triggered, RunTyped, HistTyped
<1>3. ASSUME NEW e \in Events, EventComesOrGoes(e) PROVE Typed'
  <2>1. changes' \in 0..MaxAlarmChanges
      BY <1>3, AlarmAssumption DEF EventComesOrGoes, Typed, AlarmTypeOK
  <2>2. UNCHANGED <<status, acked, reset, moved>> /\ recent' \subseteq Events
      BY <1>3 DEF EventComesOrGoes, Typed
  <2>3. AlarmTypeOK'
      BY <2>1, <2>2 DEF Typed, AlarmTypeOK, Triggered
  <2> QED BY <1>3, <2>2, <2>3 DEF EventComesOrGoes, runVars, histVars, Typed, LogsTyped, RunTyped, HistTyped
<1> QED BY <1>1, <1>2, <1>3

(* A step of the daemon leaves alarms, events and the files alone.         *)
LEMMA DaemonTyped ==
  ASSUME Typed, UNCHANGED <<alarmVars, envVars>>, faults' \in 0..MaxFaults, RunTyped', HistTyped'
  PROVE  Typed'
BY DEF alarmVars, envVars, Typed, AlarmTypeOK, Triggered, LogsTyped

(* A fault counts.                                                         *)
LEMMA FaultTyped == ASSUME Typed, Fault PROVE faults' \in 0..MaxFaults
BY ScanAssumption DEF Typed, Fault

(* The cycle up to the logs.                                               *)
LEMMA CycleTyped ==
  ASSUME Typed,
         \/ StartCycle \/ AlarmPass \/ EventPass \/ PassFails
         \/ \E t \in Targets : Connect(t) \/ ConnectFails(t)
  PROVE  Typed'
<1>1. CASE StartCycle
  <2>1. RunTyped' /\ HistTyped'
      BY <1>1 DEF StartCycle, Typed, RunTyped, HistTyped, Stages
  <2> QED BY <1>1, <2>1, DaemonTyped DEF StartCycle, Typed
<1>2. ASSUME NEW t \in Targets, Connect(t) PROVE Typed'
  <2>1. RunTyped' /\ HistTyped'
      BY <1>2 DEF Connect, histVars, Typed, RunTyped, HistTyped, Stages
  <2> QED BY <1>2, <2>1, DaemonTyped DEF Connect, Typed
<1>3. ASSUME NEW t \in Targets, ConnectFails(t) PROVE Typed'
  <2>1. \A r \in issues' : IssueRow(r)
      BY <1>3 DEF ConnectFails, Typed, RunTyped, IssueRow
  <2>2. RunTyped' /\ HistTyped'
      BY <1>3, <2>1 DEF ConnectFails, histVars, Typed, RunTyped, HistTyped, Stages
  <2> QED BY <1>3, <2>2, DaemonTyped, FaultTyped DEF ConnectFails
<1>4. CASE AlarmPass
  <2>1. \A r \in issues' : IssueRow(r)
    <3>1. \A rows : \A r \in AlarmIssues(rows) : IssueRow(r)
        BY DEF AlarmIssues, AlarmRow, IssueRow, Severities
    <3> QED BY <1>4, <3>1 DEF AlarmPass, Typed, RunTyped
  <2>2. RunTyped' /\ HistTyped'
      BY <1>4, <2>1 DEF AlarmPass, histVars, Typed, RunTyped, HistTyped, Stages
  <2> QED BY <1>4, <2>2, DaemonTyped DEF AlarmPass, Typed
<1>5. pass' = NewPass \/ pass' = EmptyPass => pass' \in Passes(pass'.rows) /\ pass'.rows = {}
    BY PassTyped
<1>6. CASE EventPass
  <2>1. \A r \in issues' : IssueRow(r)
    <3>1. \A e \in recent : IssueRow(EventRow(e))
        BY ScanAssumption DEF EventRow, IssueRow, Typed
    <3> QED BY <1>6, <3>1 DEF EventPass, Typed, RunTyped
  <2>2. pass' \in Passes(pass'.rows) /\ pass'.rows = {}
      BY <1>5, <1>6 DEF EventPass
  <2>3. /\ stage' = "logs" /\ toRead' = LogsOf(target)
        /\ UNCHANGED <<pending, target, probe, cursors, histVars, faults>>
      BY <1>6 DEF EventPass
  <2>4. RunTyped' /\ HistTyped'
      BY <2>1, <2>2, <2>3 DEF histVars, Typed, RunTyped, HistTyped, Stages
  <2> QED BY <1>6, <2>4, DaemonTyped DEF EventPass, Typed
<1>7. CASE PassFails
  <2>1. pass' \in Passes(pass'.rows) /\ pass'.rows = {}
      BY <1>5, <1>7 DEF PassFails
  <2>2. /\ stage' \in {"events", "logs", "connect"} /\ toRead' \subseteq LogsOf(target)
        /\ (stage' # "logs" => toRead' = {}) /\ probe' = NoProbe
        /\ UNCHANGED <<pending, target, cursors, issues, histVars>>
      BY <1>7 DEF PassFails
  <2>3. RunTyped' /\ HistTyped'
      BY <2>1, <2>2 DEF histVars, Typed, RunTyped, HistTyped, Stages
  <2> QED BY <1>7, <2>3, DaemonTyped, FaultTyped DEF PassFails
<1> QED BY <1>1, <1>2, <1>3, <1>4, <1>6, <1>7

\* A probe that saw total lines behind those rotated away by then.
Seen(l, probed, total) ==
  /\ posBase[l] <= probed /\ probed <= base[l] /\ probed + total <= written[l]
  /\ base[l] # probed => probed + total <= base[l]
  /\ probed = posBase[l] /\ cursors[l] # NoCursor => cursors[l] <= total

\* A probe in progress.
Sighted ==
  probe # NoProbe =>
    /\ probe.log \in toRead /\ probe.window.count # 0
    /\ probe.window = Window(probe.total, cursors[probe.log])
    /\ Seen(probe.log, probe.base, probe.total)

\* A read of log l ends.
Reads(l, w, text, position, probed, total) ==
  /\ IsRead(l, w, text, position, probed, total) /\ Seen(l, probed, total)
  /\ pass' = Recorded(l, w, text, position, probed)
  /\ toRead' = toRead \ {l} /\ readNow' = readNow \cup {l} /\ probe' = NoProbe

(* A probe either leaves a probe behind or ends the read, a browse ends it.*)
LEMMA ProbeOrRead ==
  ASSUME Typed, Sighted, NEW l \in Logs, Probe(l), Seen(l, base[l], Total(l))
  PROVE  \/ /\ probe' = [log |-> l, window |-> Window(Total(l), cursors[l]), total |-> Total(l), base |-> base[l]]
            /\ Window(Total(l), cursors[l]).count # 0
            /\ UNCHANGED <<pass, toRead, readNow>>
         \/ \E w, text, position, probed, total : Reads(l, w, text, position, probed, total)
<1> DEFINE w == Window(Total(l), cursors[l])
<1>1. CASE w.count # 0
    BY <1>1 DEF Probe
<1>2. CASE w.count = 0
  <2>1. Total(l) \in 0..MaxLines /\ base[l] \in 0..MaxLines
      BY ScanAssumption DEF Typed, LogsTyped, Total
  <2>2. IsRead(l, w, {}, Total(l), base[l], Total(l))
      BY <1>2, <2>1 DEF IsRead
  <2>3. /\ pass' = Recorded(l, w, {}, Total(l), base[l]) /\ toRead' = toRead \ {l}
        /\ readNow' = readNow \cup {l} /\ probe' = NoProbe
      BY <1>2 DEF Probe
  <2>4. Reads(l, w, {}, Total(l), base[l], Total(l))
      BY <2>2, <2>3 DEF Reads
  <2> HIDE DEF w
  <2> QED BY <2>4
<1> QED BY <1>1, <1>2

(* A browse ends a read.                                                   *)
LEMMA BrowseReads ==
  ASSUME Typed, Sighted, Browse
  PROVE  \E l \in toRead : \E w, text, position, probed, total :
           Reads(l, w, text, position, probed, total)
<1>1. probe \in Probes /\ probe.log \in toRead /\ probe.window.count # 0
    BY DEF Typed, RunTyped, Sighted, Browse
<1> DEFINE l == probe.log
           w == probe.window
           text == {i \in w.start..(w.start + w.count - 1) : i <= Total(l)}
<1>2. probe.base \in 0..MaxLines /\ probe.total \in 0..MaxLines
    BY <1>1 DEF Probes
<1>3. w = Window(probe.total, cursors[l]) /\ Seen(l, probe.base, probe.total)
    BY <1>1 DEF Sighted, Browse
<1>4. IsRead(l, w, text, PositionAfter(w, text, probe.total), probe.base, probe.total)
    BY <1>1, <1>2, <1>3 DEF IsRead
<1>5. Reads(l, w, text, PositionAfter(w, text, probe.total), probe.base, probe.total)
    BY <1>3, <1>4 DEF Reads, Browse
<1> QED BY <1>1, <1>5

(* A read that ends keeps the types.                                       *)
LEMMA ReadsTyped ==
  ASSUME Typed, stage = "logs", stage' = "logs", NEW l \in toRead,
         NEW w, NEW text, NEW position, NEW probed, NEW total,
         Reads(l, w, text, position, probed, total),
         UNCHANGED <<alarmVars, envVars, first, pending, target, cursors, issues, failed, posBase,
                     passed, logged, again, owned, dropped, blind, summary, alarmsPaged, faults>>
  PROVE  Typed'
<1>1. l \in Logs
    BY DEF Typed, RunTyped, LogsOf
<1>2. probed + total <= MaxLines
  <2>1. probed \in 0..MaxLines /\ total \in 0..MaxLines /\ written[l] \in 0..MaxLines
      BY <1>1 DEF Reads, IsRead, Typed, LogsTyped
  <2> QED BY <2>1, ScanAssumption DEF Reads, Seen
<1>3. pass' \in Passes(pass'.rows) /\ \A r \in pass'.rows : LogRow(r)
    BY <1>1, <1>2, RecordedIs DEF Reads
<1>4. RunTyped'
    BY <1>3 DEF Reads, Typed, RunTyped
<1>5. HistTyped'
    BY <1>1 DEF Reads, Typed, HistTyped
<1> QED BY <1>4, <1>5, DaemonTyped DEF Typed

(* The pass over the logs.                                                 *)
LEMMA ProbeTyped ==
  ASSUME Typed, Sighted, NEW l \in Logs, Probe(l), Seen(l, base[l], Total(l))
  PROVE  Typed'
<1>1. /\ stage = "logs" /\ stage' = "logs" /\ l \in toRead
      /\ UNCHANGED <<alarmVars, envVars, first, pending, target, cursors, issues, failed, posBase,
                     passed, logged, again, owned, dropped, blind, summary, alarmsPaged, faults>>
    BY DEF Probe
<1>2. CASE \E w, text, position, probed, total : Reads(l, w, text, position, probed, total)
    BY <1>1, <1>2, ReadsTyped
<1>3. CASE /\ probe' = [log |-> l, window |-> Window(Total(l), cursors[l]), total |-> Total(l),
                        base |-> base[l]]
           /\ UNCHANGED <<pass, toRead, readNow>>
  <2>1. Total(l) \in 0..MaxLines /\ base[l] \in 0..MaxLines
      BY ScanAssumption DEF Typed, LogsTyped, Total
  <2>2. cursors[l] \in Cursors
      BY DEF Typed, RunTyped
  <2>3. Window(Total(l), cursors[l]) \in Windows
      BY <2>1, <2>2, WindowIs
  <2>4. probe' \in Probes
      BY <1>3, <2>1, <2>3 DEF Probes
  <2>5. RunTyped' /\ HistTyped'
      BY <1>1, <1>3, <2>4 DEF Typed, RunTyped, HistTyped
  <2> QED BY <1>1, <2>5, DaemonTyped DEF Typed
<1> QED BY <1>2, <1>3, ProbeOrRead

(* The lines come back.                                                    *)
LEMMA BrowseTyped == ASSUME Typed, Sighted, Browse PROVE Typed'
<1>1. /\ stage = "logs" /\ stage' = "logs"
      /\ UNCHANGED <<alarmVars, envVars, first, pending, target, cursors, issues, failed, posBase,
                     passed, logged, again, owned, dropped, blind, summary, alarmsPaged, faults>>
    BY DEF Browse
<1> QED BY <1>1, BrowseReads, ReadsTyped

(* One log cannot be read.                                                 *)
LEMMA ReadFailsTyped == ASSUME Typed, NEW l \in Logs, ReadFails(l) PROVE Typed'
<1>1. pass \in Passes(pass.rows) /\ pass' = [pass EXCEPT !.rows = pass.rows \cup {UnreadRow(l)}]
    BY DEF Typed, RunTyped, ReadFails, ReadFailure
<1>2. pass' \in Passes(pass'.rows) /\ pass'.rows = pass.rows \cup {UnreadRow(l)}
    BY <1>1 DEF Passes
<1>3. \A r \in pass'.rows : LogRow(r)
    BY <1>2 DEF LogRow, Typed, RunTyped
<1>4. RunTyped' /\ HistTyped'
    BY <1>2, <1>3 DEF ReadFails, histVars, Typed, RunTyped, HistTyped
<1> QED BY <1>4, DaemonTyped, FaultTyped DEF ReadFails

(* The cursors advance.                                                    *)
LEMMA AdvanceTyped == ASSUME Typed, Advance PROVE Typed'
<1>1. pass' \in Passes(pass'.rows) /\ pass'.rows = {}
    BY PassTyped DEF Advance
<1>2. \A r \in issues' : IssueRow(r)
    BY DEF Advance, Typed, RunTyped, IssueRow
<1>3. RunTyped'
    BY <1>1, <1>2 DEF Advance, Typed, RunTyped, Passes, Stages
<1>4. HistTyped'
    BY DEF Advance, Typed, RunTyped, HistTyped, Passes
<1> QED BY <1>3, <1>4, DaemonTyped DEF Advance, Typed

(* The end of the cycle, and the start of a process.                       *)
LEMMA EndTyped ==
  ASSUME Typed, WriteLog \/ WriteFails \/ SendWebhook \/ SendFails \/ Restart
  PROVE  Typed'
<1>1. CASE Restart
    BY <1>1, FreshTyped, FaultTyped, DaemonTyped DEF Restart
<1>2. ASSUME NEW rows \in SUBSET issues, Logged(rows)
      PROVE  logged' \subseteq LineIds /\ owned' \subseteq LineIds
  <2>1. \A r \in rows : IssueRow(r)
      BY DEF Typed, RunTyped
  <2> QED BY <1>2, <2>1, RowsTyped DEF Logged, Typed, HistTyped
<1>3. Summary \in {"none", "clear", "complete", "incomplete"}
    BY DEF Summary
<1>4. CASE WriteLog
  <2>1. logged' \subseteq LineIds /\ owned' \subseteq LineIds
      BY <1>2, <1>4 DEF WriteLog
  <2>2. stage' \in {"page", "idle"} /\ summary' \in {summary, Summary} /\ Scanned
      BY <1>4 DEF WriteLog
  <2>3. RunTyped'
      BY <1>4, <2>2 DEF WriteLog, Scanned, Typed, RunTyped, Stages
  <2>4. HistTyped'
      BY <1>3, <1>4, <2>1, <2>2 DEF WriteLog, Typed, HistTyped
  <2> QED BY <1>4, <2>3, <2>4, DaemonTyped DEF WriteLog, Typed
<1>5. CASE WriteFails
  <2>1. CASE first /\ Fresh
      BY <1>5, <2>1, FreshTyped, FaultTyped, DaemonTyped DEF WriteFails
  <2>2. CASE ~first
    <3>1. PICK rows \in SUBSET issues : Logged(rows)
        BY <1>5, <2>2 DEF WriteFails
    <3>2. logged' \subseteq LineIds /\ owned' \subseteq LineIds
        BY <1>2, <3>1
    <3>3. RunTyped' /\ HistTyped'
        BY <1>5, <2>2, <3>2 DEF WriteFails, Scanned, Typed, RunTyped, HistTyped, Stages
    <3> QED BY <1>5, <3>3, FaultTyped, DaemonTyped DEF WriteFails
  <2> QED BY <1>5, <2>1, <2>2 DEF WriteFails
<1>6. CASE SendWebhook \/ SendFails
  <2>1. RunTyped' /\ HistTyped'
      BY <1>3, <1>6 DEF SendWebhook, SendFails, Typed, RunTyped, HistTyped, Stages
  <2> QED BY <1>6, <2>1, FaultTyped, DaemonTyped DEF SendWebhook, SendFails, Typed
<1> QED BY <1>1, <1>4, <1>5, <1>6
-----------------------------------------------------------------------------
(* Where a cursor stands                                                   *)

\* The place among all lines ever written that a cursor of a rotation stands
\* for, in a log whose last rotation left now lines behind: once the log has
\* rotated, only the line the cursor passed is sure.
Front(now, cursor, rotation, behind) ==
  IF rotation = now /\ cursor # NoCursor THEN rotation + cursor ELSE behind

Stands(now, end, cursor, rotation, behind) ==
  /\ rotation <= now
  /\ behind <= Front(now, cursor, rotation, behind) /\ Front(now, cursor, rotation, behind) <= end
  /\ rotation # now => behind <= now
  /\ cursor = NoCursor => behind = 0

\* Every cursor stands at a line that was written.
Standing == \A l \in Logs : Stands(base[l], written[l], cursors[l], posBase[l], passed[l])

\* In the pass over the logs, the positions of the logs still to read are the
\* cursors', and no position falls back.
InPass ==
  stage = "logs" => \A l \in Logs :
    /\ Stands(base[l], written[l], pass.position[l], pass.rotation[l], pass.behind[l])
    /\ passed[l] <= pass.behind[l]
    /\ l \in toRead => /\ pass.position[l] = cursors[l] /\ pass.rotation[l] = posBase[l]
                       /\ pass.behind[l] = passed[l]

(* A log that rotates leaves its cursors where they were, at the least.    *)
LEMMA StandsAfterRotation ==
  ASSUME NEW now \in Nat, NEW end \in Nat, now < end, NEW cursor \in Cursors,
         NEW rotation \in Nat, NEW behind \in Nat,
         Stands(now, end, cursor, rotation, behind)
  PROVE  /\ Stands(end, end, cursor, rotation, behind)
         /\ Front(end, cursor, rotation, behind) <= Front(now, cursor, rotation, behind)
<1>1. rotation < end /\ Front(end, cursor, rotation, behind) = behind
    BY DEF Stands, Front
<1>2. Front(now, cursor, rotation, behind) \in Nat
    BY ScanAssumption DEF Front, Cursors
<1>3. behind <= Front(now, cursor, rotation, behind) /\ Front(now, cursor, rotation, behind) <= end
      /\ (cursor = NoCursor => behind = 0)
    BY DEF Stands
<1>4. behind <= end
    BY <1>2, <1>3
<1> QED BY <1>1, <1>3, <1>4 DEF Stands

(* A read that got lines, or found that there is nothing new, stands where *)
(* it read to; the lines it got lie behind the line passed before.         *)
LEMMA StandsAfterLines ==
  ASSUME NEW now \in Nat, NEW end \in Nat, now <= end,
         NEW cursor \in Cursors, NEW rotation \in Nat, NEW behind \in Nat,
         Stands(now, end, cursor, rotation, behind),
         NEW position \in Nat, now + position <= end,
         NEW start \in Nat, start >= 1, start <= position + 1,
         rotation = now /\ cursor # NoCursor => cursor < start
  PROVE  /\ Stands(now, end, position, now, now + position)
         /\ Front(now, position, now, now + position) = now + position
         /\ behind <= now + position /\ behind < now + start
<1>1. NoCursor \notin Nat /\ (cursor # NoCursor => cursor \in Nat)
    BY ScanAssumption DEF Cursors
<1>2. position # NoCursor
    BY <1>1
<1>3. Front(now, position, now, now + position) = now + position
    BY <1>2 DEF Front
<1>4. behind < now + start
  <2>1. CASE cursor = NoCursor \/ rotation # now
    <3>1. behind <= now
        BY <2>1 DEF Stands
    <3> QED BY <3>1
  <2>2. CASE cursor # NoCursor /\ rotation = now
    <3>1. behind <= now + cursor /\ cursor < start /\ cursor \in Nat
        BY <1>1, <2>2 DEF Stands, Front
    <3> QED BY <3>1
  <2> QED BY <2>1, <2>2
<1>5. Stands(now, end, position, now, now + position)
    BY <1>2, <1>3 DEF Stands
<1> QED BY <1>3, <1>4, <1>5

(* A read that got nothing, although the probe saw total lines, stands     *)
(* where it stood: the log was empty, or has rotated since the probe.      *)
LEMMA StandsAfterNothing ==
  ASSUME NEW now \in Nat, NEW end \in Nat, now <= end,
         NEW cursor \in Cursors, NEW rotation \in Nat, NEW behind \in Nat,
         Stands(now, end, cursor, rotation, behind),
         NEW probed \in Nat, NEW total \in Nat, rotation <= probed, probed <= now,
         probed = now => total = 0 /\ end = now
  PROVE  /\ Stands(now, end, total, probed, behind)
         /\ Front(now, total, probed, behind) = IF probed = now THEN now ELSE behind
<1>1. total # NoCursor
    BY ScanAssumption
<1>2. /\ behind <= Front(now, cursor, rotation, behind) /\ Front(now, cursor, rotation, behind) <= end
      /\ (rotation # now => behind <= now)
    BY DEF Stands
<1>3. Front(now, cursor, rotation, behind) \in Nat
    BY ScanAssumption DEF Front, Cursors
<1>4. behind <= end
    BY <1>2, <1>3
<1>5. CASE probed = now
  <2>1. Front(now, total, probed, behind) = now
      BY <1>1, <1>5 DEF Front
  <2> QED BY <1>1, <1>4, <1>5, <2>1 DEF Stands
<1>6. CASE probed # now
  <2>1. Front(now, total, probed, behind) = behind /\ rotation # now
      BY <1>6 DEF Front
  <2> QED BY <1>1, <1>2, <1>4, <1>6, <2>1 DEF Stands
<1> QED BY <1>5, <1>6

\* What a read leaves out and says so: the gap of a skip row, the first read's
\* tail, what an unseen rotation took.
LeftOut(l, w, probed, r) ==
  (IF w.skipped THEN UpTo(l, probed + w.start - 1) ELSE {}) \cup r.tail \cup r.unseen

\* What is accounted for after a read, if what the cursor stood for was before.
After(l, w, text, probed, r) ==
  UpTo(l, Front(base[l], cursors[l], posBase[l], passed[l]))
    \cup Quiet \cup {<<l, n>> : n \in Loud(l, text)} \cup LeftOut(l, w, probed, r)

(* What a read of a log does to its position, and what it accounts for: the*)
(* lines it got come after the line passed before, and all up to the new   *)
(* position is either read, or accounted for before, or left out on record.*)
LEMMA ReadAdvances ==
  ASSUME Typed, Standing, InPass, stage = "logs", NEW l \in toRead,
         NEW w, NEW text, NEW position, NEW probed, NEW total,
         IsRead(l, w, text, position, probed, total), Seen(l, probed, total),
         NEW r, r = Recorded(l, w, text, position, probed)
  PROVE  /\ Stands(base[l], written[l], r.position[l], r.rotation[l], r.behind[l])
         /\ passed[l] <= r.behind[l]
         /\ \A n \in Loud(l, text) : passed[l] < n /\ n <= r.behind[l]
         /\ UpTo(l, Front(base[l], r.position[l], r.rotation[l], r.behind[l]))
              \subseteq After(l, w, text, probed, r)
<1> DEFINE now == base[l]
           end == written[l]
           cursor == cursors[l]
           rotation == posBase[l]
           behind == passed[l]
           went == text # {} \/ w.count = 0
           knew == IF w.skipped \/ cursor = NoCursor THEN probed ELSE rotation
<1>1. /\ l \in Logs /\ now \in Nat /\ end \in Nat /\ now <= end /\ end <= MaxLines
      /\ cursor \in Cursors /\ rotation \in Nat /\ behind \in Nat
      /\ probed \in 0..MaxLines /\ total \in 0..MaxLines /\ probed \in Nat /\ total \in Nat
      /\ MaxLines \in Nat /\ NoCursor \notin Nat
  <2>1. l \in Logs
      BY DEF Typed, RunTyped, LogsOf
  <2> QED BY <2>1, ScanAssumption DEF Typed, LogsTyped, RunTyped, HistTyped, IsRead
<1>2. Stands(now, end, cursor, rotation, behind)
    BY <1>1 DEF Standing
<1>3. /\ rotation <= probed /\ probed <= now /\ probed + total <= end
      /\ (now # probed => probed + total <= now)
      /\ (probed = rotation /\ cursor # NoCursor => cursor <= total)
    BY DEF Seen
<1>4. /\ w \in Windows /\ w.start \in Nat /\ w.start >= 1 /\ w.start <= total + 1
      /\ (w.count = 0 => cursor # NoCursor /\ cursor = total /\ ~w.skipped)
      /\ (~w.skipped /\ cursor # NoCursor => w.start = cursor + 1 /\ w.count = total - cursor)
      /\ (w.skipped => cursor # NoCursor /\ (total < cursor \/ w.start > cursor + 1))
      /\ (w.count # 0 /\ w.start > total => total = 0 /\ w.start = 1)
  <2>1. w = Window(total, cursor)
      BY DEF IsRead
  <2>2. w \in Windows => w.start \in Nat /\ w.start >= 1
      BY <1>1 DEF Windows
  <2> QED BY <1>1, <2>1, <2>2, WindowIs
<1>5. /\ Total(l) \in Nat /\ now + Total(l) = end /\ position \in Nat
      /\ (text # {} => w.start <= position /\ position <= Total(l) /\ text = w.start..position)
      /\ (text = {} => position = total)
      /\ (text = {} /\ w.count # 0 => Total(l) < w.start)
    BY <1>1, TextIs
<1>6. pass.position[l] = cursor /\ pass.rotation[l] = rotation /\ pass.behind[l] = behind
    BY <1>1 DEF InPass
<1>7. /\ pass.position \in [Logs -> Cursors] /\ pass.rotation \in [Logs -> 0..MaxLines]
      /\ pass.behind \in [Logs -> 0..MaxLines]
    BY DEF Typed, RunTyped, Passes
<1>8. /\ r.position[l] = position /\ r.rotation[l] = IF went THEN now ELSE probed
      /\ r.behind[l] = IF went THEN now + position ELSE behind
    BY <1>1, <1>6, <1>7 DEF Recorded
<1>9. /\ (cursor = NoCursor => UpTo(l, probed + w.start - 1) \subseteq r.tail)
      /\ (went /\ now # knew => UpTo(l, now + w.start - 1) \subseteq r.unseen)
    BY <1>6 DEF Recorded
<1>10. rotation = now => probed = now
    BY <1>1, <1>3
<1> DEFINE start == w.start
<1>13. /\ now \in Nat /\ end \in Nat /\ now <= end /\ end <= MaxLines /\ MaxLines \in Nat
       /\ start \in Nat /\ start >= 1 /\ position \in Nat
    BY <1>1, <1>4, <1>5
<1>11. CASE went
  <2>1. now + position <= end /\ w.start <= position + 1
    <3>1. CASE text # {}
        BY <1>1, <1>4, <1>5, <3>1
    <3>2. CASE text = {}
      <4>1. w.count = 0 /\ position = total
          BY <1>5, <1>11, <3>2
      <4>2. position = Total(l)
          BY <4>1 DEF IsRead
      <4>3. w.start <= position + 1
          BY <1>4, <4>1
      <4> QED BY <1>1, <1>5, <4>2, <4>3
    <3> QED BY <3>1, <3>2
  <2>2. rotation = now /\ cursor # NoCursor => cursor < w.start
    <3>1. ASSUME rotation = now, cursor # NoCursor PROVE cursor < w.start
      <4>1. cursor \in Nat /\ cursor <= total
          BY <1>1, <1>3, <1>10, <3>1 DEF Cursors
      <4> QED BY <1>1, <1>4, <3>1, <4>1
    <3> QED BY <3>1
  <2>3. /\ Stands(now, end, position, now, now + position)
        /\ Front(now, position, now, now + position) = now + position
        /\ behind <= now + position /\ behind < now + w.start
    <3>1. /\ cursor \in Cursors /\ rotation \in Nat /\ behind \in Nat
          /\ Stands(now, end, cursor, rotation, behind)
          /\ now + position <= end /\ start <= position + 1
          /\ (rotation = now /\ cursor # NoCursor => cursor < start)
        BY <1>1, <1>2, <2>1, <2>2
    <3> HIDE DEF now, end, cursor, rotation, behind, start
    <3>2. /\ Stands(now, end, position, now, now + position)
          /\ Front(now, position, now, now + position) = now + position
          /\ behind <= now + position /\ behind < now + start
        BY <1>13, <3>1, StandsAfterLines
    <3> QED BY <3>2 DEF start
  <2>4. r.position[l] = position /\ r.rotation[l] = now /\ r.behind[l] = now + position
      BY <1>8, <1>11
  <2>5. \A n \in Loud(l, text) : behind < n /\ n <= now + position
    <3> SUFFICES ASSUME NEW n \in Loud(l, text) PROVE behind < n /\ n <= now + position
        OBVIOUS
    <3>1. n \in Nat /\ n - now \in text
        BY <1>1 DEF Loud
    <3>2. n - now >= start /\ n - now <= position
        BY <1>4, <1>5, <3>1
    <3>3. behind < now + start /\ behind \in Nat
        BY <1>1, <2>3
    <3> HIDE DEF now, end, behind, start
    <3> QED BY <1>13, <3>1, <3>2, <3>3
  <2>6. UpTo(l, now + w.start - 1) \subseteq After(l, w, text, probed, r)
    <3>1. CASE now # knew
        BY <1>9, <1>11, <3>1 DEF After, LeftOut
    <3>2. CASE now = knew /\ w.skipped
        BY <3>2 DEF After, LeftOut
    <3>3. CASE now = knew /\ cursor = NoCursor
        BY <1>9, <3>3 DEF After, LeftOut
    <3>4. CASE now = knew /\ ~w.skipped /\ cursor # NoCursor
      <4>1. Front(now, cursor, rotation, behind) = now + w.start - 1
        <5>1. rotation = now /\ w.start = cursor + 1 /\ cursor \in Nat
            BY <1>1, <1>4, <3>4 DEF Cursors
        <5> QED BY <1>1, <3>4, <5>1 DEF Front
      <4> QED BY <4>1 DEF After
    <3> QED BY <3>1, <3>2, <3>3, <3>4
  <2>7. UpTo(l, now + position) \subseteq After(l, w, text, probed, r)
    <3> SUFFICES ASSUME NEW n \in 1..(now + position) PROVE <<l, n>> \in After(l, w, text, probed, r)
        BY DEF UpTo
    <3>1. CASE n <= now + w.start - 1
      <4>1. <<l, n>> \in UpTo(l, now + w.start - 1)
          BY <1>1, <1>4, <3>1 DEF UpTo
      <4> QED BY <2>6, <4>1
    <3>2. CASE n > now + w.start - 1
      <4>1. n \in 1..MaxLines /\ n - now \in w.start..position
        <5>1. n \in Nat /\ n <= now + position /\ n > now + start - 1 /\ now + position <= end
            BY <1>13, <2>1, <3>2
        <5>2. n \in 1..MaxLines /\ n - now \in start..position
          <6> HIDE DEF now, end, start
          <6> QED BY <1>13, <5>1
        <5> QED BY <5>2
      <4>2. text # {}
        <5>1. w.start <= position
            BY <1>4, <1>5, <4>1
        <5>2. w.count = 0 /\ text = {} => w.start = position + 1
            BY <1>1, <1>4, <1>5
        <5> QED BY <1>4, <1>5, <1>11, <5>1, <5>2
      <4>3. n - now \in text
          BY <1>5, <4>1, <4>2
      <4>4. CASE LineKind[n] = "quiet"
          BY <1>1, <4>1, <4>4 DEF After, Quiet, LineIds
      <4>5. CASE LineKind[n] # "quiet"
          BY <4>1, <4>3, <4>5 DEF After, Loud
      <4> QED BY <4>4, <4>5
    <3> QED BY <1>1, <1>4, <3>1, <3>2
  <2> HIDE DEF now, end, behind
  <2>8. UpTo(l, Front(now, r.position[l], r.rotation[l], r.behind[l])) \subseteq After(l, w, text, probed, r)
      BY <2>3, <2>4, <2>7
  <2> QED BY <2>3, <2>4, <2>5, <2>8 DEF now, end, behind
<1>12. CASE ~went
  <2>1. text = {} /\ w.count # 0 /\ position = total /\ Total(l) < w.start
      BY <1>5, <1>12
  <2>2. probed = now => total = 0 /\ w.start = 1 /\ end = now
    <3>1. ASSUME probed = now PROVE total = 0 /\ w.start = 1 /\ end = now
      <4>1. total <= Total(l)
          BY <1>1, <1>3, <1>5, <3>1
      <4>2. w.start > total
          BY <1>1, <1>4, <1>5, <2>1, <4>1
      <4>3. total = 0 /\ w.start = 1
          BY <1>4, <2>1, <4>2
      <4> QED BY <1>1, <1>5, <2>1, <4>3
    <3> QED BY <3>1
  <2>3. /\ Stands(now, end, total, probed, behind)
        /\ Front(now, total, probed, behind) = IF probed = now THEN now ELSE behind
    <3> HIDE DEF now, end, cursor, rotation, behind
    <3> QED BY <1>1, <1>2, <1>3, <2>2, StandsAfterNothing
  <2>4. r.position[l] = total /\ r.rotation[l] = probed /\ r.behind[l] = behind
      BY <1>8, <1>12, <2>1
  <2>5. Loud(l, text) = {}
      BY <2>1 DEF Loud
  <2>6. CASE probed = now
    <3>1. UpTo(l, now) \subseteq After(l, w, text, probed, r)
      <4>1. probed + w.start - 1 = now
          BY <1>1, <2>2, <2>6
      <4>2. cursor = NoCursor \/ w.skipped
          BY <1>1, <1>4, <2>1, <2>2, <2>6 DEF Cursors
      <4> QED BY <1>9, <4>1, <4>2 DEF After, LeftOut
    <3> HIDE DEF now, end, behind
    <3> QED BY <1>1, <2>3, <2>4, <2>5, <2>6, <3>1 DEF now, end, behind
  <2>7. CASE probed # now
    <3>1. UpTo(l, behind) \subseteq UpTo(l, Front(now, cursor, rotation, behind))
      <4>1. behind <= Front(now, cursor, rotation, behind)
          BY <1>2 DEF Stands
      <4>2. Front(now, cursor, rotation, behind) \in Nat
          BY <1>1 DEF Front, Cursors
      <4> QED BY <1>1, <4>1, <4>2 DEF UpTo
    <3>2. UpTo(l, behind) \subseteq After(l, w, text, probed, r)
        BY <3>1 DEF After
    <3> HIDE DEF now, end, behind
    <3> QED BY <1>1, <2>3, <2>4, <2>5, <2>7, <3>2 DEF now, end, behind
  <2> QED BY <2>6, <2>7
<1> QED BY <1>11, <1>12

-----------------------------------------------------------------------------
(* What becomes of the lines                                               *)

\* The rows of the pass stand for lines between the line a cursor passed and
\* the one it is about to pass.
RowsInPass ==
  stage = "logs" => \A x \in LinesOf(pass.rows) : passed[x[1]] < x[2] /\ x[2] <= pass.behind[x[1]]

\* Nothing was written twice, and nothing beyond a cursor was written or is
\* about to be.
Written ==
  /\ again = {} /\ \A x \in logged : x[2] <= passed[x[1]]
  /\ Active => /\ LinesOf(issues) \cap logged = {}
               /\ \A x \in LinesOf(issues) : x[2] <= passed[x[1]]

Record  == logged \cup Quiet \cup owned \cup dropped \cup blind
Covered == Record \cup (IF Active THEN LinesOf(issues) \cup SkippedBy(issues) ELSE {})
CoveredInPass ==
  Covered \cup LinesOf(pass.rows) \cup SkippedBy(pass.rows) \cup pass.tail \cup pass.unseen

\* All that a cursor stands for is on record or among the issues of the cycle.
Accounted ==
  \A l \in Logs : UpTo(l, Front(base[l], cursors[l], posBase[l], passed[l])) \subseteq Covered

\* All that a position of the pass stands for is, or is among the pass's rows.
AccountedInPass ==
  stage = "logs" => \A l \in Logs :
    UpTo(l, Front(base[l], pass.position[l], pass.rotation[l], pass.behind[l])) \subseteq CoveredInPass

LinesKept ==
  Sighted /\ Standing /\ InPass /\ RowsInPass /\ Written /\ Accounted /\ AccountedInPass

(* A line is up to any line that an earlier one is up to.                  *)
LEMMA UpToGrows ==
  ASSUME NEW l, NEW m \in Nat, NEW n \in Nat, m <= n
  PROVE  UpTo(l, m) \subseteq UpTo(l, n)
BY DEF UpTo

(* The types of what the positions of a log are made of.                   *)
LEMMA PlacesTyped ==
  ASSUME Typed, NEW l \in Logs
  PROVE  /\ base[l] \in Nat /\ written[l] \in Nat /\ base[l] <= written[l] /\ written[l] <= MaxLines
         /\ cursors[l] \in Cursors /\ posBase[l] \in Nat /\ passed[l] \in Nat
         /\ pass.position[l] \in Cursors /\ pass.rotation[l] \in Nat /\ pass.behind[l] \in Nat
BY ScanAssumption DEF Typed, LogsTyped, RunTyped, HistTyped, Passes

(* A place is a number.                                                    *)
LEMMA FrontNat ==
  ASSUME NEW now \in Nat, NEW cursor \in Cursors, NEW rotation \in Nat, NEW behind \in Nat
  PROVE  Front(now, cursor, rotation, behind) \in Nat
BY ScanAssumption DEF Front, Cursors

(* A host that writes or rotates a log leaves every position standing, and *)
(* none of them stands for more than it did.                               *)
LEMMA StandsAfterHost ==
  ASSUME Typed, NEW l \in Logs, HostWrites(l) \/ HostRotates(l), NEW k \in Logs,
         NEW cursor \in Cursors, NEW rotation \in Nat, NEW behind \in Nat,
         Stands(base[k], written[k], cursor, rotation, behind)
  PROVE  /\ Stands(base'[k], written'[k], cursor, rotation, behind)
         /\ UpTo(k, Front(base'[k], cursor, rotation, behind))
              \subseteq UpTo(k, Front(base[k], cursor, rotation, behind))
<1>1. /\ base[k] \in Nat /\ written[k] \in Nat /\ base[k] <= written[k]
      /\ Front(base[k], cursor, rotation, behind) \in Nat
    BY PlacesTyped, FrontNat
<1>2. CASE base'[k] = base[k]
  <2>1. written'[k] \in Nat /\ written'[k] >= written[k]
      BY <1>1 DEF HostWrites, HostRotates, Typed, LogsTyped
  <2> QED BY <1>1, <1>2, <2>1 DEF Stands
<1>3. CASE base'[k] # base[k]
  <2>1. base'[k] = written[k] /\ written'[k] = written[k] /\ base[k] < written[k]
    <3>1. HostRotates(l) /\ k = l
        BY <1>3 DEF HostWrites, HostRotates, Typed, LogsTyped
    <3> QED BY <1>1, <1>3, <3>1 DEF HostRotates, Typed, LogsTyped
  <2>2. /\ Stands(written[k], written[k], cursor, rotation, behind)
        /\ Front(written[k], cursor, rotation, behind) <= Front(base[k], cursor, rotation, behind)
      BY <1>1, <2>1, StandsAfterRotation
  <2>3. Front(written[k], cursor, rotation, behind) \in Nat
      BY <1>1, FrontNat
  <2> QED BY <1>1, <2>1, <2>2, <2>3, UpToGrows
<1> QED BY <1>2, <1>3

(* The hosts write and rotate their logs at any time.                      *)
LEMMA HostLines ==
  ASSUME Typed, LinesKept, NEW l \in Logs, HostWrites(l) \/ HostRotates(l)
  PROVE  LinesKept'
<1>1. /\ UNCHANGED <<stage, toRead, probe, pass, cursors, issues, posBase, passed, logged, again,
                     owned, dropped, blind>>
    BY DEF HostWrites, HostRotates, runVars, histVars
<1>2. ASSUME NEW k \in Logs
      PROVE  /\ Stands(base'[k], written'[k], cursors[k], posBase[k], passed[k])
             /\ UpTo(k, Front(base'[k], cursors[k], posBase[k], passed[k])) \subseteq Covered
    BY StandsAfterHost, PlacesTyped DEF LinesKept, Standing, Accounted
<1>3. ASSUME stage = "logs", NEW k \in Logs
      PROVE  /\ Stands(base'[k], written'[k], pass.position[k], pass.rotation[k], pass.behind[k])
             /\ UpTo(k, Front(base'[k], pass.position[k], pass.rotation[k], pass.behind[k]))
                  \subseteq CoveredInPass
    BY <1>3, StandsAfterHost, PlacesTyped DEF LinesKept, InPass, AccountedInPass
<1>4. UNCHANGED Covered /\ UNCHANGED CoveredInPass
    BY <1>1 DEF Covered, CoveredInPass, Record, Active
<1>5. Standing' /\ Accounted'
    BY <1>1, <1>2, <1>4 DEF Standing, Accounted
<1>6. InPass' /\ AccountedInPass'
    BY <1>1, <1>3, <1>4 DEF InPass, AccountedInPass, LinesKept
<1>7. RowsInPass' /\ Written'
    BY <1>1 DEF RowsInPass, Written, LinesKept, Active
<1>8. Sighted'
  <2> SUFFICES ASSUME probe # NoProbe PROVE Sighted'
      BY <1>1 DEF Sighted
  <2> DEFINE k == probe.log
  <2>1. /\ k \in toRead /\ probe.window.count # 0 /\ probe.window = Window(probe.total, cursors[k])
        /\ Seen(k, probe.base, probe.total)
      BY DEF LinesKept, Sighted
  <2>2. k \in Logs /\ probe.base \in Nat /\ probe.total \in Nat
      BY <2>1, ScanAssumption DEF Typed, RunTyped, Probes, LogsOf
  <2>3. base[k] \in Nat /\ written[k] \in Nat /\ base[k] <= written[k] /\ posBase[k] \in Nat
      BY <2>2, PlacesTyped
  <2>4. \/ base'[k] = base[k] /\ written'[k] \in {written[k], written[k] + 1}
        \/ base'[k] = written[k] /\ written'[k] = written[k]
      BY <2>2 DEF HostWrites, HostRotates, Typed, LogsTyped
  <2>5. Seen(k, probe.base, probe.total)'
      BY <1>1, <2>1, <2>2, <2>3, <2>4 DEF Seen
  <2> QED BY <1>1, <2>1, <2>5 DEF Sighted
<1> QED BY <1>5, <1>6, <1>7, <1>8 DEF LinesKept

(* Steps that move no cursor, read no log and write no line: the cycle up  *)
(* to the logs, a pass that raises, the webhook.                           *)
LEMMA AsideLines ==
  ASSUME Typed, LinesKept,
         UNCHANGED <<written, base, cursors, posBase, passed, logged, again, owned, dropped, blind>>,
         probe' = NoProbe, stage' = "logs" => pass' = NewPass,
         \/ /\ Active /\ Active'
            /\ LinesOf(issues') = LinesOf(issues) /\ SkippedBy(issues') = SkippedBy(issues)
         \/ ~Active /\ (Active' => LinesOf(issues') = {} /\ SkippedBy(issues') = {})
  PROVE  LinesKept'
<1>1. UNCHANGED Record /\ Covered \subseteq Covered'
    BY DEF Record, Covered
<1>2. Standing' /\ Accounted'
    BY <1>1 DEF Standing, Accounted, LinesKept
<1>3. Sighted'
    BY DEF Sighted
<1>4. Written'
    BY DEF Written, LinesKept
<1>5. ASSUME stage' = "logs" PROVE InPass' /\ RowsInPass' /\ AccountedInPass'
  <2>1. /\ pass'.rows = {} /\ pass'.position = cursors' /\ pass'.rotation = posBase'
        /\ pass'.behind = passed'
      BY <1>5 DEF NewPass
  <2>2. InPass'
    <3>1. \A l \in Logs : passed[l] <= passed[l]
        BY PlacesTyped
    <3> QED BY <1>2, <2>1, <3>1 DEF InPass, Standing
  <2>3. RowsInPass'
      BY <2>1 DEF RowsInPass, LinesOf
  <2>4. AccountedInPass'
      BY <1>2, <2>1 DEF Accounted, AccountedInPass, CoveredInPass
  <2> QED BY <2>2, <2>3, <2>4
<1>6. stage' # "logs" => InPass' /\ RowsInPass' /\ AccountedInPass'
    BY DEF InPass, RowsInPass, AccountedInPass
<1> QED BY <1>2, <1>3, <1>4, <1>5, <1>6 DEF LinesKept

(* The cycle up to the logs, and its failures.                             *)
LEMMA CycleLines ==
  ASSUME Typed, LinesKept,
         \/ StartCycle \/ AlarmPass \/ EventPass \/ PassFails \/ SendWebhook \/ SendFails
         \/ \E t \in Targets : Connect(t) \/ ConnectFails(t)
  PROVE  LinesKept'
<1>1. ASSUME NEW rows, \A r \in rows : r.source \notin {"host_log", "host_log:skipped"}
      PROVE  /\ LinesOf(issues \cup rows) = LinesOf(issues)
             /\ SkippedBy(issues \cup rows) = SkippedBy(issues)
  <2>1. LinesOf(rows) = {} /\ SkippedBy(rows) = {}
      BY <1>1, RowsOfOther
  <2>2. /\ LinesOf(issues \cup rows) = LinesOf(issues) \cup LinesOf(rows)
        /\ SkippedBy(issues \cup rows) = SkippedBy(issues) \cup SkippedBy(rows)
      BY RowsAdd
  <2> QED BY <2>1, <2>2
<1>2. UNCHANGED <<written, base, cursors, posBase, passed, logged, again, owned, dropped, blind>>
    BY DEF StartCycle, AlarmPass, EventPass, PassFails, SendWebhook, SendFails, Connect, ConnectFails,
           envVars, histVars
<1>3. CASE StartCycle
  <2>1. LinesOf(issues') = {} /\ SkippedBy(issues') = {}
      BY <1>3, RowsAdd DEF StartCycle
  <2>2. ~Active /\ probe' = NoProbe /\ stage' # "logs"
      BY <1>3 DEF StartCycle, Active, Typed, RunTyped
  <2> QED BY <1>2, <2>1, <2>2, AsideLines
<1>4. ASSUME NEW t \in Targets, Connect(t) PROVE LinesKept'
  <2>1. Active /\ Active' /\ issues' = issues /\ probe' = NoProbe /\ stage' # "logs"
      BY <1>4 DEF Connect, Active, Typed, RunTyped
  <2> QED BY <1>2, <2>1, AsideLines
<1>5. ASSUME NEW t \in Targets, ConnectFails(t) PROVE LinesKept'
  <2>1. Active /\ Active' /\ probe' = NoProbe /\ stage' # "logs"
      BY <1>5 DEF ConnectFails, Active, Typed, RunTyped
  <2>2. \A r \in {ConnectRow(t)} : r.source \notin {"host_log", "host_log:skipped"}
      BY DEF ConnectRow
  <2>3. issues' = issues \cup {ConnectRow(t)}
      BY <1>5 DEF ConnectFails
  <2>4. LinesOf(issues') = LinesOf(issues) /\ SkippedBy(issues') = SkippedBy(issues)
      BY <1>1, <2>2, <2>3
  <2> QED BY <1>2, <2>1, <2>4, AsideLines
<1>6. CASE AlarmPass
  <2>1. Active /\ Active' /\ probe' = NoProbe /\ stage' # "logs"
      BY <1>6 DEF AlarmPass, Active, Typed, RunTyped
  <2>2. PICK active \in ActiveAlarms :
          issues' = issues \cup IF target = AlarmTarget THEN AlarmIssues(active) ELSE {}
      BY <1>6 DEF AlarmPass
  <2> DEFINE rows == IF target = AlarmTarget THEN AlarmIssues(active) ELSE {}
  <2>3. \A r \in rows : r.source \notin {"host_log", "host_log:skipped"}
      BY DEF AlarmIssues, AlarmRow
  <2>4. issues' = issues \cup rows
      BY <2>2
  <2> HIDE DEF rows
  <2>5. LinesOf(issues') = LinesOf(issues) /\ SkippedBy(issues') = SkippedBy(issues)
      BY <1>1, <2>3, <2>4
  <2> QED BY <1>2, <2>1, <2>5, AsideLines
<1>7. CASE EventPass
  <2>1. Active /\ Active' /\ probe' = NoProbe /\ pass' = NewPass
      BY <1>7 DEF EventPass, Active, Typed, RunTyped
  <2>2. PICK rows : issues' = issues \cup rows
                    /\ \A r \in rows : r.source \notin {"host_log", "host_log:skipped"}
    <3>1. \A some : \A r \in {EventRow(e) : e \in some} : r.source \notin {"host_log", "host_log:skipped"}
        BY DEF EventRow
    <3> DEFINE seen == {e \in recent : /\ EventSeverity[e] # "info"
                                       /\ Rank(EventSeverity[e]) <= Rank(Threshold)}
               rows == IF target = AlarmTarget THEN {EventRow(e) : e \in seen} ELSE {}
    <3>2. issues' = issues \cup rows
        BY <1>7 DEF EventPass
    <3>3. \A r \in rows : r.source \notin {"host_log", "host_log:skipped"}
        BY <3>1
    <3> HIDE DEF rows
    <3> QED BY <3>2, <3>3
  <2>3. LinesOf(issues') = LinesOf(issues) /\ SkippedBy(issues') = SkippedBy(issues)
      BY <1>1, <2>2
  <2> QED BY <1>2, <2>1, <2>3, AsideLines
<1>8. CASE PassFails
  <2>1. /\ Active /\ Active' /\ probe' = NoProbe /\ issues' = issues
        /\ (stage' = "logs" => pass' = NewPass)
      BY <1>8 DEF PassFails, Active
  <2> QED BY <1>2, <2>1, AsideLines
<1>9. CASE SendWebhook \/ SendFails
  <2>1. ~Active /\ ~Active' /\ probe' = NoProbe /\ stage' # "logs"
      BY <1>9 DEF SendWebhook, SendFails, Active, Typed, RunTyped
  <2> QED BY <1>2, <2>1, AsideLines
<1> QED BY <1>3, <1>4, <1>5, <1>6, <1>7, <1>8, <1>9

(* A read of a log that ends.                                              *)
LEMMA ReadsLines ==
  ASSUME Typed, LinesKept, stage = "logs", stage' = "logs", NEW l \in toRead,
         NEW w, NEW text, NEW position, NEW probed, NEW total,
         Reads(l, w, text, position, probed, total),
         UNCHANGED <<alarmVars, envVars, first, pending, target, cursors, issues, failed, posBase,
                     passed, logged, again, owned, dropped, blind, summary, alarmsPaged, faults>>
  PROVE  LinesKept'
<1> DEFINE r == Recorded(l, w, text, position, probed)
<1>1. /\ IsRead(l, w, text, position, probed, total) /\ Seen(l, probed, total)
      /\ pass' = r /\ toRead' = toRead \ {l} /\ probe' = NoProbe
    BY DEF Reads
<1>2. l \in Logs /\ UNCHANGED <<written, base>>
    BY DEF Typed, RunTyped, LogsOf, envVars
<1>3. probed + total <= MaxLines
  <2>1. /\ probed \in Nat /\ total \in Nat /\ written[l] \in Nat /\ written[l] <= MaxLines
        /\ MaxLines \in Nat /\ probed + total <= written[l]
      BY <1>1, <1>2, PlacesTyped, ScanAssumption DEF IsRead, Seen
  <2> QED BY <2>1
<1>4. /\ LinesOf(r.rows) = LinesOf(pass.rows) \cup {<<l, n>> : n \in Loud(l, text)}
      /\ SkippedBy(r.rows) = SkippedBy(pass.rows) \cup
           (IF w.skipped THEN UpTo(l, probed + w.start - 1) ELSE {})
    BY <1>1, <1>2, <1>3, RecordedIs
<1>5. /\ Stands(base[l], written[l], r.position[l], r.rotation[l], r.behind[l])
      /\ passed[l] <= r.behind[l]
      /\ \A n \in Loud(l, text) : passed[l] < n /\ n <= r.behind[l]
      /\ UpTo(l, Front(base[l], r.position[l], r.rotation[l], r.behind[l]))
           \subseteq After(l, w, text, probed, r)
    BY <1>1, ReadAdvances DEF LinesKept
<1>6. /\ pass.tail \subseteq r.tail /\ pass.unseen \subseteq r.unseen
      /\ \A k \in Logs : k # l => /\ r.position[k] = pass.position[k] /\ r.rotation[k] = pass.rotation[k]
                                  /\ r.behind[k] = pass.behind[k]
    BY DEF Recorded, Typed, RunTyped, Passes
<1>7. pass.behind[l] = passed[l]
    BY <1>2 DEF LinesKept, InPass
<1> HIDE DEF r
<1>8. UNCHANGED Covered
    BY DEF Covered, Record, Active
<1>9. CoveredInPass \subseteq CoveredInPass'
    BY <1>1, <1>4, <1>6, <1>8 DEF CoveredInPass
<1>10. After(l, w, text, probed, r) \subseteq CoveredInPass'
  <2>1. UpTo(l, Front(base[l], cursors[l], posBase[l], passed[l])) \subseteq CoveredInPass'
      BY <1>2, <1>9 DEF LinesKept, Accounted, CoveredInPass
  <2>2. Quiet \subseteq CoveredInPass'
      BY <1>9 DEF CoveredInPass, Covered, Record
  <2>3. {<<l, n>> : n \in Loud(l, text)} \subseteq CoveredInPass'
      BY <1>1, <1>4 DEF CoveredInPass
  <2>4. LeftOut(l, w, probed, r) \subseteq CoveredInPass'
      BY <1>1, <1>4 DEF CoveredInPass, LeftOut
  <2> QED BY <2>1, <2>2, <2>3, <2>4 DEF After
<1>11. Standing' /\ Accounted' /\ Written' /\ Sighted'
    BY <1>1, <1>2, <1>8 DEF LinesKept, Standing, Accounted, Written, Sighted, Active
<1>12. InPass'
  <2> SUFFICES ASSUME NEW k \in Logs
               PROVE  /\ Stands(base[k], written[k], r.position[k], r.rotation[k], r.behind[k])
                      /\ passed[k] <= r.behind[k]
                      /\ k \in toRead \ {l} => /\ r.position[k] = cursors[k]
                                               /\ r.rotation[k] = posBase[k]
                                               /\ r.behind[k] = passed[k]
      BY <1>1, <1>2 DEF InPass
  <2>1. CASE k = l
      BY <1>5, <2>1
  <2>2. CASE k # l
      BY <1>6, <2>2 DEF LinesKept, InPass
  <2> QED BY <2>1, <2>2
<1>13. AccountedInPass'
  <2> SUFFICES ASSUME NEW k \in Logs
               PROVE  UpTo(k, Front(base[k], r.position[k], r.rotation[k], r.behind[k]))
                        \subseteq CoveredInPass'
      BY <1>1, <1>2 DEF AccountedInPass
  <2>1. CASE k = l
      BY <1>5, <1>10, <2>1
  <2>2. CASE k # l
      BY <1>6, <1>9, <2>2 DEF LinesKept, AccountedInPass
  <2> QED BY <2>1, <2>2
<1>14. RowsInPass'
  <2> SUFFICES ASSUME NEW x \in LinesOf(r.rows)
               PROVE  passed[x[1]] < x[2] /\ x[2] <= r.behind[x[1]]
      BY <1>1 DEF RowsInPass
  <2>1. CASE x \in LinesOf(pass.rows)
    <3>1. x \in LineIds
      <4>1. \A row \in pass.rows : IssueRow(row)
          BY DEF Typed, RunTyped, IssueRow
      <4> QED BY <2>1, <4>1, RowsTyped
    <3>2. x[1] \in Logs
        BY <3>1 DEF LineIds
    <3>3. passed[x[1]] < x[2] /\ x[2] <= pass.behind[x[1]]
        BY <2>1 DEF LinesKept, RowsInPass
    <3>4. x[1] # l
      <4>1. x[2] \in Nat /\ passed[l] \in Nat
          BY <1>2, <3>1, PlacesTyped, ScanAssumption DEF LineIds
      <4> QED BY <1>7, <3>3, <4>1
    <3> QED BY <1>6, <3>2, <3>3, <3>4
  <2>2. CASE x \in {<<l, n>> : n \in Loud(l, text)}
      BY <1>5, <2>2
  <2> QED BY <1>4, <2>1, <2>2
<1> QED BY <1>11, <1>12, <1>13, <1>14 DEF LinesKept

(* A read that fails keeps the position; its row stands for no line.       *)
LEMMA ReadFailsLines ==
  ASSUME Typed, LinesKept, NEW l \in Logs, ReadFails(l)
  PROVE  LinesKept'
<1>1. /\ stage = "logs" /\ stage' = "logs" /\ toRead' = toRead \ {l} /\ probe' = NoProbe
      /\ UNCHANGED <<written, base, cursors, issues, posBase, passed, logged, again, owned, dropped, blind>>
    BY DEF ReadFails, envVars, histVars
<1>2. /\ pass'.rows = pass.rows \cup {UnreadRow(l)} /\ pass'.position = pass.position
      /\ pass'.rotation = pass.rotation /\ pass'.behind = pass.behind
      /\ pass'.tail = pass.tail /\ pass'.unseen = pass.unseen
    BY DEF ReadFails, ReadFailure, Typed, RunTyped, Passes
<1>3. LinesOf(pass'.rows) = LinesOf(pass.rows) /\ SkippedBy(pass'.rows) = SkippedBy(pass.rows)
  <2>1. \A r \in {UnreadRow(l)} : r.source \notin {"host_log", "host_log:skipped"}
      BY DEF UnreadRow
  <2>2. LinesOf({UnreadRow(l)}) = {} /\ SkippedBy({UnreadRow(l)}) = {}
      BY <2>1, RowsOfOther
  <2>3. /\ LinesOf(pass.rows \cup {UnreadRow(l)}) = LinesOf(pass.rows) \cup LinesOf({UnreadRow(l)})
        /\ SkippedBy(pass.rows \cup {UnreadRow(l)}) = SkippedBy(pass.rows) \cup SkippedBy({UnreadRow(l)})
      BY RowsAdd
  <2> QED BY <1>2, <2>2, <2>3
<1>4. UNCHANGED Covered
    BY <1>1 DEF Covered, Record, Active
<1>5. UNCHANGED CoveredInPass
    BY <1>2, <1>3, <1>4 DEF CoveredInPass
<1>6. Standing' /\ Accounted' /\ Written' /\ Sighted'
    BY <1>1, <1>4 DEF LinesKept, Standing, Accounted, Written, Sighted, Active
<1>7. InPass' /\ RowsInPass' /\ AccountedInPass'
    BY <1>1, <1>2, <1>3, <1>5 DEF LinesKept, InPass, RowsInPass, AccountedInPass
<1> QED BY <1>6, <1>7 DEF LinesKept

(* The pass returns: the cursors take its positions, the cycle its rows.   *)
LEMMA AdvanceLines == ASSUME Typed, LinesKept, Advance PROVE LinesKept'
<1>1. /\ stage = "logs" /\ Active /\ Active' /\ stage' # "logs" /\ probe' = NoProbe
      /\ UNCHANGED <<written, base, logged, again, dropped>>
      /\ cursors' = pass.position /\ posBase' = pass.rotation /\ passed' = pass.behind
      /\ issues' = issues \cup pass.rows
      /\ owned' = owned \cup pass.tail /\ blind' = blind \cup pass.unseen
    BY DEF Advance, Active, envVars
<1>2. /\ LinesOf(issues') = LinesOf(issues) \cup LinesOf(pass.rows)
      /\ SkippedBy(issues') = SkippedBy(issues) \cup SkippedBy(pass.rows)
    BY <1>1, RowsAdd
<1>3. CoveredInPass \subseteq Covered'
    BY <1>1, <1>2 DEF CoveredInPass, Covered, Record
<1>4. Standing'
    BY <1>1 DEF LinesKept, InPass, Standing
<1>5. Accounted'
    BY <1>1, <1>3 DEF LinesKept, AccountedInPass, Accounted
<1>6. \A x \in LineIds : /\ x[1] \in Logs /\ x[2] \in Nat /\ passed[x[1]] \in Nat /\ pass.behind[x[1]] \in Nat
                         /\ passed[x[1]] <= pass.behind[x[1]]
    BY <1>1, PlacesTyped DEF LineIds, LinesKept, InPass
<1>7. LinesOf(issues) \subseteq LineIds /\ LinesOf(pass.rows) \subseteq LineIds /\ logged \subseteq LineIds
  <2>1. \A row \in pass.rows : IssueRow(row)
      BY DEF Typed, RunTyped, IssueRow
  <2> QED BY <2>1, RowsTyped DEF Typed, RunTyped, HistTyped
<1>8. Written'
  <2>1. \A x \in logged : x[2] <= pass.behind[x[1]]
    <3> SUFFICES ASSUME NEW x \in logged PROVE x[2] <= pass.behind[x[1]]
        OBVIOUS
    <3>1. x[2] <= passed[x[1]]
        BY DEF LinesKept, Written
    <3> QED BY <1>6, <1>7, <3>1
  <2>2. LinesOf(pass.rows) \cap logged = {}
    <3> SUFFICES ASSUME NEW x \in logged, x \in LinesOf(pass.rows) PROVE FALSE
        OBVIOUS
    <3>1. x[2] <= passed[x[1]] /\ passed[x[1]] < x[2]
        BY <1>1 DEF LinesKept, Written, RowsInPass
    <3> QED BY <1>6, <1>7, <3>1
  <2>3. \A x \in LinesOf(issues) : x[2] <= pass.behind[x[1]]
    <3> SUFFICES ASSUME NEW x \in LinesOf(issues) PROVE x[2] <= pass.behind[x[1]]
        OBVIOUS
    <3>1. x[2] <= passed[x[1]]
        BY <1>1 DEF LinesKept, Written
    <3> QED BY <1>6, <1>7, <3>1
  <2>4. \A x \in LinesOf(pass.rows) : x[2] <= pass.behind[x[1]]
      BY <1>1 DEF LinesKept, RowsInPass
  <2> QED BY <1>1, <1>2, <2>1, <2>2, <2>3, <2>4 DEF LinesKept, Written
<1>9. Sighted' /\ InPass' /\ RowsInPass' /\ AccountedInPass'
    BY <1>1 DEF Sighted, InPass, RowsInPass, AccountedInPass
<1> QED BY <1>4, <1>5, <1>8, <1>9 DEF LinesKept

(* A new process has passed no line.                                       *)
LEMMA FreshLines == ASSUME Typed, LinesKept, Fresh, UNCHANGED envVars PROVE LinesKept'
<1>1. /\ stage' = "idle" /\ probe' = NoProbe /\ again' = {} /\ logged' = {} /\ ~Active'
      /\ cursors' = [l \in Logs |-> NoCursor]
      /\ posBase' = [l \in Logs |-> 0] /\ passed' = [l \in Logs |-> 0] /\ UNCHANGED <<written, base>>
    BY DEF Fresh, LinesKept, Written, Active, envVars
<1>2. Standing' /\ Accounted'
  <2> SUFFICES ASSUME NEW l \in Logs
               PROVE  /\ Stands(base[l], written[l], NoCursor, 0, 0)
                      /\ UpTo(l, Front(base[l], NoCursor, 0, 0)) = {}
      BY <1>1 DEF Standing, Accounted
  <2>1. Front(base[l], NoCursor, 0, 0) = 0
      BY DEF Front
  <2> QED BY <2>1, PlacesTyped DEF Stands, UpTo
<1> QED BY <1>1, <1>2 DEF LinesKept, Sighted, InPass, RowsInPass, AccountedInPass, Written

(* The end of the cycle: each issue is written, or the failed cycle is on  *)
(* record.                                                                 *)
LEMMA EndLines == ASSUME Typed, LinesKept, WriteLog \/ WriteFails \/ Restart PROVE LinesKept'
<1>1. CASE Fresh /\ UNCHANGED envVars
    BY <1>1, FreshLines
<1>2. ASSUME NEW rows \in SUBSET issues, Logged(rows), Active, ~Active', probe' = NoProbe,
             UNCHANGED <<written, base, cursors, posBase, passed, blind>>,
             dropped \subseteq dropped',
             (LinesOf(issues) \cup SkippedBy(issues)) \ (LinesOf(rows) \cup SkippedBy(rows)) \subseteq dropped'
      PROVE  LinesKept'
  <2>1. issues = rows \cup issues
      BY <1>2
  <2>2. LinesOf(issues) = LinesOf(rows) \cup LinesOf(issues)
      BY <2>1, RowsAdd
  <2>3. /\ LinesOf(rows) \cap logged = {} /\ \A x \in LinesOf(rows) : x[2] <= passed[x[1]]
      BY <1>2, <2>2 DEF LinesKept, Written
  <2>4. Written'
      BY <1>2, <2>3 DEF LinesKept, Written, Logged
  <2>5. Covered \subseteq Covered'
      BY <1>2 DEF Covered, Record, Logged
  <2>6. Standing' /\ Accounted'
      BY <1>2, <2>5 DEF LinesKept, Standing, Accounted
  <2> QED BY <1>2, <2>4, <2>6
       DEF LinesKept, Sighted, InPass, RowsInPass, AccountedInPass, Active
<1>3. CASE WriteLog
  <2>1. /\ Logged(issues) /\ Active /\ ~Active' /\ probe' = NoProbe
        /\ UNCHANGED <<written, base, cursors, posBase, passed, blind, dropped>>
      BY <1>3 DEF WriteLog, Scanned, Active, envVars, Typed, RunTyped
  <2> QED BY <1>2, <2>1
<1>4. CASE WriteFails /\ ~first
  <2>1. PICK rows \in SUBSET issues :
          /\ Logged(rows)
          /\ dropped' = dropped \cup ((LinesOf(issues) \cup SkippedBy(issues)) \ LinesOf(rows))
      BY <1>4 DEF WriteFails
  <2>2. /\ Active /\ ~Active' /\ probe' = NoProbe
        /\ UNCHANGED <<written, base, cursors, posBase, passed, blind>>
      BY <1>4 DEF WriteFails, Scanned, Active, envVars, Typed, RunTyped
  <2> QED BY <1>2, <2>1, <2>2
<1> QED BY <1>1, <1>3, <1>4 DEF WriteFails, Restart

-----------------------------------------------------------------------------
(* All clear                                                               *)

\* A cycle with no issue and no failure has read the logs of every target it
\* is done with.
Reached ==
  Active => \/ failed \/ issues # {}
            \/ \A l \in Logs :
                 \/ l \in readNow \/ TargetOf[l] \in pending
                 \/ TargetOf[l] = target /\ stage \in {"alarms", "events"}
                 \/ TargetOf[l] = target /\ stage = "logs" /\ (l \in toRead \/ pass.rows # {})

Clear == Reached /\ (stage = "page" => issues # {}) /\ AllClearIsTrue

(* The cycle up to the logs reaches every target, or has failed.           *)
LEMMA CycleClear ==
  ASSUME Typed, Clear,
         \/ StartCycle \/ AlarmPass \/ EventPass \/ PassFails
         \/ \E t \in Targets : Connect(t) \/ ConnectFails(t)
  PROVE  Clear'
<1>1. CASE StartCycle
    BY <1>1, ScanAssumption DEF StartCycle, Clear, Reached, AllClearIsTrue
<1>2. ASSUME NEW t \in Targets, Connect(t) PROVE Clear'
    BY <1>2 DEF Connect, histVars, Clear, Reached, AllClearIsTrue, Active
<1>3. ASSUME NEW t \in Targets, ConnectFails(t) PROVE Clear'
    BY <1>3 DEF ConnectFails, Clear, Reached, AllClearIsTrue
<1>4. CASE AlarmPass
    BY <1>4 DEF AlarmPass, histVars, Clear, Reached, AllClearIsTrue, Active
<1>5. CASE EventPass
  <2>1. /\ stage = "events" /\ stage' = "logs" /\ toRead' = {l \in Logs : TargetOf[l] = target}
        /\ issues \subseteq issues' /\ UNCHANGED <<failed, readNow, pending, target>>
      BY <1>5 DEF EventPass, histVars, LogsOf
  <2> QED BY <2>1 DEF Clear, Reached, AllClearIsTrue, Active
<1>6. CASE PassFails
    BY <1>6 DEF PassFails, Clear, Reached, AllClearIsTrue
<1> QED BY <1>1, <1>2, <1>3, <1>4, <1>5, <1>6

(* The pass over the logs reads every log of the target or leaves a row.   *)
LEMMA PassClear ==
  ASSUME Typed, Clear, stage = "logs", stage' = "logs", NEW l,
         toRead' \in {toRead, toRead \ {l}},
         toRead' = toRead \/ l \in readNow' \/ pass'.rows # {},
         readNow \subseteq readNow', pass.rows \subseteq pass'.rows,
         UNCHANGED <<failed, issues, pending, target>>
  PROVE  Clear'
BY DEF Clear, Reached, AllClearIsTrue, Active

(* A read keeps the rows the pass has found.                               *)
LEMMA ReadsClear ==
  ASSUME Typed, Clear, stage = "logs", stage' = "logs", NEW l,
         NEW w, NEW text, NEW position, NEW probed, NEW total,
         Reads(l, w, text, position, probed, total),
         UNCHANGED <<failed, issues, pending, target>>
  PROVE  Clear'
<1>1. /\ toRead' = toRead \ {l} /\ readNow' = readNow \cup {l}
      /\ pass.rows \subseteq Recorded(l, w, text, position, probed).rows
      /\ pass' = Recorded(l, w, text, position, probed)
    BY DEF Reads, Recorded
<1> QED BY <1>1, PassClear

(* The pass returns its rows.                                              *)
LEMMA AdvanceClear == ASSUME Typed, Clear, Advance PROVE Clear'
BY DEF Advance, Clear, Reached, AllClearIsTrue, Active

(* The cycle ends: it says "all clear" when it has no issue and no failure.*)
LEMMA EndClear ==
  ASSUME Typed, Clear, WriteLog \/ WriteFails \/ SendWebhook \/ SendFails \/ Restart
  PROVE  Clear'
<1>1. CASE WriteLog
  <2>1. CASE ToPage # {}
      BY <1>1, <2>1 DEF WriteLog, ToPage, Clear, Reached, AllClearIsTrue, Active
  <2>2. CASE ToPage = {}
    <3>1. stage' = "idle" /\ summary' = Summary /\ UNCHANGED readNow
        BY <1>1, <2>2 DEF WriteLog
    <3>2. Summary = "clear" => readNow = Logs
        BY <1>1 DEF WriteLog, Scanned, Summary, Clear, Reached, Active, Typed, HistTyped
    <3> QED BY <3>1, <3>2 DEF Clear, Reached, AllClearIsTrue, Active
  <2> QED BY <2>1, <2>2
<1>2. CASE WriteFails \/ Restart
    BY <1>2 DEF WriteFails, Restart, Fresh, Clear, Reached, AllClearIsTrue, Active
<1>3. CASE SendWebhook \/ SendFails
    BY <1>3 DEF SendWebhook, SendFails, Summary, Clear, Reached, AllClearIsTrue, Active
<1> QED BY <1>1, <1>2, <1>3

-----------------------------------------------------------------------------
(* The whole                                                               *)

\* Fault-free or not, whatever the hosts do: what every step keeps.
Inv == Typed /\ LinesKept /\ Clear /\ Told

(* The daemon starts with no cursor, no issue and nothing to say.          *)
LEMMA InvInit == Init => Inv
<1> SUFFICES ASSUME Init PROVE Inv
    OBVIOUS
<1>1. Typed
    BY TypedInit
<1>2. Standing /\ Accounted
  <2> SUFFICES ASSUME NEW l \in Logs
               PROVE  /\ Stands(base[l], written[l], NoCursor, 0, 0)
                      /\ UpTo(l, Front(base[l], NoCursor, 0, 0)) = {}
      BY DEF Init, Standing, Accounted
  <2>1. Front(base[l], NoCursor, 0, 0) = 0
      BY DEF Front
  <2> QED BY <1>1, <2>1, PlacesTyped DEF Stands, UpTo
<1>3. LinesKept
    BY <1>2 DEF Init, LinesKept, Sighted, InPass, RowsInPass, AccountedInPass, Written, Active
<1>4. Clear
    BY DEF Init, Clear, Reached, AllClearIsTrue, Active
<1>5. Told
    BY DEF Init, AlarmInit, Told
<1> QED BY <1>1, <1>3, <1>4, <1>5 DEF Inv

(* A probe of a log that stands finds at least what the cursor has.        *)
LEMMA StandingIsSeen ==
  ASSUME Typed, LinesKept, NEW l \in Logs
  PROVE  Seen(l, base[l], Total(l))
<1>1. /\ base[l] \in Nat /\ written[l] \in Nat /\ base[l] <= written[l] /\ posBase[l] \in Nat
      /\ (cursors[l] # NoCursor => cursors[l] \in Nat)
    BY PlacesTyped, ScanAssumption DEF Cursors
<1>2. Stands(base[l], written[l], cursors[l], posBase[l], passed[l])
    BY DEF LinesKept, Standing
<1>3. base[l] = posBase[l] /\ cursors[l] # NoCursor => cursors[l] <= Total(l)
    BY <1>1, <1>2 DEF Stands, Front, Total
<1> QED BY <1>1, <1>2, <1>3 DEF Stands, Seen, Total

(* A read of a log, from its probe to its end, keeps it all.               *)
LEMMA ReadKeeps ==
  ASSUME Typed, LinesKept, Clear, Browse \/ \E l \in Logs : Probe(l)
  PROVE  Typed' /\ LinesKept' /\ Clear'
<1>1. /\ stage = "logs" /\ stage' = "logs"
      /\ UNCHANGED <<alarmVars, envVars, first, pending, target, cursors, issues, failed, posBase,
                     passed, logged, again, owned, dropped, blind, summary, alarmsPaged, faults>>
    BY DEF Browse, Probe
<1>2. ASSUME NEW l \in toRead, NEW w, NEW text, NEW position, NEW probed, NEW total,
             Reads(l, w, text, position, probed, total)
      PROVE  Typed' /\ LinesKept' /\ Clear'
    BY <1>1, <1>2, ReadsTyped, ReadsLines, ReadsClear
<1>3. CASE Browse
    BY <1>2, <1>3, BrowseReads DEF LinesKept
<1>4. ASSUME NEW l \in Logs, Probe(l) PROVE Typed' /\ LinesKept' /\ Clear'
  <2>1. Seen(l, base[l], Total(l)) /\ l \in toRead
      BY <1>4, StandingIsSeen DEF Probe
  <2>2. CASE \E w, text, position, probed, total : Reads(l, w, text, position, probed, total)
      BY <1>2, <2>1, <2>2
  <2>3. CASE /\ probe' = [log |-> l, window |-> Window(Total(l), cursors[l]), total |-> Total(l),
                          base |-> base[l]]
             /\ Window(Total(l), cursors[l]).count # 0
             /\ UNCHANGED <<pass, toRead, readNow>>
    <3>1. Typed'
        BY <1>4, <2>1, ProbeTyped DEF LinesKept
    <3>2. /\ probe'.log = l /\ probe'.window = Window(Total(l), cursors[l])
          /\ probe'.total = Total(l) /\ probe'.base = base[l]
        BY <2>3
    <3>3. Seen(l, base[l], Total(l)) = Seen(l, base[l], Total(l))'
        BY <1>1 DEF Seen, Total, envVars
    <3>4. Sighted'
        BY <1>1, <2>1, <2>3, <3>2, <3>3 DEF Sighted, Seen, Total, envVars
    <3>5. UNCHANGED Covered /\ UNCHANGED CoveredInPass
        BY <1>1, <2>3 DEF Covered, CoveredInPass, Record, Active
    <3>6. Standing' /\ InPass' /\ RowsInPass' /\ Written' /\ Accounted' /\ AccountedInPass'
        BY <1>1, <2>3, <3>5 DEF LinesKept, Standing, InPass, RowsInPass, Written, Accounted,
             AccountedInPass, Active, envVars
    <3>7. Clear'
        BY <1>1, <2>3, PassClear
    <3> QED BY <3>1, <3>4, <3>6, <3>7 DEF LinesKept
  <2> QED BY <1>4, <2>1, <2>2, <2>3, ProbeOrRead DEF LinesKept
<1> QED BY <1>3, <1>4

(* Every step keeps it all.                                                *)
LEMMA InvNext == Inv /\ [Next]_vars => Inv'
<1> SUFFICES ASSUME Inv, [Next]_vars PROVE Inv'
    OBVIOUS
<1>1. Typed /\ LinesKept /\ Clear /\ Told /\ AlarmTypeOK
    BY DEF Inv, Typed
<1>2. ASSUME UNCHANGED <<status, reset, moved>> PROVE Told'
    BY <1>1, <1>2 DEF Told, ToldOf
<1>3. ASSUME UNCHANGED <<written, base, runVars, histVars>> PROVE LinesKept' /\ Clear'
  <2>1. UNCHANGED Covered /\ UNCHANGED CoveredInPass
      BY <1>3 DEF Covered, CoveredInPass, Record, Active, runVars, histVars
  <2>2. Sighted' /\ Standing' /\ InPass' /\ RowsInPass' /\ Written' /\ Accounted' /\ AccountedInPass'
      BY <1>1, <1>3, <2>1 DEF LinesKept, Sighted, Seen, Standing, InPass, RowsInPass, Written,
           Accounted, AccountedInPass, Active, runVars, histVars
  <2>3. Clear'
      BY <1>1, <1>3 DEF Clear, Reached, AllClearIsTrue, Active, runVars, histVars
  <2> QED BY <2>2, <2>3 DEF LinesKept
<1>4. CASE AlarmTools
  <2>1. AlarmNext /\ UNCHANGED <<envVars, runVars, histVars>>
      BY <1>4 DEF AlarmTools
  <2>2. Told'
      BY <1>1, <2>1, ToldNext
  <2>3. Typed'
      BY <1>1, <1>4, EnvTyped
  <2> QED BY <1>3, <2>1, <2>2, <2>3 DEF Inv, envVars
<1>5. ASSUME NEW e \in Events, EventComesOrGoes(e) PROVE Inv'
    BY <1>1, <1>2, <1>3, <1>5, EnvTyped DEF Inv, EventComesOrGoes
<1>6. ASSUME NEW l \in Logs, HostWrites(l) \/ HostRotates(l) PROVE Inv'
  <2>1. UNCHANGED <<alarmVars, runVars, histVars>>
      BY <1>6 DEF HostWrites, HostRotates
  <2>2. Clear'
      BY <1>1, <2>1 DEF Clear, Reached, AllClearIsTrue, Active, runVars, histVars
  <2> QED BY <1>1, <1>2, <1>6, <2>1, <2>2, EnvTyped, HostLines DEF Inv, alarmVars
<1>7. CASE \/ StartCycle \/ AlarmPass \/ EventPass \/ PassFails
           \/ \E t \in Targets : Connect(t) \/ ConnectFails(t)
  <2>1. UNCHANGED alarmVars
      BY <1>7 DEF StartCycle, AlarmPass, EventPass, PassFails, Connect, ConnectFails
  <2> QED BY <1>1, <1>2, <1>7, <2>1, CycleTyped, CycleLines, CycleClear DEF Inv, alarmVars
<1>8. CASE Browse \/ \E l \in Logs : Probe(l)
  <2>1. UNCHANGED alarmVars
      BY <1>8 DEF Browse, Probe
  <2> QED BY <1>1, <1>2, <1>8, <2>1, ReadKeeps DEF Inv, alarmVars
<1>9. ASSUME NEW l \in Logs, ReadFails(l) PROVE Inv'
  <2>1. UNCHANGED alarmVars /\ Typed'
      BY <1>1, <1>9, ReadFailsTyped DEF ReadFails
  <2>2. /\ stage = "logs" /\ stage' = "logs" /\ toRead' = toRead \ {l}
        /\ UNCHANGED <<failed, issues, pending, target, readNow>>
        /\ pass.rows \subseteq pass'.rows /\ pass'.rows # {}
      BY <1>1, <1>9 DEF ReadFails, ReadFailure, histVars, Typed, RunTyped, Passes
  <2>3. Clear'
      BY <1>1, <2>2, PassClear
  <2> QED BY <1>1, <1>2, <1>9, <2>1, <2>3, ReadFailsLines DEF Inv, alarmVars
<1>10. CASE Advance
  <2>1. UNCHANGED alarmVars
      BY <1>10 DEF Advance
  <2> QED BY <1>1, <1>2, <1>10, <2>1, AdvanceTyped, AdvanceLines, AdvanceClear DEF Inv, alarmVars
<1>11. CASE WriteLog \/ WriteFails \/ SendWebhook \/ SendFails \/ Restart
  <2>1. UNCHANGED alarmVars
      BY <1>11 DEF WriteLog, WriteFails, SendWebhook, SendFails, Restart
  <2> QED BY <1>1, <1>2, <1>11, <2>1, EndTyped, EndLines, CycleLines, EndClear DEF Inv, alarmVars
<1>12. CASE UNCHANGED vars
  <2>1. UNCHANGED <<alarmVars, written, base, recent, runVars, histVars, faults>>
      BY <1>12 DEF vars, envVars
  <2>2. Typed'
      BY <1>1, <2>1 DEF alarmVars, runVars, histVars, Typed, AlarmTypeOK, Triggered, LogsTyped,
           RunTyped, HistTyped
  <2> QED BY <1>2, <1>3, <2>1, <2>2 DEF Inv, alarmVars
<1> QED BY <1>4, <1>5, <1>6, <1>7, <1>8, <1>9, <1>10, <1>11, <1>12 DEF Next, DaemonStep

(* The inductive invariant of the scan daemon.                             *)
LEMMA Invariant == Spec => []Inv
BY InvInit, InvNext, PTL DEF Spec

(* The alarms, the logs and the cycle keep their types, and a cursor never *)
(* leaves the log it is for.                                               *)
THEOREM ScanTypeCorrect == Spec => []TypeOK
<1>1. Inv => TypeOK
    BY TypedIsTypeOK DEF Inv
<1> QED BY <1>1, Invariant, PTL

(* Whatever grew, rotated or failed between the probe and the read or      *)
(* between two cycles, one daemon run writes no line of a host log twice,  *)
(* and a line that a cursor has passed is in the scan log or on record as  *)
(* left out (log_scanner.py, _read_log; scheduler.py, _run_scan).          *)
THEOREM OnceOrOnRecord == Spec => []OnceAndNeverSilentlyLost
<1>1. Inv => OnceAndNeverSilentlyLost
  <2> SUFFICES ASSUME Inv PROVE OnceAndNeverSilentlyLost
      OBVIOUS
  <2>1. again = {}
      BY DEF Inv, LinesKept, Written
  <2>2. ASSUME stage = "idle", NEW l \in Logs
        PROVE  UpTo(l, passed[l]) \subseteq logged \cup Quiet \cup owned \cup dropped \cup blind
    <3>1. UpTo(l, Front(base[l], cursors[l], posBase[l], passed[l])) \subseteq Covered
        BY DEF Inv, LinesKept, Accounted
    <3>2. Covered = Record
        BY <2>2 DEF Covered, Active
    <3>3. /\ passed[l] \in Nat /\ passed[l] <= Front(base[l], cursors[l], posBase[l], passed[l])
          /\ Front(base[l], cursors[l], posBase[l], passed[l]) \in Nat
        BY PlacesTyped, FrontNat DEF Inv, LinesKept, Standing, Stands
    <3> QED BY <3>1, <3>2, <3>3, UpToGrows DEF Record
  <2> QED BY <2>1, <2>2 DEF OnceAndNeverSilentlyLost
<1> QED BY <1>1, Invariant, PTL

(* "All clear" is only ever said of a cycle that reached every target and  *)
(* read every host log (scheduler.py, _log_summary).                       *)
THEOREM ClearMeansRead == Spec => []AllClearIsTrue
<1>1. Inv => AllClearIsTrue
    BY DEF Inv, Clear
<1> QED BY <1>1, Invariant, PTL

(* The reset of an alarm clears only alarms of the colour and kind that it *)
(* told the caller of, and of those only the ones it listed, or counted    *)
(* with a list that says it is cut short, and the ones that changed since  *)
(* (alarm_mgmt.py, measure_reset and reset_alarm).                         *)
THEOREM ResetsKeepToScope == Spec => ResetKeepsToItsScope
<1> DEFINE Scope == \A a \in Alarms :
                      status[a] # "clear" /\ status'[a] = "clear" /\ changes' = changes
                      => /\ status[a] = reset.status /\ EntityType[a] \in reset.types
                         /\ \/ a \in reset.listed \cup moved
                            \/ a \in reset.will /\ Cardinality(reset.will) > PreviewLimit
<1>1. Inv /\ [Next]_vars => [Scope]_vars
  <2> SUFFICES ASSUME Inv, Next PROVE Scope
      BY DEF vars
  <2>1. AlarmTypeOK /\ Told
      BY DEF Inv, Typed
  <2>2. CASE AlarmTools
      BY <2>1, <2>2, ClearIsToldOf DEF AlarmTools, ToldOf
  <2>3. CASE UNCHANGED alarmVars
      BY <2>3 DEF alarmVars
  <2>4. ASSUME NEW e \in Events, EventComesOrGoes(e) PROVE Scope
      BY <2>4 DEF EventComesOrGoes
  <2>5. AlarmTools \/ UNCHANGED alarmVars \/ \E e \in Events : EventComesOrGoes(e)
      BY DEF Next, DaemonStep, StartCycle, AlarmPass, EventPass, Browse, Advance, WriteLog, SendWebhook,
           Connect, Probe, PassFails, WriteFails, SendFails, Restart, ConnectFails, ReadFails,
           HostWrites, HostRotates
  <2> QED BY <2>2, <2>3, <2>4, <2>5
<1>2. Spec => [][Scope]_vars
    BY <1>1, Invariant, PTL DEF Spec
<1> QED BY <1>2 DEF ResetKeepsToItsScope
=============================================================================
