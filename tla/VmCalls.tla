------------------------------ MODULE VmCalls ------------------------------
(***************************************************************************)
(* One call of a tool that changes a VM: power_off_vm, migrate_vm,         *)
(* revert_vm_snapshot, delete_vm_snapshot, restore_vm_clean_slate and      *)
(* delete_vm, over MCP or from the command line, while others work on the  *)
(* same VMs.                                                               *)
(*                                                                         *)
(* Over MCP the call measures the VM of a name (ops/vm_gate.py,            *)
(* vm_delete_gate.py), refuses on what stands in the way, and hands the    *)
(* name to an executor (ops/vm_lifecycle.py), which looks it up again.     *)
(* From the command line the executor is handed the name after two         *)
(* prompts, and nothing is compared.                                       *)
(***************************************************************************)
EXTENDS Inventory, Integers

CONSTANTS
  Snaps,       \* snapshot ids
  SnapNames,
  Hosts,
  Root,        \* the parent of a snapshot without one
  NoUuid, NoSnap, NoHost, NoAck, NoCall,
  MaxTasks,    \* bound: the removals under way at a time
  MaxChanges   \* bound: what the others do

Snapshot == [vm : Uuids, name : SnapNames, parent : Snaps \cup {Root}]
Acks     == [uuid : Uuids, count : 0..Cardinality(Snaps)]

ASSUME CallAssumption ==
  /\ IsFiniteSet(Snaps)
  /\ NoUuid \notin Uuids /\ NoSnap \notin Snaps /\ NoHost \notin Hosts /\ Root \notin Snaps
  /\ NoAck \notin Acks /\ Unborn \notin Snapshot /\ Gone \notin Snapshot
  /\ MaxTasks \in Nat /\ MaxChanges \in Nat

VARIABLES
  suspended,   \* the suspended VMs
  snap,        \* [Snaps -> Snapshot \cup {Unborn, Gone}]
  host,        \* [Uuids -> Hosts]
  closed,      \* the hosts in maintenance mode, or not connected
  denied,      \* BOOLEAN: rules.yaml denies power_off_vm
  tasks,       \* the removals of snapshots that run on after the answer
  ack,         \* the acknowledge_with of the last preview of delete_vm
  call,
  changes

vms  == <<named, on, suspended, snap, host>>
site == <<closed, denied, tasks>>
vars == <<vms, site, ack, call, changes>>

Tools    == {"power_off", "migrate", "revert", "remove", "slate", "delete"}
Effects  == {"stopped", "moved", "reverted", "removed", "destroyed"}
Answers  == {"none", "noop", "refused", "error", "rejected", "said", "powered_off",
             "still_running", "migrated", "reverted", "started", "removed", "deleted"}

Call == [tool : Tools, mcp : BOOLEAN, name : Names, snap : SnapNames \cup {NoSnap},
         host : Hosts \cup {NoHost}, hard : BOOLEAN,  \* force; remove_children
         ack  : Acks \cup {NoAck},
         at   : {"measured", "holding", "asked", "stopped", "read", "waiting", "answered"},
         seen : Uuids \cup {NoUuid},        \* the instance UUID it measured
         shot : Snaps \cup {NoSnap},        \* the snapshot id it measured
         vm   : Uuids \cup {NoUuid},        \* the VM object the executor holds
         node : Snaps \cup {NoSnap},        \* the snapshot it holds
         task : {"none", "started", "success", "error"},   \* its removal of a snapshot
         did  : SUBSET (Effects \X Uuids),  \* history: what the call changed
         free : BOOLEAN,                    \* history: power_off_vm was allowed at some time
         answer : Answers]

TypeOK ==
  /\ InventoryTypeOK
  /\ suspended \subseteq {u \in Uuids : Alive(u)} \ on
  /\ snap \in [Snaps -> Snapshot \cup {Unborn, Gone}]
  /\ host \in [Uuids -> Hosts]
  /\ closed \subseteq Hosts /\ denied \in BOOLEAN /\ tasks \subseteq Snaps \X BOOLEAN
  /\ ack \in Acks \cup {NoAck}
  /\ call \in Call \cup {NoCall}
  /\ changes \in 0..MaxChanges

-----------------------------------------------------------------------------
(* Snapshots                                                               *)

Live       == {s \in Snaps : snap[s] \notin {Unborn, Gone}}
SnapsOf(u) == {s \in Live : snap[s].vm = u}
\* matching_snapshots
Matches(u, n) == {s \in SnapsOf(u) : snap[s].name = n}

\* A snapshot and those below it.
Tree(s) ==
  LET below[k \in Nat] ==
        IF k = 0 THEN {s}
        ELSE below[k - 1] \cup {t \in Live : snap[t].parent \in below[k - 1]}
  IN  below[Cardinality(Snaps)]

Removed(s, children) ==
  [t \in Snaps |-> IF t \in (IF children THEN Tree(s) ELSE {s}) THEN Gone
                   ELSE IF t \in Live /\ snap[t].parent = s
                        THEN [snap[t] EXCEPT !.parent = snap[s].parent] ELSE snap[t]]

Without(u) == [s \in Snaps |-> IF s \in SnapsOf(u) THEN Gone ELSE snap[s]]

Init ==
  /\ named \in [Uuids -> Names \cup {Unborn}]
  /\ Cardinality({u \in Uuids : Alive(u)}) = 1
  /\ on \in SUBSET {u \in Uuids : Alive(u)} /\ suspended = {}
  /\ snap = [s \in Snaps |-> Unborn]
  /\ \E h \in Hosts : host = [u \in Uuids |-> h]
  /\ closed = {} /\ denied \in BOOLEAN /\ tasks = {}
  /\ ack = NoAck /\ call = NoCall /\ changes = 0

-----------------------------------------------------------------------------
(* The others: the ungated tools, which act on whichever VM has the name,  *)
(* and everyone else with an account.                                      *)

Other == changes < MaxChanges /\ changes' = changes + 1 /\ UNCHANGED <<ack, call>>

CreateVm(u, n) ==
  /\ Other /\ Born(u, n, FALSE)
  /\ UNCHANGED <<suspended, snap, host, site>>

\* The clone gets any name, one that is taken included, and may be switched on.
CloneVm(u, n, new, running) ==
  /\ Other /\ ~FindsNoOne(n) /\ Born(u, new, running)
  /\ UNCHANGED <<suspended, snap, host, site>>

PowerOnVm(n) ==
  /\ Other
  /\ \E u \in Uuids \ on : Finds(n, u) /\ PowerOn(u) /\ suspended' = suspended \ {u}
  /\ UNCHANGED <<snap, host, site>>

SuspendVm(n) ==
  /\ Other
  /\ \E u \in on : Finds(n, u) /\ PowerOff(u) /\ suspended' = suspended \cup {u}
  /\ UNCHANGED <<snap, host, site>>

CreateSnapshot(u, s, n) ==
  /\ Other
  /\ Alive(u) /\ snap[s] = Unborn
  /\ \E p \in SnapsOf(u) \cup {Root} :
       snap' = [snap EXCEPT ![s] = [vm |-> u, name |-> n, parent |-> p]]
  /\ UNCHANGED <<named, on, suspended, host, site>>

OthersDestroy(u) ==
  /\ Other /\ OutsideDestroy(u)
  /\ suspended' = suspended \ {u} /\ snap' = Without(u)
  /\ UNCHANGED <<host, site>>

OthersStop(u) ==
  /\ Other /\ u \in on /\ PowerOff(u)
  /\ UNCHANGED <<suspended, snap, host, site>>

OthersRemove(s) ==
  /\ Other /\ s \in Live /\ snap' = Removed(s, FALSE)
  /\ UNCHANGED <<named, on, suspended, host, site>>

HostTurns(h) ==
  /\ Other
  /\ closed' = IF h \in closed THEN closed \ {h} ELSE closed \cup {h}
  /\ UNCHANGED <<vms, denied, tasks>>

PolicyTurns ==
  /\ changes < MaxChanges /\ changes' = changes + 1
  /\ denied' = ~denied
  /\ call' = IF call = NoCall THEN call ELSE [call EXCEPT !.free = TRUE]
  /\ UNCHANGED <<vms, closed, tasks, ack>>

-----------------------------------------------------------------------------
(* Measuring                                                               *)

Off(u) == Alive(u) /\ u \notin on \cup suspended

\* The call of one tool for the VM of a name, before it measured anything.
New(tool, mcp, n) ==
  [tool |-> tool, mcp |-> mcp, name |-> n, snap |-> NoSnap, host |-> NoHost, hard |-> FALSE,
   ack |-> NoAck, at |-> "measured", seen |-> NoUuid, shot |-> NoSnap, vm |-> NoUuid,
   node |-> NoSnap, task |-> "none", did |-> {}, free |-> ~denied, answer |-> "none"]

Snapshotted == {"revert", "remove", "slate"}
TheOne(set) == CHOOSE x \in set : TRUE

\* confirm=True: the call is a noop, or refused, or goes on with what it measured.
Gate(c, u, noop, blocked) ==
  /\ call = NoCall
  /\ Finds(c.name, u)
  /\ call' = CASE noop -> [c EXCEPT !.at = "answered", !.answer = "noop"]
               [] ~noop /\ blocked -> [c EXCEPT !.at = "answered", !.answer = "refused"]
               [] OTHER ->
                    [c EXCEPT !.seen = u,
                              !.shot = IF c.tool \in Snapshotted
                                       THEN TheOne(Matches(u, c.snap)) ELSE NoSnap]
  /\ UNCHANGED <<vms, site, ack, changes>>

\* A suspended guest cannot be shut down.
PowerOffBlocked(u, hard) == ~hard /\ u \in suspended

\* _target_host_checks: in maintenance mode, or not connected.
NotReceiving(h) == h \in closed

MoveBlocked(h) == NotReceiving(h)

\* _locate_snapshot: none of the name, or several.
SnapshotBlocked(u, n) == Cardinality(Matches(u, n)) # 1

MeasurePowerOff(u, n, hard) ==
  Gate([New("power_off", TRUE, n) EXCEPT !.hard = hard], u, Off(u), PowerOffBlocked(u, hard))

MeasureMigrate(u, n, h) ==
  Gate([New("migrate", TRUE, n) EXCEPT !.host = h], u, host[u] = h, MoveBlocked(h))

MeasureRevert(u, n, s) ==
  Gate([New("revert", TRUE, n) EXCEPT !.snap = s], u, FALSE, SnapshotBlocked(u, s))

MeasureRemove(u, n, s, children) ==
  Gate([New("remove", TRUE, n) EXCEPT !.snap = s, !.hard = children], u, FALSE,
       SnapshotBlocked(u, s))

MeasureSlate(u, n, s) ==
  Gate([New("slate", TRUE, n) EXCEPT !.snap = s], u, FALSE, SnapshotBlocked(u, s))

\* VMNotFoundError, AmbiguousVMError
Unfound(n, tool) ==
  /\ call = NoCall /\ FindsNoOne(n)
  /\ call' = [New(tool, TRUE, n) EXCEPT !.at = "answered", !.answer = "error"]
  /\ UNCHANGED <<vms, site, ack, changes>>

\* refuse_on: something could not be read, or Tools do not run in the guest.
Unmeasured ==
  /\ call # NoCall /\ call.at = "measured" /\ call.mcp
  /\ call' = [call EXCEPT !.at = "answered", !.answer = "refused"]
  /\ UNCHANGED <<vms, site, ack, changes>>

\* vCenter's own check of the hosts' compatibility.
Incompatible ==
  /\ call # NoCall /\ call.at = "measured" /\ call.mcp /\ call.tool = "migrate"
  /\ call' = [call EXCEPT !.at = "answered", !.answer = "refused"]
  /\ UNCHANGED <<vms, site, ack, changes>>

-----------------------------------------------------------------------------
(* The commands show the VM they find, and ask twice.                      *)

\* get_vm_info, of which only the existence of the VM matters here.
Shown(n) == ~FindsNoOne(n)

\* snapshot-delete asks without showing the VM.
Prompt(c) ==
  /\ call = NoCall /\ (c.tool # "remove" => Shown(c.name))
  /\ call' = c
  /\ UNCHANGED <<vms, site, ack, changes>>

CliPowerOff(n, hard) == Prompt([New("power_off", FALSE, n) EXCEPT !.hard = hard])
CliMigrate(n, h)     == Prompt([New("migrate", FALSE, n) EXCEPT !.host = h])
CliRevert(n, s)      == Prompt([New("revert", FALSE, n) EXCEPT !.snap = s])
CliRemove(n, s, children) ==
  Prompt([New("remove", FALSE, n) EXCEPT !.snap = s, !.hard = children])
CliSlate(n, s)       == Prompt([New("slate", FALSE, n) EXCEPT !.snap = s])
CliDelete(n)         == Prompt(New("delete", FALSE, n))

CliRejected ==
  /\ call # NoCall /\ call.at = "measured" /\ ~call.mcp
  /\ call' = [call EXCEPT !.at = "answered", !.answer = "rejected"]
  /\ UNCHANGED <<vms, site, ack, changes>>

-----------------------------------------------------------------------------
(* delete_vm: previewed, then confirmed with what the preview showed.      *)

Measured(u) == [uuid |-> u, count |-> Cardinality(SnapsOf(u))]

\* delete_vm without confirm: measure_vm_delete, shown to the user.
PreviewDelete(n) ==
  /\ call = NoCall
  /\ \E u \in Uuids : Finds(n, u) /\ ack' = Measured(u)
  /\ UNCHANGED <<vms, site, call, changes>>

\* _refusal: powered on or suspended, or not what was acknowledged.
Refusal(u, a) == u \in on \cup suspended \/ a # Measured(u)

\* delete_vm_acknowledged looks the VM up once, measures it, and holds it.
ConfirmDelete(n) ==
  /\ call = NoCall
  /\ \E u \in Uuids :
       LET c == [New("delete", TRUE, n) EXCEPT !.ack = ack, !.seen = u]
       IN  /\ Finds(n, u)
           /\ call' = IF Refusal(u, ack)
                      THEN [c EXCEPT !.at = "answered", !.answer = "refused"]
                      ELSE [c EXCEPT !.at = "holding", !.vm = u]
  /\ UNCHANGED <<vms, site, ack, changes>>

-----------------------------------------------------------------------------
(* Executing                                                               *)

\* Fault: the executor takes whichever VM has the name.
FoundByName == {u \in Uuids : Finds(call.name, u)}

\* clean_slate is not told what was measured, nor is any command.
Expected == IF call.tool = "slate" THEN NoUuid ELSE call.seen

\* _require_vm, require_instance_uuid
Found == {u \in Uuids : Finds(call.name, u) /\ Expected \in {u, NoUuid}}

\* resolve_snapshot, _require_snapshot_id
Resolved(u) ==
  {s \in Matches(u, call.snap) : /\ Matches(u, call.snap) = {s}
                                 /\ Expected = NoUuid \/ s = call.shot}

Answered(a) == call' = [call EXCEPT !.at = "answered", !.answer = a]

\* A sentence that says that nothing was done: did_not_act, or printed in green.
NotDone == Answered(IF call.mcp THEN "refused" ELSE "said")
Done(a) == IF call.mcp THEN a ELSE "said"

At(label) == call # NoCall /\ call.at = label

\* The name finds no VM by now, or another one than was measured.
LookupRefused ==
  /\ At("measured") /\ Found = {}
  /\ Answered("refused")
  /\ UNCHANGED <<vms, site, ack, changes>>

\* revert_to_snapshot, delete_snapshot and clean_slate resolve the snapshot.
LookupSnapshot ==
  /\ At("measured") /\ call.tool \in Snapshotted
  /\ \E u \in Found :
       IF Resolved(u) = {} THEN NotDone
       ELSE call' = [call EXCEPT !.at = "holding", !.vm = u, !.node = TheOne(Resolved(u))]
  /\ UNCHANGED <<vms, site, ack, changes>>

LookupMigrate ==
  /\ At("measured") /\ call.tool = "migrate"
  /\ \E u \in Found :
       IF host[u] = call.host THEN NotDone
       ELSE call' = [call EXCEPT !.at = "holding", !.vm = u]
  /\ UNCHANGED <<vms, site, ack, changes>>

LookupPower ==
  /\ At("measured") /\ call.tool \in {"power_off", "delete"}
  /\ \E u \in Found :
       call' = [call EXCEPT !.at = IF call.tool = "power_off" /\ Off(u) THEN "read" ELSE "holding",
                            !.vm = u]
  /\ UNCHANGED <<vms, site, ack, changes>>

\* A task took effect; the wait for it may fail, or end before the task does.
Did(effect, at, a) ==
  \E returned \in BOOLEAN :
    call' = [call EXCEPT !.did = @ \cup {<<effect, call.vm>>},
                         !.at = IF returned THEN at ELSE "answered",
                         !.answer = IF returned THEN a ELSE "error"]

Raises ==
  /\ call # NoCall /\ call.at \in {"holding", "asked", "stopped"}
  /\ Answered("error")
  /\ UNCHANGED <<vms, site, ack, changes>>

HardPowerOff ==
  /\ At("holding") /\ call.tool = "power_off" /\ call.hard
  /\ call.vm \in on \cup suspended
  /\ PowerOff(call.vm) /\ suspended' = suspended \ {call.vm}
  /\ Did("stopped", "read", "none")
  /\ UNCHANGED <<snap, host, site, ack, changes>>

AskGuest ==
  /\ At("holding") /\ call.tool = "power_off" /\ ~call.hard /\ call.vm \in on
  /\ call' = [call EXCEPT !.at = "asked"]
  /\ UNCHANGED <<vms, site, ack, changes>>

GuestStops ==
  /\ At("asked") /\ call.vm \in on
  /\ PowerOff(call.vm)
  /\ call' = [call EXCEPT !.did = @ \cup {<<"stopped", call.vm>>}]
  /\ UNCHANGED <<suspended, snap, host, site, ack, changes>>

\* Off within two minutes, or still running after them, or without Tools.
StopWaiting ==
  /\ At("asked")
  /\ call' = [call EXCEPT !.at = "read"]
  /\ UNCHANGED <<vms, site, ack, changes>>

\* Fault: an executor that returned is taken for a VM that stopped.
PowerAnswerByReturn == "powered_off"

\* Fault: the power state is passed on as it is read.
PowerAnswerRaw == IF Off(call.vm) THEN "poweredOff" ELSE "poweredOn"

\* read_power_state of the VM that was measured.
PowerAnswer == IF Off(call.vm) THEN "powered_off" ELSE "still_running"

\* _undo_power_off: the token "power it back on" goes with this answer.
UndoFiled == call # NoCall /\ call.answer = "powered_off"

ReadPower ==
  /\ At("read")
  /\ Answered(Done(PowerAnswer))
  /\ UNCHANGED <<vms, site, ack, changes>>

Migrate ==
  /\ At("holding") /\ call.tool = "migrate"
  /\ Alive(call.vm) /\ call.host \notin closed
  /\ host' = [host EXCEPT ![call.vm] = call.host]
  /\ Did("moved", "answered", Done("migrated"))
  /\ UNCHANGED <<named, on, suspended, snap, site, ack, changes>>

\* Fault: the power-off is not checked against power_off_vm.
Unchecked == TRUE

\* before_power_off: authorize_reached for power_off_vm.
MayPowerOff == ~denied

\* clean_slate, and delete_vm of the command line, power a running VM off first.
StopFirst ==
  /\ At("holding")
  /\ call.tool = "slate" \/ (call.tool = "delete" /\ ~call.mcp)
  /\ \/ /\ call.vm \notin on
        /\ call' = [call EXCEPT !.at = "stopped"] /\ UNCHANGED vms
     \/ /\ call.vm \in on /\ ~MayPowerOff
        /\ Answered("refused") /\ UNCHANGED vms
     \/ /\ call.vm \in on /\ MayPowerOff
        /\ PowerOff(call.vm) /\ UNCHANGED <<suspended, snap, host>>
        /\ Did("stopped", "stopped", "none")
  /\ UNCHANGED <<site, ack, changes>>

\* The VM returns to the power state the snapshot was taken in.
Revert ==
  /\ \/ At("holding") /\ call.tool = "revert"
     \/ At("stopped") /\ call.tool = "slate"
  /\ call.node \in Live
  /\ PowerOn(call.vm) \/ PowerOff(call.vm)
  /\ suspended' = suspended \ {call.vm}
  /\ Did("reverted", "answered", Done("reverted"))
  /\ UNCHANGED <<snap, host, site, ack, changes>>

\* RemoveSnapshot_Task.
RemoveSnapshot ==
  /\ At("holding") /\ call.tool = "remove"
  /\ call.node \in Live /\ Cardinality(tasks) < MaxTasks
  /\ call' = [call EXCEPT !.task = "started", !.at = "waiting"]
  /\ UNCHANGED <<vms, site, ack, changes>>

\* vCenter consolidates, or fails to.
RemovalEnds ==
  /\ At("waiting") /\ call.task = "started"
  /\ \/ /\ call.node \in Live
        /\ snap' = Removed(call.node, call.hard)
        /\ call' = [call EXCEPT !.task = "success", !.did = @ \cup {<<"removed", call.vm>>}]
     \/ call' = [call EXCEPT !.task = "error"] /\ UNCHANGED snap
  /\ UNCHANGED <<named, on, suspended, host, site, ack, changes>>

\* _wait_for_task; TaskStillRunning is no failure.
RemovalAnswer ==
  CASE call.task = "success" -> {Done("removed")}
    [] call.task = "error"   -> {}
    [] OTHER                 -> {Done("started")}

\* After the wait, or at once without it; the request or a poll may have raised.
AnswerRemoval ==
  /\ At("waiting")
  /\ \E a \in RemovalAnswer \cup {"error"} : Answered(a)
  /\ tasks' = IF call.task = "started" THEN tasks \cup {<<call.node, call.hard>>} ELSE tasks
  /\ UNCHANGED <<vms, closed, denied, ack, changes>>

\* The snapshot may be gone by then.
LateRemovalEnds ==
  /\ \E task \in tasks :
       /\ tasks' = tasks \ {task}
       /\ UNCHANGED snap \/ (task[1] \in Live /\ snap' = Removed(task[1], task[2]))
  /\ UNCHANGED <<named, on, suspended, host, closed, denied, ack, call, changes>>

\* vCenter destroys no running VM.
DestroyVm ==
  /\ \/ At("holding") /\ call.tool = "delete" /\ call.mcp
     \/ At("stopped") /\ call.tool = "delete"
  /\ Alive(call.vm) /\ call.vm \notin on
  /\ Destroy(call.vm)
  /\ suspended' = suspended \ {call.vm} /\ snap' = Without(call.vm)
  /\ Did("destroyed", "answered", Done("deleted"))
  /\ UNCHANGED <<host, site, ack, changes>>

Return ==
  /\ At("answered")
  /\ call' = NoCall
  /\ UNCHANGED <<vms, site, ack, changes>>

Own ==
  \/ Unmeasured \/ Incompatible \/ CliRejected
  \/ LookupRefused \/ LookupSnapshot \/ LookupMigrate \/ LookupPower
  \/ Raises \/ HardPowerOff \/ AskGuest \/ GuestStops \/ StopWaiting \/ ReadPower
  \/ Migrate \/ StopFirst \/ Revert \/ RemoveSnapshot \/ AnswerRemoval \/ DestroyVm \/ Return

Others ==
  \/ \E u \in Uuids, n \in Names :
       \/ CreateVm(u, n)
       \/ \E new \in Names, running \in BOOLEAN : CloneVm(u, n, new, running)
  \/ \E n \in Names : PowerOnVm(n) \/ SuspendVm(n)
  \/ \E u \in Uuids, s \in Snaps, n \in SnapNames : CreateSnapshot(u, s, n)
  \/ \E u \in Uuids : OthersDestroy(u) \/ OthersStop(u)
  \/ \E s \in Snaps : OthersRemove(s)
  \/ \E h \in Hosts : HostTurns(h)
  \/ PolicyTurns

\* vCenter's tasks run beside the call.
Tasks == RemovalEnds \/ LateRemovalEnds

Tool(n) ==
  \/ PreviewDelete(n) \/ ConfirmDelete(n)
  \/ \E tool \in Tools : Unfound(n, tool)
  \/ \E u \in Uuids, s \in SnapNames, h \in Hosts, b \in BOOLEAN :
       \/ MeasurePowerOff(u, n, b) \/ MeasureMigrate(u, n, h)
       \/ MeasureRevert(u, n, s) \/ MeasureRemove(u, n, s, b) \/ MeasureSlate(u, n, s)

Command(n) ==
  \/ CliDelete(n)
  \/ \E s \in SnapNames, h \in Hosts, b \in BOOLEAN :
       \/ CliPowerOff(n, b) \/ CliMigrate(n, h)
       \/ CliRevert(n, s) \/ CliRemove(n, s, b) \/ CliSlate(n, s)

Next == (\E n \in Names : Tool(n) \/ Command(n)) \/ Own \/ Tasks \/ Others

Spec == Init /\ [][Next]_vars

-----------------------------------------------------------------------------
Is(answer) == call # NoCall /\ call.answer = answer
DidTo(effect, u) == call # NoCall /\ <<effect, u>> \in call.did

(* capabilities.md:63: a confirmed call changes the VM its measurement saw *)
(* or none, whoever takes the name between the two look-ups; for           *)
(* delete_vm, the VM whose preview was acknowledged.  A snapshot taken     *)
(* since under the name of the one that was measured is neither reverted   *)
(* to nor removed.  Clean Slate and the command line promise nothing.      *)
ActsOnlyOnWhatWasMeasured ==
  call # NoCall /\ call.mcp /\ call.tool # "slate" =>
    /\ \A e \in Effects, u \in Uuids : DidTo(e, u) => u = call.seen
    /\ \A u \in Uuids : DidTo("destroyed", u) => call.ack # NoAck /\ call.ack.uuid = u
    /\ call.tool \in {"revert", "remove"} => call.node \in {call.shot, NoSnap}

EffectOf == [migrated |-> "moved", reverted |-> "reverted", removed |-> "removed",
             deleted |-> "destroyed"]

(* capabilities.md:60: a call that says that it did not act left the VM as *)
(* it was (a Clean Slate that cannot revert has not powered the VM off),   *)
(* an answer of success is true of what the call did, and powered_off is   *)
(* only said of a VM that is off, although a shutdown may end, and others  *)
(* may start the VM, while the call waits.  A removal of a snapshot that   *)
(* only started is not said to be done, and one said to have started has.  *)
AnswerIsTrue ==
  /\ [](\A a \in {"noop", "refused", "rejected"} : Is(a) => call.did = {} /\ call.task = "none")
  /\ [](Is("started") => call.task # "none")
  /\ [](\A a \in DOMAIN EffectOf : Is(a) => \E u \in Uuids : DidTo(EffectOf[a], u))
  /\ [][Is("powered_off")' /\ ~Is("powered_off") => Off(call.vm)]_vars

(* A rules.yaml that denies power_off_vm throughout the call denies it to  *)
(* the calls that power off on their way, too.                             *)
DeniedIsNotDone ==
  call # NoCall /\ call.tool \in {"slate", "delete"} /\ ~call.free =>
    \A u \in Uuids : ~DidTo("stopped", u)

(* The undo token of power_off_vm powers the VM back on; tools/vm.py:68    *)
(* wants none for a VM this call never turned off.                         *)
UndoOnlyOfOwn == UndoFiled => DidTo("stopped", call.vm)
=============================================================================
