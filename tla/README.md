# Verification of VMware-AIops

TLA+ models of the parts of `vmware_aiops` that change a vCenter or remember
something between calls, the TLC runs that check them, and TLAPS proofs about
the core. Paths are relative to the repository; line numbers are in
`PROJECT.json` under `map`.

## 1. The system

VMware-AIops is an MCP server (and a CLI) that lets an agent operate VMware
vCenter. Every MCP call runs on a worker thread; many run side by side in one
server, and nothing prevents two servers from sharing one home directory
(`~/.vmware-aiops`). A daemon (`scanner/scheduler.py`) scans logs and deletes
VMs whose time to live is over.

| Component | State | Operations | What makes it hard | Module |
|---|---|---|---|---|
| Planner (`ops/planner.py`) | one JSON file per plan | create (sweep, precheck, write), load, save, delete, list | files swept under a running call; names prechecked long before they are used | `PlanExecution`, `PlanLifecycle` |
| Plan executor (`ops/plan_executor.py`) | a lock per plan and process; a call's copy of the plan | apply, rollback | interleaved calls, several servers, crashes between the save at the start and the save at the end, saves that raise, VMs renamed or replaced by others, refusals half-way | the same, and `PlanGate` for what each step does |
| Plan gate (`ops/plan_gate.py`, `step_policy.py`) | none | measure a plan at preview, check each step at its turn, ask the policy about each | steps that change what a later check reads; rules edited half-way | `PlanGate` |
| Gates (`ops/gate.py`, `*_gate.py`) | an acknowledgement carried by the caller | measure, refuse, acknowledge, measure again | the VM changes between the measurement and the act | `VmCalls`, `PlanGate`, `GuestCalls` |
| VM operations (`ops/vm_lifecycle.py`) | none (vCenter has it) | power, migrate, snapshots, Clean Slate, delete, clone | a second look-up by name; waits that end before the task does | `VmCalls` |
| Guest operations (`ops/guest_ops.py`) | local and temporary files | run, run with output, upload, download, provision | the VM swapped between steps; processes that outlive their wait; links at the destination | `GuestCalls` |
| Deployment (`ops/vm_deploy.py`, `ova_deploy.py`) | an NFC lease | deploy in five ways, three batches | one item failing half-way, names that are taken, lease timeout, upload failure, abort | `Deploys` |
| TTL store (`ops/ttl.py`) | a JSON file under a file lock | set, cancel, list, expire, remove | one key per VM name; snapshot read without the lock | `TtlStore`, `TtlBook`, `FileLock` |
| Daemon (`scanner/`) | log cursors, last TTL outcome | scan alarms, events and host logs, write, page; expire TTLs | restart, rotation, partial failure, retry | `ScanDaemon`, `TtlDaemon` |
| Alarms (`ops/alarm_mgmt.py`, `health.py`) | none | list, acknowledge, reset by filter | vSphere clears by colour, not by alarm; alarms are told apart by names | `AlarmBoard`, `ScanDaemon` |
| Image registry (`ops/datastore_browser.py`) | a JSON file under a file lock | scan, merge, list | long scans of two vCenters that overlap; datastores that cannot be browsed | `ImageRegistry`, `FileLock` |
| Cluster, network, iSCSI operations | none | one vCenter task after one check each | order within a plan | `PlanGate` for cluster steps |
| Connections (`connection.py`) | cached sessions and side tables | connect, drop | reuse of `id(si)` | none |
| MCP server, CLI, configuration, notification | none | wrap the above | | with the operations they wrap |

The properties that make each part correct, and the source line where each
could go wrong, are listed in `PROJECT.json` under `hazards`.

## 2. Plans: `Inventory`, `PlanLifecycle`, `PlanExecution`, `PlanGate`

`Inventory` is the vCenter as find_vm_by_name sees it. A VM is its instance
UUID; `named` gives its name, `on` says whether it runs. Two VMs may have one
name, so a look-up finds none, one or several: `Finds(n, u)` is "the look-up
returned u"; in the other two cases the code raises. Other users create,
rename, destroy and power VMs at any moment (`Outside*`).

`PlanExecution` has one process per MCP call. Its state is the plans directory
(`file`, `stale`, `created`), the in-memory lock table of every server process
(`owner`, from `_PLAN_LOCKS`), what each call is doing (`call`: where it is in
the code, its own copy `mem` of the plan, the VM object `vm` it holds) and
`hist`, which the program does not have: what really happened, for properties
to refer to. The steps are cut where another thread, process or user can come
between: each file read, each file write, each action on the vCenter and each
read of it.

| Code | Actions |
|---|---|
| `create_plan` | `BeginCreate` (list the directory), `SweepStat`, `SweepUnlink`, `WritePlan`, `CreateRefused` |
| `_plan_claimed` | `Claim`; `Leave` inside every action that returns |
| `_apply_plan` | `ApplyLoad`, `ApplyMark`, `Run*` or `StepRaises` per step, `RecordUuid`, then `ApplyComplete`, `ApplyDiscard` or `ApplySettle` |
| `_rollback_plan`, `_stop_refused` | `RollbackLoad`, `UndoPass`, `UndoRefused`, `UndoPowerOn`, `UndoPowerOff`, `UndoRaises`, `RollbackFinish` |
| `_delete_created_vm` | `UndoIdentify`, `UndoMismatch`, `UndoDestroy`, `UndoPowerOffRefused` |
| `load_plan`, `save_plan`, `delete_plan` that raise | `FileFails` (nothing the call did is lost), `SaveFails` (the save it is about to make, `Saving`, raises) |
| environment | `Age` (a file turns 24 hours old), `Crash` (a server is killed), `Outside` (others create, rename, destroy and power VMs) |

A step is one of four kinds: `create` (create_vm, clone, deploy_*; undone by
deleting the VM), `power_on` and `power_off` (undone by each other) and
`reconfigure`, which stands for the actions without rollback. Any file operation
may raise; nothing in the executor catches that, so the lock is given back, the
copy of the plan is gone and the file says what it said before (`_fsutil.py`
replaces it whole or not at all). `hist.unsaved` has the plans this happened to,
or over which a call died, with something to lose. An action may take effect and
still raise (a task that outlives its wait). The checks of `plan_gate` and the
policy are a nondeterministic refusal here; `PlanGate` has them in full.

`PlanLifecycle` is the promise: the status flow of
`docs/plans/2026-03-09-plan-apply-design.md`, at most one worker per plan, a
file that may be swept, workers that may die. `PlanExecution` implements it
under the mapping `status <- file[p].status`, `worker <- ` what the one call
working on the plan is doing.

Two constants switch parts of the environment off: `Crashes` and `Outsiders`.
What is abstracted: the precheck of all targets is one step; plan ids are
unique (`planner.py:247` draws four hex digits per second); parameters and the
wording of results are left out; validation may refuse any plan.

**`PlanGate`** leaves the plan file and its locks to `PlanExecution` and has
what that one abstracts: seventeen actions, what each reads at its check and
what it changes, the preview and the policy. The vCenter is a record (`w`); a
step is a set of records it may leave (`Leaves`: more than one when the code's
outcome depends on the guest, none when it raises). `rules.yaml` is a set of
denied tools that may be edited at any time.

| Code | Definitions |
|---|---|
| `DESTRUCTIVE_ACTIONS`, `NON_DESTRUCTIVE_ACTIONS`, `REFUSED_ACTIONS` | `Measured`, `Unchecked`, `Refused` |
| `measure_step`, `_MEASURES` | `Measure`, one operator per measure |
| `_changes`, `_depends_on`, `_deferred_after` | `Changed`, `Reads`, `Deferred` |
| `_follow_ups`, `ACTION_TOOLS`, `policy_refusal` | `Tools`, `PolicyRefuses` |
| `_step_entry`, `_gate`, `measure_apply`, `refuse_on` | `Entry`, `Gate`, `Apply` |
| `_build_rollback`, `measure_rollback` | `Undo`, `Undone`, `LastFirst`, `Rollback` |
| `check_step`, then `_dispatch` | `Check` (or `CheckUnread`), then `Act`, `ActRefused` or `ActFails` |
| `_delete_created_vm` | `NotItsOwn`, `PowerOffRefused`, `LeavesHalf`, `UndoCreate` |
| environment | `OthersAct`, `RulesTurn` |

A deploy stands for the `deploy_*` actions with `power_on`. There is one host; a
VM is on it or `away`, and a `migrate` brings it there (`MeasureMigrate`,
`RunMigrate`): the host must be open, and vCenter's own check of it may depend
on whether it is in the cluster (`Fits`). A snapshot is counted and not named: a
removal is unambiguous when there is one.

Two measures read something that `_depends_on` does not list: an upload the
local file, which a download of the plan may bring, and a migrate its target
host, which a step of the plan may add to the cluster or remove (`TargetMoves`).
Such a step is measured at preview and not deferred. The properties and the
theorems of the gate name these two as exceptions (section 7).

## 3. Files under a lock: `FileLock`, `TtlBook`, `TtlStore`, `ImageRegistry`

`set_ttl`, `cancel_ttl` and `remove_entry` each read `ttl.json`, change one
entry and write the whole file again. They hold two locks meanwhile: a thread
lock of their process, and a lock file between processes (`_filelock.py`).

| Code | Actions |
|---|---|
| the call | `Ask(c, w)`: name and entry, or no entry for a removal |
| `with _TTL_LOCK` | `EnterProcess` |
| `_filelock.locked` | `EnterFile`, `LockFails` (the deadline, or a file system without locks), `Unlock` in every action that leaves |
| `_load_ttl_store` and the change | `Load` (returns at once if there is nothing to remove) |
| `atomic_write_text` | `WriteTemp`, `Replace`, `WriteFails` |
| return or exception | `Return` |
| environment | `Killed(r)`: the process dies and the operating system frees its lock file |

`TtlBook` is the promise: an update takes effect whole, on the book as it is at
that moment, between the call and its return, or not at all. `TtlStore`
implements it with `book <- file` and a `stage` that hides everything between
`asked` and `done`. A read that raises an `OSError` is read by the code as an
empty store; the constant `ReadsCanFail` says whether that may happen, because
with it the promise is broken (`TtlStoreUnread.cfg`, section 7).

The store's `preview` functions and `list_ttl` only read.

**`ImageRegistry`** takes the same two locks for `image_registry.json`, but only
around the merge: browsing the datastores of a vCenter takes minutes and holds
none. A call (`scan`) remembers which datastores were listed, which it browsed
and what it found; the file is a set of rows, of which those of an earlier
release name no vCenter (`Legacy`), or it does not parse.

| Code | Actions |
|---|---|
| `scan_all_datastore_images`, `list_datastores` | `StartScan` |
| `browse_datastore`, `scan_images` | `Browse`, `BrowseFails` (inaccessible, failed, timed out) |
| `_registry_file_lock` | `EnterProcess`, `EnterFile`, `LockFails` |
| `update_registry` with `_load_registry`, `_keep`, `_save_registry` | `Load`, `Save`, `UpdateFails` |
| environment | `FileComesOrGoes`, `DatastoreTurns`, `Crash` |

## 4. The daemon: `TtlDaemon`, `AlarmBoard`, `ScanDaemon`

`_run_ttl_check` runs once a minute in one thread. An update of the store is
one step here; that is what section 3 shows of it. `book` is the store,
`daemon` is the loop (its batch, the entry in hand, the VM object `delete_vm`
holds), `last` is `_last_ttl_outcome`, `denied` the rules. A *grant* is one TTL
set once: it tells an entry from a later one under the same name. `hist.tried`
and `hist.row` are the newest attempt and the newest audit row of each name.

| Code | Actions |
|---|---|
| `set_ttl`, `cancel_ttl` and the clock | `SetTtl`, `CancelTtl`, `Expire` |
| `get_expired_entries` | `Check`, `CheckDone` |
| `guard(delete_vm)` | `Guard` |
| `verify_ttl_identity` | `Verify`, `VerifyUnreadable` |
| `delete_vm` | `Find`, `Stop`, `StopRunning`, `DestroyVm` |
| `_audit_ttl` and the `except` clauses | `Keep` (the entry stays), `Drop` and `Conclude` (it goes), inside the actions above |
| `remove_entry` | `Remove` |
| environment | `Crash` (killed and started again), `Policy`, `Meddle` |

Abstracted: outcomes are classes and not sentences; the measurement before a
TTL is set and the setting are one step; entries without a UUID (written by an
earlier version) are only there at the start; a rule may deny the delete and
not the setting of a TTL, as a maintenance window does, so `SetTtl` does not
look at `denied`.

**`ScanDaemon`** is the other job of the process, the scan cycle: per target the
alarm, event and host log passes, then the writing of the scan log, the webhook
and the summary. A host log is a file of numbered lines; `written` counts the
lines ever written, `base` those that rotated away, so a line has one name for
the properties while the code only sees `Total(l) = written - base`. The length
is asked for (`Probe`) and the lines are read (`Browse`) in two calls, between
which the host writes and rotates. **`AlarmBoard`**, which it extends, is the
triggered alarms of a vCenter with `acknowledge_alarm` and `reset_alarm`. A
reset reads the named alarm (`FindAlarm`), then the alarms of its colour, all of
which it counts and the first `PreviewLimit` of which it lists (`MeasureReset`),
and clears by the filter later (`ResetAlarm`). The scan has its own listing:
`get_active_alarms` keeps one row for each pair of an alarm's and an entity's
name (`LabelOf`), the first it reads, and `scan_alarms` leaves the acknowledged
ones out of what is kept (`ActiveAlarms`, `AlarmIssues`).

| Code | Actions |
|---|---|
| `_run_scan`, `_scan_target` | `StartCycle`, `Connect` or `ConnectFails`, then the passes; `PassFails` |
| `get_active_alarms`, `scan_alarms` | `AlarmPass`, `AlarmIssues` |
| `scan_logs` | `EventPass` |
| `_scan_pass`, `_read_log`, `_window` | `Probe`, `Browse`, `ReadFails`, with `Window` and `PositionAfter` |
| `_host_log_issues`, `HostLogCursors` | `Advance` |
| `_log_summary`, `ScanLogger`, `_send_webhook` | `WriteLog` or `WriteFails`, `SendWebhook` or `SendFails` |
| environment | `HostWrites`, `HostRotates`, `EventComesOrGoes`, `AlarmChanges`, `Restart` |

## 5. Calls: `VmCalls`, `GuestCalls`, `Deploys`

Each of these follows one call from its measurement to its answer, while others
work on the same names. One call at a time is enough: the program keeps no state
between them (`ack`, which a user carries from a preview of `delete_vm` to its
confirmation, apart), so another call is to this one what another user is.

**`VmCalls`** has six tools over MCP and the six commands with two prompts in
their place. `Measure*` is the tool's own look-up, noop and refusal; `Lookup*`
is the executor's second look-up, with the instance UUID the first one saw
(`Expected`, `Found`) and, for snapshots, the measured id (`Resolved`). Then
come the tasks of the executor (`HardPowerOff`, `AskGuest`, `StopFirst`,
`Migrate`, `Revert`, `RemoveSnapshot`, `DestroyVm`), each of which may take
effect and still raise (`Did`), and the answer (`PowerAnswer`, `Done`). A
removal of a snapshot is a task that `RemoveSnapshot` starts and `RemovalEnds`
ends, well or not. By default over MCP the answer does not wait for it, and else
for half an hour (`AnswerRemoval`): a task that is still running then goes to
`tasks` and ends later (`LateRemovalEnds`), beside the next calls. The ungated
operations of `vm_lifecycle.py` (create, clone, power on, suspend, snapshot) are
what the others do. The fields `did` and `free` are history.

**`GuestCalls`** has run, run with output, upload, download and provision. A
call's steps each look the VM up (`Look`), start a process (`Start`) that ends,
outlives its wait or is lost sight of (`Ends`, `TimesOut`, `PollFails`), or move
a file (`ReadSource`, `Send`; `Destination`, `Transfer`, `Write`). Exec with
output looks the VM up a second time without the UUID (`LookAgain`), fetches the
output (`Fetch`) and removes it (`Clean`). `work` is history: what took effect
in which guest, in order. Local files are absent, plain files, or `odd` (links
and the like).

**`Deploys`** has a single deploy and the three batches (`batch_deploy` from a
spec, `batch_clone`, `batch_linked_clone`), the five ways an item becomes a VM,
and what it gets afterwards (`Todo`, in the order `Earlier`; `FollowUp`), found
by name each time. A task ends, fails or outlives its wait and ends later
(`LateTaskEnds`); an import has an NFC lease that becomes ready, times out or
errs (`LeaseTurns`, `LeaseTimesOut`, `LeaseFails`, `Upload`, `Complete`,
`UploadFails`, `Abort`), or whose state cannot be read (`LeaseUnread`), which
the code does not follow by an `Abort`. `left` is history: the VMs whose lease
was left open, and why. `batch_clone` looks its source up before its items:
without it the answer is one row, for the source (`Sourceless`); a look-up that
raises ends the call (`SourceUnread`).

## 6. Runs

Deadlock is checked in all runs but `plan_gate`, `guest_calls`, `guest_output`
and `deploys`, in which the one call ends and the bound on the others' changes
is used up.

| Run | Shows |
|---|---|
| `plan_safety` | with others changing the vCenter at every point, and file operations that raise: `OneWorkerPerPlan`; `UndoneTwiceOnlyIfUnsaved`; `RollbackDeletesItsOwn`; `FailedFileTellsTheTruth` |
| `plan_lifecycle` | with crashes, and file operations that raise: `NoStepRunsTwice`; `ImplementsLifecycle`; `LocksAreReleased`; `ExecutingSettles` |
| `plan_gate` | every plan of three steps over two sets of actions (3,472 plans), with any rules: `PreviewTellsTheTruth` (`SurprisesWereDeferred` and `BlockedForGood`); `DoomedRunsNothing`; `DeniedIsNotDone` |
| `ttl_store` | the file always parses (`StoreTypeOK`); `ImplementsBook`; `LocksAreReleased` |
| `ttl_daemon` | `DeletesItsVmUnlessSwapped`; `WithdrawnInTimeIsSafe`; `FailuresKeepTheEntry`; `OutcomesAreRecorded`; `ExpiredIsHandled` |
| `scan_logs` | a log that grows and rotates at any point: `OnceAndNeverSilentlyLost`; `AllClearIsTrue` |
| `scan_alarms` | three alarms, two of them with the same names: `ResetKeepsToItsScope`; `StandingAlarmIsPaged` |
| `images` | two scans in two processes: `OneBrowsePerDatastore`; `OnlyTheBrowsedIsReplaced` |
| `vm_calls` | `ActsOnlyOnWhatWasMeasured`; `AnswerIsTrue`; `DeniedIsNotDone` |
| `guest_calls` | `DoesWhatItSays`; `LocalFilesAreKept` |
| `deploys` | `RowsTellTheTruth`; `LeaseIsSettled` |
| `guest_output` | a violation: section 7 |

Every property is preceded in its module by what it says of the code.

**Bounds, and why they are enough.** Two calls and one plan: the plan lock and
the file are per plan, so calls on different plans share only the vCenter, where
`Outside` already does all another plan could, and the sweep, which a second
call runs over the plan of the first. Three steps: in `plan_safety` a create and
both power switches, each of which can be undone, as a rollback stopped between
them needs; in `plan_lifecycle` a create, a power-on and one that the undo loop
passes over. Two names and two UUIDs: a VM and its replacement; three where the
record race needs the created VM, the other one and a target. `plan_gate`: three
steps are one that changes, one that reads, and one before, between or after
them; the actions on VMs, and those on hosts, clusters and files, only meet
where a VM's power state is read, so each set has its own plans, and `power_on`
is in both. vCenter's compatibility check takes the host while it is in the
cluster (`Fits = {TRUE}`), and a VM is away from it at the start only if the
plan migrates it (`MCSpec`): elsewhere it does not matter where it is.

Three threads in two processes: two that meet at the thread lock and one that
meets them at the lock file. Two grants: a TTL and the one that follows it. The
one name of `ttl_daemon` keeps its liveness property within reach;
`TtlDaemonTwoNames.cfg` (2.7 million states, nearly three minutes) checks the
safety properties with two names in one batch, and they hold. `scan_logs`: four
lines and reads of two make a window that skips, one that does not, a rotation
and a growth past the old position; alarms and logs meet only in the summary, so
`scan_alarms` has no logs. Its radius lists one alarm (`PreviewLimit = 1`), so
that two make it cut its list short. `images`: two vCenters with a datastore of
one name. `vm_calls`, `guest_calls`, `deploys`: two VMs that can have one name,
three where a deploy's own VM, one that has its name and the next item's are
told apart; two to four changes by others are enough to swap a VM and put it in
any power state, and no property needs more than three to break. In `vm_calls`
one removal runs on at a time (`MaxTasks = 1`), beside that of the call itself.
`MaxFaults`, `MaxMeddling` and `MaxChanges` bound how often vCenter, policy or
store fail and how often others interfere; the mutants show that each property
can break within them.

**Symmetry.** Calls of one server and UUIDs in `plan_safety`; vCenters and
images in `images`; UUIDs, snapshots and hosts in `vm_calls`; UUIDs in
`plan_gate` and `deploys`. None of these runs checks a liveness property, and no
definition tells the members of these sets apart.

**Fairness.** `PlanExecution`: weak fairness of each call's steps. A worker
thread is scheduled by Python, and every wait on the vCenter ends
(`_wait_for_task` has a timeout). Nothing makes a call begin. `TtlStore`: weak
fairness of each call; the wait for the lock file has a deadline
(`_filelock.py:81`), the wait for the thread lock ends because its holder's
does. `TtlDaemon` and `ScanDaemon`: weak fairness of the loop as a whole; the
jobs run at an interval, their waits are bounded and the daemon is started again
after a crash. A crash is never required, and rules need not ever be lifted, so
`ExpiredIsHandled` excuses entries that a rule denies.

## 7. Where code and documentation disagree

`guest_output` is a run that TLC finishes with a counterexample; the sentence
that the code breaks is quoted in `PROJECT.json` under `findings`. Exec with
output makes a temporary file for the output and then downloads into it with
`overwrite` left at `False`, which refuses a file that exists: the output is
empty for every command (`guest_ops.py:246`).

Fourteen more configurations are kept beside the runs. Each states one property
that TLC refutes; `PROJECT.json` does not list them as runs.

- `PlanTwoServers.cfg` (`NoStepRunsTwice`): the plan lock is in memory
  (`plan_executor.py:23`). Two servers on one home directory both apply a plan,
  and its steps run twice.
- `PlanUnsavedUndo.cfg` (`NoUndoRunsTwice`): a rollback's marks are saved only
  when it stops or ends, by a `save_plan` that may raise
  (`plan_executor.py:457`, `588`). Started again after that, or after it was
  killed half-way, it undoes the same steps again, against the docstring at
  `plan_executor.py:502`: "steps already undone are marked and not undone
  twice".
- `PlanRecordRace.cfg` (`RollbackDeletesOnlyCreated`): the UUID of a created VM
  is read by name after the step (`plan_executor.py:401`). If that name is
  another VM's by then, rollback deletes that other VM.
- `PlanPowerOff.cfg` (`PowerOffUndoesPowerOn`): a `power_on` step that found the
  VM on is a success, so its rollback hard-powers off a VM the plan had not
  started (`planner.py:270`).
- `PlanMigrate.cfg` (`MigrateWaitsForItsHost`): `_depends_on` lists the VM of a
  migrate and not its host (`plan_gate.py:222`), though the check reads the
  host. A plan that adds the host to the cluster first is refused at preview for
  what it puts right itself, which deferring is there to prevent
  (`plan_gate.py:14`).
- `TtlStoreUnread.cfg` (`OthersAreKept`): one failed read of the store deletes
  all the other TTLs at the next save (`ttl.py:79`).
- `TtlDaemonLost.cfg` (`NoTtlIsLost`): `remove_entry` knows only the name. A TTL
  set under it after the check read the store is removed unseen
  (`scheduler.py:399`).
- `TtlDaemonOrphan.cfg` (`NoVmIsOrphaned`): any failure while the UUID is read
  counts as another identity, and the entry is dropped for good (`ttl.py:223`).
- `TtlDaemonRows.cfg` (`RowIsOfTheVm`): the last outcome is kept by name and
  outlives the entry (`scheduler.py:149`). A TTL set anew under the name of a VM
  that failed before, and fails the same way, has no row; the newest row under
  that name is of the other VM.
- `ScanTwins.cfg` (`EveryAlarmIsPaged`): alarms are told apart by names
  (`health.py:85`) before the acknowledged ones are left out
  (`alarm_scanner.py:23`). Of two VMs of one name with one kind of alarm, an
  acknowledged alarm hides the other's, which the webhook never gets
  (README.md:328).
- `ScanReported.cfg` (`PassedIsReported`): the cursors advance before the issues
  are written (`scheduler.py:249`); a cycle that fails in between loses them,
  with an audit row and against README.md:325. `OnceAndNeverSilentlyLost` is
  what is left.
- `UndoOfOwn.cfg` (`UndoOnlyOfOwn`): `power_off_vm` files its undo token for a
  VM that someone else stopped while the call was under way (`tools/vm.py:125`).
- `DeploysStranger.cfg` (`FollowUpsStayOnTheirVm`): the steps after a VM is made
  look it up by name (`vm_deploy.py:160`, `187`). If others destroy it and make
  one of that name, they snapshot and power on that one, and the row says ok.
- `DeploysShell.cfg` (`ShellsAreAborted`): "Abort, or the half-created VM shell
  stays behind holding the lease" (`ova_deploy.py:408`); but reading
  `lease.state` (405, 419), and what lies between that and the `try`, may raise,
  and there is no `Abort` then.

The models show more of the same kind that no configuration is spent on. A crash
during apply, or a last save of it that raises, leaves steps that landed as
`pending` in a plan that stays `executing` and can be neither applied nor rolled
back (`plan_executor.py:385`, `427`, `436`); `ExecutingSettles` excuses it. The
sweep reads a file's age and unlinks it in two steps, so it may take away one
that was saved in between (`planner.py:309`). A TTL that is cancelled while a
check runs is still acted upon in that check; `WithdrawnInTimeIsSafe` states
what is left. The daemon deletes another VM if it takes the name between the two
look-ups of one entry (`scheduler.py:352`); hence `UnlessSwapped`.
`OutcomesAreRecorded` says of each name what is left of the rows that
`TtlDaemonRows.cfg` is about: the newest row has the outcome of the newest
attempt and is of the same TTL, or of a withdrawn one.

In the gates: exec with output looks its VM up again by name alone
(`guest_ops.py:232`), so a VM that takes the name meanwhile runs the command;
`DoesWhatItSays` allows that and no other. Clean Slate and the commands are
handed no UUID at all; `ActsOnlyOnWhatWasMeasured` is about the others. A
`guest_upload` whose file an earlier `guest_download` of the plan brings is
refused at preview instead of deferred, as `_changes` knows no local files: the
same as the migrate of `PlanMigrate.cfg`, in which it is the host. The
delete of a rollback is never deferred, though the docstring of
`measure_rollback` speaks of it; the executor's own check takes its place. In
the batches: an entry of a spec without a name raises outside the loop's `try`
(`vm_deploy.py:603`), and the rows of the VMs deployed before it are lost
(`Unnamed`).

## 8. Proofs

TLAPS checks these for every value of the constants, from the named
assumptions on them (`NamesAssumption`, `PlanAssumption`, `LockAssumption`,
`StoreAssumption`, `TtlAssumption`, `RegistryAssumption`, `CallAssumption`,
`GateAssumption`, `AlarmAssumption`, `ScanAssumption`, `GuestAssumption`,
`DeployAssumption`) and nothing else, except where a theorem states a hypothesis
of its own. The assumptions give constants their types, say that a value that
stands for "none" is not one of the others, and that the sets of VMs and
snapshots of a vCenter are finite. Two say what a call may be: the steps of a
provision are commands, services, uploads or something the code does not know
(`guest_provision` counts any other action as a failed step), and a batch other
than one from a spec file has one set of options for all its items, as the
signatures of `batch_clone` and `batch_linked_clone` do; a batch of no items
returns at once and is left out.

With these, every invariant and every action property that a passing run checks
is a theorem; what is left to the runs alone is liveness.

| Theorem | Says | Inductive invariant |
|---|---|---|
| **`PlanExecutionProof`** | | |
| `TypeCorrect` | `TypeOK` | `TypeOK /\ Placed` |
| `OneWorker` | `OneWorkerPerPlan` | `Locked` |
| `DeletesItsOwn` | `RollbackDeletesItsOwn` | `Own` |
| `StepsRunOnce` (from here on if all calls are in one process) | `NoStepRunsTwice` | `Once` |
| `Agreement` | a call's copy, the file and what happened agree, of a plan not in `unsaved` | `Agreed` |
| `UndosRunOnce` | `UndoneTwiceOnlyIfUnsaved` | `Agreed` |
| `FilesTellTheTruth` | `FailedFileTellsTheTruth` | `Agreed` |
| `ImplementsFlow` | `ImplementsLifecycle` | `Agreed` |
| **`PlanGateProof`** | | |
| `GateTypeCorrect` | `TypeOK` | itself |
| `DoomedPlansRunNothing` | `DoomedRunsNothing` | `Reviewed`, `Idled` |
| `DeniedThroughout` | `DeniedIsNotDone` | `Allowed` |
| `NoSurpriseButTheDeferred` | `SurprisesWereDeferred` | `Foreseen` |
| `BlockedStaysBlocked` | `BlockedForGood` | `Blocked`, and an induction over the steps of a plan |
| `PreviewIsTrue` | `PreviewTellsTheTruth` | the two before |
| **`ImageRegistryProof`** | | |
| `RegistryTypeCorrect` | `TypeOK` | `Inv` |
| `NoMixedRows` | `OneBrowsePerDatastore` | `Inv` |
| `OthersRowsAreKept` | `OnlyTheBrowsedIsReplaced` | `Inv` |
| **`TtlProof`**: the daemon | | |
| `DaemonTypeCorrect` | `TypeOK` | itself |
| `DeletesItsVm` | `DeletesItsVmUnlessSwapped` | `Right` |
| `WithdrawnInTime` | `WithdrawnInTimeIsSafe` | `Apart` |
| `FailuresKeep` | `FailuresKeepTheEntry` | `TypeOK` |
| `OutcomesHaveRows` | `OutcomesAreRecorded` | `Noted` |
| **`TtlProof`**: the store | | |
| `StoreTypeCorrect` | `StoreTypeOK` | `Inv` |
| `StoreImplementsBook` (if reads do not fail) | `ImplementsBook` | `Inv` |
| `EntriesOfOthersAreKept` (if reads do not fail) | `OthersAreKept` | `Inv` |
| **`ScanDaemonProof`** | | |
| `ScanTypeCorrect` | `TypeOK` | `Typed`, with `Sighted` and `Standing` |
| `OnceOrOnRecord` | `OnceAndNeverSilentlyLost` | `LinesKept` |
| `ClearMeansRead` | `AllClearIsTrue` | `Clear` |
| `ResetsKeepToScope` | `ResetKeepsToItsScope` | `Told` |
| **`VmCallsProof`** | | |
| `CallsTypeCorrect` | `TypeOK` | `Inv` |
| `MeasuredVmOnly` | `ActsOnlyOnWhatWasMeasured` | `Inv` |
| `DeniedAllAlong` | `DeniedIsNotDone` | `Inv` |
| `TruthfulAnswers` | `AnswerIsTrue` | `Inv` |
| **`GuestCallsProof`** | | |
| `GuestTypeCorrect` | `TypeOK` | `Inv` |
| `StepsDoWhatTheySay` | `DoesWhatItSays` | `Inv` |
| `DownloadsKeepFiles` | `LocalFilesAreKept` | `Inv` |
| **`DeploysProof`** | | |
| `DeployTypeCorrect` | `TypeOK` | `Inv` |
| `RowsAreTrue` | `RowsTellTheTruth` | `Inv`, `Strangers` |
| `LeasesAreSettled` | `LeaseIsSettled` | `Inv`, `Settled` |

**Plans.** `Placed`: a call inside the step loop is at a step, and one that is
about to destroy a VM holds one; without it `TypeOK` is not inductive (`Marked`
and `Here` are applied to `call.pos`). `Locked`: a call works on a plan exactly
if the lock table of its process says so; `OneWorkerPerPlan` alone does not say
which call releases what. `Own`: a UUID recorded in a file or in a call's copy
is of a VM that step made, unless others took that VM away before it was
recorded, and the VM a delete holds is the recorded one. `Once`: a plan any step
of which took effect is created and not `pending`, and a call in the step loop
has not yet run the step it is at or a later one; a sweep removes the file and a
save brings it back, so it speaks of every call's own copy as well as of the
file. `Followed` says what the file of a plan can say while a call works on it,
`Told` how the copy of that call, and the file when no call works on it, relate
to what really happened, for a plan no call of which died or could not save it;
with `Placed`, `Locked` and `Once` they are `Agreed`. Of a plan in `unsaved`
only `Followed` and `Once` speak: what a lost copy knew is nowhere. The
hypothesis is needed: with two servers `NoStepRunsTwice` is false
(`PlanTwoServers.cfg`). So is the excuse: `NoUndoRunsTwice` is false as soon as
one save raises (`PlanUnsavedUndo.cfg`).

`ImplementsFlow` is proved step by step: the initial states map to an initial
state of `PlanLifecycle`, and each action to one of its actions or to none. A
save is the abstract step of what it writes; `Agreed` is what makes the status
that a call saves a legal successor of the one in the file.

**The gate.** `Reviewed`: in a call that was not refused every step was
authorized; `Allowed`: so is the step in hand, by rules that held at some time
of the call; `Blocked`: what a refused call was told. `Foreseen` adds a frame
argument. Between the preview and a step's turn only the earlier steps of the
plan changed something, if others kept still; `StepKeeps` proves of each of the
actions that it changes nothing outside `_changes`, `MeasureKeeps` proves of
each measure that it depends on nothing outside `_depends_on`, but for the file
of an upload and the host of a migrate; so a step that was not deferred, and is
neither of these, is measured as before. These two lemmas are the reason why
`plan_gate.py` may measure a plan at once, and they would fail for an action
added to one table and not to the other. `BlockedStaysBlocked` needs the frame
for a sequence of steps of any length, so it is an induction; it is carried out
with `Least`, which is proved from the well-foundedness of the subset order on
finite sets.

**The image registry.** `Inv`: what a scan found so far is of its own target and
of datastores it browsed, each browsed once (`OwnRows`, `Once`); the rows of a
datastore on file are those of one browse; only the holder of the lock file is
between `Load` and `Save` (`Alone`); and what it is about to save is the file as
it is *now*, outside the datastores it browsed.

**The TTLs.** `TtlProof` has the daemon that acts on the TTLs and the store that
keeps them; the two models share no state. Of the daemon, `Right`: whatever it
is about to delete carries the UUID of its entry, unless the entry has none or
the VMs changed after the first look-up. `Apart`: a grant is under one name in
the store and the batch together, and a batch never holds a grant withdrawn
before the check began. `Noted`: the last outcome the daemon remembers of a name
is that of its newest row, which is of the entry that is there or of a withdrawn
one (`Remembered`); an entry of the batch is still in the store, or was
withdrawn, and what took its place has no row yet (`Stands`); a row is of a TTL
that was set (`RowsAreOfSet`). So an outcome that is not written again has its
row already.

Of the store, `Asked`, `Alone`, `Fresh` (`Inv`): only the holder of the lock
file is between `Load` and `Replace`, and what it is about to write is its
update of the file as it is *now*; a removal of what is not there implements
`Perform` at `Load`. `EntriesOfOthersAreKept` is the other side of section 7's
failing read: `OthersAreKept` is false if a read can fail (`TtlStoreUnread.cfg`)
and true for every number of callers if not.

**The logs.** A cursor is a line number, and a rotation gives the numbers a new
meaning, so the invariant first says which line, of all ever written, a cursor
stands for. `Front` is that place: rotation plus number while the log has not
rotated since, and after that only the line passed. `Standing`: the place is
between the line passed and the last line written. `LinesKept` adds what a
probe in progress has seen (`Sighted`), that the rows of a pass are for lines
between the old position and the new (`RowsInPass`), hence not written before
(`Written`), and that every line up to `Front` is on record or among the issues
of the cycle (`Accounted`). The weight is in `ReadAdvances`, a case analysis of
one read: of what is new, of the tail, after a rotation, and with a rotation
between the probe and the read, seen or unseen. `Clear`: while a cycle has
neither an issue nor a failure, a log not yet read belongs to a target still to
come.

**Calls.** `Inv` of `VmCallsProof` says of every place of every call what has
been established by then: which VM and snapshots were measured, whether it was
allowed to power off all along, and what it did so far. The removals of earlier
calls, and the call's own removal, run beside it; `TasksInv` shows that one that
ends takes away snapshots and nothing that the call has established.

`Inv` of `GuestCallsProof` ties the place of a call to what happened in the
guests. `Counted`: up to the start of a step the steps that took effect are
those before it, and from the start to the end of its process one more.
`GoesWell`: all of them went well, the one in hand apart. `InOrder`: the n-th
effect is that of the n-th step, on the VM that was measured. `Placed`: what a
step is about to act on is that VM, except for the process of exec with output,
which a second look-up without the UUID has found (section 7). `DoesWhatItSays`
speaks of what took effect and of the end of a call, not of where a call is, and
is not inductive by itself. For `LocalFilesAreKept` the step is enough: `Write`
opens the destination in a way that refuses what appeared since it was checked.

`Inv` of `DeploysProof` has to bridge the look-up by name. `Clear`: once the VM
in hand has its name, no VM of an earlier row that bears this name is still
there, because vCenter would not have had two of the name in the folder when it
was made. A follow-up therefore finds the VM in hand, if that is still there, or
a VM that is in no row (`FoundVm`): it can put parts on a stranger, but never on
the VM of another row. `FollowsOK`: what the VM in hand has is what it was asked
for less what is still to do, so that a power-on, which comes last (`DuePart`),
completes it; `deploy_ova` alone, which powers on first, is exempt. `RowOK` is
the rows of `RowsTellTheTruth` made inductive: a row's VM is also in the folder,
and never unborn. `MadeOK`: a lease is open only under an import. What a
stranger may get rests on `Inv` as a second layer, `Strangers`: a VM in no row
has a part only if an item of its name lost its own VM and asked for that part
(`HasReason`), and items stay bereft. So does `Settled`: a VM is importing under
the import in hand, or is in `left`, which only a refused `Abort` and an unread
`lease.state` fill.

**What proving changed.** Looking for these invariants found places where a
model said less than the code does or could not be reasoned about:
`UndoDestroy` of `PlanExecution` did not count a VM as lost whose UUID was being
recorded; the rules of `PlanGate` did not ask about `power_off_vm` for a
`reset`, whose work it is; two alternatives of `Gate` and of `Authorize` in
`Deploys` could both apply; the values for "none" were not said to be distinct.
`PreviewTellsTheTruth` is now the conjunction of `SurprisesWereDeferred` and
`BlockedForGood`, which have nothing in common but the preview. In `Deploys` the
steps after a VM are the set of those still to do and what comes before each
(`Todo`, `Earlier`, `Due`), where a sequence had to be taken apart; a call is a
record of a type (`Call`), there and in `GuestCalls`.

**Only model-checked.** Liveness (`LocksAreReleased`, `ExecutingSettles`,
`ExpiredIsHandled`, `StandingAlarmIsPaged`): fairness and `ENABLED` are beyond
the prover, which has no backend for them here. `NoStepRunsTwice` and the four
after it with several servers: they are false. The library's induction theorems
take an operator as a parameter, which the installed provers cannot instantiate;
where induction was needed, the least number without the property did as well.
No operator of a module with proofs is `RECURSIVE`, since that takes the SMT
prover away.

## 9. Not modelled, and the plan

- **Connections** (`connection.py`): a session is either there or the call
  fails before it does anything, which every model has as an error. The side
  tables keyed by `id(si)` decide how an upload verifies certificates and no
  modelled state. A `SessionPool` of its own would be the next module.
- **DRS rules, port groups, switches, iSCSI** (`network_mgmt.py`,
  `host_network_mgmt.py`, `iscsi_config.py`, part of `cluster_mgmt.py`): one
  vCenter call after one check, none of which depends on the program's state.
- **Listing functions, argument parsing, printing, configuration, the set-up
  wizard, `doctor`, `investigate`**: they read, or format what they read.
- **What a preview shows** beyond what the decision depends on, the wording of
  answers and remedies, paging, and the audit files of `vmware_policy`.
- **Sanitizing, path and URL checks**: their outcome is a refusal, and the
  models take every refusal to be possible.
