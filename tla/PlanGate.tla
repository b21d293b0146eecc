------------------------------ MODULE PlanGate ------------------------------
(***************************************************************************)
(* The gate in front of apply_vm_plan and rollback_vm_plan: ops/plan_gate, *)
(* ops/step_policy and mcp_server/tools/plan.py.                           *)
(*                                                                         *)
(* A confirmed call asks the policy about every step, measures the steps   *)
(* whose check no earlier step changes, and refuses the plan on what it    *)
(* finds.  Then it runs the steps in order, and asks and measures each one *)
(* again just before it runs.  PlanExecution has the plan file and its     *)
(* locks; here the plan is one, and the vCenter is a record that a step    *)
(* maps to the records it may leave.                                       *)
(***************************************************************************)
EXTENDS Naturals, Sequences, FiniteSets

CONSTANTS
  Ids,         \* instance UUIDs
  Names,       \* VM names
  Unborn, Gone, NoId, NoAck,
  MaxSnaps,    \* bound: snapshots of one VM
  MaxChanges,  \* bound: what others do to the vCenter
  Fits,        \* whether vCenter's check takes the host as a target: in the cluster, out of it
  Plans,       \* the plans: sequences of steps
  Rules        \* the contents rules.yaml may have: sets of denied tools

VARIABLES
  w,           \* the vCenter
  denied,      \* the tools rules.yaml denies
  plan,        \* the steps, and how each one ended
  state,       \* the status of the plan
  call,        \* the call that works on it
  changes

vars == <<w, denied, plan, state, call, changes>>

\* away: the VM is on another host than the one of the cluster steps.
Vm    == [name : Names, on : BOOLEAN, snaps : 0..MaxSnaps, away : BOOLEAN]
World == [vm      : [Ids -> Vm \cup {Unborn, Gone}],
          cluster : BOOLEAN,     \* the cluster is there
          member  : BOOLEAN,     \* ... with the host in it
          closed  : BOOLEAN,     \* the host is in maintenance mode
          file    : BOOLEAN]     \* a file on this machine

\* A migrate has that host for its target.
Measured == {"power_off", "reset", "delete", "drop_snapshot", "exec", "upload", "download",
             "migrate", "delete_cluster", "remove_host"}
\* NON_DESTRUCTIVE_ACTIONS.  deploy is a deploy_* action with power_on.
Unchecked == {"power_on", "create", "deploy", "snapshot", "create_cluster", "add_host"}
\* REFUSED_ACTIONS
Refused == {"rescan"}
Actions == Measured \cup Unchecked \cup Refused

Acks == [id : Ids, snaps : 0..MaxSnaps]
Step == [action : Actions, name : Names, ack : Acks \cup {NoAck},
         long : BOOLEAN,                 \* a parameter the preview cannot show whole
         undo : BOOLEAN,                 \* a step of a rollback
         id   : Ids \cup {NoId},         \* the VM the step it undoes created
         of   : Nat]                     \* its place in the plan

\* The steps of a plan are nobody's undo; rules.yaml names tools.
ASSUME GateAssumption ==
  /\ IsFiniteSet(Ids) /\ NoId \notin Ids /\ {Unborn, Gone} \cap Vm = {}
  /\ MaxSnaps \in Nat /\ MaxChanges \in Nat /\ Fits \subseteq BOOLEAN
  /\ \A steps \in Plans : /\ steps \in Seq(Step)
                         /\ \A i \in 1..Len(steps) : ~steps[i].undo
  /\ \A rules \in Rules : rules \subseteq Actions

Verdicts == {"pass", "noop", "deferred", "blocked", "refused", "denied"}
Refusing == {"blocked", "refused", "denied"}
Ends     == {"pending", "success", "failed", "rolled_back"}
Planned  == [step : Step, end : Ends, id : Ids \cup {NoId}]

Call == [kind    : {"none", "apply", "rollback"},
         at      : {"idle", "check", "act", "refused"},
         runs    : Seq(Step), pos : Nat,
         verdict : Seq(Verdicts),        \* of the preview, or <<>>
         stopped : BOOLEAN,              \* the check of step pos stopped the call
         then    : World,                \* history: the vCenter as it was previewed
         rules   : SUBSET Actions,       \* history: what was denied then
         free    : SUBSET Actions,       \* history: what was allowed at some time
         did     : SUBSET Actions,       \* history: the tools whose work took effect
         calm    : BOOLEAN]              \* history: no other change, no failed read since

TypeOK ==
  /\ w \in World /\ denied \subseteq Actions
  /\ plan \in Seq(Planned) /\ \A i \in 1..Len(plan) : ~plan[i].step.undo
  /\ state \in {"pending", "executing", "failed", "completed", "rolled_back"}
  /\ call \in Call /\ Len(call.verdict) = Len(call.runs)
  /\ call.at = "check" => call.pos \in 1..Len(call.runs) + 1
  /\ call.at = "act"   => call.pos \in 1..Len(call.runs)
  /\ \A i \in 1..Len(call.runs) : /\ call.runs[i].of \in 1..Len(plan)
                                  /\ call.runs[i].undo = (call.kind = "rollback")
  /\ changes \in 0..MaxChanges

-----------------------------------------------------------------------------
(* What a step finds                                                       *)

Alive(x)    == {i \in Ids : x.vm[i] \notin {Unborn, Gone}}
Named(x, n) == {i \in Alive(x) : x.vm[i].name = n}
\* _require_vm: none of the name, or several, is an error.
One(x, n)   == Cardinality(Named(x, n)) = 1
The(x, n)   == CHOOSE i \in Ids : Named(x, n) = {i}

Set(x, i, vm) == [x EXCEPT !.vm[i] = vm]

-----------------------------------------------------------------------------
(* What a step does: the vCenters it may leave, none when it fails          *)

OnVm(x, s, Do(_, _)) == IF One(x, s.name) THEN Do(x, The(x, s.name)) ELSE {}

\* The host of the VM takes no VM in maintenance mode.
Shut(x, i) == x.closed /\ ~x.vm[i].away

RunPowerOn(x, i) == IF Shut(x, i) /\ ~x.vm[i].on THEN {} ELSE {[x EXCEPT !.vm[i].on = TRUE]}
\* Without force the guest may not stop.
RunPowerOff(x, i) == {[x EXCEPT !.vm[i].on = FALSE], x}
HardPowerOff(x, i) == {[x EXCEPT !.vm[i].on = FALSE]}
RunReset(x, i) == {x}
RunDownload(x, i) == IF x.vm[i].on THEN {[x EXCEPT !.file = TRUE]} ELSE {}
RunGuest(x, i) == IF x.vm[i].on THEN {x} ELSE {}
RunSnapshot(x, i) ==
  IF x.vm[i].snaps < MaxSnaps THEN {[x EXCEPT !.vm[i].snaps = @ + 1]} ELSE {}
RunDropSnapshot(x, i) == IF x.vm[i].snaps = 1 THEN {[x EXCEPT !.vm[i].snaps = 0]} ELSE {}

\* migrate_vm: a VM that is on the host already is a success.
Takes(x) == ~x.closed /\ x.member \in Fits
RunMigrate(x, i) == IF x.vm[i].away => Takes(x) THEN {[x EXCEPT !.vm[i].away = FALSE]} ELSE {}

RunCreate(x, s) ==
  {Set(x, i, [name |-> s.name, on |-> s.action = "deploy", snaps |-> 0, away |-> FALSE]) :
     i \in {j \in Ids : x.vm[j] = Unborn /\ ~x.closed}}

RunCreateCluster(x) == IF x.cluster THEN {} ELSE {[x EXCEPT !.cluster = TRUE]}
RunDeleteCluster(x) == IF x.cluster /\ ~x.member THEN {[x EXCEPT !.cluster = FALSE]} ELSE {}
\* A host that is in the cluster already is a success.
RunAddHost(x)       == IF x.cluster THEN {[x EXCEPT !.member = TRUE]} ELSE {}
RunRemoveHost(x)    == IF x.member /\ x.closed THEN {[x EXCEPT !.member = FALSE]} ELSE {}

\* measure_vm_delete and _refusal, with what was acknowledged.
DeleteStands(x, i, a) ==
  /\ ~x.vm[i].on
  /\ a = NoAck \/ a = [id |-> i, snaps |-> x.vm[i].snaps]

\* delete_vm_acknowledged
RunDelete(x, s) ==
  IF One(x, s.name) /\ s.ack # NoAck /\ DeleteStands(x, The(x, s.name), s.ack)
  THEN {Set(x, The(x, s.name), Gone)} ELSE {}

Deletes(s) == s.undo /\ s.action = "delete"

\* The VM of the name is the one the step that is undone created.
Own(x, s) == One(x, s.name) /\ The(x, s.name) = s.id

\* _delete_created_vm: only the VM the step created, powered off first.
UndoCreate(x, s) ==
  IF Own(x, s) THEN {Set(x, s.id, Gone)} ELSE {}

Leaves(x, s) ==
  CASE s.action = "power_on"      -> OnVm(x, s, RunPowerOn)
    [] s.action = "power_off"     -> IF s.undo THEN OnVm(x, s, HardPowerOff)
                                     ELSE OnVm(x, s, RunPowerOff)
    [] s.action = "reset"         -> OnVm(x, s, RunReset)
    [] s.action \in {"exec", "upload"} -> OnVm(x, s, RunGuest)
    [] s.action = "download"      -> OnVm(x, s, RunDownload)
    [] s.action = "migrate"       -> OnVm(x, s, RunMigrate)
    [] s.action = "snapshot"      -> OnVm(x, s, RunSnapshot)
    [] s.action = "drop_snapshot" -> OnVm(x, s, RunDropSnapshot)
    [] s.action \in {"create", "deploy"} -> RunCreate(x, s)
    [] s.action = "delete"        -> IF s.undo THEN UndoCreate(x, s) ELSE RunDelete(x, s)
    [] s.action = "create_cluster" -> RunCreateCluster(x)
    [] s.action = "delete_cluster" -> RunDeleteCluster(x)
    [] s.action = "add_host"      -> RunAddHost(x)
    [] s.action = "remove_host"   -> RunRemoveHost(x)
    [] OTHER                      -> {}

-----------------------------------------------------------------------------
(* What stands in the way of a step                                        *)

Verdict(ok) == IF ok THEN "pass" ELSE "blocked"

\* Fault: the power state is passed on.
MeasurePowerOffRaw(x, i)  == IF x.vm[i].on THEN "pass" ELSE "poweredOff"

MeasurePowerOff(x, i)     == IF x.vm[i].on THEN "pass" ELSE "noop"
MeasureState(x, i)        == "pass"
MeasureDropSnapshot(x, i) == Verdict(x.vm[i].snaps = 1)
\* guest_gate._measure_vm
MeasureGuest(x, i)        == Verdict(x.vm[i].on)
\* ... and _local_file: the file is on this machine.
MeasureUpload(x, i)       == Verdict(x.vm[i].on /\ x.file)
\* migrate_radius: _target_host_checks and what vCenter's check says of the host.
MeasureMigrate(x, i)      == IF x.vm[i].away THEN Verdict(Takes(x)) ELSE "noop"
MeasureClusterDelete(x)   == Verdict(x.cluster /\ ~x.member)
\* In maintenance mode no VM runs on the host.
MeasureHostRemoval(x)     == Verdict(x.member /\ x.closed)

OfVm(x, s, Measure(_, _)) == IF One(x, s.name) THEN Measure(x, The(x, s.name)) ELSE "blocked"

\* _measure_delete_vm
MeasureDelete(x, s) ==
  Verdict(One(x, s.name) /\ DeleteStands(x, The(x, s.name), s.ack))

\* measure_step, _MEASURES
Measure(x, s) ==
  CASE s.action = "power_off"      -> OfVm(x, s, MeasurePowerOff)
    [] s.action = "reset"          -> OfVm(x, s, MeasureState)
    [] s.action = "drop_snapshot"  -> OfVm(x, s, MeasureDropSnapshot)
    [] s.action = "migrate"        -> OfVm(x, s, MeasureMigrate)
    [] s.action = "upload"         -> OfVm(x, s, MeasureUpload)
    [] s.action \in {"exec", "download"} -> OfVm(x, s, MeasureGuest)
    [] s.action = "delete"         -> MeasureDelete(x, s)
    [] s.action = "delete_cluster" -> MeasureClusterDelete(x)
    [] s.action = "remove_host"    -> MeasureHostRemoval(x)

-----------------------------------------------------------------------------
(* What a step changes, and what its check reads                           *)

OfCluster == {"create_cluster", "delete_cluster", "add_host", "remove_host"}

\* _changes
Changed(s) ==
  CASE s.action \in {"add_host", "remove_host"} -> {"cluster", "host"}
    [] s.action \in OfCluster \ {"add_host", "remove_host"} -> {"cluster"}
    [] s.action \in Refused                     -> {"host"}
    [] OTHER                                    -> {s.name}

\* Fault: the VM of a step counts as one that no other step changes.
ReadsNew(s) ==
  CASE s.action = "remove_host"    -> {"cluster", "host"} \cup Names
    [] s.action = "delete_cluster" -> {"cluster"} \cup Names
    [] OTHER                       -> {}

\* _depends_on: with every VM, for a cluster or a host.  The target host of a migrate is
\* not among them.
Reads(s) ==
  CASE s.action = "remove_host"    -> {"cluster", "host"} \cup Names
    [] s.action = "delete_cluster" -> {"cluster"} \cup Names
    [] OTHER                       -> {s.name}

\* _deferred_after
Deferred(runs, i) == \E j \in 1..i - 1 : Changed(runs[j]) \cap Reads(runs[i]) # {}

-----------------------------------------------------------------------------
(* The policy                                                              *)

\* ACTION_TOOLS
Tool(s) == IF s.action = "reset" THEN "power_off" ELSE s.action

\* Fault: what a deploy does after it is not asked about.
ToolsAlone(s) == {Tool(s)}

\* ... and _follow_ups: the tools whose work a step does.
Tools(s) == {Tool(s)} \cup (IF s.action = "deploy" THEN {"power_on"} ELSE {})

\* policy_refusal.  An action without a tool of its own is left to the gate.
PolicyRefuses(s) == s.action \notin Refused /\ Tools(s) \cap denied # {}

Running(x, s) == Own(x, s) /\ x.vm[s.id].on

\* rollback_power_off_check: a delete that powers off first is power_off_vm's work.
PowerOffRefused(x, s) == Running(x, s) /\ "power_off" \in denied

\* _rollback_power_off_refusal: what cannot be read counts as running.
PowerOffForeseen(x, s) ==
  (Running(x, s) \/ Cardinality(Named(x, s.name)) > 1) /\ "power_off" \in denied

\* No UUID was recorded, or another VM has the name.
NotItsOwn(x, s) == s.id = NoId \/ (One(x, s.name) /\ ~Own(x, s))

DeleteRefused(x, s) == Deletes(s) /\ (NotItsOwn(x, s) \/ PowerOffRefused(x, s))

-----------------------------------------------------------------------------
(* The preview                                                             *)

\* Fault: a deferred step is not asked about.
GateLazily(runs, i) ==
  LET s == runs[i] IN
  IF Deferred(runs, i) THEN "deferred"
  ELSE IF PolicyRefuses(s) \/ (Deletes(s) /\ PowerOffForeseen(w, s)) THEN "denied"
  ELSE IF Deletes(s) \/ s.action \in Unchecked THEN "pass"
  ELSE IF s.action \in Refused THEN "refused" ELSE Measure(w, s)

\* _gate
Gate(runs, i) ==
  LET s == runs[i] IN
  IF PolicyRefuses(s) \/ (Deletes(s) /\ PowerOffForeseen(w, s)) THEN "denied"
  ELSE IF Deletes(s) \/ s.action \in Unchecked THEN "pass"
  ELSE IF s.action \in Refused THEN "refused"
  ELSE IF Deferred(runs, i) THEN "deferred" ELSE Measure(w, s)

\* _long_params, and a delete_vm without what its preview showed.
Unrunnable(s) == s.long \/ (s.action = "delete" /\ s.ack = NoAck)

\* _step_entry, of a plan that is applied.
Entry(runs, i) == IF Unrunnable(runs[i]) THEN "refused" ELSE Gate(runs, i)

\* check_step
CheckVerdict(s) ==
  IF PolicyRefuses(s) THEN "denied"
  ELSE IF Deletes(s) \/ s.action \in Unchecked THEN "pass"
  ELSE IF s.action \in Refused THEN "refused" ELSE Measure(w, s)

-----------------------------------------------------------------------------
(* The plan and its calls                                                  *)

NoSuchCall == [kind |-> "none", at |-> "idle", runs |-> <<>>, pos |-> 0, verdict |-> <<>>,
               stopped |-> FALSE, then |-> w, rules |-> {}, free |-> {}, did |-> {},
               calm |-> TRUE]

\* precheck_targets, when the plan was created.
Prechecked(steps) ==
  \A i \in 1..Len(steps) :
    LET s == steps[i] IN
    /\ s.action \notin OfCluster \cup Refused \cup {"create", "deploy"} => One(w, s.name)
    /\ s.action = "drop_snapshot" => w.vm[The(w, s.name)].snaps > 0

Init ==
  /\ w \in World
  /\ Cardinality(Alive(w)) = 1 /\ Gone \notin {w.vm[i] : i \in Ids}
  /\ w.member => w.cluster
  /\ \A i \in Alive(w) : Shut(w, i) => ~w.vm[i].on
  /\ ~w.file
  /\ denied \in Rules
  /\ \E steps \in Plans :
       /\ Prechecked(steps)
       /\ plan = [i \in 1..Len(steps) |-> [step |-> steps[i], end |-> "pending", id |-> NoId]]
  /\ state = "pending" /\ call = NoSuchCall /\ changes = 0

\* _build_rollback: the step that undoes another, and the kinds that have one.
UndoneBy == [power_on |-> "power_off", power_off |-> "power_on", snapshot |-> "drop_snapshot",
             create |-> "delete", deploy |-> "delete", create_cluster |-> "delete_cluster",
             add_host |-> "remove_host", remove_host |-> "add_host"]

Undo(i) == [action |-> UndoneBy[plan[i].step.action], name |-> plan[i].step.name,
            ack |-> NoAck, long |-> FALSE, undo |-> TRUE, id |-> plan[i].id, of |-> i]

\* measure_rollback: the steps that succeeded and can be undone, last first.
Undone == {i \in 1..Len(plan) : /\ plan[i].end = "success"
                               /\ plan[i].step.action \in DOMAIN UndoneBy}

LastFirst == {order \in [1..Cardinality(Undone) -> Undone] :
                \A j, k \in DOMAIN order : j < k => order[j] > order[k]}

Begin(kind, runs, verdict, busy) ==
  LET refused == \E i \in 1..Len(runs) : verdict[i] \in Refusing
  IN  /\ call.at = "idle" \/ call.at = "refused"
      /\ call' = [kind |-> kind, at |-> IF refused THEN "refused" ELSE "check",
                  runs |-> runs, pos |-> 1, verdict |-> verdict, stopped |-> FALSE,
                  then |-> w, rules |-> denied, free |-> Actions \ denied, did |-> {},
                  calm |-> TRUE]
      /\ state' = IF refused THEN state ELSE busy
      /\ UNCHANGED <<w, denied, plan, changes>>

\* apply_vm_plan: measure_apply and refuse_on.
Apply ==
  LET runs == [i \in 1..Len(plan) |-> [plan[i].step EXCEPT !.of = i]]
  IN  /\ state = "pending"
      /\ Begin("apply", runs, [i \in 1..Len(runs) |-> Entry(runs, i)], "executing")

\* rollback_vm_plan, when something that ran succeeded.
Rollback ==
  /\ state = "failed"
  /\ \E i \in 1..Len(plan) : plan[i].end = "success"
  /\ \E order \in LastFirst :
       LET runs == [k \in DOMAIN order |-> Undo(order[k])]
       IN  Begin("rollback", runs, [i \in DOMAIN order |-> Gate(runs, i)], "failed")

\* A call for another target, or a measurement that could not read: nothing runs.
RefusedUnread ==
  /\ call.at = "idle" /\ state \in {"pending", "failed"}
  /\ call' = [NoSuchCall EXCEPT !.at = "refused"]
  /\ UNCHANGED <<w, denied, plan, state, changes>>

Current == call.runs[call.pos]
More    == call.pos <= Len(call.runs)
Ended(i, end) == plan' = [plan EXCEPT ![i].end = end]

\* The rollback is left as it stands; the plan stays failed.
Stop ==
  /\ call' = [call EXCEPT !.at = "idle", !.stopped = TRUE]
  /\ IF call.kind = "apply" THEN Ended(Current.of, "failed") ELSE UNCHANGED plan
  /\ state' = "failed"

Check ==
  /\ call.at = "check" /\ More
  /\ IF CheckVerdict(Current) \in Refusing THEN Stop
     ELSE call' = [call EXCEPT !.at = "act"] /\ UNCHANGED <<plan, state>>
  /\ UNCHANGED <<w, denied, changes>>

\* The check cannot read something, which refuses.
CheckUnread ==
  /\ call.at = "check" /\ More /\ Current.action \in Measured
  /\ ~Deletes(Current)
  /\ call' = [call EXCEPT !.at = "idle", !.stopped = TRUE, !.calm = FALSE]
  /\ IF call.kind = "apply" THEN Ended(Current.of, "failed") ELSE UNCHANGED plan
  /\ state' = "failed"
  /\ UNCHANGED <<w, denied, changes>>

\* The tools whose work the step is.
WorkOf(x, s) ==
  {Tool(s)}
    \cup (IF s.action = "deploy" THEN {"power_on"} ELSE {})
    \cup (IF Deletes(s) /\ Running(x, s) THEN {"power_off"} ELSE {})

\* _created_instance_uuid, by name; NoId when the name is ambiguous.
Created(x, s) == IF One(x, s.name) THEN The(x, s.name) ELSE NoId

\* The step ran: the executor goes on with the next.
Act ==
  /\ call.at = "act" /\ ~DeleteRefused(w, Current)
  /\ w' \in Leaves(w, Current)
  /\ plan' = [plan EXCEPT ![Current.of] =
                [@ EXCEPT !.end = IF Current.undo THEN "rolled_back" ELSE "success",
                          !.id  = IF Current.action \in {"create", "deploy"} THEN Created(w', Current)
                                 ELSE plan[Current.of].id]]
  /\ call' = [call EXCEPT !.at = "check", !.pos = @ + 1, !.did = @ \cup WorkOf(w, Current)]
  /\ UNCHANGED <<denied, state, changes>>

\* The delete of a rollback is refused: another VM, none recorded, or the policy.
ActRefused ==
  /\ call.at = "act" /\ DeleteRefused(w, Current)
  /\ Stop
  /\ UNCHANGED <<w, denied, changes>>

\* A deploy that created the VM and failed then; a delete that only powered it off.
LeavesHalf(x, s) ==
  CASE s.action = "deploy"           -> RunCreate(x, [s EXCEPT !.action = "create"])
    [] Deletes(s) -> OnVm(x, s, HardPowerOff)
    [] OTHER                         -> {x}

\* The step raises: before it did anything, half-way, or after it took effect.
\* apply stops; a rollback goes on.
ActFails ==
  /\ call.at = "act" /\ ~DeleteRefused(w, Current)
  /\ \E did \in {{}, WorkOf(w, Current)} :
       /\ w' \in IF did = {} THEN {w} ELSE LeavesHalf(w, Current) \cup Leaves(w, Current)
       /\ IF call.kind = "apply"
          THEN /\ Ended(Current.of, "failed") /\ state' = "failed"
               /\ call' = [call EXCEPT !.at = "idle", !.did = @ \cup did]
          ELSE /\ call' = [call EXCEPT !.at = "check", !.pos = @ + 1, !.did = @ \cup did]
               /\ UNCHANGED <<plan, state>>
  /\ UNCHANGED <<denied, changes>>

Finish ==
  /\ call.at = "check" /\ ~More
  /\ state' = IF call.kind = "apply" THEN "completed" ELSE "rolled_back"
  /\ call' = [call EXCEPT !.at = "idle"]
  /\ UNCHANGED <<w, denied, plan, changes>>

-----------------------------------------------------------------------------
(* Everyone else                                                           *)

Switched(x, i) == [x EXCEPT !.vm[i].on = ~@ /\ ~Shut(x, i)]

\* A host with a running VM does not go into maintenance mode.
Maintained(x) == [x EXCEPT !.closed = ~@ /\ \A i \in Alive(x) : x.vm[i].on => x.vm[i].away]

Elsewhere(x) ==
  {Switched(x, i) : i \in Alive(x)} \cup {Set(x, i, Gone) : i \in Alive(x)}
    \cup (UNION {RunSnapshot(x, i) : i \in Alive(x)}) \cup {Maintained(x)}

\* Before the first call Init leaves everything open.
Meanwhile ==
  /\ state \in {"executing", "failed"}
  /\ changes < MaxChanges /\ changes' = changes + 1

OthersAct ==
  /\ Meanwhile
  /\ w' \in Elsewhere(w) \ {w}
  /\ call' = [call EXCEPT !.calm = FALSE]
  /\ UNCHANGED <<denied, plan, state>>

\* rules.yaml is read at every question.
RulesTurn ==
  /\ Meanwhile
  /\ denied' \in Rules \ {denied}
  /\ call' = [call EXCEPT !.calm = FALSE, !.free = @ \cup (Actions \ denied')]
  /\ UNCHANGED <<w, plan, state>>

Next ==
  \/ Apply \/ Rollback \/ RefusedUnread
  \/ Check \/ CheckUnread \/ Act \/ ActRefused \/ ActFails \/ Finish
  \/ OthersAct \/ RulesTurn

Spec == Init /\ [][Next]_vars

-----------------------------------------------------------------------------
(* The vCenters step i can meet when the steps before it run.              *)
Before(x, runs, i) ==
  LET worlds[k \in 0..i - 1] ==
        IF k = 0 THEN {x} ELSE UNION {Leaves(y, runs[k]) : y \in worlds[k - 1]}
  IN  worlds[i - 1]

\* A migrate whose target an earlier step of its plan moves into or out of the cluster.
TargetMoves(runs, i) ==
  runs[i].action = "migrate" /\ \E j \in 1..i - 1 : "host" \in Changed(runs[j])

(* plan_gate.py:14: a step that the preview measured passes its check, too,*)
(* unless someone else changed something since: the only steps that stop a *)
(* plan by surprise are those the preview called deferred (the delete of a *)
(* rollback is checked by the executor), and a migrate to a host that the  *)
(* plan itself moves: its check reads the host, _depends_on lists the VM.  *)
SurprisesWereDeferred ==
  call.stopped /\ call.calm /\ ~Deletes(Current) /\ ~TargetMoves(call.runs, call.pos) =>
    call.verdict[call.pos] = "deferred"

(* A step that the preview blocked would have been blocked at its turn: no *)
(* plan is refused for what its own earlier steps put right.  There are two*)
(* exceptions: a guest_upload, whose file an earlier guest_download may    *)
(* bring, as _changes knows no file, and again a migrate to a host that    *)
(* the plan moves.                                                         *)
BlockedForGood ==
  call.at = "refused" =>
    \A i \in 1..Len(call.runs) :
      /\ call.verdict[i] = "blocked"
      /\ call.runs[i].action # "upload" /\ ~TargetMoves(call.runs, i)
      => \A x \in Before(call.then, call.runs, i) : Measure(x, call.runs[i]) = "blocked"

(* A preview refuses no step that would run, and misses none that would    *)
(* not, but for those it defers and says so, and the two exceptions above. *)
PreviewTellsTheTruth == SurprisesWereDeferred /\ BlockedForGood

(* plan_gate.py:14, for a migrate too: a step whose object an earlier step *)
(* of its plan changes is deferred, so that the preview does not refuse it *)
(* for what that step puts right.                                          *)
MigrateWaitsForItsHost ==
  call.at = "refused" =>
    \A i \in 1..Len(call.runs) :
      call.verdict[i] = "blocked" /\ call.runs[i].action = "migrate"
      => \A x \in Before(call.then, call.runs, i) : Measure(x, call.runs[i]) = "blocked"

(* plan_gate.py:20: a plan with a step that cannot run - denied, refused,  *)
(* not to be reviewed in full, or a delete_vm that nobody acknowledged -   *)
(* is refused before its first step rather than half-way.                  *)
DoomedRunsNothing ==
  call.kind = "apply" /\ call.did # {} =>
    \A i \in 1..Len(call.runs) :
      LET s == call.runs[i] IN
      /\ ~Unrunnable(s) /\ s.action \notin Refused
      /\ WorkOf(w, s) \cap call.rules = {}

(* A tool that rules.yaml denies throughout a call does none of its work   *)
(* in it: not as a step, not as what a deploy does last, not as the        *)
(* power-off before the delete of a rollback.                              *)
DeniedIsNotDone == call.did \subseteq call.free
=============================================================================
