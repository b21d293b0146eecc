--------------------------- MODULE PlanExecution ---------------------------
(***************************************************************************)
(* Plan -> Apply -> Rollback: ops/planner.py and ops/plan_executor.py.      *)
(*                                                                         *)
(* A call is one MCP request on a worker thread of one server process.     *)
(* create_plan, apply_plan and rollback_plan are processes of small steps: *)
(* each file read, each file write, each action on the vCenter and each    *)
(* read of the vCenter is a step of its own, so calls, outside users,      *)
(* the sweep of old files and a crash interleave between any two of them.  *)
(* A call works on its own copy of the plan, which it read from the file;  *)
(* the copy reaches the file only where the code calls save_plan.          *)
(***************************************************************************)
EXTENDS Inventory, Naturals

CONSTANTS
  Plans,      \* plan ids
  N,          \* steps per plan
  Ops,        \* [Plans -> [1..N -> [kind, name]]]: the operations of each plan
  Calls,      \* worker threads
  Procs,      \* server processes sharing one plans directory
  ProcOf,     \* [Calls -> Procs]
  NoCall, NoPlan, NoUuid,
  Crashes,    \* whether a server process may be killed
  Outsiders   \* whether others change the vCenter meanwhile

Steps == 1 .. N
Kinds == {"create", "power_on", "power_off", "reconfigure"}

ASSUME PlanAssumption ==
  /\ N \in Nat \ {0}
  /\ Ops \in [Plans -> [Steps -> [kind : Kinds, name : Names]]]
  /\ ProcOf \in [Calls -> Procs]
  /\ NoCall \notin Calls
  /\ NoPlan \notin Plans
  /\ NoUuid \notin Uuids
  /\ Crashes \in BOOLEAN /\ Outsiders \in BOOLEAN

VARIABLES
  file,     \* [Plans -> Plan]: the plans directory
  stale,    \* the files not written for 24 hours
  created,  \* the plan ids create_plan has handed out
  owner,    \* [Procs -> [Plans -> Calls or NoCall]]: _PLAN_LOCKS of each process
  call,     \* [Calls -> Call]: what each worker thread is doing
  hist      \* what really happened; the program does not have it

store == <<file, stale, created>>
vars  == <<store, owner, call, hist, inventory>>

Status     == {"absent", "pending", "executing", "completed", "failed", "rolled_back"}
StepStatus == {"pending", "success", "failed", "skipped", "rolled_back"}
Plan       == [status : Status, step : [Steps -> StepStatus],
               uuid : [Steps -> Uuids \cup {NoUuid}]]

Absent  == [status |-> "absent", step |-> [i \in Steps |-> "pending"],
            uuid |-> [i \in Steps |-> NoUuid]]
Pending == [Absent EXCEPT !.status = "pending"]

Applying    == {"apply", "mark", "run", "record", "settle", "discard"}
RollingBack == {"rollback", "undo", "destroy"}

Call == [at   : {"idle", "glob", "unlink"} \cup Applying \cup RollingBack,
         plan : Plans \cup {NoPlan},    \* the plan it works on
         pos  : 0 .. N + 1,             \* the step it is at
         mem  : Plan,                   \* its copy of the plan
         vm   : Uuids \cup {NoUuid},    \* the VM object it holds
         todo : SUBSET Plans]           \* the files a sweep has still to look at

Idle == [at |-> "idle", plan |-> NoPlan, pos |-> 0, mem |-> Absent,
         vm |-> NoUuid, todo |-> {}]

Attempt == Plans \X Steps

History == [ran         : SUBSET Attempt,    \* steps whose action took effect
            again       : SUBSET Attempt,    \* ... a second time
            landed      : SUBSET Attempt,    \* steps whose action returned
            undone      : SUBSET Attempt,    \* steps whose undo returned
            undoneAgain : SUBSET Attempt,
            made        : SUBSET (Attempt \X Uuids),  \* the VM a step created
            deleted     : SUBSET (Attempt \X Uuids),  \* the VM its undo destroyed
            lost        : SUBSET Attempt,    \* others (another plan's rollback is one) destroyed
                                             \* or renamed the VM a step had created before
                                             \* the step recorded its UUID
            switchedOn  : SUBSET Attempt,    \* a power_on step started a VM
            switchedOff : SUBSET Attempt,    \* its undo stopped one
            unsaved     : SUBSET Plans]      \* a call ended and what it did last is not on
                                             \* the plan's file: it died, or its save raised

TypeOK ==
  /\ InventoryTypeOK
  /\ file \in [Plans -> Plan]
  /\ stale \subseteq Plans /\ created \subseteq Plans
  /\ owner \in [Procs -> [Plans -> Calls \cup {NoCall}]]
  /\ call \in [Calls -> Call]
  /\ hist \in History

Init ==
  /\ named \in [Uuids -> Names \cup {Unborn}] /\ on = {}
  /\ file = [p \in Plans |-> Absent]
  /\ stale = {} /\ created = {}
  /\ owner = [r \in Procs |-> [p \in Plans |-> NoCall]]
  /\ call = [c \in Calls |-> Idle]
  /\ hist = [ran |-> {}, again |-> {}, landed |-> {}, undone |-> {}, undoneAgain |-> {},
             made |-> {}, deleted |-> {}, lost |-> {}, switchedOn |-> {},
             switchedOff |-> {}, unsaved |-> {}]

-----------------------------------------------------------------------------
(* The plan file and the plan lock                                         *)

At(c, label) == call[c].at = label
Proceed(c, new) == call' = [call EXCEPT ![c] = new]

\* save_plan: the file is replaced whole, and is young again (FileFails and
\* SaveFails: it raises, and the old file stays).
Save(p, plan) ==
  /\ file' = [file EXCEPT ![p] = plan]
  /\ stale' = stale \ {p}
  /\ UNCHANGED created

\* delete_plan, and the sweep's unlink.
Unlink(p) ==
  /\ file' = [file EXCEPT ![p] = Absent]
  /\ stale' = stale \ {p}
  /\ UNCHANGED created

\* Fault: the lock is taken without looking.
ClaimUnlocked(c, p, label) ==
  /\ At(c, "idle")
  /\ owner' = [owner EXCEPT ![ProcOf[c]][p] = c]
  /\ Proceed(c, [Idle EXCEPT !.at = label, !.plan = p])
  /\ UNCHANGED <<store, hist, inventory>>

\* _plan_claimed: a call of the same process that finds the lock held returns _busy.
Claim(c, p, label) ==
  /\ At(c, "idle")
  /\ owner[ProcOf[c]][p] = NoCall
  /\ owner' = [owner EXCEPT ![ProcOf[c]][p] = c]
  /\ Proceed(c, [Idle EXCEPT !.at = label, !.plan = p])
  /\ UNCHANGED <<store, hist, inventory>>

\* Fault: the lock is not released.
LeaveLocked(c) == Proceed(c, Idle) /\ UNCHANGED owner

\* The call returns, leaving the with block.
Leave(c) ==
  /\ owner' = [owner EXCEPT ![ProcOf[c]][call[c].plan] = NoCall]
  /\ Proceed(c, Idle)

-----------------------------------------------------------------------------
(* create_plan: sweep, check, write                                        *)

BeginCreate(c) ==
  /\ At(c, "idle")
  /\ Proceed(c, [Idle EXCEPT !.at = "glob",
                             !.todo = {p \in Plans : file[p].status # "absent"}])
  /\ UNCHANGED <<store, owner, hist, inventory>>

\* One file's age is read: it is young, it is to be unlinked, or it has vanished
\* since the directory was listed and p.stat() raises out of create_plan.
SweepStat(c, p) ==
  /\ At(c, "glob") /\ p \in call[c].todo
  /\ \/ /\ file[p].status # "absent" /\ p \notin stale
        /\ Proceed(c, [call[c] EXCEPT !.todo = @ \ {p}])
     \/ /\ file[p].status # "absent" /\ p \in stale
        /\ Proceed(c, [call[c] EXCEPT !.todo = @ \ {p}, !.at = "unlink", !.plan = p])
     \/ /\ file[p].status = "absent"
        /\ Proceed(c, Idle)
  /\ UNCHANGED <<store, owner, hist, inventory>>

SweepUnlink(c) ==
  /\ At(c, "unlink")
  /\ Unlink(call[c].plan)
  /\ Proceed(c, [call[c] EXCEPT !.at = "glob", !.plan = NoPlan])
  /\ UNCHANGED <<owner, hist, inventory>>

\* precheck_targets: every VM an existing-VM action names is there, once.
PrecheckTargets(p) ==
  \A i \in Steps : Ops[p][i].kind # "create" => ~FindsNoOne(Ops[p][i].name)

WritePlan(c, p) ==
  /\ At(c, "glob") /\ call[c].todo = {}
  /\ p \notin created
  /\ PrecheckTargets(p)
  /\ file' = [file EXCEPT ![p] = Pending]
  /\ created' = created \cup {p}
  /\ Proceed(c, Idle)
  /\ UNCHANGED <<stale, owner, hist, inventory>>

\* A stat, an unlink or the write raises, or validation or the precheck found an
\* error; nothing is written.
CreateRefused(c) ==
  /\ call[c].at \in {"glob", "unlink"}
  /\ Proceed(c, Idle)
  /\ UNCHANGED <<store, owner, hist, inventory>>

-----------------------------------------------------------------------------
(* apply_plan                                                              *)

\* Fault: the status is not looked at.
ApplyLoadAny(c) ==
  /\ At(c, "apply")
  /\ Proceed(c, [call[c] EXCEPT !.at = "mark",
                                !.mem = [file[call[c].plan] EXCEPT !.status = "executing"]])
  /\ UNCHANGED <<owner, store, hist, inventory>>

ApplyLoad(c) ==
  LET p == call[c].plan IN
  /\ At(c, "apply")
  /\ IF file[p].status = "pending"
     THEN /\ Proceed(c, [call[c] EXCEPT !.at = "mark",
                                        !.mem = [file[p] EXCEPT !.status = "executing"]])
          /\ UNCHANGED owner
     ELSE Leave(c)
  /\ UNCHANGED <<store, hist, inventory>>

ApplyMark(c) ==
  /\ At(c, "mark")
  /\ Save(call[c].plan, call[c].mem)
  /\ Proceed(c, [call[c] EXCEPT !.at = "run", !.pos = 1])
  /\ UNCHANGED <<owner, hist, inventory>>

Here(c) == <<call[c].plan, call[c].pos>>
Op(c)   == Ops[call[c].plan][call[c].pos]

Marked(plan, i, status) == [plan EXCEPT !.step = [@ EXCEPT ![i] = status]]
Recorded(plan, i, uuid) == [plan EXCEPT !.uuid = [@ EXCEPT ![i] = uuid]]

Succeeded(c) ==
  [call[c] EXCEPT !.mem = Marked(@, call[c].pos, "success"),
                  !.pos = IF Op(c).kind = "create" THEN @ ELSE @ + 1,
                  !.at  = IF Op(c).kind = "create" THEN "record" ELSE "run"]

StepFailed(c) ==
  [call[c] EXCEPT !.mem = Marked(@, call[c].pos, "failed"), !.at = "settle"]

\* The step's check refused it, or its action raised before it changed anything.
StepRaises(c) ==
  /\ At(c, "run") /\ call[c].pos \in Steps
  /\ Proceed(c, StepFailed(c))
  /\ UNCHANGED <<store, owner, hist, inventory>>

\* The step's action works on the vCenter, and the executor sees it return or
\* raise: a task that outlives its wait, or a later part of a deploy that fails,
\* raises after the VM was created.
Ran(c, h, returned) ==
  /\ hist' = [h EXCEPT !.ran    = @ \cup {Here(c)},
                       !.again  = IF Here(c) \in hist.ran THEN @ \cup {Here(c)} ELSE @,
                       !.landed = IF returned THEN @ \cup {Here(c)} ELSE @]
  /\ Proceed(c, IF returned THEN Succeeded(c) ELSE StepFailed(c))
  /\ UNCHANGED <<store, owner>>

\* create_vm, clone and the deploy_* actions; a deploy may also power the VM on.
RunCreate(c) ==
  /\ At(c, "run") /\ call[c].pos \in Steps /\ Op(c).kind = "create"
  /\ \E u \in Uuids, running, returned \in BOOLEAN :
       /\ Born(u, Op(c).name, running)
       /\ Ran(c, [hist EXCEPT !.made = @ \cup {<<Here(c), u>>}], returned)

\* A VM that is on already is a success too.
RunPowerOn(c) ==
  /\ At(c, "run") /\ call[c].pos \in Steps /\ Op(c).kind = "power_on"
  /\ \E u \in Uuids, returned \in BOOLEAN :
       /\ Finds(Op(c).name, u)
       /\ PowerOn(u)
       /\ Ran(c, IF u \in on THEN hist ELSE [hist EXCEPT !.switchedOn = @ \cup {Here(c)}],
              returned)

\* A graceful shutdown that has not stopped the VM in two minutes returns its
\* sentence like any other, so the step is a success.
RunPowerOff(c) ==
  /\ At(c, "run") /\ call[c].pos \in Steps /\ Op(c).kind = "power_off"
  /\ \E u \in Uuids, returned \in BOOLEAN :
       /\ Finds(Op(c).name, u)
       /\ PowerOff(u) \/ UNCHANGED inventory
       /\ Ran(c, hist, returned)

RunReconfigure(c) ==
  /\ At(c, "run") /\ call[c].pos \in Steps /\ Op(c).kind = "reconfigure"
  /\ \E u \in Uuids, returned \in BOOLEAN :
       Finds(Op(c).name, u) /\ Ran(c, hist, returned)
  /\ UNCHANGED inventory

\* _created_instance_uuid looks the new VM up by its name; none if it cannot be read.
RecordUuid(c) ==
  /\ At(c, "record")
  /\ \E u \in Uuids \cup {NoUuid} :
       /\ u # NoUuid => Finds(Op(c).name, u)
       /\ Proceed(c, [call[c] EXCEPT !.mem = Recorded(@, call[c].pos, u),
                                     !.pos = @ + 1, !.at = "run"])
  /\ UNCHANGED <<store, owner, hist, inventory>>

\* All steps ran: completed is saved, then the file is deleted.
ApplyComplete(c) ==
  /\ At(c, "run") /\ call[c].pos = N + 1
  /\ Save(call[c].plan, [call[c].mem EXCEPT !.status = "completed"])
  /\ Proceed(c, [call[c] EXCEPT !.at = "discard"])
  /\ UNCHANGED <<owner, hist, inventory>>

ApplyDiscard(c) ==
  /\ At(c, "discard")
  /\ Unlink(call[c].plan)
  /\ Leave(c)
  /\ UNCHANGED <<hist, inventory>>

\* Fault: the failed step is saved, the plan's status is not.
ApplySettleStepsOnly(c) ==
  /\ At(c, "settle")
  /\ Save(call[c].plan, call[c].mem)
  /\ Leave(c)
  /\ UNCHANGED <<hist, inventory>>

Settled(plan, i) ==
  [plan EXCEPT !.status = "failed",
               !.step = [j \in Steps |-> IF j > i THEN "skipped" ELSE @[j]]]

\* A step failed: the later ones are skipped and the plan is saved as failed.
ApplySettle(c) ==
  /\ At(c, "settle")
  /\ Save(call[c].plan, Settled(call[c].mem, call[c].pos))
  /\ Leave(c)
  /\ UNCHANGED <<hist, inventory>>

-----------------------------------------------------------------------------
(* rollback_plan                                                           *)

Executed(plan) == {i \in Steps : plan.step[i] = "success"}

\* Fault: a plan left executing by a dead call is rolled back too.
RollbackLoadExecuting(c) ==
  LET p == call[c].plan IN
  /\ At(c, "rollback")
  /\ IF file[p].status \in {"failed", "executing"}
     THEN /\ Proceed(c, [call[c] EXCEPT !.at = "undo", !.mem = file[p], !.pos = N])
          /\ UNCHANGED owner
     ELSE Leave(c)
  /\ UNCHANGED <<store, hist, inventory>>

RollbackLoad(c) ==
  LET p == call[c].plan IN
  /\ At(c, "rollback")
  /\ IF file[p].status = "failed" /\ Executed(file[p]) # {}
     THEN /\ Proceed(c, [call[c] EXCEPT !.at = "undo", !.mem = file[p], !.pos = N])
          /\ UNCHANGED owner
     ELSE Leave(c)
  /\ UNCHANGED <<store, hist, inventory>>

\* The loop reaches pos: a step to undo, or one to pass over (it did not run, or
\* its action has no rollback).
Undoable(c) ==
  /\ call[c].pos \in Executed(call[c].mem)
  /\ Op(c).kind # "reconfigure"

\* Fault: the loop does not stop at the first step.
UndoPassOnward(c) ==
  /\ At(c, "undo") /\ ~Undoable(c)
  /\ Proceed(c, [call[c] EXCEPT !.pos = @ - 1])
  /\ UNCHANGED <<store, owner, hist, inventory>>

UndoPass(c) ==
  /\ At(c, "undo") /\ call[c].pos \in Steps /\ ~Undoable(c)
  /\ Proceed(c, [call[c] EXCEPT !.pos = @ - 1])
  /\ UNCHANGED <<store, owner, hist, inventory>>

\* Fault: a step that was undone is not marked.
UndoDoneUnmarked(c) ==
  [call[c] EXCEPT !.pos = @ - 1, !.at = "undo", !.vm = NoUuid]

UndoDone(c) ==
  [call[c] EXCEPT !.mem = Marked(@, call[c].pos, "rolled_back"), !.pos = @ - 1,
                  !.at = "undo", !.vm = NoUuid]

\* Any exception but a refusal: reported, and the next step is undone.
UndoFailed(c) ==
  [call[c] EXCEPT !.pos = @ - 1, !.at = "undo", !.vm = NoUuid]

Undone(c, h, returned) ==
  /\ hist' = IF returned
             THEN [h EXCEPT !.undone = @ \cup {Here(c)},
                            !.undoneAgain =
                              IF Here(c) \in hist.undone THEN @ \cup {Here(c)} ELSE @]
             ELSE h
  /\ Proceed(c, IF returned THEN UndoDone(c) ELSE UndoFailed(c))
  /\ UNCHANGED <<store, owner>>

\* Fault: a refused rollback returns without saving.
StopUnsaved(c) == Leave(c) /\ UNCHANGED <<store, hist, inventory>>

\* _stop_refused: the plan is saved as it is, still failed.
StopRefused(c) ==
  /\ Save(call[c].plan, call[c].mem)
  /\ Leave(c)
  /\ UNCHANGED <<hist, inventory>>

\* step_check refuses the undo (policy, a blocker, something unmeasured).
UndoRefused(c) ==
  /\ At(c, "undo") /\ call[c].pos \in Steps /\ Undoable(c)
  /\ StopRefused(c)

\* The undo's action raises before it changes anything.
UndoRaises(c) ==
  /\ At(c, "undo") /\ call[c].pos \in Steps /\ Undoable(c)
  /\ Op(c).kind = "create" => call[c].mem.uuid[call[c].pos] # NoUuid
  /\ Undone(c, hist, FALSE)
  /\ UNCHANGED inventory

\* The undo of a power_on is a hard power-off of the VM of that name.
UndoPowerOn(c) ==
  /\ At(c, "undo") /\ call[c].pos \in Steps /\ Undoable(c) /\ Op(c).kind = "power_on"
  /\ \E u \in Uuids, returned \in BOOLEAN :
       /\ Finds(Op(c).name, u)
       /\ PowerOff(u)
       /\ Undone(c, IF u \in on THEN [hist EXCEPT !.switchedOff = @ \cup {Here(c)}] ELSE hist,
                 returned)

UndoPowerOff(c) ==
  /\ At(c, "undo") /\ call[c].pos \in Steps /\ Undoable(c) /\ Op(c).kind = "power_off"
  /\ \E u \in Uuids, returned \in BOOLEAN :
       Finds(Op(c).name, u) /\ PowerOn(u) /\ Undone(c, hist, returned)

\* Fault: the name is taken for identity.
MatchesByName(c, u) == call[c].mem.uuid[call[c].pos] # NoUuid

\* _delete_created_vm finds the VM by name and compares its instance UUID with
\* the recorded one.
MatchesRecord(c, u) == u = call[c].mem.uuid[call[c].pos]

UndoIdentify(c) ==
  /\ At(c, "undo") /\ call[c].pos \in Steps /\ Undoable(c) /\ Op(c).kind = "create"
  /\ \E u \in Uuids :
       /\ Finds(Op(c).name, u) /\ MatchesRecord(c, u)
       /\ Proceed(c, [call[c] EXCEPT !.at = "destroy", !.vm = u])
  /\ UNCHANGED <<store, owner, hist, inventory>>

\* No UUID was recorded, or the VM of that name has another one.
UndoMismatch(c) ==
  /\ At(c, "undo") /\ call[c].pos \in Steps /\ Undoable(c) /\ Op(c).kind = "create"
  /\ \/ call[c].mem.uuid[call[c].pos] = NoUuid
     \/ \E u \in Uuids : Finds(Op(c).name, u) /\ ~MatchesRecord(c, u)
  /\ StopRefused(c)

\* The steps that made this VM and have not read its UUID yet.
Recording(u) == {a \in Attempt : <<a, u>> \in hist.made /\
                                 \E c \in Calls : At(c, "record") /\ Here(c) = a}

\* The object found above is powered off if it is on, and destroyed; it may be
\* gone by now, and either task may raise before or after its work is done.
UndoDestroy(c) ==
  /\ At(c, "destroy")
  /\ LET u == call[c].vm IN
     \/ /\ Alive(u) /\ Destroy(u)
        /\ \E returned \in BOOLEAN :
             Undone(c, [hist EXCEPT !.deleted = @ \cup {<<Here(c), u>>},
                                    !.lost = @ \cup Recording(u)], returned)
     \/ Alive(u) /\ PowerOff(u) /\ Undone(c, hist, FALSE)
     \/ UNCHANGED inventory /\ Undone(c, hist, FALSE)

\* power_off_check refuses to power the running VM off.
UndoPowerOffRefused(c) ==
  /\ At(c, "destroy")
  /\ call[c].vm \in on
  /\ StopRefused(c)

RollbackFinish(c) ==
  /\ At(c, "undo") /\ call[c].pos = 0
  /\ Save(call[c].plan, [call[c].mem EXCEPT !.status = "rolled_back"])
  /\ Leave(c)
  /\ UNCHANGED <<hist, inventory>>

-----------------------------------------------------------------------------
(* Files that cannot be read or written: the exception leaves the call     *)

\* load_plan, the save of executing or the unlink raises: what the call did, if
\* anything, is on file.
FileFails(c) ==
  /\ call[c].at \in {"apply", "rollback", "mark", "discard"}
  /\ Leave(c)
  /\ UNCHANGED <<store, hist, inventory>>

\* The call is about to save its copy: at the end of an apply, at a refused undo,
\* at the end of a rollback.
Saving(c) ==
  \/ At(c, "settle")
  \/ At(c, "run") /\ call[c].pos = N + 1
  \/ At(c, "undo") /\ (call[c].pos = 0 \/ Undoable(c))
  \/ At(c, "destroy") /\ call[c].vm \in on

\* That save raises and nothing around it catches: the file keeps what it said
\* before the call, and the copy is gone.
SaveFails(c) ==
  LET p == call[c].plan IN
  /\ Saving(c)
  /\ Leave(c)
  /\ hist' = [hist EXCEPT !.unsaved = IF call[c].mem = file[p] THEN @ ELSE @ \cup {p}]
  /\ UNCHANGED <<store, inventory>>

-----------------------------------------------------------------------------
(* The environment                                                         *)

Age(p) ==
  /\ file[p].status # "absent" /\ p \notin stale
  /\ stale' = stale \cup {p}
  /\ UNCHANGED <<file, created, owner, call, hist, inventory>>

\* A process is killed: its threads and its locks are gone.
Crash(r) ==
  /\ Crashes
  /\ call' = [c \in Calls |-> IF ProcOf[c] = r THEN Idle ELSE call[c]]
  /\ owner' = [owner EXCEPT ![r] = [p \in Plans |-> NoCall]]
  /\ hist' = [hist EXCEPT !.unsaved = @ \cup
               {p \in Plans : \E c \in Calls : ProcOf[c] = r /\ owner[r][p] = c}]
  /\ UNCHANGED <<store, inventory>>

\* Other users of the vCenter.
Outside ==
  /\ Outsiders
  /\ \/ /\ \E u \in Uuids, n \in Names : OutsideCreate(u, n)
        /\ UNCHANGED hist
     \/ /\ \E u \in Uuids : OutsidePower(u)
        /\ UNCHANGED hist
     \/ \E u \in Uuids :
          /\ OutsideDestroy(u) \/ \E n \in Names : OutsideRename(u, n)
          /\ hist' = [hist EXCEPT !.lost = @ \cup Recording(u)]
  /\ UNCHANGED <<store, owner, call>>

-----------------------------------------------------------------------------
CreateStep(c) ==
  \/ SweepUnlink(c) \/ CreateRefused(c)
  \/ \E p \in Plans : SweepStat(c, p) \/ WritePlan(c, p)

ApplyStep(c) ==
  \/ ApplyLoad(c) \/ ApplyMark(c) \/ StepRaises(c) \/ RunCreate(c) \/ RunPowerOn(c)
  \/ RunPowerOff(c) \/ RunReconfigure(c) \/ RecordUuid(c) \/ ApplyComplete(c)
  \/ ApplyDiscard(c) \/ ApplySettle(c)

RollbackStep(c) ==
  \/ RollbackLoad(c) \/ UndoPass(c) \/ UndoRefused(c) \/ UndoRaises(c) \/ UndoPowerOn(c)
  \/ UndoPowerOff(c) \/ UndoIdentify(c) \/ UndoMismatch(c) \/ UndoDestroy(c)
  \/ UndoPowerOffRefused(c) \/ RollbackFinish(c)

CallStep(c) ==
  CreateStep(c) \/ ApplyStep(c) \/ RollbackStep(c) \/ FileFails(c) \/ SaveFails(c)

Next ==
  \/ \E c \in Calls :
       \/ CallStep(c) \/ BeginCreate(c)
       \/ \E p \in Plans : Claim(c, p, "apply") \/ Claim(c, p, "rollback")
  \/ \E p \in Plans : Age(p)
  \/ \E r \in Procs : Crash(r)
  \/ Outside

Spec == Init /\ [][Next]_vars

\* A worker thread keeps going, and every wait on the vCenter is bounded
\* (_wait_for_task gives up after its timeout).
FairSpec == Spec /\ \A c \in Calls : WF_vars(CallStep(c))

-----------------------------------------------------------------------------
(* Properties                                                              *)

WorkingOn(p) == {c \in Calls : call[c].plan = p /\ call[c].at \in Applying \cup RollingBack}

(* Two calls of one server never work on one plan at once, and the lock     *)
(* table says which call does.  (_PLAN_LOCKS)                              *)
OneWorkerPerPlan ==
  \A r \in Procs, p \in Plans :
    {c \in WorkingOn(p) : ProcOf[c] = r} = {owner[r][p]} \ {NoCall}

(* No step of a plan takes effect twice, whatever calls, sweeps and        *)
(* restarts come between: a plan is applied once.                          *)
NoStepRunsTwice == hist.again = {}

(* The docstring's form: "steps already undone are marked and not undone   *)
(* twice".                                                                 *)
NoUndoRunsTwice == hist.undoneAgain = {}

(* However often the rollback of a plan is stopped and started, an undo    *)
(* that worked is run again only after a call died over that plan or could *)
(* not save it.                                                            *)
UndoneTwiceOnlyIfUnsaved == \A a \in hist.undoneAgain : a[1] \in hist.unsaved

(* A rollback destroys only the VM that the step it undoes created, unless *)
(* others destroyed or renamed that VM before the step had recorded its    *)
(* UUID: nothing done to names and VMs after that can make it destroy      *)
(* another one.                                                            *)
RollbackDeletesItsOwn ==
  \A d \in hist.deleted : d \in hist.made \/ d[1] \in hist.lost

(* The docstrings' form: the VM the step created and no other.             *)
RollbackDeletesOnlyCreated == hist.deleted \subseteq hist.made

(* The hard power-off of a rollback "undoes a power-on this plan made".     *)
PowerOffUndoesPowerOn == hist.switchedOff \subseteq hist.switchedOn

(* A failed plan's file says which steps landed and were not undone: all   *)
(* that a later rollback will undo, unless a call that worked on the plan  *)
(* died or could not save it.                                              *)
FailedFileTellsTheTruth ==
  \A p \in Plans :
    file[p].status = "failed" /\ WorkingOn(p) = {} /\ p \notin hist.unsaved =>
      \A i \in Steps :
        file[p].step[i] = "success" <=> <<p, i>> \in hist.landed \ hist.undone

\* What a plan's worker is doing, as PlanLifecycle sees it.
Doing(label) ==
  CASE label \in {"mark", "apply"}              -> "apply"
    [] label \in {"run", "record", "settle"}    -> "steps"
    [] label = "discard"                        -> "done"
    [] label = "rollback"                       -> "rollback"
    [] label \in {"undo", "destroy"}            -> "undo"

Worker(p) == IF WorkingOn(p) = {} THEN "none"
             ELSE Doing(call[CHOOSE c \in WorkingOn(p) : TRUE].at)

Lifecycle == INSTANCE PlanLifecycle WITH status <- [p \in Plans |-> file[p].status],
                                         worker <- [p \in Plans |-> Worker(p)]

(* One server implements the status flow of PlanLifecycle.                 *)
ImplementsLifecycle == Lifecycle!Spec

(* A lock is always given back: a plan whose call failed, was refused, was *)
(* told it had nothing to do, could not save or died can be worked on      *)
(* again.                                                                  *)
LocksAreReleased ==
  \A r \in Procs, p \in Plans : owner[r][p] # NoCall ~> owner[r][p] = NoCall

(* A plan marked executing is settled one way or the other, unless its     *)
(* server dies over it or the save that settles it raises: then it stays   *)
(* executing, which neither apply nor rollback accepts.                    *)
ExecutingSettles ==
  \A p \in Plans :
    file[p].status = "executing" ~> file[p].status # "executing" \/ p \in hist.unsaved
=============================================================================
