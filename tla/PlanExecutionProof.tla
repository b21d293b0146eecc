------------------------- MODULE PlanExecutionProof -------------------------
(***************************************************************************)
(* Theorems about PlanExecution, for every number of plans, steps, calls,  *)
(* servers and VMs.                                                        *)
(***************************************************************************)
EXTENDS PlanExecution, TLAPS

Busy == Applying \cup RollingBack

(* Where a call is, it has the plan, the step and the VM object its next    *)
(* step uses.                                                              *)
Placed ==
  \A c \in Calls :
    /\ call[c].at \in Busy \cup {"unlink"} => call[c].plan \in Plans
    /\ call[c].at \in {"record", "settle", "destroy"} => call[c].pos \in Steps
    /\ call[c].at = "destroy" => call[c].vm \in Uuids

(* The calls start well-typed and placed.                                  *)
THEOREM InitTyped == Init => TypeOK /\ Placed
<1> SUFFICES ASSUME Init PROVE TypeOK /\ Placed
  OBVIOUS
<1> USE PlanAssumption, NamesAssumption
<1>1. Absent \in Plan
  BY DEF Absent, Plan, Status, StepStatus
<1>2. Idle \in Call
  BY <1>1 DEF Idle, Call, Applying, RollingBack
<1>3. InventoryTypeOK
  BY DEF Init, InventoryTypeOK
<1>4. hist \in History
  BY DEF Init, History, Attempt
<1>5. Placed
  BY DEF Init, Placed, Idle, Busy, Applying, RollingBack
<1>6. QED
  BY <1>1, <1>2, <1>3, <1>4, <1>5 DEF Init, TypeOK

(* The loops stay between 0 and N + 1.                                     *)
LEMMA Positions ==
  /\ 1 \in 0 .. N + 1 /\ N \in 0 .. N + 1
  /\ \A i \in Steps : i \in 0 .. N + 1 /\ i + 1 \in 0 .. N + 1 /\ i - 1 \in 0 .. N + 1
BY PlanAssumption DEF Steps

(* What a call does leaves every other call where it was.                  *)
LEMMA ProceedTyped ==
  ASSUME TypeOK, Placed, NEW c \in Calls, NEW new \in Call, Proceed(c, new),
         new.at \in Busy \cup {"unlink"} => new.plan \in Plans,
         new.at \in {"record", "settle", "destroy"} => new.pos \in Steps,
         new.at = "destroy" => new.vm \in Uuids
  PROVE  call' \in [Calls -> Call] /\ Placed'
<1>1. call' = [call EXCEPT ![c] = new]
  BY DEF Proceed
<1>2. call' \in [Calls -> Call]
  BY <1>1 DEF TypeOK
<1>3. \A d \in Calls : call'[d] = IF d = c THEN new ELSE call[d]
  BY <1>1 DEF TypeOK
<1>4. Placed'
  BY <1>3 DEF Placed
<1>5. QED
  BY <1>2, <1>4

(* A call that has returned is a call, and the plans a file starts from are plans. *)
LEMMA IdleTyped == Idle \in Call /\ Absent \in Plan /\ Pending \in Plan
BY PlanAssumption DEF Idle, Call, Applying, RollingBack, Absent, Pending, Plan, Status, StepStatus

(* save_plan and the removals keep the plans directory a plans directory.   *)
LEMMA SaveTyped ==
  ASSUME TypeOK, NEW p \in Plans, NEW plan \in Plan, Save(p, plan) \/ (plan = Absent /\ Unlink(p))
  PROVE  file' \in [Plans -> Plan] /\ stale' \subseteq Plans /\ created' \subseteq Plans
BY DEF TypeOK, Save, Unlink

(* Leaving the with block frees the lock and disturbs no other call.        *)
LEMMA LeaveTyped ==
  ASSUME TypeOK, Placed, NEW c \in Calls, Leave(c)
  PROVE  /\ owner' \in [Procs -> [Plans -> Calls \cup {NoCall}]]
         /\ call' \in [Calls -> Call]
         /\ Placed'
<1>1. Proceed(c, Idle)
  BY DEF Leave
<1>2. call' \in [Calls -> Call] /\ Placed'
  BY <1>1, IdleTyped, ProceedTyped DEF Idle, Busy, Applying, RollingBack
<1>3. QED
  BY <1>2, PlanAssumption DEF Leave, TypeOK

(* A call a file error ends leaves its plan, and of the history it touches  *)
(* only the set of plans that may not tell all.                            *)
LEMMA FailsLeaves ==
  ASSUME TypeOK, Placed, NEW c \in Calls, FileFails(c) \/ SaveFails(c)
  PROVE  /\ call[c].at \in Busy /\ call[c].plan \in Plans
         /\ Leave(c) /\ Proceed(c, Idle)
         /\ UNCHANGED <<file, stale, created, named, on>>
         /\ \/ hist' = hist
            \/ hist' = [hist EXCEPT !.unsaved = @ \cup {call[c].plan}]
<1>1. call[c].at \in Busy
  BY DEF FileFails, SaveFails, Saving, At, Busy, Applying, RollingBack
<1>2. Leave(c) /\ UNCHANGED <<file, stale, created, named, on>>
  BY DEF FileFails, SaveFails, store, inventory
<1>3. \/ hist' = hist
      \/ hist' = [hist EXCEPT !.unsaved = @ \cup {call[c].plan}]
  <2>1. CASE FileFails(c)
    BY <2>1 DEF FileFails
  <2>2. CASE SaveFails(c)
    <3>1. hist \in History
      BY DEF TypeOK
    <3>2. CASE call[c].mem = file[call[c].plan]
      BY <2>2, <3>1, <3>2 DEF SaveFails, History
    <3>3. CASE call[c].mem # file[call[c].plan]
      BY <2>2, <3>3 DEF SaveFails
    <3>4. QED
      BY <3>2, <3>3
  <2>3. QED
    BY <2>1, <2>2
<1>4. QED
  BY <1>1, <1>2, <1>3 DEF Leave, Placed

(* So it keeps the types.                                                  *)
LEMMA FailsTyped ==
  ASSUME TypeOK, Placed, NEW c \in Calls, FileFails(c) \/ SaveFails(c)
  PROVE  TypeOK' /\ Placed'
<1>1. hist' \in History
  <2>1. hist \in History /\ call[c].plan \in Plans
    BY FailsLeaves DEF TypeOK
  <2>2. [hist EXCEPT !.unsaved = @ \cup {call[c].plan}] \in History
    BY <2>1 DEF History
  <2>3. QED
    BY <2>1, <2>2, FailsLeaves
<1>2. QED
  BY <1>1, FailsLeaves, LeaveTyped DEF TypeOK, InventoryTypeOK

(* The edits the executor makes to its copy of a plan keep it a plan.       *)
LEMMA EditsTyped ==
  ASSUME NEW plan \in Plan, NEW i \in Steps
  PROVE  /\ \A s \in StepStatus : Marked(plan, i, s) \in Plan
         /\ \A u \in Uuids \cup {NoUuid} : Recorded(plan, i, u) \in Plan
         /\ Settled(plan, i) \in Plan
         /\ \A s \in Status : [plan EXCEPT !.status = s] \in Plan
BY DEF Plan, Marked, Recorded, Settled, StepStatus, Status

(* What TypeOK and Placed say of one call, field by field.                  *)
LEMMA CallTyped ==
  ASSUME TypeOK, Placed, NEW c \in Calls
  PROVE  /\ call[c] \in Call
         /\ call[c].mem \in Plan
         /\ call[c].pos \in 0 .. N + 1
         /\ call[c].todo \subseteq Plans
         /\ call[c].at \in Busy \cup {"unlink"} => call[c].plan \in Plans
         /\ call[c].at \in {"record", "settle", "destroy"} => call[c].pos \in Steps
BY DEF TypeOK, Placed, Call

(* What load_plan returns is a plan, and so is its executing copy.          *)
LEMMA ReadTyped ==
  ASSUME TypeOK, NEW p \in Plans
  PROVE  file[p] \in Plan /\ [file[p] EXCEPT !.status = "executing"] \in Plan
BY DEF TypeOK, Plan, Status

(* A step that touches neither the store, the locks, the vCenter nor the    *)
(* history.                                                                *)
LEMMA QuietTyped ==
  ASSUME TypeOK, Placed, call' \in [Calls -> Call], Placed',
         UNCHANGED <<store, owner, hist, inventory>>
  PROVE  TypeOK' /\ Placed'
BY DEF TypeOK, InventoryTypeOK, store, inventory

(* create_plan's directory listing preserves the types.                     *)
LEMMA BeginCreateTyped ==
  ASSUME TypeOK, Placed, NEW c \in Calls, BeginCreate(c)
  PROVE  TypeOK' /\ Placed'
<1> DEFINE new == [Idle EXCEPT !.at = "glob", !.todo = {p \in Plans : file[p].status # "absent"}]
<1>1. new \in Call /\ new.at = "glob"
  BY IdleTyped DEF Idle, Call
<1>2. call' \in [Calls -> Call] /\ Placed'
  BY <1>1, ProceedTyped DEF BeginCreate, Busy, Applying, RollingBack
<1>3. QED
  BY <1>2, QuietTyped DEF BeginCreate

(* So does the reading of one file's age.                                   *)
LEMMA SweepStatTyped ==
  ASSUME TypeOK, Placed, NEW c \in Calls, NEW p \in Plans, SweepStat(c, p)
  PROVE  TypeOK' /\ Placed'
<1> DEFINE young == [call[c] EXCEPT !.todo = @ \ {p}]
           old   == [call[c] EXCEPT !.todo = @ \ {p}, !.at = "unlink", !.plan = p]
<1>1. young \in Call /\ young.at = "glob" /\ old \in Call /\ old.at = "unlink" /\ old.plan = p
  BY CallTyped DEF Call, SweepStat, At
<1>2. CASE Proceed(c, young)
  <2>1. call' \in [Calls -> Call] /\ Placed'
    BY <1>1, <1>2, ProceedTyped DEF Busy, Applying, RollingBack
  <2>2. QED
    BY <2>1, QuietTyped DEF SweepStat
<1>3. CASE Proceed(c, old)
  <2>1. call' \in [Calls -> Call] /\ Placed'
    BY <1>1, <1>3, ProceedTyped DEF Busy, Applying, RollingBack
  <2>2. QED
    BY <2>1, QuietTyped DEF SweepStat
<1>4. CASE Proceed(c, Idle)
  <2>1. call' \in [Calls -> Call] /\ Placed'
    BY <1>4, IdleTyped, ProceedTyped DEF Idle, Busy, Applying, RollingBack
  <2>2. QED
    BY <2>1, QuietTyped DEF SweepStat
<1>5. QED
  BY <1>2, <1>3, <1>4 DEF SweepStat

(* And the removal of an old file.                                          *)
LEMMA SweepUnlinkTyped ==
  ASSUME TypeOK, Placed, NEW c \in Calls, SweepUnlink(c)
  PROVE  TypeOK' /\ Placed'
<1> DEFINE new == [call[c] EXCEPT !.at = "glob", !.plan = NoPlan]
<1>1. new \in Call /\ new.at = "glob"
  BY CallTyped DEF Call
<1>2. call' \in [Calls -> Call] /\ Placed'
  BY <1>1, ProceedTyped DEF SweepUnlink, Busy, Applying, RollingBack
<1>3. file' \in [Plans -> Plan] /\ stale' \subseteq Plans /\ created' \subseteq Plans
  BY CallTyped, IdleTyped, SaveTyped DEF SweepUnlink, At
<1>4. QED
  BY <1>2, <1>3 DEF TypeOK, InventoryTypeOK, SweepUnlink, inventory

(* A step that saves, or removes, the plan file and goes on or returns.     *)
LEMMA WriteTyped ==
  ASSUME TypeOK, Placed, NEW p \in Plans, NEW plan \in Plan,
         Save(p, plan) \/ (plan = Absent /\ Unlink(p)),
         call' \in [Calls -> Call], Placed',
         owner' \in [Procs -> [Plans -> Calls \cup {NoCall}]],
         UNCHANGED <<hist, inventory>>
  PROVE  TypeOK' /\ Placed'
<1>1. file' \in [Plans -> Plan] /\ stale' \subseteq Plans /\ created' \subseteq Plans
  BY SaveTyped
<1>2. QED
  BY <1>1 DEF TypeOK, InventoryTypeOK, inventory

(* Writing a new plan, or refusing to, preserves the types.                 *)
LEMMA WritePlanTyped ==
  ASSUME TypeOK, Placed, NEW c \in Calls,
         CreateRefused(c) \/ \E p \in Plans : WritePlan(c, p)
  PROVE  TypeOK' /\ Placed'
<1>1. Proceed(c, Idle)
  BY DEF WritePlan, CreateRefused
<1>2. call' \in [Calls -> Call] /\ Placed'
  BY <1>1, IdleTyped, ProceedTyped DEF Idle, Busy, Applying, RollingBack
<1>3. ASSUME NEW p \in Plans, WritePlan(c, p) PROVE TypeOK' /\ Placed'
  <2>1. file' \in [Plans -> Plan] /\ created' \subseteq Plans
    BY <1>3, IdleTyped DEF WritePlan, TypeOK
  <2>2. QED
    BY <1>2, <1>3, <2>1 DEF TypeOK, InventoryTypeOK, WritePlan, inventory
<1>4. CASE CreateRefused(c)
  BY <1>2, <1>4, QuietTyped DEF CreateRefused
<1>5. QED
  BY <1>3, <1>4

(* Taking a plan's lock preserves the types.                                *)
LEMMA ClaimTyped ==
  ASSUME TypeOK, Placed, NEW c \in Calls, NEW p \in Plans,
         NEW label \in {"apply", "rollback"}, Claim(c, p, label)
  PROVE  TypeOK' /\ Placed'
<1> DEFINE new == [Idle EXCEPT !.at = label, !.plan = p]
<1>1. new \in Call /\ new.at = label /\ new.plan = p
  BY IdleTyped DEF Idle, Call, Applying, RollingBack
<1>2. call' \in [Calls -> Call] /\ Placed'
  BY <1>1, ProceedTyped DEF Claim, Busy, Applying, RollingBack
<1>3. owner' \in [Procs -> [Plans -> Calls \cup {NoCall}]]
  BY PlanAssumption DEF Claim, TypeOK
<1>4. QED
  BY <1>2, <1>3 DEF Claim, TypeOK, InventoryTypeOK, store, inventory

(* apply_plan and rollback_plan reading the file preserve the types.        *)
LEMMA LoadTyped ==
  ASSUME TypeOK, Placed, NEW c \in Calls, ApplyLoad(c) \/ RollbackLoad(c)
  PROVE  TypeOK' /\ Placed'
<1> DEFINE p == call[c].plan
           applied == [call[c] EXCEPT !.at = "mark",
                                      !.mem = [file[p] EXCEPT !.status = "executing"]]
           rolled  == [call[c] EXCEPT !.at = "undo", !.mem = file[p], !.pos = N]
<1>1. p \in Plans
  BY CallTyped DEF ApplyLoad, RollbackLoad, At, Busy, Applying, RollingBack
<1>2. applied \in Call /\ applied.at = "mark" /\ applied.plan = p
  <2>1. [file[p] EXCEPT !.status = "executing"] \in Plan
    BY <1>1, ReadTyped
  <2>2. QED
    BY <2>1, CallTyped DEF Call, Applying
<1>3. rolled \in Call /\ rolled.at = "undo" /\ rolled.plan = p
  <2>1. file[p] \in Plan /\ N \in 0 .. N + 1
    BY <1>1, ReadTyped, Positions
  <2>2. QED
    BY <2>1, CallTyped DEF Call, RollingBack
<1>4. CASE Leave(c)
  BY <1>4, LeaveTyped DEF ApplyLoad, RollbackLoad, TypeOK, InventoryTypeOK, store, inventory
<1>5. CASE Proceed(c, applied) /\ UNCHANGED owner
  <2>1. call' \in [Calls -> Call] /\ Placed'
    BY <1>1, <1>2, <1>5, ProceedTyped
  <2>2. QED
    BY <1>5, <2>1, QuietTyped DEF ApplyLoad, RollbackLoad
<1>6. CASE Proceed(c, rolled) /\ UNCHANGED owner
  <2>1. call' \in [Calls -> Call] /\ Placed'
    BY <1>1, <1>3, <1>6, ProceedTyped
  <2>2. QED
    BY <1>6, <2>1, QuietTyped DEF ApplyLoad, RollbackLoad
<1>7. QED
  BY <1>4, <1>5, <1>6 DEF ApplyLoad, RollbackLoad

(* Marking the plan executing preserves the types.                          *)
LEMMA ApplyMarkTyped ==
  ASSUME TypeOK, Placed, NEW c \in Calls, ApplyMark(c)
  PROVE  TypeOK' /\ Placed'
<1> DEFINE new == [call[c] EXCEPT !.at = "run", !.pos = 1]
<1>1. call[c].plan \in Plans /\ call[c].mem \in Plan
  BY CallTyped DEF ApplyMark, At, Busy, Applying
<1>2. new \in Call /\ new.at = "run" /\ new.plan \in Plans
  BY <1>1, CallTyped, Positions DEF Call, Applying
<1>3. call' \in [Calls -> Call] /\ Placed'
  BY <1>2, ProceedTyped DEF ApplyMark
<1>4. owner' \in [Procs -> [Plans -> Calls \cup {NoCall}]]
  BY DEF ApplyMark, TypeOK
<1>5. QED
  BY <1>1, <1>3, <1>4, WriteTyped DEF ApplyMark

(* Where a step of an apply ends, as it succeeds or fails.                  *)
LEMMA StepEndTyped ==
  ASSUME TypeOK, Placed, NEW c \in Calls, At(c, "run"), call[c].pos \in Steps
  PROVE  /\ Proceed(c, Succeeded(c)) => call' \in [Calls -> Call] /\ Placed'
         /\ Proceed(c, StepFailed(c)) => call' \in [Calls -> Call] /\ Placed'
<1> DEFINE good == Succeeded(c)
           bad  == StepFailed(c)
<1>1. /\ Marked(call[c].mem, call[c].pos, "success") \in Plan
      /\ Marked(call[c].mem, call[c].pos, "failed") \in Plan
  BY CallTyped, EditsTyped DEF StepStatus
<1>2. call[c].plan \in Plans
  BY CallTyped DEF At, Busy, Applying
<1>3. call[c].pos + 1 \in 0 .. N + 1 /\ call[c].pos \in 0 .. N + 1
  BY Positions
<1>4. good \in Call /\ good.at \in {"record", "run"} /\ good.plan \in Plans
      /\ (good.at = "record" => good.pos \in Steps)
  BY <1>1, <1>2, <1>3, CallTyped DEF Succeeded, Call, Applying
<1>5. bad \in Call /\ bad.at = "settle" /\ bad.plan \in Plans /\ bad.pos \in Steps
  BY <1>1, <1>2, CallTyped DEF StepFailed, Call, Applying
<1>6. Proceed(c, good) => call' \in [Calls -> Call] /\ Placed'
  BY <1>4, ProceedTyped
<1>7. Proceed(c, bad) => call' \in [Calls -> Call] /\ Placed'
  BY <1>5, ProceedTyped
<1>8. QED
  BY <1>6, <1>7

(* A step that raised at once preserves the types.                          *)
LEMMA StepRaisesTyped ==
  ASSUME TypeOK, Placed, NEW c \in Calls, StepRaises(c)
  PROVE  TypeOK' /\ Placed'
BY StepEndTyped, QuietTyped DEF StepRaises

(* What the vCenter's tasks do leaves it a vCenter.                         *)
LEMMA TasksTyped ==
  ASSUME TypeOK, NEW u \in Uuids
  PROVE  /\ \A n \in Names, running \in BOOLEAN : Born(u, n, running) => InventoryTypeOK'
         /\ Destroy(u) => InventoryTypeOK'
         /\ Alive(u) /\ PowerOn(u) => InventoryTypeOK'
         /\ PowerOff(u) => InventoryTypeOK'
         /\ UNCHANGED inventory => InventoryTypeOK'
<1> USE NamesAssumption DEF TypeOK, InventoryTypeOK
<1>1. ASSUME NEW n \in Names, NEW running \in BOOLEAN, Born(u, n, running)
      PROVE  InventoryTypeOK'
  BY <1>1 DEF Born
<1>2. Destroy(u) => InventoryTypeOK'
  BY DEF Destroy
<1>3. Alive(u) /\ PowerOn(u) => InventoryTypeOK'
  BY DEF Alive, PowerOn
<1>4. PowerOff(u) => InventoryTypeOK'
  BY DEF PowerOff
<1>5. UNCHANGED inventory => InventoryTypeOK'
  BY DEF inventory
<1>6. QED
  BY <1>1, <1>2, <1>3, <1>4, <1>5

(* A VM that a look-up by name returned is there.                           *)
LEMMA FoundIsAlive ==
  ASSUME NEW n \in Names, NEW u \in Uuids, Finds(n, u)
  PROVE  Alive(u)
BY DEF Finds, Holders, Alive

(* The operation of a step names a VM.                                      *)
LEMMA OpNamed ==
  ASSUME NEW c \in Calls, call[c].plan \in Plans, call[c].pos \in Steps
  PROVE  Op(c).name \in Names /\ Here(c) \in Attempt
BY PlanAssumption DEF Op, Here, Attempt

(* The additions the actions make to the history keep it a history.         *)
LEMMA HistoryTyped ==
  ASSUME NEW h \in History, NEW a \in Attempt
  PROVE  /\ \A u \in Uuids : [h EXCEPT !.made = @ \cup {<<a, u>>}] \in History
         /\ \A u \in Uuids : [h EXCEPT !.deleted = @ \cup {<<a, u>>},
                                       !.lost = @ \cup Recording(u)] \in History
         /\ [h EXCEPT !.switchedOn = @ \cup {a}] \in History
         /\ [h EXCEPT !.switchedOff = @ \cup {a}] \in History
<1>1. ASSUME NEW u \in Uuids
      PROVE  [h EXCEPT !.deleted = @ \cup {<<a, u>>}, !.lost = @ \cup Recording(u)] \in History
  <2> DEFINE R == Recording(u)
             g == [h EXCEPT !.deleted = @ \cup {<<a, u>>}]
  <2>1. R \in SUBSET Attempt
    BY DEF Recording
  <2>2. g \in History
    BY <1>1 DEF History
  <2> HIDE DEF R
  <2>3. [g EXCEPT !.lost = @ \cup R] \in History
    <3> HIDE DEF g
    <3> QED  BY <2>1, <2>2 DEF History
  <2>4. [h EXCEPT !.deleted = @ \cup {<<a, u>>}, !.lost = @ \cup R]
          = [g EXCEPT !.lost = @ \cup R]
    BY DEF History
  <2>5. QED
    BY <2>3, <2>4 DEF R
<1>2. QED
  BY <1>1 DEF History

(* Whatever a step's action did, its return or its exception preserves the types. *)
LEMMA RanTyped ==
  ASSUME TypeOK, Placed, NEW c \in Calls, At(c, "run"), call[c].pos \in Steps,
         NEW h \in History, NEW returned \in BOOLEAN, Ran(c, h, returned), InventoryTypeOK'
  PROVE  TypeOK' /\ Placed'
<1>1. call' \in [Calls -> Call] /\ Placed'
  BY StepEndTyped DEF Ran
<1>2. Here(c) \in Attempt
  BY OpNamed, CallTyped DEF At, Busy, Applying
<1>3. hist' \in History
  BY <1>2 DEF Ran, History
<1>4. QED
  BY <1>1, <1>3 DEF TypeOK, Ran, store

(* The actions of the four kinds of step preserve the types.                *)
LEMMA RunTyped ==
  ASSUME TypeOK, Placed, NEW c \in Calls,
         RunCreate(c) \/ RunPowerOn(c) \/ RunPowerOff(c) \/ RunReconfigure(c)
  PROVE  TypeOK' /\ Placed'
<1>1. /\ At(c, "run") /\ call[c].pos \in Steps /\ hist \in History
      /\ Op(c).name \in Names /\ Here(c) \in Attempt
  BY OpNamed, CallTyped
  DEF RunCreate, RunPowerOn, RunPowerOff, RunReconfigure, At, Busy, Applying, TypeOK
<1>2. CASE RunCreate(c)
  <2>1. PICK u \in Uuids, running \in BOOLEAN, returned \in BOOLEAN :
          /\ Born(u, Op(c).name, running)
          /\ Ran(c, [hist EXCEPT !.made = @ \cup {<<Here(c), u>>}], returned)
    BY <1>2 DEF RunCreate
  <2>2. InventoryTypeOK'
    BY <1>1, <2>1, TasksTyped
  <2>3. [hist EXCEPT !.made = @ \cup {<<Here(c), u>>}] \in History
    BY <1>1, HistoryTyped
  <2>4. QED
    BY <1>1, <2>1, <2>2, <2>3, RanTyped
<1>3. CASE RunPowerOn(c)
  <2> DEFINE h(u) == IF u \in on THEN hist ELSE [hist EXCEPT !.switchedOn = @ \cup {Here(c)}]
  <2>1. PICK u \in Uuids, returned \in BOOLEAN :
          Finds(Op(c).name, u) /\ PowerOn(u) /\ Ran(c, h(u), returned)
    BY <1>3 DEF RunPowerOn
  <2>2. InventoryTypeOK'
    BY <1>1, <2>1, FoundIsAlive, TasksTyped
  <2>3. h(u) \in History
    BY <1>1, HistoryTyped
  <2>4. QED
    BY <1>1, <2>1, <2>2, <2>3, RanTyped
<1>4. CASE RunPowerOff(c)
  <2>1. PICK u \in Uuids, returned \in BOOLEAN :
          (PowerOff(u) \/ UNCHANGED inventory) /\ Ran(c, hist, returned)
    BY <1>4 DEF RunPowerOff
  <2>2. InventoryTypeOK'
    BY <2>1, TasksTyped
  <2>3. QED
    BY <1>1, <2>1, <2>2, RanTyped
<1>5. CASE RunReconfigure(c)
  <2>1. PICK u \in Uuids, returned \in BOOLEAN : Ran(c, hist, returned)
    BY <1>5 DEF RunReconfigure
  <2>2. InventoryTypeOK'
    BY <1>5, TasksTyped, <2>1 DEF RunReconfigure
  <2>3. QED
    BY <1>1, <2>1, <2>2, RanTyped
<1>6. QED
  BY <1>2, <1>3, <1>4, <1>5

(* Recording the created VM's UUID preserves the types.                     *)
LEMMA RecordUuidTyped ==
  ASSUME TypeOK, Placed, NEW c \in Calls, RecordUuid(c)
  PROVE  TypeOK' /\ Placed'
<1> DEFINE new(u) == [call[c] EXCEPT !.mem = Recorded(@, call[c].pos, u),
                                     !.pos = @ + 1, !.at = "run"]
<1>1. PICK u \in Uuids \cup {NoUuid} : Proceed(c, new(u))
  BY DEF RecordUuid
<1>2. call[c].plan \in Plans /\ call[c].pos \in Steps
  BY CallTyped DEF RecordUuid, At, Busy, Applying
<1>3. Recorded(call[c].mem, call[c].pos, u) \in Plan /\ call[c].pos + 1 \in 0 .. N + 1
  BY <1>2, CallTyped, EditsTyped, Positions
<1>4. new(u) \in Call /\ new(u).at = "run" /\ new(u).plan \in Plans
  BY <1>2, <1>3, CallTyped DEF Call, Applying
<1>5. call' \in [Calls -> Call] /\ Placed'
  BY <1>1, <1>4, ProceedTyped
<1>6. QED
  BY <1>5, QuietTyped DEF RecordUuid

(* The three ways an apply ends preserve the types.                         *)
LEMMA ApplyEndTyped ==
  ASSUME TypeOK, Placed, NEW c \in Calls,
         ApplyComplete(c) \/ ApplyDiscard(c) \/ ApplySettle(c)
  PROVE  TypeOK' /\ Placed'
<1> DEFINE done == [call[c].mem EXCEPT !.status = "completed"]
           new  == [call[c] EXCEPT !.at = "discard"]
<1>1. call[c].plan \in Plans
  BY CallTyped DEF ApplyComplete, ApplyDiscard, ApplySettle, At, Busy, Applying
<1>2. CASE ApplyComplete(c)
  <2>1. done \in Plan
    BY CallTyped DEF Plan, Status
  <2>2. new \in Call /\ new.at = "discard" /\ new.plan \in Plans
    BY <1>1, CallTyped DEF Call, Applying
  <2>3. call' \in [Calls -> Call] /\ Placed'
    BY <1>2, <2>2, ProceedTyped DEF ApplyComplete
  <2>4. owner' \in [Procs -> [Plans -> Calls \cup {NoCall}]]
    BY <1>2 DEF ApplyComplete, TypeOK
  <2>5. QED
    BY <1>1, <1>2, <2>1, <2>3, <2>4, WriteTyped DEF ApplyComplete
<1>3. CASE ApplyDiscard(c)
  BY <1>1, <1>3, LeaveTyped, IdleTyped, WriteTyped DEF ApplyDiscard
<1>4. CASE ApplySettle(c)
  <2>1. Settled(call[c].mem, call[c].pos) \in Plan
    BY <1>4, CallTyped, EditsTyped DEF ApplySettle, At
  <2>2. QED
    BY <1>1, <1>4, <2>1, LeaveTyped, WriteTyped DEF ApplySettle
<1>5. QED
  BY <1>2, <1>3, <1>4

(* Where the undo of a step ends, marked or not.                            *)
LEMMA UndoEndTyped ==
  ASSUME TypeOK, Placed, NEW c \in Calls, At(c, "undo") \/ At(c, "destroy"),
         call[c].pos \in Steps
  PROVE  /\ Proceed(c, UndoDone(c)) => call' \in [Calls -> Call] /\ Placed'
         /\ Proceed(c, UndoFailed(c)) => call' \in [Calls -> Call] /\ Placed'
<1> DEFINE good == UndoDone(c)
           bad  == UndoFailed(c)
<1>1. Marked(call[c].mem, call[c].pos, "rolled_back") \in Plan
  BY CallTyped, EditsTyped DEF StepStatus
<1>2. call[c].plan \in Plans
  BY CallTyped DEF At, Busy, RollingBack
<1>3. call[c].pos - 1 \in 0 .. N + 1
  BY Positions
<1>4. good \in Call /\ good.at = "undo" /\ good.plan \in Plans
  BY <1>1, <1>2, <1>3, CallTyped DEF UndoDone, Call, RollingBack
<1>5. bad \in Call /\ bad.at = "undo" /\ bad.plan \in Plans
  BY <1>2, <1>3, CallTyped DEF UndoFailed, Call, RollingBack
<1>6. Proceed(c, good) => call' \in [Calls -> Call] /\ Placed'
  BY <1>4, ProceedTyped
<1>7. Proceed(c, bad) => call' \in [Calls -> Call] /\ Placed'
  BY <1>5, ProceedTyped
<1>8. QED
  BY <1>6, <1>7

(* Whatever an undo did, its return or its exception preserves the types.   *)
LEMMA UndoneTyped ==
  ASSUME TypeOK, Placed, NEW c \in Calls, At(c, "undo") \/ At(c, "destroy"),
         call[c].pos \in Steps, NEW h \in History, NEW returned \in BOOLEAN,
         Undone(c, h, returned), InventoryTypeOK'
  PROVE  TypeOK' /\ Placed'
<1>1. call' \in [Calls -> Call] /\ Placed'
  BY UndoEndTyped DEF Undone
<1>2. Here(c) \in Attempt
  BY OpNamed, CallTyped DEF At, Busy, RollingBack
<1>3. hist' \in History
  BY <1>2 DEF Undone, History
<1>4. QED
  BY <1>1, <1>3 DEF TypeOK, Undone, store

(* A rollback that stops saves its copy and leaves; the types hold.         *)
LEMMA StopRefusedTyped ==
  ASSUME TypeOK, Placed, NEW c \in Calls, call[c].plan \in Plans, StopRefused(c)
  PROVE  TypeOK' /\ Placed'
BY CallTyped, LeaveTyped, WriteTyped DEF StopRefused

(* Every step of a rollback but those that act on the vCenter preserves the types. *)
LEMMA RollbackTyped ==
  ASSUME TypeOK, Placed, NEW c \in Calls,
         \/ UndoPass(c) \/ UndoRefused(c) \/ UndoIdentify(c) \/ UndoMismatch(c)
         \/ UndoPowerOffRefused(c) \/ RollbackFinish(c)
  PROVE  TypeOK' /\ Placed'
<1>1. call[c].plan \in Plans
  BY CallTyped DEF UndoPass, UndoRefused, UndoIdentify, UndoMismatch, UndoPowerOffRefused,
                   RollbackFinish, At, Busy, RollingBack
<1>2. CASE UndoPass(c)
  <2> DEFINE new == [call[c] EXCEPT !.pos = @ - 1]
  <2>1. call[c].pos - 1 \in 0 .. N + 1
    BY <1>2, Positions DEF UndoPass
  <2>2. new \in Call /\ new.at = "undo" /\ new.plan \in Plans
    BY <1>1, <1>2, <2>1, CallTyped DEF Call, UndoPass, At
  <2>3. call' \in [Calls -> Call] /\ Placed'
    BY <1>2, <2>2, ProceedTyped DEF UndoPass
  <2>4. QED
    BY <1>2, <2>3, QuietTyped DEF UndoPass
<1>3. CASE UndoIdentify(c)
  <2> DEFINE new(u) == [call[c] EXCEPT !.at = "destroy", !.vm = u]
  <2>1. PICK u \in Uuids : Proceed(c, new(u))
    BY <1>3 DEF UndoIdentify
  <2>2. new(u) \in Call /\ new(u).at = "destroy" /\ new(u).plan \in Plans
        /\ new(u).vm \in Uuids /\ new(u).pos \in Steps
    BY <1>1, <1>3, CallTyped DEF Call, UndoIdentify, RollingBack
  <2>3. call' \in [Calls -> Call] /\ Placed'
    BY <2>1, <2>2, ProceedTyped
  <2>4. QED
    BY <1>3, <2>3, QuietTyped DEF UndoIdentify
<1>4. CASE UndoRefused(c) \/ UndoMismatch(c) \/ UndoPowerOffRefused(c)
  BY <1>1, <1>4, StopRefusedTyped DEF UndoRefused, UndoMismatch, UndoPowerOffRefused
<1>5. CASE RollbackFinish(c)
  <2>1. [call[c].mem EXCEPT !.status = "rolled_back"] \in Plan
    BY CallTyped DEF Plan, Status
  <2>2. QED
    BY <1>1, <1>5, <2>1, LeaveTyped, WriteTyped DEF RollbackFinish
<1>6. QED
  BY <1>2, <1>3, <1>4, <1>5

(* The undo actions preserve the types.                                     *)
LEMMA UndoTyped ==
  ASSUME TypeOK, Placed, NEW c \in Calls,
         UndoRaises(c) \/ UndoPowerOn(c) \/ UndoPowerOff(c) \/ UndoDestroy(c)
  PROVE  TypeOK' /\ Placed'
<1>1. /\ At(c, "undo") \/ At(c, "destroy")
      /\ call[c].pos \in Steps /\ call[c].plan \in Plans /\ hist \in History
  BY CallTyped DEF UndoRaises, UndoPowerOn, UndoPowerOff, UndoDestroy, At, Busy,
                   RollingBack, TypeOK
<1>2. Op(c).name \in Names /\ Here(c) \in Attempt
  BY <1>1, OpNamed
<1>3. CASE UndoRaises(c)
  <2>1. UNCHANGED inventory /\ Undone(c, hist, FALSE)
    BY <1>3 DEF UndoRaises
  <2>2. InventoryTypeOK'
    BY <2>1 DEF TypeOK, InventoryTypeOK, inventory
  <2>3. QED
    BY <1>1, <2>1, <2>2, UndoneTyped
<1>4. CASE UndoPowerOn(c)
  <2> DEFINE h(u) == IF u \in on THEN [hist EXCEPT !.switchedOff = @ \cup {Here(c)}] ELSE hist
  <2>1. PICK u \in Uuids, returned \in BOOLEAN : PowerOff(u) /\ Undone(c, h(u), returned)
    BY <1>4 DEF UndoPowerOn
  <2>2. InventoryTypeOK'
    BY <2>1, TasksTyped
  <2>3. h(u) \in History
    BY <1>1, <1>2, HistoryTyped
  <2>4. QED
    BY <1>1, <2>1, <2>2, <2>3, UndoneTyped
<1>5. CASE UndoPowerOff(c)
  <2>1. PICK u \in Uuids, returned \in BOOLEAN :
          Finds(Op(c).name, u) /\ PowerOn(u) /\ Undone(c, hist, returned)
    BY <1>5 DEF UndoPowerOff
  <2>2. InventoryTypeOK'
    BY <1>2, <2>1, FoundIsAlive, TasksTyped
  <2>3. QED
    BY <1>1, <2>1, <2>2, UndoneTyped
<1>6. CASE UndoDestroy(c)
  <2> DEFINE u == call[c].vm
             h == [hist EXCEPT !.deleted = @ \cup {<<Here(c), u>>}, !.lost = @ \cup Recording(u)]
  <2>1. u \in Uuids
    BY <1>6 DEF UndoDestroy, At, Placed
  <2>2. h \in History
    BY <1>1, <1>2, <2>1, HistoryTyped
  <2>3. InventoryTypeOK'
    BY <1>6, <2>1, TasksTyped DEF UndoDestroy
  <2>4. \E returned \in BOOLEAN : Undone(c, h, returned) \/ Undone(c, hist, FALSE)
    BY <1>6 DEF UndoDestroy
  <2>5. QED
    BY <1>1, <2>2, <2>3, <2>4, UndoneTyped
<1>7. QED
  BY <1>3, <1>4, <1>5, <1>6

(* The passing of a day, a crash and the other users preserve the types.    *)
LEMMA EnvironmentTyped ==
  ASSUME TypeOK, Placed, (\E p \in Plans : Age(p)) \/ (\E r \in Procs : Crash(r)) \/ Outside
  PROVE  TypeOK' /\ Placed'
<1>1. ASSUME NEW p \in Plans, Age(p) PROVE TypeOK' /\ Placed'
  BY <1>1 DEF Age, TypeOK, Placed, InventoryTypeOK, inventory
<1>2. ASSUME NEW r \in Procs, Crash(r) PROVE TypeOK' /\ Placed'
  <2>1. call' \in [Calls -> Call]
    BY <1>2, IdleTyped DEF Crash, TypeOK
  <2>2. \A c \in Calls : call'[c] = Idle \/ call'[c] = call[c]
    BY <1>2 DEF Crash
  <2>3. Placed'
    BY <2>2 DEF Placed, Idle, Busy, Applying, RollingBack
  <2>4. owner' \in [Procs -> [Plans -> Calls \cup {NoCall}]]
    BY <1>2 DEF Crash, TypeOK
  <2>5. hist' \in History
    BY <1>2 DEF Crash, TypeOK, History
  <2>6. QED
    BY <1>2, <2>1, <2>3, <2>4, <2>5 DEF Crash, TypeOK, InventoryTypeOK, store, inventory
<1>3. ASSUME Outside PROVE TypeOK' /\ Placed'
  <2>1. InventoryTypeOK'
    <3>1. PICK u \in Uuids : \/ \E n \in Names : OutsideCreate(u, n)
                             \/ \E n \in Names : OutsideRename(u, n)
                             \/ OutsidePower(u) \/ OutsideDestroy(u)
      BY <1>3 DEF Outside
    <3>2. ASSUME NEW n \in Names, OutsideRename(u, n) PROVE InventoryTypeOK'
      BY <3>2 DEF OutsideRename, Alive, TypeOK, InventoryTypeOK
    <3>3. QED
      BY <3>1, <3>2, TasksTyped DEF OutsideCreate, OutsidePower, OutsideDestroy
  <2>2. hist' \in History
    BY <1>3 DEF Outside, TypeOK, History, Recording
  <2>3. QED
    BY <1>3, <2>1, <2>2 DEF Outside, TypeOK, Placed, store
<1>4. QED
  BY <1>1, <1>2, <1>3

(* TypeOK is not inductive by itself: that the file written back is the     *)
(* file of some plan, and that the VM destroyed is a VM, needs Placed.      *)
THEOREM TypeCorrect == Spec => [](TypeOK /\ Placed)
<1>1. Init => TypeOK /\ Placed
  BY InitTyped
<1>2. TypeOK /\ Placed /\ [Next]_vars => TypeOK' /\ Placed'
  <2> SUFFICES ASSUME TypeOK, Placed, [Next]_vars PROVE TypeOK' /\ Placed'
    OBVIOUS
  <2>1. ASSUME NEW c \in Calls, CreateStep(c) \/ BeginCreate(c) PROVE TypeOK' /\ Placed'
    BY <2>1, BeginCreateTyped, SweepUnlinkTyped, SweepStatTyped, WritePlanTyped DEF CreateStep
  <2>2. ASSUME NEW c \in Calls, ApplyStep(c) PROVE TypeOK' /\ Placed'
    BY <2>2, LoadTyped, ApplyMarkTyped, StepRaisesTyped, RunTyped, RecordUuidTyped,
       ApplyEndTyped DEF ApplyStep
  <2>3. ASSUME NEW c \in Calls, RollbackStep(c) PROVE TypeOK' /\ Placed'
    BY <2>3, LoadTyped, RollbackTyped, UndoTyped DEF RollbackStep
  <2>4. ASSUME NEW c \in Calls, NEW p \in Plans, Claim(c, p, "apply") \/ Claim(c, p, "rollback")
        PROVE  TypeOK' /\ Placed'
    BY <2>4, ClaimTyped
  <2>5. CASE UNCHANGED vars
    BY <2>5 DEF vars, store, inventory, TypeOK, InventoryTypeOK, Placed
  <2>6. QED
    BY <2>1, <2>2, <2>3, <2>4, <2>5, FailsTyped, EnvironmentTyped DEF Next, CallStep
<1>3. QED
  BY <1>1, <1>2, PTL DEF Spec

-----------------------------------------------------------------------------
(* The lock table                                                          *)

(* A call working on a plan holds that plan's lock, and a lock that is held *)
(* is held by a call of that process working on that plan.                 *)
Locked ==
  /\ \A c \in Calls : call[c].at \in Busy => owner[ProcOf[c]][call[c].plan] = c
  /\ \A r \in Procs, p \in Plans :
       LET c == owner[r][p] IN
       c # NoCall => ProcOf[c] = r /\ call[c].at \in Busy /\ call[c].plan = p

(* The call goes on with the plan it has, or without one.                   *)
Stays(c) ==
  /\ UNCHANGED owner
  /\ \A d \in Calls \ {c} : call'[d] = call[d]
  /\ call'[c].at \in Busy <=> call[c].at \in Busy
  /\ call[c].at \in Busy => call'[c].plan = call[c].plan

(* Proceed changes one call.                                               *)
LEMMA Proceeds ==
  ASSUME TypeOK, NEW c \in Calls, NEW new, Proceed(c, new)
  PROVE  call'[c] = new /\ \A d \in Calls \ {c} : call'[d] = call[d]
BY DEF TypeOK, Proceed

(* What is to be seen of the call's new record to know that it stays.       *)
LEMMA StaysIf ==
  ASSUME TypeOK, NEW c \in Calls, NEW new, Proceed(c, new), UNCHANGED owner,
         new.at \in Busy <=> call[c].at \in Busy,
         call[c].at \in Busy => new.plan = call[c].plan
  PROVE  Stays(c)
BY Proceeds DEF Stays

(* A call that applies a plan keeps the plan and its lock, or returns.      *)
LEMMA ApplyMoves ==
  ASSUME TypeOK, NEW c \in Calls, ApplyStep(c)
  PROVE  Stays(c) \/ (call[c].at \in Busy /\ Leave(c))
<1>1. call[c].at \in Busy
  BY DEF ApplyStep, ApplyLoad, ApplyMark, StepRaises, RunCreate, RunPowerOn, RunPowerOff,
         RunReconfigure, RecordUuid, ApplyComplete, ApplyDiscard, ApplySettle, At, Busy, Applying
<1>2. call[c] \in Call
  BY DEF TypeOK
<1>3. /\ Succeeded(c).at \in Busy /\ Succeeded(c).plan = call[c].plan
      /\ StepFailed(c).at \in Busy /\ StepFailed(c).plan = call[c].plan
  <2>1. Succeeded(c).at \in Busy /\ Succeeded(c).plan = call[c].plan
    BY <1>2 DEF Succeeded, Call, Busy, Applying
  <2>2. StepFailed(c).at \in Busy /\ StepFailed(c).plan = call[c].plan
    BY <1>2 DEF StepFailed, Call, Busy, Applying
  <2>3. QED
    BY <2>1, <2>2
<1>4. CASE ApplyLoad(c)
  <2> DEFINE new == [call[c] EXCEPT !.at = "mark",
                       !.mem = [file[call[c].plan] EXCEPT !.status = "executing"]]
  <2>1. new.at \in Busy /\ new.plan = call[c].plan
    BY <1>2 DEF Call, Busy, Applying
  <2>2. Leave(c) \/ (Proceed(c, new) /\ UNCHANGED owner)
    BY <1>4 DEF ApplyLoad
  <2>3. QED
    BY <1>1, <2>1, <2>2, StaysIf
<1>5. CASE ApplyMark(c)
  <2> DEFINE new == [call[c] EXCEPT !.at = "run", !.pos = 1]
  <2>1. new.at \in Busy /\ new.plan = call[c].plan
    BY <1>2 DEF Call, Busy, Applying
  <2>2. QED
    BY <1>1, <1>5, <2>1, StaysIf DEF ApplyMark
<1>6. CASE RecordUuid(c)
  <2> DEFINE new(u) == [call[c] EXCEPT !.mem = Recorded(@, call[c].pos, u),
                                       !.pos = @ + 1, !.at = "run"]
  <2>1. PICK u \in Uuids \cup {NoUuid} : Proceed(c, new(u))
    BY <1>6 DEF RecordUuid
  <2>2. new(u).at \in Busy /\ new(u).plan = call[c].plan
    BY <1>2 DEF Call, Busy, Applying
  <2>3. QED
    BY <1>1, <1>6, <2>1, <2>2, StaysIf DEF RecordUuid
<1>7. CASE ApplyComplete(c)
  <2> DEFINE new == [call[c] EXCEPT !.at = "discard"]
  <2>1. new.at \in Busy /\ new.plan = call[c].plan
    BY <1>2 DEF Call, Busy, Applying
  <2>2. QED
    BY <1>1, <1>7, <2>1, StaysIf DEF ApplyComplete
<1>8. CASE StepRaises(c) \/ RunCreate(c) \/ RunPowerOn(c) \/ RunPowerOff(c) \/ RunReconfigure(c)
  <2>1. (Proceed(c, Succeeded(c)) \/ Proceed(c, StepFailed(c))) /\ UNCHANGED owner
    BY <1>8 DEF StepRaises, RunCreate, RunPowerOn, RunPowerOff, RunReconfigure, Ran
  <2>2. QED
    BY <1>1, <1>3, <2>1, StaysIf
<1>9. CASE ApplyDiscard(c) \/ ApplySettle(c)
  BY <1>1, <1>9 DEF ApplyDiscard, ApplySettle
<1>10. QED
  BY <1>4, <1>5, <1>6, <1>7, <1>8, <1>9 DEF ApplyStep

(* So does a call that rolls a plan back.                                   *)
LEMMA RollbackMoves ==
  ASSUME TypeOK, NEW c \in Calls, RollbackStep(c)
  PROVE  Stays(c) \/ (call[c].at \in Busy /\ Leave(c))
<1>1. call[c].at \in Busy
  BY DEF RollbackStep, RollbackLoad, UndoPass, UndoRefused, UndoRaises, UndoPowerOn,
         UndoPowerOff, UndoIdentify, UndoMismatch, UndoDestroy, UndoPowerOffRefused,
         RollbackFinish, At, Busy, RollingBack
<1>2. call[c] \in Call
  BY DEF TypeOK
<1>3. /\ UndoDone(c).at \in Busy /\ UndoDone(c).plan = call[c].plan
      /\ UndoFailed(c).at \in Busy /\ UndoFailed(c).plan = call[c].plan
  <2>1. UndoDone(c).at \in Busy /\ UndoDone(c).plan = call[c].plan
    BY <1>2 DEF UndoDone, Call, Busy, RollingBack
  <2>2. UndoFailed(c).at \in Busy /\ UndoFailed(c).plan = call[c].plan
    BY <1>2 DEF UndoFailed, Call, Busy, RollingBack
  <2>3. QED
    BY <2>1, <2>2
<1>4. CASE RollbackLoad(c)
  <2> DEFINE new == [call[c] EXCEPT !.at = "undo", !.mem = file[call[c].plan], !.pos = N]
  <2>1. new.at \in Busy /\ new.plan = call[c].plan
    BY <1>2 DEF Call, Busy, RollingBack
  <2>2. Leave(c) \/ (Proceed(c, new) /\ UNCHANGED owner)
    BY <1>4 DEF RollbackLoad
  <2>3. QED
    BY <1>1, <2>1, <2>2, StaysIf
<1>5. CASE UndoPass(c)
  <2> DEFINE new == [call[c] EXCEPT !.pos = @ - 1]
  <2>1. new.at = call[c].at /\ new.plan = call[c].plan
    BY <1>2 DEF Call
  <2>2. QED
    BY <1>1, <1>5, <2>1, StaysIf DEF UndoPass
<1>6. CASE UndoIdentify(c)
  <2> DEFINE new(u) == [call[c] EXCEPT !.at = "destroy", !.vm = u]
  <2>1. PICK u \in Uuids : Proceed(c, new(u))
    BY <1>6 DEF UndoIdentify
  <2>2. new(u).at \in Busy /\ new(u).plan = call[c].plan
    BY <1>2 DEF Call, Busy, RollingBack
  <2>3. QED
    BY <1>1, <1>6, <2>1, <2>2, StaysIf DEF UndoIdentify
<1>7. CASE UndoRaises(c) \/ UndoPowerOn(c) \/ UndoPowerOff(c) \/ UndoDestroy(c)
  <2>1. (Proceed(c, UndoDone(c)) \/ Proceed(c, UndoFailed(c))) /\ UNCHANGED owner
    BY <1>7 DEF UndoRaises, UndoPowerOn, UndoPowerOff, UndoDestroy, Undone
  <2>2. QED
    BY <1>1, <1>3, <2>1, StaysIf
<1>8. CASE UndoRefused(c) \/ UndoMismatch(c) \/ UndoPowerOffRefused(c) \/ RollbackFinish(c)
  BY <1>1, <1>8
  DEF UndoRefused, UndoMismatch, UndoPowerOffRefused, RollbackFinish, StopRefused
<1>9. QED
  BY <1>4, <1>5, <1>6, <1>7, <1>8 DEF RollbackStep

(* A call that creates a plan holds no lock and takes none.                 *)
LEMMA CreateMoves ==
  ASSUME TypeOK, NEW c \in Calls, CreateStep(c) \/ BeginCreate(c)
  PROVE  Stays(c)
<1>1. call[c].at \notin Busy /\ UNCHANGED owner
  BY DEF CreateStep, BeginCreate, SweepUnlink, CreateRefused, SweepStat, WritePlan, At,
         Busy, Applying, RollingBack
<1>2. call[c] \in Call /\ Idle \in Call /\ Idle.at = "idle"
  BY IdleTyped DEF TypeOK, Idle
<1>3. CASE BeginCreate(c)
  <2> DEFINE new == [Idle EXCEPT !.at = "glob", !.todo = {p \in Plans : file[p].status # "absent"}]
  <2>1. new.at \notin Busy
    BY <1>2 DEF Call, Busy, Applying, RollingBack
  <2>2. QED
    BY <1>1, <1>3, <2>1, StaysIf DEF BeginCreate
<1>4. CASE Proceed(c, Idle)
  BY <1>1, <1>2, <1>4, StaysIf DEF Busy, Applying, RollingBack
<1>5. CASE SweepUnlink(c)
  <2> DEFINE new == [call[c] EXCEPT !.at = "glob", !.plan = NoPlan]
  <2>1. new.at \notin Busy
    BY <1>2 DEF Call, Busy, Applying, RollingBack
  <2>2. QED
    BY <1>1, <1>5, <2>1, StaysIf DEF SweepUnlink
<1>6. ASSUME NEW p \in Plans, SweepStat(c, p) PROVE Stays(c)
  <2> DEFINE young == [call[c] EXCEPT !.todo = @ \ {p}]
             old   == [call[c] EXCEPT !.todo = @ \ {p}, !.at = "unlink", !.plan = p]
  <2>1. young.at = "glob" /\ old.at = "unlink"
    BY <1>2, <1>6 DEF Call, SweepStat, At
  <2>2. young.at \notin Busy /\ old.at \notin Busy
    BY <2>1 DEF Busy, Applying, RollingBack
  <2>3. Proceed(c, young) \/ Proceed(c, old) \/ Proceed(c, Idle)
    BY <1>6 DEF SweepStat
  <2>4. QED
    BY <1>1, <1>4, <2>2, <2>3, StaysIf
<1>7. QED
  BY <1>3, <1>4, <1>5, <1>6 DEF CreateStep, CreateRefused, WritePlan

(* The lock table stays right across each of these.                         *)
LEMMA StaysLocked ==
  ASSUME TypeOK, Locked, NEW c \in Calls, Stays(c)
  PROVE  Locked'
<1>1. \A d \in Calls :
        /\ call'[d].at \in Busy <=> call[d].at \in Busy
        /\ call[d].at \in Busy => call'[d].plan = call[d].plan
  BY DEF Stays
<1>2. \A s \in Procs, q \in Plans : owner[s][q] # NoCall => owner[s][q] \in Calls
  BY DEF TypeOK
<1>3. \A d \in Calls : call'[d].at \in Busy => owner'[ProcOf[d]][call'[d].plan] = d
  BY <1>1 DEF Locked, Stays
<1>4. \A s \in Procs, q \in Plans :
        owner'[s][q] # NoCall =>
          /\ ProcOf[owner'[s][q]] = s /\ call'[owner'[s][q]].at \in Busy
          /\ call'[owner'[s][q]].plan = q
  BY <1>1, <1>2 DEF Locked, Stays
<1>5. QED
  BY <1>3, <1>4 DEF Locked

(* A call that leaves gives its own lock back and no other.                 *)
LEMMA LeaveLockedUp ==
  ASSUME TypeOK, Placed, Locked, NEW c \in Calls, call[c].at \in Busy, Leave(c)
  PROVE  Locked'
<1> DEFINE r == ProcOf[c]
           p == call[c].plan
<1>1. r \in Procs /\ p \in Plans /\ owner[r][p] = c
  BY PlanAssumption DEF Placed, Locked
<1>2. \A s \in Procs, q \in Plans :
        owner'[s][q] = IF s = r /\ q = p THEN NoCall ELSE owner[s][q]
  BY <1>1 DEF Leave, TypeOK
<1>3. call'[c] = Idle /\ \A d \in Calls \ {c} : call'[d] = call[d]
  BY Proceeds DEF Leave
<1>4. \A d \in Calls : call[d].at \in Busy => call[d].plan \in Plans /\ ProcOf[d] \in Procs
  BY PlanAssumption DEF Placed
<1>5. Idle.at \notin Busy
  BY DEF Idle, Busy, Applying, RollingBack
<1>6. \A d \in Calls : call'[d].at \in Busy => owner'[ProcOf[d]][call'[d].plan] = d
  <2> SUFFICES ASSUME NEW d \in Calls, call'[d].at \in Busy
               PROVE  owner'[ProcOf[d]][call'[d].plan] = d
    OBVIOUS
  <2>1. d # c /\ call'[d] = call[d]
    BY <1>3, <1>5
  <2>2. owner[ProcOf[d]][call[d].plan] = d /\ ProcOf[d] \in Procs /\ call[d].plan \in Plans
    BY <1>4, <2>1 DEF Locked
  <2>3. QED
    BY <1>1, <1>2, <2>1, <2>2
<1>7. \A s \in Procs, q \in Plans :
        owner'[s][q] # NoCall =>
          /\ ProcOf[owner'[s][q]] = s /\ call'[owner'[s][q]].at \in Busy
          /\ call'[owner'[s][q]].plan = q
  <2> SUFFICES ASSUME NEW s \in Procs, NEW q \in Plans, owner'[s][q] # NoCall
               PROVE  /\ ProcOf[owner'[s][q]] = s /\ call'[owner'[s][q]].at \in Busy
                      /\ call'[owner'[s][q]].plan = q
    OBVIOUS
  <2>1. ~(s = r /\ q = p) /\ owner'[s][q] = owner[s][q]
    BY <1>2
  <2>2. owner[s][q] \in Calls
    BY <2>1 DEF TypeOK
  <2>3. ProcOf[owner[s][q]] = s /\ call[owner[s][q]].at \in Busy /\ call[owner[s][q]].plan = q
    BY <2>1 DEF Locked
  <2>4. owner[s][q] # c
    BY <2>1, <2>3
  <2>5. QED
    BY <1>3, <2>1, <2>2, <2>3, <2>4
<1>8. QED
  BY <1>6, <1>7 DEF Locked

(* A claim takes a lock that is free.                                       *)
LEMMA ClaimLocked ==
  ASSUME TypeOK, Placed, Locked, NEW c \in Calls, NEW p \in Plans,
         NEW label \in {"apply", "rollback"}, Claim(c, p, label)
  PROVE  Locked'
<1> DEFINE r == ProcOf[c]
           new == [Idle EXCEPT !.at = label, !.plan = p]
<1>1. r \in Procs /\ owner[r][p] = NoCall /\ c # NoCall
  BY PlanAssumption DEF Claim
<1>2. \A s \in Procs, q \in Plans :
        owner'[s][q] = IF s = r /\ q = p THEN c ELSE owner[s][q]
  BY <1>1 DEF Claim, TypeOK
<1>3. call'[c] = new /\ \A d \in Calls \ {c} : call'[d] = call[d]
  BY Proceeds DEF Claim
<1>4. new.at \in Busy /\ new.plan = p
  BY IdleTyped DEF Call, Busy, Applying, RollingBack
<1>5. \A d \in Calls : call[d].at \in Busy => call[d].plan \in Plans /\ ProcOf[d] \in Procs
  BY PlanAssumption DEF Placed
<1>6. \A d \in Calls : call'[d].at \in Busy => owner'[ProcOf[d]][call'[d].plan] = d
  <2> SUFFICES ASSUME NEW d \in Calls, call'[d].at \in Busy
               PROVE  owner'[ProcOf[d]][call'[d].plan] = d
    OBVIOUS
  <2>1. CASE d = c
    <3>1. call'[d].plan = p /\ ProcOf[d] = r
      BY <1>3, <1>4, <2>1
    <3>2. owner'[r][p] = c
      BY <1>1, <1>2
    <3>3. QED
      BY <2>1, <3>1, <3>2
  <2>2. CASE d # c
    <3>1. owner[ProcOf[d]][call[d].plan] = d /\ d # NoCall
      BY <1>3, <2>2, PlanAssumption DEF Locked
    <3>2. QED
      BY <1>1, <1>2, <1>3, <1>5, <2>2, <3>1
  <2>3. QED
    BY <2>1, <2>2
<1>7. \A s \in Procs, q \in Plans :
        owner'[s][q] # NoCall =>
          /\ ProcOf[owner'[s][q]] = s /\ call'[owner'[s][q]].at \in Busy
          /\ call'[owner'[s][q]].plan = q
  <2> SUFFICES ASSUME NEW s \in Procs, NEW q \in Plans, owner'[s][q] # NoCall
               PROVE  /\ ProcOf[owner'[s][q]] = s /\ call'[owner'[s][q]].at \in Busy
                      /\ call'[owner'[s][q]].plan = q
    OBVIOUS
  <2>1. CASE s = r /\ q = p
    BY <1>2, <1>3, <1>4, <2>1
  <2>2. CASE ~(s = r /\ q = p)
    <3>1. owner'[s][q] = owner[s][q] /\ owner[s][q] \in Calls
      BY <1>2, <2>2 DEF TypeOK
    <3>2. ProcOf[owner[s][q]] = s /\ call[owner[s][q]].at \in Busy /\ call[owner[s][q]].plan = q
      BY <3>1 DEF Locked
    <3>3. owner[s][q] # c
      BY <3>2 DEF Claim, At, Busy, Applying, RollingBack
    <3>4. QED
      BY <1>3, <3>1, <3>2, <3>3
  <2>3. QED
    BY <2>1, <2>2
<1>8. QED
  BY <1>6, <1>7 DEF Locked

(* A killed process takes its calls and its locks with it, and no other's.  *)
LEMMA CrashLocked ==
  ASSUME TypeOK, Placed, Locked, NEW r \in Procs, Crash(r)
  PROVE  Locked'
<1>1. \A d \in Calls : call'[d] = IF ProcOf[d] = r THEN Idle ELSE call[d]
  BY DEF Crash
<1>2. \A s \in Procs, q \in Plans : owner'[s][q] = IF s = r THEN NoCall ELSE owner[s][q]
  BY DEF Crash, TypeOK
<1>3. Idle.at \notin Busy
  BY DEF Idle, Busy, Applying, RollingBack
<1>4. \A d \in Calls : call[d].at \in Busy => call[d].plan \in Plans /\ ProcOf[d] \in Procs
  BY PlanAssumption DEF Placed
<1>5. \A d \in Calls : call'[d].at \in Busy => owner'[ProcOf[d]][call'[d].plan] = d
  BY <1>1, <1>2, <1>3, <1>4 DEF Locked
<1>6. \A s \in Procs, q \in Plans :
        owner'[s][q] # NoCall =>
          /\ ProcOf[owner'[s][q]] = s /\ call'[owner'[s][q]].at \in Busy
          /\ call'[owner'[s][q]].plan = q
  <2> SUFFICES ASSUME NEW s \in Procs, NEW q \in Plans, owner'[s][q] # NoCall
               PROVE  /\ ProcOf[owner'[s][q]] = s /\ call'[owner'[s][q]].at \in Busy
                      /\ call'[owner'[s][q]].plan = q
    OBVIOUS
  <2>1. s # r /\ owner'[s][q] = owner[s][q] /\ owner[s][q] \in Calls
    BY <1>2 DEF TypeOK
  <2>2. ProcOf[owner[s][q]] = s /\ call[owner[s][q]].at \in Busy /\ call[owner[s][q]].plan = q
    BY <2>1 DEF Locked
  <2>3. QED
    BY <1>1, <2>1, <2>2
<1>7. QED
  BY <1>5, <1>6 DEF Locked

(* Every step keeps the lock table right.                                   *)
LEMMA NextLocked ==
  ASSUME TypeOK, Placed, Locked, [Next]_vars
  PROVE  Locked'
<1>1. ASSUME NEW c \in Calls, CallStep(c) \/ BeginCreate(c) PROVE Locked'
  BY <1>1, ApplyMoves, RollbackMoves, CreateMoves, FailsLeaves, StaysLocked, LeaveLockedUp
  DEF CallStep
<1>2. ASSUME NEW c \in Calls, NEW p \in Plans, Claim(c, p, "apply") \/ Claim(c, p, "rollback")
      PROVE  Locked'
  BY <1>2, ClaimLocked
<1>3. ASSUME UNCHANGED <<owner, call>> PROVE Locked'
  BY <1>3 DEF Locked
<1>4. ASSUME NEW p \in Plans, Age(p) PROVE Locked'
  BY <1>3, <1>4 DEF Age
<1>5. CASE Outside
  BY <1>3, <1>5 DEF Outside
<1>6. CASE UNCHANGED vars
  BY <1>3, <1>6 DEF vars
<1>7. QED
  BY <1>1, <1>2, <1>4, <1>5, <1>6, CrashLocked DEF Next

(* Locked says what OneWorkerPerPlan says.                                  *)
LEMMA LockedIsOneWorker ==
  ASSUME TypeOK, Placed, Locked
  PROVE  OneWorkerPerPlan
<1> SUFFICES ASSUME NEW r \in Procs, NEW p \in Plans
             PROVE  {c \in WorkingOn(p) : ProcOf[c] = r} = {owner[r][p]} \ {NoCall}
  BY DEF OneWorkerPerPlan
<1>1. ASSUME NEW c \in WorkingOn(p), ProcOf[c] = r PROVE c = owner[r][p] /\ c # NoCall
  BY <1>1, PlanAssumption DEF WorkingOn, Locked, Busy
<1>2. ASSUME owner[r][p] # NoCall
      PROVE  owner[r][p] \in WorkingOn(p) /\ ProcOf[owner[r][p]] = r
  BY <1>2 DEF WorkingOn, Locked, Busy, TypeOK
<1>3. QED
  BY <1>1, <1>2

(* At most one call of a server works on a plan, and the lock table names   *)
(* it, whatever is killed, refused or raised.  (_plan_claimed)              *)
THEOREM OneWorker == Spec => []OneWorkerPerPlan
<1>1. Init => Locked
  BY DEF Init, Locked, Idle, Busy, Applying, RollingBack
<1>2. TypeOK /\ Placed /\ Locked /\ [Next]_vars => Locked'
  BY NextLocked
<1>3. TypeOK /\ Placed /\ Locked => OneWorkerPerPlan
  BY LockedIsOneWorker
<1>4. QED
  BY <1>1, <1>2, <1>3, TypeCorrect, PTL DEF Spec

-----------------------------------------------------------------------------
(* What a rollback may destroy                                             *)

(* A recorded UUID is that of a VM its step made, unless others took that   *)
(* VM away before it was recorded.                                         *)
OwnRecord(p, plan) ==
  \A i \in Steps :
    plan.uuid[i] # NoUuid =>
      <<<<p, i>>, plan.uuid[i]>> \in hist.made \/ <<p, i>> \in hist.lost

(* The VM a step made and has not recorded yet still has the step's name,   *)
(* or others took it away.                                                 *)
StillNamed(p, i) ==
  \/ <<p, i>> \in hist.lost
  \/ \E u \in Uuids : <<<<p, i>>, u>> \in hist.made /\ named[u] = Ops[p][i].name

(* What a call's copy, its step and the VM object it holds have to do with  *)
(* what was made.                                                          *)
CallOwn(k) ==
  /\ k.at \in Busy => OwnRecord(k.plan, k.mem)
  /\ k.at = "record" => StillNamed(k.plan, k.pos)
  /\ k.at = "destroy" => k.vm = k.mem.uuid[k.pos]

(* The same of every file and every call, and the property itself.          *)
Own ==
  /\ RollbackDeletesItsOwn
  /\ \A p \in Plans : OwnRecord(p, file[p])
  /\ \A c \in Calls : CallOwn(call[c])

(* What happened is never forgotten.                                       *)
Grows == hist.made \subseteq hist'.made /\ hist.lost \subseteq hist'.lost

(* A VM that loses its name is lost to the step that is to record it.       *)
Watched ==
  \A u \in Uuids :
    named[u] \in Names => named'[u] = named[u] \/ Recording(u) \subseteq hist'.lost

(* A record stays right as the history grows.                              *)
LEMMA RecordGrows ==
  ASSUME Grows, NEW p, NEW plan, OwnRecord(p, plan)
  PROVE  \A i \in Steps : plan.uuid[i] # NoUuid =>
           <<<<p, i>>, plan.uuid[i]>> \in hist'.made \/ <<p, i>> \in hist'.lost
BY DEF Grows, OwnRecord

(* A step of one call, or of none, leaves what the other calls know.        *)
LEMMA OthersOwn ==
  ASSUME TypeOK, Placed, Own, Grows, Watched, NEW c \in Calls,
         call'[c] = call[c] \/ call'[c] = Idle
  PROVE  CallOwn(call[c])'
<1>1. CASE call'[c] = Idle
  BY <1>1 DEF CallOwn, Idle, Busy, Applying, RollingBack
<1>2. CASE call'[c] = call[c]
  <2>1. CallOwn(call[c])
    BY DEF Own
  <2>2. call[c].at \in Busy => OwnRecord(call[c].plan, call[c].mem)'
    <3>1. ASSUME call[c].at \in Busy PROVE OwnRecord(call[c].plan, call[c].mem)'
      BY <1>2, <2>1, <3>1, RecordGrows DEF CallOwn, OwnRecord
    <3>2. QED
      BY <3>1
  <2>3. call[c].at = "record" => StillNamed(call[c].plan, call[c].pos)'
    <3>1. SUFFICES ASSUME call[c].at = "record",
                          <<call[c].plan, call[c].pos>> \notin hist'.lost
                   PROVE  StillNamed(call[c].plan, call[c].pos)'
      BY <1>2 DEF StillNamed
    <3>2. /\ call[c].plan \in Plans /\ call[c].pos \in Steps
          /\ <<call[c].plan, call[c].pos>> \notin hist.lost
      BY <3>1 DEF Placed, Busy, Applying, Grows
    <3>3. PICK u \in Uuids : /\ <<<<call[c].plan, call[c].pos>>, u>> \in hist.made
                             /\ named[u] = Ops[call[c].plan][call[c].pos].name
      BY <2>1, <3>1, <3>2 DEF CallOwn, StillNamed
    <3>4. named[u] \in Names
      BY <3>2, <3>3, PlanAssumption
    <3>5. <<call[c].plan, call[c].pos>> \in Recording(u)
      BY <3>1, <3>2, <3>3 DEF Recording, Attempt, At, Here
    <3>6. named'[u] = named[u]
      BY <3>1, <3>4, <3>5 DEF Watched
    <3>7. QED
      BY <1>2, <3>3, <3>6 DEF StillNamed, Grows
  <2>4. QED
    BY <1>2, <2>1, <2>2, <2>3 DEF CallOwn
<1>3. QED
  BY <1>1, <1>2

(* What is left to see of a step of one call.                              *)
LEMMA StepOwn ==
  ASSUME TypeOK, Placed, Own, Grows, Watched, NEW c \in Calls, NEW new, Proceed(c, new),
         CallOwn(call[c])', RollbackDeletesItsOwn',
         \A p \in Plans : file'[p] = file[p] \/ OwnRecord(p, file[p])'
  PROVE  Own'
<1>1. \A d \in Calls : CallOwn(call[d])'
  BY Proceeds, OthersOwn
<1>2. ASSUME NEW p \in Plans PROVE OwnRecord(p, file[p])'
  <2>1. OwnRecord(p, file[p])
    BY DEF Own
  <2>2. QED
    BY <2>1, RecordGrows DEF OwnRecord
<1>3. QED
  BY <1>1, <1>2 DEF Own

(* A step of one call that the vCenter and the history do not see.          *)
LEMMA QuietOwn ==
  ASSUME TypeOK, Placed, Own, NEW c \in Calls, NEW new, Proceed(c, new), CallOwn(new),
         UNCHANGED <<named, hist>>,
         \A p \in Plans : file'[p] = file[p] \/ OwnRecord(p, file'[p])
  PROVE  Own'
<1>1. Grows /\ Watched
  BY DEF Grows, Watched
<1>2. call'[c] = new
  BY Proceeds
<1>3. CallOwn(call[c])'
  BY <1>2 DEF CallOwn, OwnRecord, StillNamed
<1>4. RollbackDeletesItsOwn'
  BY DEF Own, RollbackDeletesItsOwn
<1>5. \A p \in Plans : file'[p] = file[p] \/ OwnRecord(p, file[p])'
  BY DEF OwnRecord
<1>6. QED
  BY <1>1, <1>3, <1>4, <1>5, StepOwn

(* A plan without records, and a call that has returned, claim nothing.     *)
LEMMA NothingOwn ==
  /\ CallOwn(Idle)
  /\ \A p \in Plans : OwnRecord(p, Absent) /\ OwnRecord(p, Pending)
<1>1. CallOwn(Idle)
  BY DEF CallOwn, Idle, Busy, Applying, RollingBack
<1>2. \A i \in Steps : Absent.uuid[i] = NoUuid /\ Pending.uuid[i] = NoUuid
  BY DEF Absent, Pending
<1>3. QED
  BY <1>1, <1>2 DEF OwnRecord

(* The edits of a copy other than the recording leave its records.          *)
LEMMA EditsOwn ==
  ASSUME NEW plan \in Plan, NEW i
  PROVE  /\ \A s : Marked(plan, i, s).uuid = plan.uuid
         /\ Settled(plan, i).uuid = plan.uuid
         /\ \A s : [plan EXCEPT !.status = s].uuid = plan.uuid
BY DEF Marked, Settled, Plan

(* A call that keeps its plan and its records, and is not about to use one. *)
LEMMA CopyOwn ==
  ASSUME Own, NEW c \in Calls, call[c].at \in Busy, NEW new,
         new.plan = call[c].plan, new.mem.uuid = call[c].mem.uuid,
         new.at \notin {"record", "destroy"}
  PROVE  CallOwn(new)
BY DEF Own, CallOwn, OwnRecord

(* The call saves its copy, whatever the status, and leaves or goes on.     *)
LEMMA WriteOwn ==
  ASSUME TypeOK, Placed, Own, NEW c \in Calls, call[c].at \in Busy,
         NEW plan \in Plan, plan.uuid = call[c].mem.uuid,
         file' = [file EXCEPT ![call[c].plan] = plan], UNCHANGED <<named, hist>>,
         NEW new, Proceed(c, new), CallOwn(new)
  PROVE  Own'
<1>1. OwnRecord(call[c].plan, plan)
  BY DEF Own, CallOwn, OwnRecord
<1>2. \A p \in Plans : file'[p] = file[p] \/ OwnRecord(p, file'[p])
  BY <1>1 DEF TypeOK
<1>3. QED
  BY <1>2, QuietOwn

(* A call that a file error ends has recorded nothing more.                 *)
LEMMA FailsOwn ==
  ASSUME TypeOK, Placed, Own, NEW c \in Calls, FileFails(c) \/ SaveFails(c)
  PROVE  Own'
<1>1. /\ Proceed(c, Idle) /\ UNCHANGED <<file, named>>
      /\ UNCHANGED <<hist.made, hist.lost, hist.deleted>>
  BY FailsLeaves DEF TypeOK, History
<1>2. Grows /\ Watched
  BY <1>1 DEF Grows, Watched
<1>3. CallOwn(call[c])'
  BY <1>1, Proceeds DEF CallOwn, Idle, Busy, Applying, RollingBack
<1>4. RollbackDeletesItsOwn'
  BY <1>1 DEF Own, RollbackDeletesItsOwn
<1>5. QED
  BY <1>1, <1>2, <1>3, <1>4, StepOwn

(* create_plan records nothing.                                            *)
LEMMA CreateOwn ==
  ASSUME TypeOK, Placed, Own, NEW c \in Calls, CreateStep(c) \/ BeginCreate(c)
  PROVE  Own'
<1>1. call[c] \in Call /\ UNCHANGED <<named, hist>>
  BY DEF TypeOK, CreateStep, BeginCreate, SweepUnlink, CreateRefused, SweepStat, WritePlan,
         inventory
<1>2. \A p \in Plans : file'[p] = file[p] \/ OwnRecord(p, file'[p])
  <2>1. \A p \in Plans : file'[p] = file[p] \/ file'[p] = Absent \/ file'[p] = Pending
    BY DEF TypeOK, CreateStep, BeginCreate, SweepUnlink, CreateRefused, SweepStat, WritePlan,
           Unlink, store
  <2>2. QED
    BY <2>1, NothingOwn
<1>3. \E new : Proceed(c, new) /\ CallOwn(new)
  <2>1. CASE Proceed(c, Idle)
    BY <2>1, NothingOwn
  <2>2. CASE BeginCreate(c)
    <3> DEFINE new == [Idle EXCEPT !.at = "glob", !.todo = {p \in Plans : file[p].status # "absent"}]
    <3>1. new.at = "glob"
      BY IdleTyped DEF Call
    <3>2. CallOwn(new)
      BY <3>1 DEF CallOwn, Busy, Applying, RollingBack
    <3>3. QED
      BY <2>2, <3>2 DEF BeginCreate
  <2>3. CASE SweepUnlink(c)
    <3> DEFINE new == [call[c] EXCEPT !.at = "glob", !.plan = NoPlan]
    <3>1. new.at = "glob"
      BY <1>1 DEF Call
    <3>2. CallOwn(new)
      BY <3>1 DEF CallOwn, Busy, Applying, RollingBack
    <3>3. QED
      BY <2>3, <3>2 DEF SweepUnlink
  <2>4. ASSUME NEW p \in Plans, SweepStat(c, p) PROVE \E new : Proceed(c, new) /\ CallOwn(new)
    <3> DEFINE young == [call[c] EXCEPT !.todo = @ \ {p}]
               old   == [call[c] EXCEPT !.todo = @ \ {p}, !.at = "unlink", !.plan = p]
    <3>1. young.at = "glob" /\ old.at = "unlink"
      BY <1>1, <2>4 DEF Call, SweepStat, At
    <3>2. CallOwn(young) /\ CallOwn(old)
      BY <3>1 DEF CallOwn, Busy, Applying, RollingBack
    <3>3. Proceed(c, young) \/ Proceed(c, old) \/ Proceed(c, Idle)
      BY <2>4 DEF SweepStat
    <3>4. QED
      BY <3>2, <3>3, NothingOwn
  <2>5. QED
    BY <2>1, <2>2, <2>3, <2>4 DEF CreateStep, CreateRefused, WritePlan
<1>4. QED
  BY <1>1, <1>2, <1>3, QuietOwn

(* A claim starts from an empty copy.                                      *)
LEMMA ClaimOwn ==
  ASSUME TypeOK, Placed, Own, NEW c \in Calls, NEW p \in Plans,
         NEW label \in {"apply", "rollback"}, Claim(c, p, label)
  PROVE  Own'
<1> DEFINE new == [Idle EXCEPT !.at = label, !.plan = p]
<1>1. new.at = label /\ new.plan = p /\ new.mem = Absent
  BY DEF Idle
<1>2. CallOwn(new)
  BY <1>1, NothingOwn DEF CallOwn
<1>3. QED
  BY <1>2, QuietOwn DEF Claim, store, inventory

(* Reading the file, marking the plan executing, a step that raises and the *)
(* ends of an apply: the records are those of the file or of the copy.      *)
LEMMA ApplyOwn ==
  ASSUME TypeOK, Placed, Own, NEW c \in Calls,
         \/ ApplyLoad(c) \/ ApplyMark(c) \/ StepRaises(c)
         \/ ApplyComplete(c) \/ ApplyDiscard(c) \/ ApplySettle(c)
  PROVE  Own'
<1> DEFINE p   == call[c].plan
           mem == call[c].mem
<1>1. call[c] \in Call /\ mem \in Plan /\ p \in Plans /\ call[c].at \in Busy
  BY CallTyped DEF ApplyLoad, ApplyMark, StepRaises, ApplyComplete, ApplyDiscard,
                   ApplySettle, At, Busy, Applying
<1>2. UNCHANGED <<named, hist>>
  BY DEF ApplyLoad, ApplyMark, StepRaises, ApplyComplete, ApplyDiscard, ApplySettle, inventory
<1>3. CASE ApplyLoad(c)
  <2> DEFINE new == [call[c] EXCEPT !.at = "mark", !.mem = [file[p] EXCEPT !.status = "executing"]]
  <2>1. new.at = "mark" /\ new.plan = p /\ new.mem = [file[p] EXCEPT !.status = "executing"]
    BY <1>1 DEF Call
  <2>2. [file[p] EXCEPT !.status = "executing"].uuid = file[p].uuid
    BY <1>1, ReadTyped, EditsOwn
  <2>3. CallOwn(new)
    BY <1>1, <2>1, <2>2 DEF Own, CallOwn, OwnRecord
  <2>4. Proceed(c, new) \/ Proceed(c, Idle)
    BY <1>3 DEF ApplyLoad, Leave
  <2>5. QED
    BY <1>2, <1>3, <2>3, <2>4, NothingOwn, QuietOwn DEF ApplyLoad, store
<1>4. CASE ApplyMark(c)
  <2> DEFINE new == [call[c] EXCEPT !.at = "run", !.pos = 1]
  <2>1. new.at = "run" /\ new.plan = p /\ new.mem = mem
    BY <1>1 DEF Call
  <2>2. CallOwn(new)
    BY <1>1, <2>1, CopyOwn
  <2>3. QED
    BY <1>1, <1>2, <1>4, <2>2, WriteOwn DEF ApplyMark, Save
<1>5. CASE StepRaises(c)
  <2>1. /\ StepFailed(c).at = "settle" /\ StepFailed(c).plan = p
        /\ StepFailed(c).mem = Marked(mem, call[c].pos, "failed")
    BY <1>1 DEF StepFailed, Call
  <2>2. CallOwn(StepFailed(c))
    BY <1>1, <2>1, EditsOwn, CopyOwn
  <2>3. QED
    BY <1>2, <1>5, <2>2, QuietOwn DEF StepRaises, store
<1>6. CASE ApplyComplete(c)
  <2> DEFINE new  == [call[c] EXCEPT !.at = "discard"]
             done == [mem EXCEPT !.status = "completed"]
  <2>1. new.at = "discard" /\ new.plan = p /\ new.mem = mem
    BY <1>1 DEF Call
  <2>2. CallOwn(new)
    BY <1>1, <2>1, CopyOwn
  <2>3. done \in Plan /\ done.uuid = mem.uuid
    BY <1>1 DEF Plan, Status
  <2>4. QED
    BY <1>1, <1>2, <1>6, <2>2, <2>3, WriteOwn DEF ApplyComplete, Save
<1>7. CASE ApplyDiscard(c)
  <2>1. \A q \in Plans : file'[q] = file[q] \/ file'[q] = Absent
    BY <1>7 DEF ApplyDiscard, Unlink, TypeOK
  <2>2. QED
    BY <1>2, <1>7, <2>1, NothingOwn, QuietOwn DEF ApplyDiscard, Leave
<1>8. CASE ApplySettle(c)
  <2>1. Settled(mem, call[c].pos) \in Plan
    BY <1>8, CallTyped, EditsTyped DEF ApplySettle, At
  <2>2. Settled(mem, call[c].pos).uuid = mem.uuid
    BY <1>1, EditsOwn
  <2>3. QED
    BY <1>1, <1>2, <1>8, <2>1, <2>2, NothingOwn, WriteOwn DEF ApplySettle, Save, Leave
<1>9. QED
  BY <1>3, <1>4, <1>5, <1>6, <1>7, <1>8

(* What a call knows whose action has returned or raised.                   *)
LEMMA RanOwn ==
  ASSUME TypeOK, Placed, Own, NEW c \in Calls, At(c, "run"), call[c].pos \in Steps,
         NEW h \in History, NEW returned \in BOOLEAN, Ran(c, h, returned), Watched,
         hist.made \subseteq h.made, h.lost = hist.lost, h.deleted = hist.deleted,
         Op(c).kind = "create" =>
           \E u \in Uuids : <<Here(c), u>> \in h.made /\ named'[u] = Op(c).name
  PROVE  Own'
<1> DEFINE p == call[c].plan
           i == call[c].pos
<1>1. hist'.made = h.made /\ hist'.lost = h.lost /\ hist'.deleted = h.deleted
  BY DEF Ran, History
<1>2. Grows /\ RollbackDeletesItsOwn'
  BY <1>1 DEF Grows, Own, RollbackDeletesItsOwn
<1>3. call[c] \in Call /\ call[c].mem \in Plan /\ call[c].at \in Busy
  BY CallTyped DEF At, Busy, Applying
<1>4. OwnRecord(p, call[c].mem)
  BY <1>3 DEF Own, CallOwn
<1>5. PICK new : /\ Proceed(c, new) /\ new.plan = p /\ new.mem.uuid = call[c].mem.uuid
                 /\ new.at \in {"settle", "run", "record"}
                 /\ new.at = "record" => Op(c).kind = "create" /\ new.pos = i
  <2>1. /\ Succeeded(c).plan = p /\ Succeeded(c).mem = Marked(call[c].mem, i, "success")
        /\ Succeeded(c).at \in {"run", "record"}
        /\ Succeeded(c).at = "record" => Op(c).kind = "create" /\ Succeeded(c).pos = i
    BY <1>3 DEF Succeeded, Call
  <2>2. /\ StepFailed(c).at = "settle" /\ StepFailed(c).plan = p
        /\ StepFailed(c).mem = Marked(call[c].mem, i, "failed")
    BY <1>3 DEF StepFailed, Call
  <2>3. Proceed(c, Succeeded(c)) \/ Proceed(c, StepFailed(c))
    BY DEF Ran
  <2>4. Succeeded(c).mem.uuid = call[c].mem.uuid /\ StepFailed(c).mem.uuid = call[c].mem.uuid
    BY <1>3, <2>1, <2>2, EditsOwn
  <2>5. QED
    BY <2>1, <2>2, <2>3, <2>4
<1>6. call'[c] = new
  BY <1>5, Proceeds
<1>7. OwnRecord(new.plan, new.mem)'
  BY <1>2, <1>4, <1>5, RecordGrows DEF OwnRecord
<1>8. new.at = "record" => StillNamed(new.plan, new.pos)'
  BY <1>1, <1>5 DEF StillNamed, Op, Here
<1>9. CallOwn(call[c])'
  BY <1>5, <1>6, <1>7, <1>8 DEF CallOwn
<1>10. QED
  BY <1>2, <1>5, <1>9, StepOwn DEF Ran, store

(* The actions of the four kinds of step.                                   *)
LEMMA RunOwn ==
  ASSUME TypeOK, Placed, Own, NEW c \in Calls,
         RunCreate(c) \/ RunPowerOn(c) \/ RunPowerOff(c) \/ RunReconfigure(c)
  PROVE  Own'
<1>1. At(c, "run") /\ call[c].pos \in Steps /\ hist \in History /\ Here(c) \in Attempt
      /\ Op(c).name \in Names
  BY OpNamed, CallTyped
  DEF RunCreate, RunPowerOn, RunPowerOff, RunReconfigure, At, Busy, Applying, TypeOK
<1>2. CASE RunCreate(c)
  <2> DEFINE made(u) == [hist EXCEPT !.made = @ \cup {<<Here(c), u>>}]
  <2>1. PICK u \in Uuids, running, returned \in BOOLEAN :
          Born(u, Op(c).name, running) /\ Ran(c, made(u), returned)
    BY <1>2 DEF RunCreate
  <2>2. /\ named'[u] = Op(c).name
        /\ \A v \in Uuids : named[v] \in Names => named'[v] = named[v]
    BY <2>1, NamesAssumption DEF Born, TypeOK, InventoryTypeOK
  <2>3. made(u) \in History
    BY <1>1, HistoryTyped
  <2>4. /\ hist.made \subseteq made(u).made /\ <<Here(c), u>> \in made(u).made
        /\ made(u).lost = hist.lost /\ made(u).deleted = hist.deleted
    BY <1>1 DEF History
  <2>5. QED
    BY <1>1, <2>1, <2>2, <2>3, <2>4, RanOwn DEF Watched
<1>3. CASE RunPowerOn(c) \/ RunPowerOff(c) \/ RunReconfigure(c)
  <2> DEFINE switched(u) == IF u \in on THEN hist
                            ELSE [hist EXCEPT !.switchedOn = @ \cup {Here(c)}]
  <2>1. Watched /\ Op(c).kind # "create"
    BY <1>3 DEF RunPowerOn, RunPowerOff, RunReconfigure, PowerOn, PowerOff, inventory, Watched
  <2>2. \E u \in Uuids, returned \in BOOLEAN :
          Ran(c, switched(u), returned) \/ Ran(c, hist, returned)
    BY <1>3 DEF RunPowerOn, RunPowerOff, RunReconfigure
  <2>3. \A u \in Uuids :
          /\ switched(u) \in History /\ switched(u).made = hist.made
          /\ switched(u).lost = hist.lost /\ switched(u).deleted = hist.deleted
    <3> DEFINE more == [hist EXCEPT !.switchedOn = @ \cup {Here(c)}]
    <3>1. more \in History
      BY <1>1, HistoryTyped
    <3>2. more.made = hist.made /\ more.lost = hist.lost /\ more.deleted = hist.deleted
      BY <1>1 DEF History
    <3>3. QED
      BY <1>1, <3>1, <3>2
  <2>4. QED
    BY <1>1, <2>1, <2>2, <2>3, RanOwn
<1>4. QED
  BY <1>2, <1>3

(* The look-up by name finds the VM the step made: it still has that name,  *)
(* and the look-up succeeds only when no other VM has it.                   *)
LEMMA RecordOwn ==
  ASSUME TypeOK, Placed, Own, NEW c \in Calls, RecordUuid(c)
  PROVE  Own'
<1> DEFINE p   == call[c].plan
           i   == call[c].pos
           mem == call[c].mem
           new(u) == [call[c] EXCEPT !.mem = Recorded(@, i, u), !.pos = @ + 1, !.at = "run"]
<1>1. /\ call[c] \in Call /\ mem \in Plan /\ p \in Plans /\ i \in Steps
      /\ call[c].at = "record"
  BY CallTyped DEF RecordUuid, At, Placed, Busy, Applying
<1>2. OwnRecord(p, mem) /\ StillNamed(p, i)
  BY <1>1 DEF Own, CallOwn, Busy, Applying
<1>3. PICK u \in Uuids \cup {NoUuid} :
        (u # NoUuid => Finds(Op(c).name, u)) /\ Proceed(c, new(u))
  BY DEF RecordUuid
<1>4. u # NoUuid => <<<<p, i>>, u>> \in hist.made \/ <<p, i>> \in hist.lost
  BY <1>2, <1>3 DEF StillNamed, Finds, Holders, Op
<1>5. \A j \in Steps : Recorded(mem, i, u).uuid[j] = IF j = i THEN u ELSE mem.uuid[j]
  BY <1>1 DEF Recorded, Plan
<1>6. OwnRecord(p, Recorded(mem, i, u))
  BY <1>2, <1>4, <1>5 DEF OwnRecord
<1>7. new(u).at = "run" /\ new(u).plan = p /\ new(u).mem = Recorded(mem, i, u)
  BY <1>1 DEF Call
<1>8. CallOwn(new(u))
  BY <1>6, <1>7 DEF CallOwn
<1>9. QED
  BY <1>3, <1>8, QuietOwn DEF RecordUuid, store, inventory

(* An undo that does not destroy keeps the records.                         *)
LEMMA UndoneOwn ==
  ASSUME TypeOK, Placed, Own, NEW c \in Calls, At(c, "undo") \/ At(c, "destroy"),
         call[c].pos \in Steps, NEW h \in History, NEW returned \in BOOLEAN,
         Undone(c, h, returned), Watched, h.made = hist.made,
         hist.lost \subseteq h.lost,
         \A d \in h.deleted \ hist.deleted : d \in hist.made \/ d[1] \in hist.lost
  PROVE  Own'
<1> DEFINE i == call[c].pos
<1>1. hist'.made = h.made /\ hist'.lost = h.lost /\ hist'.deleted = h.deleted
  BY DEF Undone, History
<1>2. Grows /\ RollbackDeletesItsOwn'
  BY <1>1 DEF Grows, Own, RollbackDeletesItsOwn
<1>3. call[c] \in Call /\ call[c].mem \in Plan /\ call[c].at \in Busy
  BY CallTyped DEF At, Busy, RollingBack
<1>4. OwnRecord(call[c].plan, call[c].mem)
  BY <1>3 DEF Own, CallOwn
<1>5. PICK new : /\ Proceed(c, new) /\ new.plan = call[c].plan
                 /\ new.mem.uuid = call[c].mem.uuid /\ new.at = "undo"
  <2>1. /\ UndoDone(c).at = "undo" /\ UndoDone(c).plan = call[c].plan
        /\ UndoDone(c).mem = Marked(call[c].mem, i, "rolled_back")
    BY <1>3 DEF UndoDone, Call
  <2>2. /\ UndoFailed(c).at = "undo" /\ UndoFailed(c).plan = call[c].plan
        /\ UndoFailed(c).mem = call[c].mem
    BY <1>3 DEF UndoFailed, Call
  <2>3. Proceed(c, UndoDone(c)) \/ Proceed(c, UndoFailed(c))
    BY DEF Undone
  <2>4. QED
    BY <1>3, <2>1, <2>2, <2>3, EditsOwn
<1>6. OwnRecord(new.plan, new.mem)'
  BY <1>2, <1>4, <1>5, RecordGrows DEF OwnRecord
<1>7. CallOwn(call[c])'
  BY <1>5, <1>6, Proceeds DEF CallOwn
<1>8. QED
  BY <1>2, <1>5, <1>7, StepOwn DEF Undone, store

(* A rollback that stops writes its copy back, records and all.             *)
LEMMA StopRefusedOwn ==
  ASSUME TypeOK, Placed, Own, NEW c \in Calls, At(c, "undo") \/ At(c, "destroy"),
         StopRefused(c), UNCHANGED named
  PROVE  Own'
<1>1. call[c].mem \in Plan /\ call[c].at \in Busy
  BY CallTyped DEF At, Busy, RollingBack
<1>2. QED
  BY <1>1, NothingOwn, WriteOwn DEF StopRefused, Save, Leave

(* The VM a rollback destroys is the one the record names.                  *)
LEMMA DestroyOwn ==
  ASSUME TypeOK, Placed, Own, NEW c \in Calls, UndoDestroy(c)
  PROVE  Own'
<1> DEFINE u == call[c].vm
           h == [hist EXCEPT !.deleted = @ \cup {<<Here(c), u>>}, !.lost = @ \cup Recording(u)]
<1>1. /\ At(c, "destroy") /\ call[c].plan \in Plans /\ call[c].pos \in Steps
      /\ u \in Uuids /\ hist \in History /\ Here(c) \in Attempt
  BY OpNamed DEF UndoDestroy, At, Placed, TypeOK, Busy, RollingBack
<1>2. u = call[c].mem.uuid[call[c].pos] /\ OwnRecord(call[c].plan, call[c].mem)
  BY <1>1 DEF Own, CallOwn, At, Busy, RollingBack
<1>3. <<Here(c), u>> \in hist.made \/ Here(c) \in hist.lost
  BY <1>1, <1>2, PlanAssumption DEF OwnRecord, Here
<1>4. h \in History
  BY <1>1, HistoryTyped
<1>5. /\ h.made = hist.made /\ h.lost = hist.lost \cup Recording(u)
      /\ h.deleted = hist.deleted \cup {<<Here(c), u>>}
  BY <1>1 DEF History
<1>6. CASE Destroy(u) /\ \E returned \in BOOLEAN : Undone(c, h, returned)
  <2>1. \A v \in Uuids : v # u => named'[v] = named[v]
    BY <1>6 DEF Destroy, TypeOK, InventoryTypeOK
  <2>2. hist'.lost = h.lost
    BY <1>4, <1>6 DEF Undone, History
  <2>3. Watched
    BY <1>5, <2>1, <2>2 DEF Watched
  <2> HIDE DEF h
  <2>4. \A d \in h.deleted \ hist.deleted : d \in hist.made \/ d[1] \in hist.lost
    BY <1>3, <1>5
  <2>5. hist.lost \subseteq h.lost
    BY <1>5
  <2>6. QED
    BY <1>1, <1>4, <1>5, <1>6, <2>3, <2>4, <2>5, UndoneOwn
<1>7. CASE UNCHANGED named /\ Undone(c, hist, FALSE)
  <2>1. Watched
    BY <1>7 DEF Watched
  <2>2. QED
    BY <1>1, <1>7, <2>1, UndoneOwn
<1>8. QED
  BY <1>6, <1>7 DEF UndoDestroy, PowerOff, inventory

(* The other steps of a rollback.                                          *)
LEMMA RollbackOwn ==
  ASSUME TypeOK, Placed, Own, NEW c \in Calls, RollbackStep(c)
  PROVE  Own'
<1> DEFINE p   == call[c].plan
           mem == call[c].mem
<1>1. /\ call[c] \in Call /\ mem \in Plan /\ p \in Plans /\ hist \in History
      /\ call[c].at \in Busy
  BY CallTyped DEF RollbackStep, RollbackLoad, UndoPass, UndoRefused, UndoRaises, UndoPowerOn,
         UndoPowerOff, UndoIdentify, UndoMismatch, UndoDestroy, UndoPowerOffRefused,
         RollbackFinish, At, Busy, RollingBack, TypeOK
<1>2. CASE RollbackLoad(c)
  <2> DEFINE new == [call[c] EXCEPT !.at = "undo", !.mem = file[p], !.pos = N]
  <2>1. new.at = "undo" /\ new.plan = p /\ new.mem = file[p]
    BY <1>1 DEF Call
  <2>2. CallOwn(new)
    BY <1>1, <2>1 DEF Own, CallOwn
  <2>3. Proceed(c, new) \/ Proceed(c, Idle)
    BY <1>2 DEF RollbackLoad, Leave
  <2>4. QED
    BY <1>2, <2>2, <2>3, NothingOwn, QuietOwn DEF RollbackLoad, store, inventory
<1>3. CASE UndoPass(c)
  <2> DEFINE new == [call[c] EXCEPT !.pos = @ - 1]
  <2>1. new.at = "undo" /\ new.plan = p /\ new.mem = mem
    BY <1>1, <1>3 DEF Call, UndoPass, At
  <2>2. CallOwn(new)
    BY <1>1, <2>1, CopyOwn
  <2>3. QED
    BY <1>3, <2>2, QuietOwn DEF UndoPass, store, inventory
<1>4. CASE UndoIdentify(c)
  <2> DEFINE new(u) == [call[c] EXCEPT !.at = "destroy", !.vm = u]
  <2>1. PICK u \in Uuids : Proceed(c, new(u)) /\ u = mem.uuid[call[c].pos]
    BY <1>4 DEF UndoIdentify, MatchesRecord
  <2>2. /\ new(u).at = "destroy" /\ new(u).plan = p /\ new(u).mem = mem
        /\ new(u).vm = u /\ new(u).pos = call[c].pos
    BY <1>1 DEF Call
  <2>3. CallOwn(new(u))
    BY <1>1, <2>1, <2>2 DEF Own, CallOwn
  <2>4. QED
    BY <1>4, <2>1, <2>3, QuietOwn DEF UndoIdentify, store, inventory
<1>5. CASE UndoRefused(c) \/ UndoMismatch(c) \/ UndoPowerOffRefused(c)
  BY <1>5, StopRefusedOwn
  DEF UndoRefused, UndoMismatch, UndoPowerOffRefused, StopRefused, inventory
<1>6. CASE RollbackFinish(c)
  <2> DEFINE done == [mem EXCEPT !.status = "rolled_back"]
  <2>1. done \in Plan /\ done.uuid = mem.uuid
    BY <1>1 DEF Plan, Status
  <2>2. QED
    BY <1>1, <1>6, <2>1, NothingOwn, WriteOwn DEF RollbackFinish, Save, Leave, inventory
<1>7. CASE UndoRaises(c) \/ UndoPowerOn(c) \/ UndoPowerOff(c)
  <2> DEFINE h(u) == IF u \in on THEN [hist EXCEPT !.switchedOff = @ \cup {Here(c)}] ELSE hist
  <2>1. At(c, "undo") /\ call[c].pos \in Steps /\ Watched
    BY <1>7 DEF UndoRaises, UndoPowerOn, UndoPowerOff, PowerOn, PowerOff, inventory, Watched
  <2>2. Undone(c, hist, FALSE) \/ \E u \in Uuids, returned \in BOOLEAN :
          Undone(c, h(u), returned) \/ Undone(c, hist, returned)
    BY <1>7 DEF UndoRaises, UndoPowerOn, UndoPowerOff
  <2>3. \A u \in Uuids :
          /\ h(u) \in History /\ h(u).made = hist.made
          /\ h(u).lost = hist.lost /\ h(u).deleted = hist.deleted
    <3> DEFINE more == [hist EXCEPT !.switchedOff = @ \cup {Here(c)}]
    <3>1. Here(c) \in Attempt
      BY <1>1, <2>1, OpNamed
    <3>2. more \in History
      BY <1>1, <3>1, HistoryTyped
    <3>3. more.made = hist.made /\ more.lost = hist.lost /\ more.deleted = hist.deleted
      BY <1>1 DEF History
    <3>4. QED
      BY <1>1, <3>2, <3>3
  <2>4. QED
    BY <1>1, <2>1, <2>2, <2>3, UndoneOwn
<1>8. QED
  BY <1>2, <1>3, <1>4, <1>5, <1>6, <1>7, DestroyOwn DEF RollbackStep

(* Other users, a day and a crash: what they take from a step that has not  *)
(* recorded its VM yet is lost to it.                                      *)
LEMMA EnvironmentOwn ==
  ASSUME TypeOK, Placed, Own, (\E p \in Plans : Age(p)) \/ (\E r \in Procs : Crash(r)) \/ Outside
  PROVE  Own'
<1>1. UNCHANGED file /\ \A d \in Calls : call'[d] = Idle \/ call'[d] = call[d]
  BY DEF Age, Crash, Outside, store
<1>2. /\ hist'.made = hist.made /\ hist.lost \subseteq hist'.lost
      /\ hist'.deleted = hist.deleted
  BY DEF Age, Crash, Outside, TypeOK, History
<1>3. Watched
  <2>1. CASE UNCHANGED named
    BY <2>1 DEF Watched
  <2>2. ASSUME NEW u \in Uuids, OutsideDestroy(u) \/ \E n \in Names : OutsideRename(u, n),
               hist' = [hist EXCEPT !.lost = @ \cup Recording(u)]
        PROVE  Watched
    <3>1. \A v \in Uuids : v # u => named'[v] = named[v]
      BY <2>2 DEF OutsideDestroy, OutsideRename, Destroy, TypeOK, InventoryTypeOK
    <3>2. Recording(u) \subseteq hist'.lost
      BY <2>2 DEF TypeOK, History
    <3>3. QED
      BY <3>1, <3>2 DEF Watched
  <2>3. ASSUME NEW u \in Uuids, NEW n \in Names, OutsideCreate(u, n) PROVE Watched
    <3>1. \A v \in Uuids : named[v] \in Names => named'[v] = named[v]
      BY <2>3, NamesAssumption DEF OutsideCreate, Born, TypeOK, InventoryTypeOK
    <3>2. QED
      BY <3>1 DEF Watched
  <2>4. QED
    BY <2>1, <2>2, <2>3 DEF Age, Crash, Outside, OutsidePower, PowerOn, PowerOff, inventory
<1>4. Grows /\ RollbackDeletesItsOwn'
  BY <1>2 DEF Grows, Own, RollbackDeletesItsOwn
<1>5. \A d \in Calls : CallOwn(call[d])'
  BY <1>1, <1>3, <1>4, OthersOwn
<1>6. ASSUME NEW p \in Plans PROVE OwnRecord(p, file[p])'
  <2>1. OwnRecord(p, file[p])
    BY DEF Own
  <2>2. QED
    BY <1>1, <1>4, <2>1, RecordGrows DEF OwnRecord
<1>7. QED
  BY <1>4, <1>5, <1>6 DEF Own

(* A rollback destroys only what its plan's step created, or others took    *)
(* the step's VM away before the step could read its UUID.  No assumption   *)
(* on the servers, on crashes or on the others is needed: the UUID the      *)
(* rollback compares with was read from the VM that had the step's name,    *)
(* and only one had.  (_created_instance_uuid, _delete_created_vm)          *)
THEOREM DeletesItsOwn == Spec => []RollbackDeletesItsOwn
<1>1. Init => Own
  <2> SUFFICES ASSUME Init PROVE Own
    OBVIOUS
  <2>1. \A c \in Calls : CallOwn(call[c])
    BY NothingOwn DEF Init
  <2>2. \A p \in Plans : OwnRecord(p, file[p])
    BY NothingOwn DEF Init
  <2>3. RollbackDeletesItsOwn
    BY DEF Init, RollbackDeletesItsOwn
  <2>4. QED
    BY <2>1, <2>2, <2>3 DEF Own
<1>2. TypeOK /\ Placed /\ Own /\ [Next]_vars => Own'
  <2> SUFFICES ASSUME TypeOK, Placed, Own, [Next]_vars PROVE Own'
    OBVIOUS
  <2>1. ASSUME NEW c \in Calls, CallStep(c) \/ BeginCreate(c) PROVE Own'
    BY <2>1, CreateOwn, ApplyOwn, RunOwn, RecordOwn, RollbackOwn, FailsOwn
    DEF CallStep, ApplyStep
  <2>2. ASSUME NEW c \in Calls, NEW p \in Plans, Claim(c, p, "apply") \/ Claim(c, p, "rollback")
        PROVE  Own'
    BY <2>2, ClaimOwn
  <2>3. CASE UNCHANGED vars
    BY <2>3 DEF vars, store, inventory, Own, CallOwn, OwnRecord, StillNamed,
                RollbackDeletesItsOwn
  <2>4. QED
    BY <2>1, <2>2, <2>3, EnvironmentOwn DEF Next
<1>3. QED
  BY <1>1, <1>2, TypeCorrect, PTL DEF Spec, Own

-----------------------------------------------------------------------------
(* What one server promises of a plan: no step takes effect twice, no undo *)
(* is run twice, a failed plan's file tells what landed, and the plan      *)
(* follows the status flow of PlanLifecycle.  The server's lock carries    *)
(* all four.                                                               *)

(* What a call that has read the plan knows: the plan exists, its own copy  *)
(* is executing or failed, and of an apply, the steps from its position on  *)
(* have not taken effect and nobody can take the plan for a pending one.    *)
CallOnce(k) ==
  /\ k.at \in {"mark", "run", "record", "settle"} =>
       k.plan \in created /\ k.mem.status = "executing"
  /\ k.at \in {"undo", "destroy"} => k.plan \in created /\ k.mem.status = "failed"
  /\ k.at = "mark" => \A i \in Steps : <<k.plan, i>> \notin hist.ran
  /\ k.at \in {"run", "record"} => file[k.plan].status # "pending"
  /\ k.at = "run" => \A i \in Steps : i >= k.pos => <<k.plan, i>> \notin hist.ran
  /\ k.at = "record" => \A i \in Steps : i > k.pos => <<k.plan, i>> \notin hist.ran

(* No plan that any step of which took effect is pending.                   *)
StoreOnce ==
  /\ hist.again = {}
  /\ \A p \in Plans : file[p].status # "absent" => p \in created
  /\ \A p \in Plans, i \in Steps :
       <<p, i>> \in hist.ran => p \in created /\ file[p].status # "pending"

Once == StoreOnce /\ \A c \in Calls : CallOnce(call[c])

(* A step of one call that leaves the files and the record of what ran.     *)
LEMMA QuietOnce ==
  ASSUME TypeOK, Once, NEW c \in Calls, NEW new, Proceed(c, new), CallOnce(new),
         UNCHANGED <<file, created>>, hist'.ran = hist.ran, hist'.again = hist.again
  PROVE  Once'
<1>1. \A d \in Calls : call'[d] = IF d = c THEN new ELSE call[d]
  BY Proceeds
<1>2. \A d \in Calls : CallOnce(call'[d])
  BY <1>1 DEF Once
<1>3. (\A d \in Calls : CallOnce(call[d]))'
  BY <1>2 DEF CallOnce
<1>4. StoreOnce'
  BY DEF Once, StoreOnce
<1>5. QED
  BY <1>3, <1>4 DEF Once

(* A call that has returned knows nothing, so there is nothing to keep.     *)
LEMMA IdleOnce == CallOnce(Idle)
BY DEF CallOnce, Idle

(* A step that writes or removes one file, and not as a pending plan.       *)
LEMMA WriteOnce ==
  ASSUME TypeOK, Once, NEW c \in Calls, NEW new, Proceed(c, new),
         NEW p \in Plans, NEW plan \in Plan, file' = [file EXCEPT ![p] = plan],
         plan.status # "pending", plan.status # "absent" => p \in created,
         UNCHANGED <<created, hist>>,
         \/ new.at \in {"idle", "glob", "discard"}
         \/ /\ new.at = "run" /\ new.plan = p /\ p \in created
            /\ new.mem.status = "executing"
            /\ \A i \in Steps : <<p, i>> \notin hist.ran
  PROVE  Once'
<1>1. \A q \in Plans : file'[q] = IF q = p THEN plan ELSE file[q]
  BY DEF TypeOK
<1>2. StoreOnce'
  BY <1>1 DEF Once, StoreOnce
<1>3. call'[c] = new /\ \A d \in Calls \ {c} : call'[d] = call[d]
  BY Proceeds
<1>4. ASSUME NEW d \in Calls, d # c PROVE CallOnce(call[d])'
  <2>1. CallOnce(call[d]) /\ call'[d] = call[d]
    BY <1>3, <1>4 DEF Once
  <2>2. file[call[d].plan].status # "pending" => file'[call[d].plan].status # "pending"
    BY DEF TypeOK
  <2>3. QED
    BY <2>1, <2>2 DEF CallOnce
<1>5. CallOnce(call[c])'
  BY <1>1, <1>3 DEF CallOnce
<1>6. QED
  BY <1>2, <1>4, <1>5 DEF Once

(* Creating a plan: its id is new, so nothing of it ran and nobody has it.  *)
LEMMA WritePlanOnce ==
  ASSUME TypeOK, Once, NEW c \in Calls, NEW p \in Plans, WritePlan(c, p)
  PROVE  Once'
<1>1. \A q \in Plans : file'[q] = IF q = p THEN Pending ELSE file[q]
  BY DEF TypeOK, WritePlan
<1>2. created' = created \cup {p} /\ p \notin created /\ hist' = hist
  BY DEF WritePlan
<1>3. StoreOnce'
  BY <1>1, <1>2 DEF Once, StoreOnce
<1>4. call'[c] = Idle /\ \A d \in Calls \ {c} : call'[d] = call[d]
  BY Proceeds DEF WritePlan
<1>5. ASSUME NEW d \in Calls, d # c PROVE CallOnce(call[d])'
  <2>1. CallOnce(call[d]) /\ call'[d] = call[d]
    BY <1>4, <1>5 DEF Once
  <2>2. call[d].at \in {"run", "record"} => call[d].plan \in created
    BY <2>1 DEF CallOnce
  <2>3. call[d].plan \in created => file'[call[d].plan] = file[call[d].plan]
    BY <1>2 DEF TypeOK, WritePlan
  <2>4. QED
    BY <1>2, <2>1, <2>2, <2>3 DEF CallOnce
<1>6. CallOnce(call[c])'
  BY <1>4 DEF CallOnce, Idle
<1>7. QED
  BY <1>3, <1>5, <1>6 DEF Once

SingleProcess == \A c, d \in Calls : ProcOf[c] = ProcOf[d]

(* A step of an apply takes effect: it has not before, and the lock keeps   *)
(* every other call of the server off the plan.                            *)
LEMMA RanOnce ==
  ASSUME SingleProcess, TypeOK, Placed, Locked, Once, NEW c \in Calls, At(c, "run"),
         call[c].pos \in Steps, NEW h \in History, h.ran = hist.ran, h.again = hist.again,
         NEW returned \in BOOLEAN, Ran(c, h, returned)
  PROVE  Once'
<1> DEFINE p == call[c].plan
           pos == call[c].pos
<1>1. CallOnce(call[c]) /\ p \in Plans
  BY DEF Once, Placed, At, Busy, Applying
<1>2. /\ p \in created /\ call[c].mem.status = "executing" /\ file[p].status # "pending"
      /\ \A i \in Steps : i >= pos => <<p, i>> \notin hist.ran
  BY <1>1 DEF CallOnce, At
<1>3. <<p, pos>> \notin hist.ran /\ pos \in Nat
  BY <1>2, PlanAssumption DEF Steps
<1>4. hist'.ran = hist.ran \cup {<<p, pos>>} /\ hist'.again = hist.again
  BY <1>3 DEF Ran, Here, History
<1>5. UNCHANGED <<file, created>>
  BY DEF Ran, store
<1>6. StoreOnce'
  BY <1>2, <1>4, <1>5 DEF Once, StoreOnce
<1>7. /\ call'[c] = Succeeded(c) \/ call'[c] = StepFailed(c)
      /\ \A d \in Calls \ {c} : call'[d] = call[d]
  BY Proceeds DEF Ran
<1>8. ASSUME NEW d \in Calls, d # c PROVE CallOnce(call[d])'
  <2>1. CallOnce(call[d]) /\ call'[d] = call[d]
    BY <1>7, <1>8 DEF Once
  <2>2. call[d].at \in Busy => call[d].plan # p
    BY <1>8 DEF SingleProcess, Locked, At, Busy, Applying
  <2>3. QED
    BY <1>4, <1>5, <2>1, <2>2 DEF CallOnce, Busy, Applying
<1>9. call[c] \in Call /\ call[c].mem \in Plan /\ pos + 1 \in Nat
  BY <1>3, CallTyped
<1>10. Marked(call[c].mem, pos, "success").status = "executing"
       /\ Marked(call[c].mem, pos, "failed").status = "executing"
  BY <1>2, <1>9 DEF Marked, Plan
<1>11. CASE call'[c] = Succeeded(c)
  <2>1. /\ Succeeded(c).at \in {"record", "run"} /\ Succeeded(c).plan = p
        /\ Succeeded(c).mem.status = "executing"
        /\ Succeeded(c).at = "record" => Succeeded(c).pos = pos
        /\ Succeeded(c).at = "run" => Succeeded(c).pos = pos + 1
    BY <1>9, <1>10 DEF Succeeded, Call
  <2>2. /\ \A i \in Steps : i > pos => <<p, i>> \notin hist'.ran
        /\ \A i \in Steps : i >= pos + 1 => <<p, i>> \notin hist'.ran
    BY <1>2, <1>3, <1>4 DEF Steps
  <2>3. CallOnce(call[c])'
    BY <1>2, <1>5, <1>11, <2>1, <2>2 DEF CallOnce
  <2>4. QED
    BY <1>6, <1>8, <2>3 DEF Once
<1>12. CASE call'[c] = StepFailed(c)
  <2>1. StepFailed(c).at = "settle" /\ StepFailed(c).plan = p
        /\ StepFailed(c).mem.status = "executing"
    BY <1>9, <1>10 DEF StepFailed, Call
  <2>2. CallOnce(call[c])'
    BY <1>2, <1>5, <1>12, <2>1 DEF CallOnce
  <2>3. QED
    BY <1>6, <1>8, <2>2 DEF Once
<1>13. QED
  BY <1>7, <1>11, <1>12

(* A claim knows nothing of the plan yet.                                   *)
LEMMA ClaimOnce ==
  ASSUME TypeOK, Once, NEW c \in Calls, NEW p \in Plans,
         NEW label \in {"apply", "rollback"}, Claim(c, p, label)
  PROVE  Once'
<1> DEFINE new == [Idle EXCEPT !.at = label, !.plan = p]
<1>1. new.at = label
  BY IdleTyped DEF Call
<1>2. CallOnce(new)
  BY <1>1 DEF CallOnce
<1>3. QED
  BY <1>2, QuietOnce DEF Claim, store

(* The steps of create_plan.                                               *)
LEMMA CreateOnce ==
  ASSUME TypeOK, Placed, Once, NEW c \in Calls, CreateStep(c) \/ BeginCreate(c)
  PROVE  Once'
<1>1. call[c] \in Call /\ Idle \in Call
  BY IdleTyped DEF TypeOK
<1>2. CASE BeginCreate(c)
  <2> DEFINE new == [Idle EXCEPT !.at = "glob", !.todo = {p \in Plans : file[p].status # "absent"}]
  <2>1. new.at = "glob"
    BY <1>1 DEF Call
  <2>2. CallOnce(new)
    BY <2>1 DEF CallOnce
  <2>3. QED
    BY <1>2, <2>2, QuietOnce DEF BeginCreate, store
<1>3. CASE CreateRefused(c)
  BY <1>3, IdleOnce, QuietOnce DEF CreateRefused, store
<1>4. CASE SweepUnlink(c)
  <2> DEFINE new == [call[c] EXCEPT !.at = "glob", !.plan = NoPlan]
  <2>1. new.at = "glob" /\ Absent.status = "absent" /\ call[c].plan \in Plans
    BY <1>1, <1>4, CallTyped DEF Call, Absent, SweepUnlink, At
  <2>2. QED
    BY <1>4, <2>1, IdleTyped, WriteOnce DEF SweepUnlink, Unlink
<1>5. ASSUME NEW p \in Plans, SweepStat(c, p) PROVE Once'
  <2> DEFINE young == [call[c] EXCEPT !.todo = @ \ {p}]
             old   == [call[c] EXCEPT !.todo = @ \ {p}, !.at = "unlink", !.plan = p]
  <2>1. young.at = "glob" /\ old.at = "unlink"
    BY <1>1, <1>5 DEF Call, SweepStat, At
  <2>2. CallOnce(young) /\ CallOnce(old)
    BY <2>1 DEF CallOnce
  <2>3. Proceed(c, young) \/ Proceed(c, old) \/ Proceed(c, Idle)
    BY <1>5 DEF SweepStat
  <2>4. QED
    BY <1>5, <2>2, <2>3, IdleOnce, QuietOnce DEF SweepStat, store
<1>6. QED
  BY <1>2, <1>3, <1>4, <1>5, WritePlanOnce DEF CreateStep

(* The steps of apply_plan that the vCenter does not see.                  *)
LEMMA ApplyOnce ==
  ASSUME TypeOK, Placed, Once, NEW c \in Calls,
         \/ ApplyLoad(c) \/ ApplyMark(c) \/ StepRaises(c) \/ RecordUuid(c)
         \/ ApplyComplete(c) \/ ApplyDiscard(c) \/ ApplySettle(c)
  PROVE  Once'
<1> DEFINE p   == call[c].plan
           mem == call[c].mem
<1>1. call[c] \in Call /\ mem \in Plan /\ CallOnce(call[c]) /\ p \in Plans
  BY CallTyped DEF Once, ApplyLoad, ApplyMark, StepRaises, RecordUuid, ApplyComplete,
                   ApplyDiscard, ApplySettle, At, Busy, Applying
<1>2. CASE ApplyLoad(c)
  <2> DEFINE new == [call[c] EXCEPT !.at = "mark", !.mem = [file[p] EXCEPT !.status = "executing"]]
  <2>1. CASE Leave(c)
    BY <1>2, <2>1, IdleOnce, QuietOnce DEF ApplyLoad, Leave, store
  <2>2. CASE file[p].status = "pending" /\ Proceed(c, new)
    <3>1. p \in created /\ \A i \in Steps : <<p, i>> \notin hist.ran
      BY <1>1, <2>2 DEF Once, StoreOnce
    <3>2. [file[p] EXCEPT !.status = "executing"].status = "executing"
      BY <1>1, ReadTyped DEF Plan
    <3>3. new.at = "mark" /\ new.plan = p /\ new.mem.status = "executing"
      BY <1>1, <3>2 DEF Call
    <3>4. CallOnce(new)
      BY <3>1, <3>3 DEF CallOnce
    <3>5. QED
      BY <1>2, <2>2, <3>4, QuietOnce DEF ApplyLoad, store
  <2>3. QED
    BY <1>2, <2>1, <2>2 DEF ApplyLoad
<1>3. CASE ApplyMark(c)
  <2> DEFINE new == [call[c] EXCEPT !.at = "run", !.pos = 1]
  <2>1. new.at = "run" /\ new.plan = p /\ new.mem = mem
    BY <1>1 DEF Call
  <2>2. /\ p \in created /\ mem.status = "executing"
        /\ \A i \in Steps : <<p, i>> \notin hist.ran
    BY <1>1, <1>3 DEF CallOnce, ApplyMark, At
  <2>3. QED
    BY <1>1, <1>3, <2>1, <2>2, WriteOnce DEF ApplyMark, Save
<1>4. CASE StepRaises(c)
  <2>1. Marked(mem, call[c].pos, "failed").status = "executing" /\ p \in created
    BY <1>1, <1>4 DEF CallOnce, StepRaises, At, Marked, Plan
  <2>2. StepFailed(c).at = "settle" /\ StepFailed(c).plan = p
        /\ StepFailed(c).mem.status = "executing"
    BY <1>1, <2>1 DEF StepFailed, Call
  <2>3. CallOnce(StepFailed(c))
    BY <2>1, <2>2 DEF CallOnce
  <2>4. QED
    BY <1>4, <2>3, QuietOnce DEF StepRaises, store
<1>5. CASE RecordUuid(c)
  <2> DEFINE new(u) == [call[c] EXCEPT !.mem = Recorded(@, call[c].pos, u),
                                       !.pos = @ + 1, !.at = "run"]
  <2>1. PICK u \in Uuids \cup {NoUuid} : Proceed(c, new(u))
    BY <1>5 DEF RecordUuid
  <2>2. /\ mem.status = "executing" /\ p \in created /\ file[p].status # "pending"
        /\ \A i \in Steps : i > call[c].pos => <<p, i>> \notin hist.ran
    BY <1>1, <1>5 DEF CallOnce, RecordUuid, At
  <2>3. Recorded(mem, call[c].pos, u).status = "executing"
    BY <1>1, <2>2 DEF Recorded, Plan
  <2>4. /\ new(u).at = "run" /\ new(u).plan = p /\ new(u).pos = call[c].pos + 1
        /\ new(u).mem.status = "executing"
    BY <1>1, <2>3 DEF Call
  <2>5. call[c].pos \in Nat
    BY CallTyped, PlanAssumption
  <2>6. \A i \in Steps : i >= call[c].pos + 1 => <<p, i>> \notin hist.ran
    BY <2>2, <2>5 DEF Steps
  <2>7. CallOnce(new(u))
    BY <2>2, <2>4, <2>6 DEF CallOnce
  <2>8. QED
    BY <1>5, <2>1, <2>7, QuietOnce DEF RecordUuid, store
<1>6. CASE ApplyComplete(c)
  <2> DEFINE new  == [call[c] EXCEPT !.at = "discard"]
             done == [mem EXCEPT !.status = "completed"]
  <2>1. new.at = "discard"
    BY <1>1 DEF Call
  <2>2. done \in Plan /\ done.status = "completed" /\ p \in created
    BY <1>1, <1>6 DEF Plan, Status, CallOnce, ApplyComplete, At
  <2>3. QED
    BY <1>1, <1>6, <2>1, <2>2, WriteOnce DEF ApplyComplete, Save
<1>7. CASE ApplyDiscard(c)
  <2>1. Idle.at = "idle" /\ Absent.status = "absent"
    BY DEF Idle, Absent
  <2>2. QED
    BY <1>1, <1>7, <2>1, IdleTyped, WriteOnce DEF ApplyDiscard, Unlink, Leave
<1>8. CASE ApplySettle(c)
  <2>1. Settled(mem, call[c].pos) \in Plan
    BY <1>8, CallTyped, EditsTyped DEF ApplySettle, At
  <2>2. Settled(mem, call[c].pos).status = "failed" /\ p \in created /\ Idle.at = "idle"
    BY <1>1, <1>8 DEF Settled, Plan, CallOnce, ApplySettle, At, Idle
  <2>3. QED
    BY <1>1, <1>8, <2>1, <2>2, WriteOnce DEF ApplySettle, Save, Leave
<1>9. QED
  BY <1>2, <1>3, <1>4, <1>5, <1>6, <1>7, <1>8

(* The actions of the four kinds of step.                                   *)
LEMMA RunOnce ==
  ASSUME SingleProcess, TypeOK, Placed, Locked, Once, NEW c \in Calls,
         RunCreate(c) \/ RunPowerOn(c) \/ RunPowerOff(c) \/ RunReconfigure(c)
  PROVE  Once'
<1> DEFINE made(u)     == [hist EXCEPT !.made = @ \cup {<<Here(c), u>>}]
           switched(u) == IF u \in on THEN hist
                          ELSE [hist EXCEPT !.switchedOn = @ \cup {Here(c)}]
<1>1. At(c, "run") /\ call[c].pos \in Steps /\ hist \in History /\ Here(c) \in Attempt
  BY OpNamed, CallTyped
  DEF RunCreate, RunPowerOn, RunPowerOff, RunReconfigure, At, Busy, Applying, TypeOK
<1>2. \A u \in Uuids : made(u) \in History /\ switched(u) \in History
  BY <1>1, HistoryTyped
<1>3. \A u \in Uuids : /\ made(u).ran = hist.ran /\ made(u).again = hist.again
                      /\ switched(u).ran = hist.ran /\ switched(u).again = hist.again
  BY <1>1 DEF History
<1>4. \E u \in Uuids, returned \in BOOLEAN :
        Ran(c, made(u), returned) \/ Ran(c, switched(u), returned) \/ Ran(c, hist, returned)
  BY DEF RunCreate, RunPowerOn, RunPowerOff, RunReconfigure
<1>5. QED
  BY <1>1, <1>2, <1>3, <1>4, RanOnce

(* An undo changes no file and runs no step.                               *)
LEMMA UndoneOnce ==
  ASSUME TypeOK, Placed, Once, NEW c \in Calls, At(c, "undo") \/ At(c, "destroy"),
         NEW h \in History, h.ran = hist.ran, h.again = hist.again,
         NEW returned \in BOOLEAN, Undone(c, h, returned)
  PROVE  Once'
<1>1. call[c] \in Call /\ call[c].mem \in Plan /\ CallOnce(call[c])
  BY CallTyped DEF Once
<1>2. call[c].plan \in created /\ call[c].mem.status = "failed"
  BY <1>1 DEF CallOnce, At
<1>3. Marked(call[c].mem, call[c].pos, "rolled_back").status = "failed"
  BY <1>1, <1>2 DEF Marked, Plan
<1>4. /\ UndoDone(c).at = "undo" /\ UndoDone(c).plan = call[c].plan
      /\ UndoDone(c).mem.status = "failed"
  BY <1>1, <1>3 DEF UndoDone, Call
<1>5. /\ UndoFailed(c).at = "undo" /\ UndoFailed(c).plan = call[c].plan
      /\ UndoFailed(c).mem.status = "failed"
  BY <1>1, <1>2 DEF UndoFailed, Call
<1>6. CallOnce(UndoDone(c)) /\ CallOnce(UndoFailed(c))
  BY <1>2, <1>4, <1>5 DEF CallOnce
<1>7. hist'.ran = hist.ran /\ hist'.again = hist.again
  BY DEF Undone, History
<1>8. QED
  BY <1>6, <1>7, QuietOnce DEF Undone, store

(* A rollback that stops writes its failed copy back.                       *)
LEMMA StopRefusedOnce ==
  ASSUME TypeOK, Placed, Once, NEW c \in Calls, At(c, "undo") \/ At(c, "destroy"),
         StopRefused(c)
  PROVE  Once'
<1>1. call[c].mem \in Plan /\ CallOnce(call[c]) /\ call[c].plan \in Plans
  BY CallTyped DEF Once, At, Busy, RollingBack
<1>2. call[c].plan \in created /\ call[c].mem.status = "failed" /\ Idle.at = "idle"
  BY <1>1 DEF CallOnce, At, Idle
<1>3. QED
  BY <1>1, <1>2, WriteOnce DEF StopRefused, Save, Leave

(* The steps of rollback_plan.                                             *)
LEMMA RollbackOnce ==
  ASSUME TypeOK, Placed, Once, NEW c \in Calls, RollbackStep(c)
  PROVE  Once'
<1> DEFINE p   == call[c].plan
           mem == call[c].mem
<1>1. call[c] \in Call /\ mem \in Plan /\ CallOnce(call[c]) /\ hist \in History
  BY CallTyped DEF Once, TypeOK
<1>2. CASE RollbackLoad(c)
  <2> DEFINE new == [call[c] EXCEPT !.at = "undo", !.mem = file[p], !.pos = N]
  <2>1. CASE Leave(c)
    BY <1>2, <2>1, IdleOnce, QuietOnce DEF RollbackLoad, Leave, store
  <2>2. CASE file[p].status = "failed" /\ Proceed(c, new)
    <3>1. p \in Plans
      BY <1>2, CallTyped DEF RollbackLoad, At, Busy, RollingBack
    <3>2. p \in created
      BY <2>2, <3>1 DEF Once, StoreOnce
    <3>3. new.at = "undo" /\ new.plan = p /\ new.mem.status = "failed"
      BY <1>1, <2>2 DEF Call
    <3>4. CallOnce(new)
      BY <3>2, <3>3 DEF CallOnce
    <3>5. QED
      BY <1>2, <2>2, <3>4, QuietOnce DEF RollbackLoad, store
  <2>3. QED
    BY <1>2, <2>1, <2>2 DEF RollbackLoad
<1>3. CASE UndoPass(c)
  <2> DEFINE new == [call[c] EXCEPT !.pos = @ - 1]
  <2>1. new.at = "undo" /\ new.plan = p /\ new.mem = mem
    BY <1>1, <1>3 DEF Call, UndoPass, At
  <2>2. CallOnce(new)
    BY <1>1, <1>3, <2>1 DEF CallOnce, UndoPass, At
  <2>3. QED
    BY <1>3, <2>2, QuietOnce DEF UndoPass, store
<1>4. CASE UndoIdentify(c)
  <2> DEFINE new(u) == [call[c] EXCEPT !.at = "destroy", !.vm = u]
  <2>1. PICK u \in Uuids : Proceed(c, new(u))
    BY <1>4 DEF UndoIdentify
  <2>2. new(u).at = "destroy" /\ new(u).plan = p /\ new(u).mem = mem
    BY <1>1 DEF Call
  <2>3. CallOnce(new(u))
    BY <1>1, <1>4, <2>2 DEF CallOnce, UndoIdentify, At
  <2>4. QED
    BY <1>4, <2>1, <2>3, QuietOnce DEF UndoIdentify, store
<1>5. CASE UndoRefused(c) \/ UndoMismatch(c) \/ UndoPowerOffRefused(c)
  BY <1>5, StopRefusedOnce DEF UndoRefused, UndoMismatch, UndoPowerOffRefused
<1>6. CASE RollbackFinish(c)
  <2> DEFINE done == [mem EXCEPT !.status = "rolled_back"]
  <2>1. done \in Plan /\ done.status = "rolled_back" /\ p \in created /\ p \in Plans
    BY <1>1, <1>6, CallTyped DEF Plan, Status, CallOnce, RollbackFinish, At, Busy, RollingBack
  <2>2. Idle.at = "idle"
    BY DEF Idle
  <2>3. QED
    BY <1>6, <2>1, <2>2, WriteOnce DEF RollbackFinish, Save, Leave
<1>7. CASE UndoRaises(c)
  BY <1>1, <1>7, UndoneOnce DEF UndoRaises
<1>8. CASE UndoPowerOn(c)
  <2> DEFINE h(u) == IF u \in on THEN [hist EXCEPT !.switchedOff = @ \cup {Here(c)}] ELSE hist
  <2>1. PICK u \in Uuids, returned \in BOOLEAN : Undone(c, h(u), returned)
    BY <1>8 DEF UndoPowerOn
  <2>2. Here(c) \in Attempt
    BY <1>8, CallTyped, OpNamed DEF UndoPowerOn, At, Busy, RollingBack
  <2>3. h(u) \in History /\ h(u).ran = hist.ran /\ h(u).again = hist.again
    <3>1. CASE u \in on
      <4>1. [hist EXCEPT !.switchedOff = @ \cup {Here(c)}] \in History
        BY <1>1, <2>2, HistoryTyped
      <4>2. QED
        BY <1>1, <3>1, <4>1 DEF History
    <3>2. CASE u \notin on
      BY <1>1, <3>2
    <3>3. QED
      BY <3>1, <3>2
  <2>4. QED
    BY <1>8, <2>1, <2>3, UndoneOnce DEF UndoPowerOn
<1>9. CASE UndoPowerOff(c)
  BY <1>1, <1>9, UndoneOnce DEF UndoPowerOff
<1>10. CASE UndoDestroy(c)
  <2> DEFINE h == [hist EXCEPT !.deleted = @ \cup {<<Here(c), call[c].vm>>},
                               !.lost = @ \cup Recording(call[c].vm)]
  <2>1. Here(c) \in Attempt /\ call[c].vm \in Uuids
    BY <1>10, CallTyped, OpNamed DEF UndoDestroy, At, Busy, RollingBack, Placed
  <2>2. h \in History /\ h.ran = hist.ran /\ h.again = hist.again
    <3>1. h \in History
      BY <1>1, <2>1, HistoryTyped
    <3>2. h.ran = hist.ran /\ h.again = hist.again
      BY <1>1 DEF History
    <3>3. QED
      BY <3>1, <3>2
  <2>3. \E returned \in BOOLEAN : Undone(c, h, returned) \/ Undone(c, hist, FALSE)
    BY <1>10 DEF UndoDestroy
  <2>4. QED
    BY <1>1, <1>10, <2>2, <2>3, UndoneOnce DEF UndoDestroy
<1>11. QED
  BY <1>2, <1>3, <1>4, <1>5, <1>6, <1>7, <1>8, <1>9, <1>10 DEF RollbackStep

(* A call that a file error ends has run nothing more.                      *)
LEMMA FailsOnce ==
  ASSUME TypeOK, Placed, Once, NEW c \in Calls, FileFails(c) \/ SaveFails(c)
  PROVE  Once'
<1>1. /\ Proceed(c, Idle) /\ UNCHANGED <<file, created>>
      /\ hist'.ran = hist.ran /\ hist'.again = hist.again
  BY FailsLeaves DEF TypeOK, History
<1>2. QED
  BY <1>1, IdleOnce, QuietOnce

(* The passing of a day, a crash and the other users of the vCenter.        *)
LEMMA EnvironmentOnce ==
  ASSUME TypeOK, Once, (\E p \in Plans : Age(p)) \/ (\E r \in Procs : Crash(r)) \/ Outside
  PROVE  Once'
<1>1. UNCHANGED <<file, created>> /\ hist'.ran = hist.ran /\ hist'.again = hist.again
  BY DEF Age, Crash, Outside, store, TypeOK, History
<1>2. \A d \in Calls : call'[d] = Idle \/ call'[d] = call[d]
  BY DEF Age, Crash, Outside
<1>3. \A d \in Calls : CallOnce(call'[d])
  BY <1>2, IdleOnce DEF Once
<1>4. QED
  BY <1>1, <1>3 DEF Once, CallOnce, StoreOnce

(* Every step keeps the record of what ran in step with the files.          *)
LEMMA NextOnce ==
  ASSUME SingleProcess, TypeOK, Placed, Locked, Once, [Next]_vars
  PROVE  Once'
<1>1. ASSUME NEW c \in Calls, CreateStep(c) \/ BeginCreate(c) PROVE Once'
  BY <1>1, CreateOnce
<1>2. ASSUME NEW c \in Calls, ApplyStep(c) PROVE Once'
  BY <1>2, ApplyOnce, RunOnce DEF ApplyStep
<1>3. ASSUME NEW c \in Calls, RollbackStep(c) PROVE Once'
  BY <1>3, RollbackOnce
<1>4. ASSUME NEW c \in Calls, NEW p \in Plans, Claim(c, p, "apply") \/ Claim(c, p, "rollback")
      PROVE  Once'
  BY <1>4, ClaimOnce
<1>5. CASE UNCHANGED vars
  BY <1>5 DEF vars, store, Once, StoreOnce, CallOnce
<1>6. QED
  BY <1>1, <1>2, <1>3, <1>4, <1>5, FailsOnce, EnvironmentOnce DEF Next, CallStep

(* Within one server no step of a plan takes effect twice, through crashes, *)
(* sweeps, failed steps and rollbacks: the status is checked and set under  *)
(* the plan's lock, and a plan is never pending again.  The assumption is   *)
(* needed: PlanTwoServers refutes it without.                               *)
THEOREM StepsRunOnce ==
  ASSUME SingleProcess
  PROVE  Spec => []NoStepRunsTwice
<1>1. Init => Once
  <2> SUFFICES ASSUME Init PROVE Once
    OBVIOUS
  <2>1. \A c \in Calls : CallOnce(call[c])
    BY IdleOnce DEF Init
  <2>2. StoreOnce
    BY DEF Init, StoreOnce, Absent
  <2>3. QED
    BY <2>1, <2>2 DEF Once
<1>2. Init => Locked
  BY DEF Init, Locked, Idle, Busy, Applying, RollingBack
<1>3. TypeOK /\ Placed /\ Locked /\ Once /\ [Next]_vars => Locked' /\ Once'
  BY NextLocked, NextOnce
<1>4. Once => NoStepRunsTwice
  BY DEF Once, StoreOnce, NoStepRunsTwice
<1>5. QED
  BY <1>1, <1>2, <1>3, <1>4, TypeCorrect, PTL DEF Spec

-----------------------------------------------------------------------------
(* The file and the call that works on its plan                             *)

(* What the file of the plan a call works on can say meanwhile: what that   *)
(* call wrote, or nothing, for a sweep may remove it.                      *)
CallFile(k) ==
  /\ k.at = "mark" => file[k.plan].status \in {"pending", "absent"}
  /\ k.at \in {"run", "record", "settle"} => file[k.plan].status \in {"executing", "absent"}
  /\ k.at = "discard" => k.plan \in created /\ file[k.plan].status \in {"completed", "absent"}
  /\ k.at \in {"undo", "destroy"} => file[k.plan].status \in {"failed", "absent"}

(* Of every call.                                                          *)
Followed == \A c \in Calls : CallFile(call[c])

(* In one server two calls never work on one plan.                         *)
LEMMA Alone ==
  ASSUME SingleProcess, Locked, NEW c \in Calls, NEW d \in Calls, d # c,
         call[c].at \in Busy, call[d].at \in Busy
  PROVE  call[d].plan # call[c].plan
BY DEF SingleProcess, Locked

(* A call writes the file of its own plan, of a new one, or removes one.    *)
LEMMA OthersFollow ==
  ASSUME SingleProcess, TypeOK, Placed, Locked, Once, Followed, NEW c \in Calls,
         NEW d \in Calls, d # c, call'[d] = call[d], created \subseteq created',
         \A p \in Plans : \/ file'[p] = file[p] \/ file'[p].status = "absent"
                          \/ p \notin created
                          \/ call[c].at \in Busy /\ call[c].plan = p
  PROVE  CallFile(call[d])'
<1>1. CASE call[d].at \in {"mark", "run", "record", "settle", "discard", "undo", "destroy"}
  <2>1. call[d].at \in Busy /\ call[d].plan \in Plans
    BY <1>1 DEF Placed, Busy, Applying, RollingBack
  <2>2. call[d].plan \in created
    BY <1>1 DEF Once, CallOnce, Followed, CallFile
  <2>3. file'[call[d].plan] = file[call[d].plan] \/ file'[call[d].plan].status = "absent"
    BY <2>1, <2>2, Alone
  <2>4. QED
    BY <2>2, <2>3 DEF Followed, CallFile
<1>2. CASE call[d].at \notin {"mark", "run", "record", "settle", "discard", "undo", "destroy"}
  BY <1>2 DEF CallFile
<1>3. QED
  BY <1>1, <1>2

(* A step of one call that leaves the files.                               *)
LEMMA QuietFollows ==
  ASSUME SingleProcess, TypeOK, Placed, Locked, Once, Followed, NEW c \in Calls, NEW new,
         Proceed(c, new), CallFile(new), UNCHANGED <<file, created>>
  PROVE  Followed'
<1>1. CallFile(call[c])'
  BY Proceeds DEF CallFile
<1>2. QED
  BY <1>1, OthersFollow, Proceeds DEF Followed

(* A call that saves its plan knows what the file says.                     *)
LEMMA WriteFollows ==
  ASSUME SingleProcess, TypeOK, Placed, Locked, Once, Followed, NEW c \in Calls, NEW new,
         Proceed(c, new), call[c].at \in Busy, NEW plan \in Plan,
         file' = [file EXCEPT ![call[c].plan] = plan], UNCHANGED created,
         \/ new.at = "idle"
         \/ /\ new.plan = call[c].plan
            /\ \/ new.at = "run" /\ plan.status = "executing"
               \/ new.at = "discard" /\ plan.status = "completed" /\ call[c].plan \in created
  PROVE  Followed'
<1>1. \A p \in Plans : file'[p] = IF p = call[c].plan THEN plan ELSE file[p]
  BY DEF TypeOK
<1>2. CallFile(call[c])'
  <2>1. call[c].plan \in Plans
    BY DEF Placed
  <2>2. QED
    BY <1>1, <2>1, Proceeds DEF CallFile
<1>3. ASSUME NEW d \in Calls, d # c PROVE CallFile(call[d])'
  BY <1>1, <1>3, OthersFollow, Proceeds
<1>4. QED
  BY <1>2, <1>3 DEF Followed

(* A call that works on no plan, or has not changed it yet, expects nothing. *)
LEMMA NothingFollows ==
  ASSUME NEW k, k.at \in {"idle", "glob", "unlink", "apply", "rollback"}
  PROVE  CallFile(k)
BY DEF CallFile

(* create_plan.                                                            *)
LEMMA CreateFollows ==
  ASSUME SingleProcess, TypeOK, Placed, Locked, Once, Followed, NEW c \in Calls,
         CreateStep(c) \/ BeginCreate(c)
  PROVE  Followed'
<1>1. call[c] \in Call /\ Absent.status = "absent"
  BY DEF TypeOK, Absent
<1>2. CASE \E p \in Plans : WritePlan(c, p)
  <2>1. PICK p \in Plans : WritePlan(c, p)
    BY <1>2
  <2>2. \A q \in Plans : q # p => file'[q] = file[q]
    BY <2>1 DEF WritePlan, TypeOK
  <2>3. CallFile(call[c])'
    BY <2>1, Proceeds DEF WritePlan, Idle, CallFile
  <2>4. QED
    BY <2>1, <2>2, <2>3, OthersFollow, Proceeds DEF WritePlan, Followed
<1>3. CASE SweepUnlink(c)
  <2> DEFINE new == [call[c] EXCEPT !.at = "glob", !.plan = NoPlan]
  <2>1. new.at = "glob"
    BY <1>1 DEF Call
  <2>2. CallFile(call[c])'
    BY <1>3, <2>1, Proceeds DEF SweepUnlink, CallFile
  <2>3. \A p \in Plans : file'[p] = file[p] \/ file'[p].status = "absent"
    BY <1>1, <1>3 DEF SweepUnlink, Unlink, TypeOK
  <2>4. QED
    BY <1>3, <2>2, <2>3, OthersFollow, Proceeds DEF SweepUnlink, Unlink, Followed
<1>4. CASE BeginCreate(c)
  <2> DEFINE new == [Idle EXCEPT !.at = "glob", !.todo = {p \in Plans : file[p].status # "absent"}]
  <2>1. new.at = "glob"
    BY DEF Idle
  <2>2. CallFile(new)
    BY <2>1 DEF CallFile
  <2>3. QED
    BY <1>4, <2>2, QuietFollows DEF BeginCreate, store
<1>5. CASE CreateRefused(c)
  <2>1. CallFile(Idle)
    BY DEF CallFile, Idle
  <2>2. QED
    BY <1>5, <2>1, QuietFollows DEF CreateRefused, store
<1>6. ASSUME NEW p \in Plans, SweepStat(c, p) PROVE Followed'
  <2> DEFINE young == [call[c] EXCEPT !.todo = @ \ {p}]
             old   == [call[c] EXCEPT !.todo = @ \ {p}, !.at = "unlink", !.plan = p]
  <2>1. young.at = "glob" /\ old.at = "unlink"
    BY <1>1, <1>6 DEF Call, SweepStat, At
  <2>2. CallFile(young) /\ CallFile(old) /\ CallFile(Idle)
    BY <2>1 DEF CallFile, Idle
  <2>3. Proceed(c, young) \/ Proceed(c, old) \/ Proceed(c, Idle)
    BY <1>6 DEF SweepStat
  <2>4. QED
    BY <1>6, <2>2, <2>3, QuietFollows DEF SweepStat, store
<1>7. QED
  BY <1>2, <1>3, <1>4, <1>5, <1>6 DEF CreateStep

(* apply_plan: each save is of the status the next steps expect.            *)
LEMMA ApplyFollows ==
  ASSUME SingleProcess, TypeOK, Placed, Locked, Once, Followed, NEW c \in Calls, ApplyStep(c)
  PROVE  Followed'
<1> DEFINE p   == call[c].plan
           mem == call[c].mem
<1>1. /\ call[c] \in Call /\ mem \in Plan /\ p \in Plans /\ call[c].at \in Busy
      /\ CallFile(call[c]) /\ CallOnce(call[c])
  BY CallTyped DEF ApplyStep, ApplyLoad, ApplyMark, StepRaises, RunCreate, RunPowerOn,
     RunPowerOff, RunReconfigure, RecordUuid, ApplyComplete, ApplyDiscard, ApplySettle, At,
     Busy, Applying, Followed, Once
<1>2. CallFile(Idle) /\ Idle.at = "idle"
  BY NothingFollows DEF Idle
<1>3. CASE ApplyLoad(c)
  <2> DEFINE new == [call[c] EXCEPT !.at = "mark", !.mem = [file[p] EXCEPT !.status = "executing"]]
  <2>1. new.at = "mark" /\ new.plan = p
    BY <1>1 DEF Call
  <2>2. CASE file[p].status = "pending" /\ Proceed(c, new)
    <3>1. CallFile(new)
      BY <2>1, <2>2 DEF CallFile
    <3>2. QED
      BY <1>3, <2>2, <3>1, QuietFollows DEF ApplyLoad, store
  <2>3. QED
    BY <1>2, <1>3, <2>2, QuietFollows DEF ApplyLoad, Leave, store
<1>4. CASE ApplyMark(c)
  <2> DEFINE new == [call[c] EXCEPT !.at = "run", !.pos = 1]
  <2>1. new.at = "run" /\ new.plan = p
    BY <1>1 DEF Call
  <2>2. mem.status = "executing"
    BY <1>1, <1>4 DEF ApplyMark, At, CallOnce
  <2>3. QED
    BY <1>1, <1>4, <2>1, <2>2, WriteFollows DEF ApplyMark, Save
<1>5. CASE StepRaises(c) \/ RunCreate(c) \/ RunPowerOn(c) \/ RunPowerOff(c) \/ RunReconfigure(c)
           \/ RecordUuid(c)
  <2>1. call[c].at \in {"run", "record"}
    BY <1>5 DEF StepRaises, RunCreate, RunPowerOn, RunPowerOff, RunReconfigure, RecordUuid, At
  <2>2. call'[c].at \in {"run", "record", "settle"} /\ call'[c].plan = p
    <3>1. CASE RecordUuid(c)
      <4> DEFINE new(u) == [call[c] EXCEPT !.mem = Recorded(@, call[c].pos, u),
                                           !.pos = @ + 1, !.at = "run"]
      <4>1. \E u \in Uuids \cup {NoUuid} : Proceed(c, new(u))
        BY <3>1 DEF RecordUuid
      <4>2. \A u : new(u).at = "run" /\ new(u).plan = p
        BY <1>1 DEF Call
      <4>3. QED
        BY <4>1, <4>2, Proceeds
    <3>2. CASE StepRaises(c) \/ RunCreate(c) \/ RunPowerOn(c) \/ RunPowerOff(c) \/ RunReconfigure(c)
      <4>1. Proceed(c, Succeeded(c)) \/ Proceed(c, StepFailed(c))
        BY <3>2 DEF StepRaises, RunCreate, RunPowerOn, RunPowerOff, RunReconfigure, Ran
      <4>2. Succeeded(c).at \in {"run", "record"} /\ Succeeded(c).plan = p
        BY <1>1 DEF Succeeded, Call
      <4>3. StepFailed(c).at = "settle" /\ StepFailed(c).plan = p
        BY <1>1 DEF StepFailed, Call
      <4>4. QED
        BY <4>1, <4>2, <4>3, Proceeds
    <3>3. QED
      BY <1>5, <3>1, <3>2
  <2>3. UNCHANGED <<file, created>> /\ \E new : Proceed(c, new)
    BY <1>5 DEF StepRaises, RunCreate, RunPowerOn, RunPowerOff, RunReconfigure, RecordUuid, Ran, store
  <2>4. PICK new : Proceed(c, new)
    BY <2>3
  <2>5. CallFile(new)
    BY <1>1, <2>1, <2>2, <2>4, Proceeds DEF CallFile
  <2>6. QED
    BY <2>3, <2>4, <2>5, QuietFollows
<1>6. CASE ApplyComplete(c)
  <2> DEFINE new  == [call[c] EXCEPT !.at = "discard"]
             done == [mem EXCEPT !.status = "completed"]
  <2>1. new.at = "discard" /\ new.plan = p
    BY <1>1 DEF Call
  <2>2. done \in Plan /\ done.status = "completed" /\ p \in created
    BY <1>1, <1>6 DEF Plan, Status, CallOnce, ApplyComplete, At
  <2>3. QED
    BY <1>1, <1>6, <2>1, <2>2, WriteFollows DEF ApplyComplete, Save
<1>7. CASE ApplyDiscard(c)
  BY <1>1, <1>2, <1>7, IdleTyped, WriteFollows DEF ApplyDiscard, Unlink, Leave
<1>8. CASE ApplySettle(c)
  <2>1. Settled(mem, call[c].pos) \in Plan
    BY <1>8, CallTyped, EditsTyped DEF ApplySettle, At
  <2>2. QED
    BY <1>1, <1>2, <1>8, <2>1, WriteFollows DEF ApplySettle, Save, Leave
<1>9. QED
  BY <1>3, <1>4, <1>5, <1>6, <1>7, <1>8 DEF ApplyStep

(* rollback_plan: the file stays failed until its end.                      *)
LEMMA RollbackFollows ==
  ASSUME SingleProcess, TypeOK, Placed, Locked, Once, Followed, NEW c \in Calls, RollbackStep(c)
  PROVE  Followed'
<1> DEFINE p   == call[c].plan
           mem == call[c].mem
<1>1. /\ call[c] \in Call /\ mem \in Plan /\ p \in Plans /\ call[c].at \in Busy
      /\ CallFile(call[c])
  BY CallTyped DEF RollbackStep, RollbackLoad, UndoPass, UndoRefused, UndoRaises, UndoPowerOn,
         UndoPowerOff, UndoIdentify, UndoMismatch, UndoDestroy, UndoPowerOffRefused,
         RollbackFinish, At, Busy, RollingBack, Followed
<1>2. CallFile(Idle) /\ Idle.at = "idle"
  BY NothingFollows DEF Idle
<1>3. CASE RollbackLoad(c)
  <2> DEFINE new == [call[c] EXCEPT !.at = "undo", !.mem = file[p], !.pos = N]
  <2>1. new.at = "undo" /\ new.plan = p
    BY <1>1 DEF Call
  <2>2. CASE file[p].status = "failed" /\ Proceed(c, new)
    <3>1. CallFile(new)
      BY <2>1, <2>2 DEF CallFile
    <3>2. QED
      BY <1>3, <2>2, <3>1, QuietFollows DEF RollbackLoad, store
  <2>3. QED
    BY <1>2, <1>3, <2>2, QuietFollows DEF RollbackLoad, Leave, store
<1>4. CASE UndoPass(c) \/ UndoIdentify(c) \/ UndoRaises(c) \/ UndoPowerOn(c) \/ UndoPowerOff(c)
           \/ UndoDestroy(c)
  <2>1. call[c].at \in {"undo", "destroy"} /\ UNCHANGED <<file, created>>
    BY <1>4 DEF UndoPass, UndoIdentify, UndoRaises, UndoPowerOn, UndoPowerOff, UndoDestroy, At,
                Undone, store
  <2>2. PICK new : /\ Proceed(c, new) /\ new.plan = p
                   /\ new.at \in {"undo", "destroy"}
    <3>1. CASE UndoPass(c)
      <4> DEFINE new == [call[c] EXCEPT !.pos = @ - 1]
      <4>1. new.plan = p /\ new.at = "undo"
        BY <1>1, <3>1 DEF Call, UndoPass, At
      <4>2. QED
        BY <3>1, <4>1 DEF UndoPass
    <3>2. CASE UndoIdentify(c)
      <4> DEFINE new(u) == [call[c] EXCEPT !.at = "destroy", !.vm = u]
      <4>1. PICK u \in Uuids : Proceed(c, new(u))
        BY <3>2 DEF UndoIdentify
      <4>2. new(u).plan = p /\ new(u).at = "destroy"
        BY <1>1 DEF Call
      <4>3. QED
        BY <4>1, <4>2
    <3>3. CASE UndoRaises(c) \/ UndoPowerOn(c) \/ UndoPowerOff(c) \/ UndoDestroy(c)
      <4>1. Proceed(c, UndoDone(c)) \/ Proceed(c, UndoFailed(c))
        BY <3>3 DEF UndoRaises, UndoPowerOn, UndoPowerOff, UndoDestroy, Undone
      <4>2. UndoDone(c).at = "undo" /\ UndoDone(c).plan = p
        BY <1>1 DEF UndoDone, Call
      <4>3. UndoFailed(c).at = "undo" /\ UndoFailed(c).plan = p
        BY <1>1 DEF UndoFailed, Call
      <4>4. QED
        BY <4>1, <4>2, <4>3
    <3>4. QED
      BY <1>4, <3>1, <3>2, <3>3
  <2>3. CallFile(new)
    BY <1>1, <2>1, <2>2 DEF CallFile
  <2>4. QED
    BY <2>1, <2>2, <2>3, QuietFollows
<1>5. CASE UndoRefused(c) \/ UndoMismatch(c) \/ UndoPowerOffRefused(c)
  BY <1>1, <1>2, <1>5, WriteFollows
  DEF UndoRefused, UndoMismatch, UndoPowerOffRefused, StopRefused, Save, Leave
<1>6. CASE RollbackFinish(c)
  <2>1. [mem EXCEPT !.status = "rolled_back"] \in Plan
    BY <1>1 DEF Plan, Status
  <2>2. QED
    BY <1>1, <1>2, <1>6, <2>1, WriteFollows DEF RollbackFinish, Save, Leave
<1>7. QED
  BY <1>3, <1>4, <1>5, <1>6 DEF RollbackStep

(* Every step keeps the file in step with the call that works on its plan.  *)
LEMMA NextFollows ==
  ASSUME SingleProcess, TypeOK, Placed, Locked, Once, Followed, [Next]_vars
  PROVE  Followed'
<1>1. ASSUME NEW c \in Calls, CallStep(c) \/ BeginCreate(c) PROVE Followed'
  <2>1. ASSUME FileFails(c) \/ SaveFails(c) PROVE Followed'
    <3>1. Idle.at = "idle" /\ Proceed(c, Idle) /\ UNCHANGED <<file, created>>
      BY <2>1, FailsLeaves DEF Idle
    <3>2. QED
      BY <3>1, NothingFollows, QuietFollows
  <2>2. QED
    BY <1>1, <2>1, CreateFollows, ApplyFollows, RollbackFollows DEF CallStep
<1>2. ASSUME NEW c \in Calls, NEW p \in Plans, NEW label \in {"apply", "rollback"},
             Claim(c, p, label)
      PROVE  Followed'
  <2> DEFINE new == [Idle EXCEPT !.at = label, !.plan = p]
  <2>1. new.at \in {"apply", "rollback"}
    BY DEF Idle
  <2>2. CallFile(new)
    BY <2>1 DEF CallFile
  <2>3. QED
    BY <1>2, <2>2, QuietFollows DEF Claim, store
<1>3. CASE (\E p \in Plans : Age(p)) \/ (\E r \in Procs : Crash(r)) \/ Outside
  <2>1. UNCHANGED <<file, created>> /\ \A d \in Calls : call'[d] = Idle \/ call'[d] = call[d]
    BY <1>3 DEF Age, Crash, Outside, store
  <2>2. QED
    BY <2>1 DEF Followed, CallFile, Idle
<1>4. CASE UNCHANGED vars
  BY <1>4 DEF vars, store, Followed, CallFile
<1>5. QED
  BY <1>1, <1>2, <1>3, <1>4 DEF Next

-----------------------------------------------------------------------------
(* The steps a copy of the plan calls successful are those that landed and  *)
(* were not undone.                                                        *)
TruthIn(p, plan, h) ==
  \A i \in Steps : plan.step[i] = "success" <=> <<p, i>> \in h.landed \ h.undone

Truth(p, plan) == TruthIn(p, plan, hist)

(* What a call knows of its own copy.                                      *)
CallTold(k) ==
  /\ k.at = "mark" => \A i \in Steps : k.mem.step[i] # "success"
  /\ k.at \in {"run", "record", "settle", "undo", "destroy"} /\ k.plan \notin hist.unsaved =>
       Truth(k.plan, k.mem)
  /\ k.at = "settle" => \A i \in Steps : i > k.pos => <<k.plan, i>> \notin hist.landed
  /\ k.at = "destroy" => k.mem.step[k.pos] = "success"

(* No call has begun to undo the plan.                                     *)
NotUndoing(p) == \A c \in Calls : call[c].at \in {"undo", "destroy"} => call[c].plan # p

(* What the files and the record of what happened say of each other.        *)
StoreTold ==
  /\ hist.landed \subseteq hist.ran
  /\ \A a \in hist.undone : a \in hist.ran \/ a[1] \in hist.unsaved
  /\ \A a \in hist.undoneAgain : a[1] \in hist.unsaved
  /\ \A p \in Plans :
       file[p].status = "pending" => \A i \in Steps : file[p].step[i] # "success"
  /\ \A p \in Plans :
       file[p].status = "failed" /\ p \notin hist.unsaved /\ NotUndoing(p) => Truth(p, file[p])

Told == StoreTold /\ \A c \in Calls : CallTold(call[c])

(* The parts of the history Told speaks of.                                *)
Telling == <<hist.ran, hist.landed, hist.undone, hist.undoneAgain, hist.unsaved>>

(* What one call does to its own plan is nothing to the others.             *)
LEMMA OthersTold ==
  ASSUME SingleProcess, TypeOK, Placed, Locked, Told, NEW c \in Calls, NEW d \in Calls, d # c,
         call'[d] = call[d], call[c].at \in Busy, hist'.unsaved = hist.unsaved,
         \A q \in Plans, i \in Steps : q # call[c].plan =>
           /\ <<q, i>> \in hist'.landed <=> <<q, i>> \in hist.landed
           /\ <<q, i>> \in hist'.undone <=> <<q, i>> \in hist.undone
  PROVE  CallTold(call[d])'
<1>1. CASE call[d].at \in Busy
  <2>1. call[d].plan \in Plans /\ call[d].plan # call[c].plan
    BY <1>1, Alone DEF Placed
  <2>2. CallTold(call[d])
    BY DEF Told
  <2>3. QED
    BY <2>1, <2>2 DEF CallTold, Truth, TruthIn
<1>2. CASE call[d].at \notin Busy
  BY <1>2 DEF CallTold, Busy, Applying, RollingBack
<1>3. QED
  BY <1>1, <1>2

(* A step of one call that leaves the files and the history, and does not   *)
(* leave an undo.                                                          *)
LEMMA QuietTold ==
  ASSUME TypeOK, Placed, Told, NEW c \in Calls, NEW new, Proceed(c, new), CallTold(new),
         UNCHANGED file, UNCHANGED Telling,
         call[c].at \in {"undo", "destroy"} =>
           new.at \in {"undo", "destroy"} /\ new.plan = call[c].plan
  PROVE  Told'
<1>1. /\ hist'.ran = hist.ran /\ hist'.landed = hist.landed /\ hist'.undone = hist.undone
      /\ hist'.undoneAgain = hist.undoneAgain /\ hist'.unsaved = hist.unsaved
  BY DEF Telling
<1>2. call'[c] = new /\ \A d \in Calls \ {c} : call'[d] = call[d]
  BY Proceeds
<1>3. \A d \in Calls : CallTold(call[d])'
  BY <1>1, <1>2 DEF Told, CallTold, Truth, TruthIn
<1>4. \A p \in Plans : NotUndoing(p)' => NotUndoing(p)
  BY <1>2 DEF NotUndoing
<1>5. StoreTold'
  BY <1>1, <1>4 DEF Told, StoreTold, Truth, TruthIn
<1>6. QED
  BY <1>3, <1>5 DEF Told

(* A call that writes its plan's file tells the truth when it writes failed. *)
LEMMA WriteTold ==
  ASSUME TypeOK, Placed, Told, NEW c \in Calls, NEW new, Proceed(c, new), CallTold(new),
         new.at \notin {"undo", "destroy"}, NEW p \in Plans, NEW plan \in Plan,
         call[c].at \in {"undo", "destroy"} => call[c].plan = p,
         file' = [file EXCEPT ![p] = plan], UNCHANGED hist,
         plan.status = "pending" => \A i \in Steps : plan.step[i] # "success",
         plan.status = "failed" /\ p \notin hist.unsaved => Truth(p, plan)
  PROVE  Told'
<1>1. \A q \in Plans : file'[q] = IF q = p THEN plan ELSE file[q]
  BY DEF TypeOK
<1>2. call'[c] = new /\ \A d \in Calls \ {c} : call'[d] = call[d]
  BY Proceeds
<1>3. \A d \in Calls : CallTold(call[d])'
  BY <1>2 DEF Told, CallTold, Truth, TruthIn
<1>4. \A q \in Plans : q # p /\ NotUndoing(q)' => NotUndoing(q)
  BY <1>2 DEF NotUndoing
<1>5. StoreTold'
  BY <1>1, <1>4 DEF Told, StoreTold, Truth, TruthIn
<1>6. QED
  BY <1>3, <1>5 DEF Told

(* A call that works on no plan, or has only claimed one, knows nothing.    *)
LEMMA NothingTold ==
  /\ CallTold(Idle)
  /\ \A k : k.at \in {"idle", "glob", "unlink", "apply", "rollback", "discard"} => CallTold(k)
BY DEF CallTold, Idle

(* create_plan writes a plan no step of which landed.                       *)
LEMMA CreateTold ==
  ASSUME TypeOK, Placed, Told, NEW c \in Calls, CreateStep(c) \/ BeginCreate(c)
  PROVE  Told'
<1>1. /\ call[c] \in Call /\ call[c].at \in {"idle", "glob", "unlink"}
      /\ UNCHANGED hist
  BY DEF TypeOK, CreateStep, BeginCreate, SweepUnlink, CreateRefused, SweepStat, WritePlan, At
<1>2. CASE \E p \in Plans : WritePlan(c, p)
  <2>1. PICK p \in Plans : WritePlan(c, p)
    BY <1>2
  <2>2. /\ Pending \in Plan /\ Pending.status = "pending"
        /\ \A i \in Steps : Pending.step[i] = "pending"
    BY IdleTyped DEF Pending, Absent
  <2>3. CallTold(Idle) /\ Idle.at = "idle"
    BY NothingTold DEF Idle
  <2>4. QED
    BY <1>1, <2>1, <2>2, <2>3, WriteTold DEF WritePlan
<1>3. CASE SweepUnlink(c)
  <2> DEFINE new == [call[c] EXCEPT !.at = "glob", !.plan = NoPlan]
  <2>1. new.at = "glob" /\ call[c].plan \in Plans
    BY <1>1, <1>3, CallTyped DEF Call, SweepUnlink, At
  <2>2. CallTold(new)
    BY <2>1 DEF CallTold
  <2>3. Absent \in Plan /\ Absent.status = "absent"
    BY IdleTyped DEF Absent
  <2>4. QED
    BY <1>1, <1>3, <2>1, <2>2, <2>3, WriteTold DEF SweepUnlink, Unlink
<1>4. CASE BeginCreate(c)
  <2> DEFINE new == [Idle EXCEPT !.at = "glob", !.todo = {p \in Plans : file[p].status # "absent"}]
  <2>1. new.at = "glob"
    BY DEF Idle
  <2>2. CallTold(new)
    BY <2>1 DEF CallTold
  <2>3. QED
    BY <1>1, <1>4, <2>2, QuietTold DEF BeginCreate, store, Telling
<1>5. CASE CreateRefused(c)
  BY <1>1, <1>5, NothingTold, QuietTold DEF CreateRefused, store, Telling
<1>6. ASSUME NEW p \in Plans, SweepStat(c, p) PROVE Told'
  <2> DEFINE young == [call[c] EXCEPT !.todo = @ \ {p}]
             old   == [call[c] EXCEPT !.todo = @ \ {p}, !.at = "unlink", !.plan = p]
  <2>1. young.at = "glob" /\ old.at = "unlink"
    BY <1>1, <1>6 DEF Call, SweepStat, At
  <2>2. CallTold(young) /\ CallTold(old)
    BY <2>1 DEF CallTold
  <2>3. Proceed(c, young) \/ Proceed(c, old) \/ Proceed(c, Idle)
    BY <1>6 DEF SweepStat
  <2>4. QED
    BY <1>1, <1>6, <2>2, <2>3, NothingTold, QuietTold DEF SweepStat, store, Telling
<1>7. QED
  BY <1>2, <1>3, <1>4, <1>5, <1>6 DEF CreateStep

(* What the edits of a copy do to its steps.                                *)
LEMMA EditsTold ==
  ASSUME NEW plan \in Plan, NEW i \in Steps
  PROVE  /\ \A s : \A j \in Steps : Marked(plan, i, s).step[j] = IF j = i THEN s ELSE plan.step[j]
         /\ \A u : Recorded(plan, i, u).step = plan.step
         /\ \A s : [plan EXCEPT !.status = s].step = plan.step
         /\ \A j \in Steps :
              Settled(plan, i).step[j] = IF j > i THEN "skipped" ELSE plan.step[j]
<1>1. \A s : \A j \in Steps : Marked(plan, i, s).step[j] = IF j = i THEN s ELSE plan.step[j]
  BY DEF Marked, Plan
<1>2. (\A u : Recorded(plan, i, u).step = plan.step)
      /\ \A s : [plan EXCEPT !.status = s].step = plan.step
  BY DEF Recorded, Plan
<1>3. \A j \in Steps : Settled(plan, i).step[j] = IF j > i THEN "skipped" ELSE plan.step[j]
  BY DEF Settled, Plan
<1>4. QED
  BY <1>1, <1>2, <1>3

(* A step is marked as what became of it.                                   *)
LEMMA MarkTruth ==
  ASSUME NEW plan \in Plan, NEW p, NEW i \in Steps, NEW s, NEW g, NEW h, TruthIn(p, plan, g),
         s = "success" <=> <<p, i>> \in h.landed \ h.undone,
         \A j \in Steps : j # i =>
           (<<p, j>> \in h.landed \ h.undone <=> <<p, j>> \in g.landed \ g.undone)
  PROVE  TruthIn(p, Marked(plan, i, s), h)
<1>1. \A j \in Steps : Marked(plan, i, s).step[j] = IF j = i THEN s ELSE plan.step[j]
  BY EditsTold
<1>2. QED
  BY <1>1 DEF TruthIn

(* The steps of apply_plan that the vCenter does not see.                  *)
LEMMA ApplyTold ==
  ASSUME TypeOK, Placed, Once, Told, NEW c \in Calls,
         \/ ApplyLoad(c) \/ ApplyMark(c) \/ StepRaises(c) \/ RecordUuid(c)
         \/ ApplyComplete(c) \/ ApplyDiscard(c) \/ ApplySettle(c)
  PROVE  Told'
<1> DEFINE p   == call[c].plan
           i   == call[c].pos
           mem == call[c].mem
<1>1. /\ call[c] \in Call /\ mem \in Plan /\ p \in Plans /\ UNCHANGED hist
      /\ CallOnce(call[c]) /\ CallTold(call[c]) /\ call[c].at \notin {"undo", "destroy"}
  BY CallTyped DEF Once, Told, ApplyLoad, ApplyMark, StepRaises, RecordUuid, ApplyComplete,
                   ApplyDiscard, ApplySettle, At, Busy, Applying
<1>2. CASE ApplyLoad(c)
  <2> DEFINE new == [call[c] EXCEPT !.at = "mark", !.mem = [file[p] EXCEPT !.status = "executing"]]
  <2>1. CASE Leave(c)
    BY <1>1, <1>2, <2>1, NothingTold, QuietTold DEF ApplyLoad, Leave, store, Telling
  <2>2. CASE file[p].status = "pending" /\ Proceed(c, new)
    <3>1. new.at = "mark" /\ new.plan = p /\ new.mem = [file[p] EXCEPT !.status = "executing"]
      BY <1>1 DEF Call
    <3>2. [file[p] EXCEPT !.status = "executing"].step = file[p].step
      BY <1>1, ReadTyped DEF Plan
    <3>3. \A j \in Steps : file[p].step[j] # "success"
      BY <1>1, <2>2 DEF Told, StoreTold
    <3>4. CallTold(new)
      BY <3>1, <3>2, <3>3 DEF CallTold
    <3>5. QED
      BY <1>1, <1>2, <2>2, <3>4, QuietTold DEF ApplyLoad, store, Telling
  <2>3. QED
    BY <1>2, <2>1, <2>2 DEF ApplyLoad
<1>3. CASE ApplyMark(c)
  <2> DEFINE new == [call[c] EXCEPT !.at = "run", !.pos = 1]
  <2>1. new.at = "run" /\ new.plan = p /\ new.mem = mem
    BY <1>1 DEF Call
  <2>2. /\ mem.status = "executing" /\ \A j \in Steps : mem.step[j] # "success"
        /\ \A j \in Steps : <<p, j>> \notin hist.ran
    BY <1>1, <1>3 DEF CallOnce, CallTold, ApplyMark, At
  <2>3. Truth(p, mem)
    BY <2>2 DEF Told, StoreTold, Truth, TruthIn
  <2>4. CallTold(new)
    BY <2>1, <2>3 DEF CallTold
  <2>5. QED
    BY <1>1, <1>3, <2>1, <2>2, <2>4, WriteTold DEF ApplyMark, Save
<1>4. CASE StepRaises(c)
  <2>1. /\ StepFailed(c).at = "settle" /\ StepFailed(c).plan = p /\ StepFailed(c).pos = i
        /\ StepFailed(c).mem = Marked(mem, i, "failed")
    BY <1>1 DEF StepFailed, Call
  <2>2. i \in Steps /\ call[c].at = "run"
    BY <1>4 DEF StepRaises, At
  <2>3. \A j \in Steps : j >= i => <<p, j>> \notin hist.landed
    BY <1>1, <2>2 DEF CallOnce, Told, StoreTold
  <2>4. i \in Nat
    BY <2>2, PlanAssumption DEF Steps
  <2>5. \A j \in Steps : j > i => <<p, j>> \notin hist.landed
    BY <2>3, <2>4 DEF Steps
  <2>6. <<p, i>> \notin hist.landed
    BY <2>2, <2>3, <2>4
  <2>7. p \notin hist.unsaved => Truth(p, Marked(mem, i, "failed"))
    BY <1>1, <2>2, <2>6, MarkTruth DEF Truth, CallTold
  <2>8. CallTold(StepFailed(c))
    BY <2>1, <2>5, <2>7 DEF CallTold
  <2>9. QED
    BY <1>1, <1>4, <2>8, QuietTold DEF StepRaises, store, Telling
<1>5. CASE RecordUuid(c)
  <2> DEFINE new(u) == [call[c] EXCEPT !.mem = Recorded(@, i, u), !.pos = @ + 1, !.at = "run"]
  <2>1. PICK u \in Uuids \cup {NoUuid} : Proceed(c, new(u))
    BY <1>5 DEF RecordUuid
  <2>2. new(u).at = "run" /\ new(u).plan = p /\ new(u).mem = Recorded(mem, i, u)
    BY <1>1 DEF Call
  <2>3. call[c].at = "record" /\ i \in Steps
    BY <1>5 DEF RecordUuid, At, Placed
  <2>4. p \notin hist.unsaved => Truth(p, Recorded(mem, i, u))
    BY <1>1, <2>3, EditsTold DEF Truth, TruthIn, CallTold
  <2>5. CallTold(new(u))
    BY <2>2, <2>4 DEF CallTold
  <2>6. QED
    BY <1>1, <1>5, <2>1, <2>5, QuietTold DEF RecordUuid, store, Telling
<1>6. CASE ApplyComplete(c)
  <2> DEFINE new  == [call[c] EXCEPT !.at = "discard"]
             done == [mem EXCEPT !.status = "completed"]
  <2>1. new.at = "discard"
    BY <1>1 DEF Call
  <2>2. done \in Plan /\ done.status = "completed"
    BY <1>1 DEF Plan, Status
  <2>3. CallTold(new)
    BY <2>1 DEF CallTold
  <2>4. QED
    BY <1>1, <1>6, <2>1, <2>2, <2>3, WriteTold DEF ApplyComplete, Save
<1>7. CASE ApplyDiscard(c)
  <2>1. Absent \in Plan /\ Absent.status = "absent" /\ Idle.at = "idle"
    BY IdleTyped DEF Absent, Idle
  <2>2. QED
    BY <1>1, <1>7, <2>1, NothingTold, WriteTold DEF ApplyDiscard, Unlink, Leave
<1>8. CASE ApplySettle(c)
  <2>1. call[c].at = "settle" /\ i \in Steps /\ Idle.at = "idle"
    BY <1>8 DEF ApplySettle, At, Placed, Idle
  <2>2. Settled(mem, i) \in Plan
    BY <1>1, <2>1, EditsTyped
  <2>3. Settled(mem, i).status = "failed"
    BY <1>1 DEF Settled, Plan
  <2>4. p \notin hist.unsaved => Truth(p, Settled(mem, i))
    BY <1>1, <2>1, EditsTold DEF Truth, TruthIn, CallTold
  <2>5. QED
    BY <1>1, <1>8, <2>1, <2>2, <2>3, <2>4, NothingTold, WriteTold DEF ApplySettle, Save, Leave
<1>9. QED
  BY <1>2, <1>3, <1>4, <1>5, <1>6, <1>7, <1>8

(* A step's action returns or raises: its call notes which, and the file is *)
(* not failed meanwhile.                                                   *)
LEMMA RanTold ==
  ASSUME SingleProcess, TypeOK, Placed, Locked, Once, Followed, Told, NEW c \in Calls,
         At(c, "run"), call[c].pos \in Steps, NEW h \in History,
         h.ran = hist.ran, h.landed = hist.landed, h.undone = hist.undone,
         h.undoneAgain = hist.undoneAgain, h.unsaved = hist.unsaved,
         NEW returned \in BOOLEAN, Ran(c, h, returned)
  PROVE  Told'
<1> DEFINE p   == call[c].plan
           i   == call[c].pos
           mem == call[c].mem
<1>1. /\ call[c] \in Call /\ mem \in Plan /\ p \in Plans /\ call[c].at \in Busy
      /\ call[c].at = "run" /\ CallOnce(call[c]) /\ CallTold(call[c]) /\ CallFile(call[c])
  BY CallTyped DEF At, Busy, Applying, Once, Told, Followed
<1>2. /\ hist'.ran = hist.ran \cup {<<p, i>>}
      /\ hist'.landed = IF returned THEN hist.landed \cup {<<p, i>>} ELSE hist.landed
      /\ hist'.undone = hist.undone /\ hist'.undoneAgain = hist.undoneAgain
      /\ hist'.unsaved = hist.unsaved
  BY DEF Ran, History, Here
<1>3. UNCHANGED file
  BY DEF Ran, store
<1>4. \A d \in Calls \ {c} : CallTold(call[d])'
  <2>1. \A q \in Plans, j \in Steps : q # p =>
          /\ <<q, j>> \in hist'.landed <=> <<q, j>> \in hist.landed
          /\ <<q, j>> \in hist'.undone <=> <<q, j>> \in hist.undone
    BY <1>2
  <2>2. \A d \in Calls \ {c} : call'[d] = call[d]
    BY Proceeds DEF Ran
  <2>3. QED
    BY <1>1, <1>2, <2>1, <2>2, OthersTold
<1>5. /\ i \in Nat /\ <<p, i>> \notin hist.ran /\ <<p, i>> \notin hist.landed
      /\ \A j \in Steps : j > i => <<p, j>> \notin hist.landed
  <2>1. i \in Nat
    BY PlanAssumption DEF Steps
  <2>2. \A j \in Steps : j >= i => <<p, j>> \notin hist.ran
    BY <1>1 DEF CallOnce
  <2>3. \A j \in Steps : j > i => j >= i
    BY <2>1 DEF Steps
  <2>4. QED
    BY <2>1, <2>2, <2>3 DEF Told, StoreTold
<1>6. CallTold(call[c])'
  <2>1. CASE returned
    <3>1. /\ Succeeded(c).at \in {"run", "record"} /\ Succeeded(c).plan = p
          /\ Succeeded(c).mem = Marked(mem, i, "success")
      BY <1>1 DEF Succeeded, Call
    <3>2. call'[c] = Succeeded(c)
      BY <2>1, Proceeds DEF Ran
    <3>3. p \notin hist.unsaved => <<p, i>> \notin hist.undone
      BY <1>5 DEF Told, StoreTold
    <3>4. p \notin hist.unsaved => TruthIn(p, Marked(mem, i, "success"), hist')
      BY <1>1, <1>2, <1>5, <2>1, <3>3, MarkTruth DEF Truth, CallTold
    <3>5. QED
      BY <1>2, <3>1, <3>2, <3>4 DEF CallTold, Truth
  <2>2. CASE ~returned
    <3>1. /\ StepFailed(c).at = "settle" /\ StepFailed(c).plan = p /\ StepFailed(c).pos = i
          /\ StepFailed(c).mem = Marked(mem, i, "failed")
      BY <1>1 DEF StepFailed, Call
    <3>2. call'[c] = StepFailed(c)
      BY <2>2, Proceeds DEF Ran
    <3>3. p \notin hist.unsaved => TruthIn(p, Marked(mem, i, "failed"), hist')
      BY <1>1, <1>2, <1>5, <2>2, MarkTruth DEF Truth, CallTold
    <3>4. QED
      BY <1>2, <1>5, <2>2, <3>1, <3>2, <3>3 DEF CallTold, Truth
  <2>3. QED
    BY <2>1, <2>2
<1>7. file[p].status # "failed"
  BY <1>1 DEF CallFile
<1>8. \A q \in Plans : NotUndoing(q)' => NotUndoing(q)
  BY <1>1, Proceeds DEF NotUndoing, Ran
<1>9. ASSUME NEW q \in Plans, q # p PROVE Truth(q, file[q])' <=> Truth(q, file[q])
  BY <1>2, <1>3, <1>9 DEF Truth, TruthIn
<1>10. StoreTold'
  <2>1. hist'.landed \subseteq hist'.ran
    BY <1>2 DEF Told, StoreTold
  <2>2. /\ \A a \in hist'.undone : a \in hist'.ran \/ a[1] \in hist'.unsaved
        /\ \A a \in hist'.undoneAgain : a[1] \in hist'.unsaved
    BY <1>2 DEF Told, StoreTold
  <2>3. \A q \in Plans :
          file'[q].status = "failed" /\ q \notin hist'.unsaved /\ NotUndoing(q)' =>
            Truth(q, file[q])'
    BY <1>2, <1>3, <1>7, <1>8, <1>9 DEF Told, StoreTold
  <2>4. QED
    BY <1>3, <2>1, <2>2, <2>3 DEF Told, StoreTold
<1>11. QED
  BY <1>4, <1>6, <1>10 DEF Told

(* The actions of the four kinds of step.                                   *)
LEMMA RunTold ==
  ASSUME SingleProcess, TypeOK, Placed, Locked, Once, Followed, Told, NEW c \in Calls,
         RunCreate(c) \/ RunPowerOn(c) \/ RunPowerOff(c) \/ RunReconfigure(c)
  PROVE  Told'
<1> DEFINE made(u)     == [hist EXCEPT !.made = @ \cup {<<Here(c), u>>}]
           switched(u) == IF u \in on THEN hist
                          ELSE [hist EXCEPT !.switchedOn = @ \cup {Here(c)}]
           same(h) == /\ h \in History /\ h.ran = hist.ran /\ h.landed = hist.landed
                      /\ h.undone = hist.undone /\ h.undoneAgain = hist.undoneAgain
                      /\ h.unsaved = hist.unsaved
<1>1. At(c, "run") /\ call[c].pos \in Steps /\ hist \in History /\ Here(c) \in Attempt
  BY OpNamed, CallTyped
  DEF RunCreate, RunPowerOn, RunPowerOff, RunReconfigure, At, Busy, Applying, TypeOK
<1>2. ASSUME NEW u \in Uuids PROVE same(made(u)) /\ same(switched(u)) /\ same(hist)
  <2> DEFINE more == [hist EXCEPT !.switchedOn = @ \cup {Here(c)}]
  <2>1. same(hist)
    BY <1>1
  <2>2. same(made(u))
    <3>1. made(u) \in History
      BY <1>1, <1>2, HistoryTyped
    <3>2. QED
      BY <1>1, <3>1 DEF History
  <2>3. same(more)
    <3>1. more \in History
      BY <1>1, HistoryTyped
    <3>2. QED
      BY <1>1, <3>1 DEF History
  <2>4. QED
    BY <2>1, <2>2, <2>3
<1>3. \E u \in Uuids, returned \in BOOLEAN :
        Ran(c, made(u), returned) \/ Ran(c, switched(u), returned) \/ Ran(c, hist, returned)
  BY DEF RunCreate, RunPowerOn, RunPowerOff, RunReconfigure
<1>4. PICK h : same(h) /\ \E returned \in BOOLEAN : Ran(c, h, returned)
  BY <1>2, <1>3
<1>5. QED
  BY <1>1, <1>4, RanTold

(* An undo that returned is noted in the copy, one that raised is not: and  *)
(* it was of a step that had landed and was not undone.                    *)
LEMMA UndoneTold ==
  ASSUME SingleProcess, TypeOK, Placed, Locked, Told, NEW c \in Calls,
         At(c, "undo") \/ At(c, "destroy"), call[c].pos \in Steps,
         call[c].mem.step[call[c].pos] = "success", NEW h \in History,
         h.ran = hist.ran, h.landed = hist.landed, h.undone = hist.undone,
         h.undoneAgain = hist.undoneAgain, h.unsaved = hist.unsaved,
         NEW returned \in BOOLEAN, Undone(c, h, returned)
  PROVE  Told'
<1> DEFINE p   == call[c].plan
           i   == call[c].pos
           mem == call[c].mem
<1>1. /\ call[c] \in Call /\ mem \in Plan /\ p \in Plans /\ call[c].at \in Busy
      /\ call[c].at \in {"undo", "destroy"} /\ CallTold(call[c]) /\ UNCHANGED file
  BY CallTyped DEF At, Busy, RollingBack, Told, Undone, store
<1>2. p \notin hist.unsaved => Truth(p, mem)
  BY <1>1 DEF CallTold
<1>3. p \notin hist.unsaved => <<p, i>> \in hist.landed /\ <<p, i>> \notin hist.undone
  BY <1>2 DEF Truth, TruthIn
<1>4. /\ hist'.ran = hist.ran /\ hist'.landed = hist.landed /\ hist'.unsaved = hist.unsaved
      /\ hist'.undone = IF returned THEN hist.undone \cup {<<p, i>>} ELSE hist.undone
      /\ hist'.undoneAgain = IF returned /\ <<p, i>> \in hist.undone
                             THEN hist.undoneAgain \cup {<<p, i>>} ELSE hist.undoneAgain
  BY DEF Undone, Here, History
<1>5. /\ \A d \in Calls \ {c} : call'[d] = call[d]
      /\ call'[c].at = "undo" /\ call'[c].plan = p
      /\ call'[c].mem = IF returned THEN Marked(mem, i, "rolled_back") ELSE mem
  <2>1. /\ UndoDone(c).at = "undo" /\ UndoDone(c).plan = p
        /\ UndoDone(c).mem = Marked(mem, i, "rolled_back")
    BY <1>1 DEF UndoDone, Call
  <2>2. UndoFailed(c).at = "undo" /\ UndoFailed(c).plan = p /\ UndoFailed(c).mem = mem
    BY <1>1 DEF UndoFailed, Call
  <2>3. Proceed(c, IF returned THEN UndoDone(c) ELSE UndoFailed(c))
    BY DEF Undone
  <2>4. QED
    BY <2>1, <2>2, <2>3, Proceeds
<1>6. \A q \in Plans, j \in Steps : q # p =>
        /\ <<q, j>> \in hist'.landed <=> <<q, j>> \in hist.landed
        /\ <<q, j>> \in hist'.undone <=> <<q, j>> \in hist.undone
  BY <1>4
<1>7. \A d \in Calls \ {c} : CallTold(call[d])'
  BY <1>1, <1>4, <1>5, <1>6, OthersTold
<1>8. CallTold(call[c])'
  <2>1. p \notin hist.unsaved => TruthIn(p, Marked(mem, i, "rolled_back"), hist') \/ ~returned
    BY <1>1, <1>2, <1>4, MarkTruth DEF Truth
  <2>2. p \notin hist.unsaved => TruthIn(p, mem, hist') \/ returned
    BY <1>2, <1>4 DEF Truth, TruthIn
  <2>3. p \notin hist.unsaved => TruthIn(p, call'[c].mem, hist')
    BY <1>5, <2>1, <2>2
  <2>4. QED
    BY <1>4, <1>5, <2>3 DEF CallTold, Truth
<1>9. StoreTold'
  <2>1. /\ hist'.landed \subseteq hist'.ran
        /\ \A a \in hist'.undone : a \in hist'.ran \/ a[1] \in hist'.unsaved
        /\ \A a \in hist'.undoneAgain : a[1] \in hist'.unsaved
    BY <1>3, <1>4 DEF Told, StoreTold
  <2>2. ASSUME NEW q \in Plans, file[q].status = "failed", q \notin hist'.unsaved, NotUndoing(q)'
        PROVE  TruthIn(q, file[q], hist')
    <3>1. q # p
      BY <1>5, <2>2 DEF NotUndoing
    <3>2. NotUndoing(q)
      BY <1>5, <2>2, <3>1 DEF NotUndoing
    <3>3. Truth(q, file[q])
      BY <1>4, <2>2, <3>2 DEF Told, StoreTold
    <3>4. QED
      BY <1>6, <3>1, <3>3 DEF Truth, TruthIn
  <2>3. \A q \in Plans :
          file'[q].status = "pending" => \A j \in Steps : file'[q].step[j] # "success"
    BY <1>1 DEF Told, StoreTold
  <2>4. QED
    BY <1>1, <2>1, <2>2, <2>3 DEF StoreTold, Truth
<1>10. QED
  BY <1>7, <1>8, <1>9 DEF Told

(* The steps of rollback_plan.                                             *)
LEMMA RollbackTold ==
  ASSUME SingleProcess, TypeOK, Placed, Locked, Once, Told, NEW c \in Calls, RollbackStep(c)
  PROVE  Told'
<1> DEFINE p   == call[c].plan
           i   == call[c].pos
           mem == call[c].mem
           same(h) == /\ h \in History /\ h.ran = hist.ran /\ h.landed = hist.landed
                      /\ h.undone = hist.undone /\ h.undoneAgain = hist.undoneAgain
                      /\ h.unsaved = hist.unsaved
<1>1. /\ call[c] \in Call /\ mem \in Plan /\ p \in Plans /\ hist \in History
      /\ call[c].at \in Busy /\ CallOnce(call[c]) /\ CallTold(call[c])
  BY CallTyped DEF RollbackStep, RollbackLoad, UndoPass, UndoRefused, UndoRaises, UndoPowerOn,
         UndoPowerOff, UndoIdentify, UndoMismatch, UndoDestroy, UndoPowerOffRefused,
         RollbackFinish, At, Busy, RollingBack, TypeOK, Once, Told
<1>2. CASE RollbackLoad(c)
  <2> DEFINE new == [call[c] EXCEPT !.at = "undo", !.mem = file[p], !.pos = N]
  <2>1. call[c].at = "rollback" /\ UNCHANGED <<file, hist>>
    BY <1>2 DEF RollbackLoad, At, store
  <2>2. CASE Leave(c)
    BY <2>1, <2>2, NothingTold, QuietTold DEF Leave, Telling
  <2>3. CASE file[p].status = "failed" /\ Proceed(c, new)
    <3>1. NotUndoing(p)
      BY <1>1, <2>1, Alone DEF NotUndoing, Busy, RollingBack
    <3>2. p \notin hist.unsaved => Truth(p, file[p])
      BY <1>1, <2>3, <3>1 DEF Told, StoreTold
    <3>3. new.at = "undo" /\ new.plan = p /\ new.mem = file[p]
      BY <1>1 DEF Call
    <3>4. CallTold(new)
      BY <3>2, <3>3 DEF CallTold
    <3>5. QED
      BY <2>1, <2>3, <3>3, <3>4, QuietTold DEF Telling
  <2>4. QED
    BY <1>2, <2>2, <2>3 DEF RollbackLoad
<1>3. CASE UndoPass(c)
  <2> DEFINE new == [call[c] EXCEPT !.pos = @ - 1]
  <2>1. new.at = "undo" /\ new.plan = p /\ new.mem = mem /\ call[c].at = "undo"
    BY <1>1, <1>3 DEF Call, UndoPass, At
  <2>2. CallTold(new)
    BY <1>1, <2>1 DEF CallTold
  <2>3. QED
    BY <1>3, <2>1, <2>2, QuietTold DEF UndoPass, store, Telling
<1>4. CASE UndoIdentify(c)
  <2> DEFINE new(u) == [call[c] EXCEPT !.at = "destroy", !.vm = u]
  <2>1. PICK u \in Uuids : Proceed(c, new(u))
    BY <1>4 DEF UndoIdentify
  <2>2. new(u).at = "destroy" /\ new(u).plan = p /\ new(u).mem = mem /\ new(u).pos = i
    BY <1>1 DEF Call
  <2>3. call[c].at = "undo" /\ mem.step[i] = "success"
    BY <1>4 DEF UndoIdentify, At, Undoable, Executed
  <2>4. CallTold(new(u))
    BY <1>1, <2>2, <2>3 DEF CallTold
  <2>5. QED
    BY <1>4, <2>1, <2>2, <2>4, QuietTold DEF UndoIdentify, store, Telling
<1>5. CASE UndoRefused(c) \/ UndoMismatch(c) \/ UndoPowerOffRefused(c)
  <2>1. StopRefused(c) /\ call[c].at \in {"undo", "destroy"} /\ Idle.at = "idle"
    BY <1>5 DEF UndoRefused, UndoMismatch, UndoPowerOffRefused, At, Idle
  <2>2. mem.status = "failed" /\ (p \notin hist.unsaved => Truth(p, mem))
    BY <1>1, <2>1 DEF CallOnce, CallTold
  <2>3. QED
    BY <1>1, <2>1, <2>2, NothingTold, WriteTold DEF StopRefused, Save, Leave
<1>6. CASE RollbackFinish(c)
  <2> DEFINE done == [mem EXCEPT !.status = "rolled_back"]
  <2>1. done \in Plan /\ done.status = "rolled_back" /\ Idle.at = "idle"
    BY <1>1 DEF Plan, Status, Idle
  <2>2. QED
    BY <1>1, <1>6, <2>1, NothingTold, WriteTold DEF RollbackFinish, Save, Leave
<1>7. CASE UndoRaises(c) \/ UndoPowerOn(c) \/ UndoPowerOff(c)
  <2> DEFINE h(u) == IF u \in on THEN [hist EXCEPT !.switchedOff = @ \cup {Here(c)}] ELSE hist
  <2>1. At(c, "undo") /\ i \in Steps /\ mem.step[i] = "success"
    BY <1>7 DEF UndoRaises, UndoPowerOn, UndoPowerOff, Undoable, Executed
  <2>2. Undone(c, hist, FALSE) \/ \E u \in Uuids, returned \in BOOLEAN :
          Undone(c, h(u), returned) \/ Undone(c, hist, returned)
    BY <1>7 DEF UndoRaises, UndoPowerOn, UndoPowerOff
  <2>3. same(hist) /\ \A u \in Uuids : same(h(u))
    <3> DEFINE more == [hist EXCEPT !.switchedOff = @ \cup {Here(c)}]
    <3>1. Here(c) \in Attempt
      BY <1>1, <2>1, OpNamed
    <3>2. more \in History
      BY <1>1, <3>1, HistoryTyped
    <3>3. same(more)
      BY <1>1, <3>2 DEF History
    <3>4. QED
      BY <1>1, <3>3
  <2>4. PICK g : same(g) /\ \E returned \in BOOLEAN : Undone(c, g, returned)
    BY <2>2, <2>3
  <2>5. QED
    BY <2>1, <2>4, UndoneTold
<1>8. CASE UndoDestroy(c)
  <2> DEFINE g == [hist EXCEPT !.deleted = @ \cup {<<Here(c), call[c].vm>>},
                               !.lost = @ \cup Recording(call[c].vm)]
  <2>1. At(c, "destroy") /\ i \in Steps /\ call[c].vm \in Uuids /\ mem.step[i] = "success"
    BY <1>1, <1>8 DEF UndoDestroy, At, Placed, CallTold
  <2>2. same(g) /\ same(hist)
    <3>1. Here(c) \in Attempt
      BY <1>1, <2>1, OpNamed
    <3>2. g \in History
      BY <1>1, <2>1, <3>1, HistoryTyped
    <3>3. /\ g.ran = hist.ran /\ g.landed = hist.landed /\ g.undone = hist.undone
          /\ g.undoneAgain = hist.undoneAgain /\ g.unsaved = hist.unsaved
      BY <1>1 DEF History
    <3>4. QED
      BY <1>1, <3>2, <3>3
  <2>3. \E returned \in BOOLEAN : Undone(c, g, returned) \/ Undone(c, hist, FALSE)
    BY <1>8 DEF UndoDestroy
  <2>4. PICK h : same(h) /\ \E returned \in BOOLEAN : Undone(c, h, returned)
    BY <2>2, <2>3
  <2>5. QED
    BY <2>1, <2>4, UndoneTold
<1>9. QED
  BY <1>2, <1>3, <1>4, <1>5, <1>6, <1>7, <1>8 DEF RollbackStep

(* A crash marks every plan a call of the server worked on: of the others   *)
(* the files still tell the truth.                                         *)
LEMMA CrashTold ==
  ASSUME TypeOK, Placed, Locked, Told, NEW r \in Procs, Crash(r)
  PROVE  Told'
<1>1. /\ UNCHANGED file
      /\ hist'.ran = hist.ran /\ hist'.landed = hist.landed /\ hist'.undone = hist.undone
      /\ hist'.undoneAgain = hist.undoneAgain
      /\ hist'.unsaved = hist.unsaved \cup
           {p \in Plans : \E c \in Calls : ProcOf[c] = r /\ owner[r][p] = c}
  BY DEF Crash, store, TypeOK, History
<1>2. \A d \in Calls : call'[d] = IF ProcOf[d] = r THEN Idle ELSE call[d]
  BY DEF Crash
<1>3. ASSUME NEW d \in Calls PROVE CallTold(call[d])'
  <2>1. CASE call'[d] = Idle
    BY <2>1 DEF CallTold, Idle
  <2>2. CASE call'[d] = call[d]
    BY <1>1, <2>2 DEF Told, CallTold, Truth, TruthIn
  <2>3. QED
    BY <1>2, <2>1, <2>2
<1>4. ASSUME NEW p \in Plans, p \notin hist'.unsaved, NotUndoing(p)' PROVE NotUndoing(p)
  <2>1. SUFFICES ASSUME NEW d \in Calls, call[d].at \in {"undo", "destroy"}, call[d].plan = p
                 PROVE  FALSE
    BY DEF NotUndoing
  <2>2. ProcOf[d] = r
    BY <1>2, <1>4, <2>1 DEF NotUndoing
  <2>3. owner[r][p] = d
    BY <2>1, <2>2 DEF Locked, Busy, RollingBack
  <2>4. QED
    BY <1>1, <1>4, <2>2, <2>3
<1>5. StoreTold'
  BY <1>1, <1>4 DEF Told, StoreTold, Truth, TruthIn
<1>6. QED
  BY <1>3, <1>5 DEF Told

(* A file error takes a call's copy away: the file still tells the truth if *)
(* the copy said the same, or if the call had not begun to undo the plan;   *)
(* else the plan is one whose last words are not on file.                   *)
LEMMA FailsTold ==
  ASSUME TypeOK, Placed, Told, NEW c \in Calls, FileFails(c) \/ SaveFails(c)
  PROVE  Told'
<1>1. /\ Proceed(c, Idle) /\ UNCHANGED file /\ call[c].plan \in Plans
      /\ hist'.ran = hist.ran /\ hist'.landed = hist.landed /\ hist'.undone = hist.undone
      /\ hist'.undoneAgain = hist.undoneAgain /\ hist.unsaved \subseteq hist'.unsaved
  BY FailsLeaves DEF TypeOK, History
<1>2. call'[c] = Idle /\ \A d \in Calls \ {c} : call'[d] = call[d]
  BY <1>1, Proceeds
<1>3. ASSUME NEW d \in Calls PROVE CallTold(call[d])'
  <2>1. CASE d = c
    BY <1>2, <2>1 DEF CallTold, Idle
  <2>2. CASE d # c
    BY <1>1, <1>2, <2>2 DEF Told, CallTold, Truth, TruthIn
  <2>3. QED
    BY <2>1, <2>2
<1>4. ASSUME NEW p \in Plans, file[p].status = "failed", p \notin hist'.unsaved, NotUndoing(p)'
      PROVE  Truth(p, file[p])
  <2>1. p \notin hist.unsaved
    BY <1>1, <1>4
  <2>2. CASE call[c].at \in {"undo", "destroy"} /\ call[c].plan = p
    <3>1. SaveFails(c)
      BY <2>2 DEF FileFails
    <3>2. call[c].mem = file[p]
      BY <1>4, <2>2, <3>1 DEF SaveFails, TypeOK, History
    <3>3. QED
      BY <2>1, <2>2, <3>2 DEF Told, CallTold
  <2>3. CASE ~(call[c].at \in {"undo", "destroy"} /\ call[c].plan = p)
    <3>1. NotUndoing(p)
      BY <1>2, <1>4, <2>3 DEF NotUndoing
    <3>2. QED
      BY <1>4, <2>1, <3>1 DEF Told, StoreTold
  <2>4. QED
    BY <2>2, <2>3
<1>5. StoreTold'
  BY <1>1, <1>4 DEF Told, StoreTold, Truth, TruthIn
<1>6. QED
  BY <1>3, <1>5 DEF Told

(* Every step keeps files, copies and what happened in agreement.           *)
LEMMA NextTold ==
  ASSUME SingleProcess, TypeOK, Placed, Locked, Once, Followed, Told, [Next]_vars
  PROVE  Told'
<1>1. ASSUME NEW c \in Calls, CallStep(c) \/ BeginCreate(c) PROVE Told'
  BY <1>1, CreateTold, ApplyTold, RunTold, RollbackTold, FailsTold DEF CallStep, ApplyStep
<1>2. ASSUME NEW c \in Calls, NEW p \in Plans, NEW label \in {"apply", "rollback"},
             Claim(c, p, label)
      PROVE  Told'
  <2> DEFINE new == [Idle EXCEPT !.at = label, !.plan = p]
  <2>1. new.at \in {"apply", "rollback"} /\ call[c].at = "idle"
    BY <1>2 DEF Idle, Claim, At
  <2>2. CallTold(new)
    BY <2>1 DEF CallTold
  <2>3. QED
    BY <1>2, <2>1, <2>2, QuietTold DEF Claim, store, Telling
<1>3. CASE (\E p \in Plans : Age(p)) \/ Outside \/ UNCHANGED vars
  <2>1. UNCHANGED <<file, call>>
    BY <1>3 DEF Age, Outside, vars, store
  <2>2. /\ hist'.ran = hist.ran /\ hist'.landed = hist.landed /\ hist'.undone = hist.undone
        /\ hist'.undoneAgain = hist.undoneAgain /\ hist'.unsaved = hist.unsaved
    BY <1>3 DEF Age, Outside, vars, TypeOK, History
  <2>3. QED
    BY <2>1, <2>2 DEF Told, StoreTold, CallTold, NotUndoing, Truth, TruthIn
<1>4. QED
  BY <1>1, <1>2, <1>3, CrashTold DEF Next

(* The whole invariant of one server.                                      *)
Agreed == TypeOK /\ Placed /\ Locked /\ Once /\ Followed /\ Told

(* It holds from the start and is kept.                                    *)
THEOREM Agreement ==
  ASSUME SingleProcess
  PROVE  Spec => []Agreed
<1>1. Init => Agreed
  <2> SUFFICES ASSUME Init PROVE Agreed
    OBVIOUS
  <2>1. TypeOK /\ Placed /\ \A c \in Calls : CallTold(call[c]) /\ CallFile(call[c])
    BY InitTyped, NothingTold DEF Init, CallFile, Idle
  <2>2. Locked
    BY DEF Init, Locked, Idle, Busy, Applying, RollingBack
  <2>3. Once
    BY IdleOnce DEF Init, Once, StoreOnce, Absent
  <2>4. StoreTold
    BY DEF Init, StoreTold, Absent
  <2>5. QED
    BY <2>1, <2>2, <2>3, <2>4 DEF Agreed, Followed, Told
<1>2. Agreed /\ [Next]_vars /\ (TypeOK /\ Placed)' => Agreed'
  BY NextLocked, NextOnce, NextFollows, NextTold DEF Agreed
<1>3. QED
  BY <1>1, <1>2, TypeCorrect, PTL DEF Spec

(* However often a rollback is refused, fails and is started once more, an   *)
(* undo that worked is run again only on a plan over which a call died or   *)
(* could not save: what was undone is marked so in the file, if the file    *)
(* was written.  (rollback_plan, _stop_refused, save_plan)                   *)
THEOREM UndosRunOnce ==
  ASSUME SingleProcess
  PROVE  Spec => []UndoneTwiceOnlyIfUnsaved
<1>1. Agreed => UndoneTwiceOnlyIfUnsaved
  BY DEF Agreed, Told, StoreTold, UndoneTwiceOnlyIfUnsaved
<1>2. QED
  BY <1>1, Agreement, PTL

(* The file of a failed plan nobody works on says which steps landed and    *)
(* are not undone, through refused, raised and repeated undos, unless a     *)
(* call died over the plan or could not save it: it is all that a later     *)
(* rollback has to go by.                                                  *)
(* (_apply_plan, _stop_refused, save_plan)                                   *)
THEOREM FilesTellTheTruth ==
  ASSUME SingleProcess
  PROVE  Spec => []FailedFileTellsTheTruth
<1>1. Agreed => FailedFileTellsTheTruth
  <2> SUFFICES ASSUME Agreed, NEW p \in Plans, file[p].status = "failed", WorkingOn(p) = {},
                      p \notin hist.unsaved
               PROVE  Truth(p, file[p])
    BY DEF FailedFileTellsTheTruth, Truth, TruthIn
  <2>1. NotUndoing(p)
    BY DEF NotUndoing, WorkingOn, RollingBack
  <2>2. QED
    BY <2>1 DEF Agreed, Told, StoreTold
<1>2. QED
  BY <1>1, Agreement, PTL

-----------------------------------------------------------------------------
(* The status flow                                                         *)

(* A step of the status flow, or none.                                     *)
Flows == Lifecycle!Next \/ UNCHANGED Lifecycle!vars

(* The one call that works on a plan is the plan's worker.                  *)
LEMMA WorkerIs ==
  ASSUME SingleProcess, Locked, NEW c \in Calls, call[c].at \in Busy
  PROVE  Worker(call[c].plan) = Doing(call[c].at)
<1>1. WorkingOn(call[c].plan) = {c}
  BY Alone DEF WorkingOn, Busy
<1>2. QED
  BY <1>1 DEF Worker

(* So it is after the step.                                                *)
LEMMA WorkerBecomes ==
  ASSUME SingleProcess, Locked', NEW c \in Calls, call'[c].at \in Busy
  PROVE  Worker(call[c].plan)' = Doing(call'[c].at)
<1>1. \A d \in Calls : d # c /\ call'[d].at \in Busy => call'[d].plan # call'[c].plan
  BY DEF SingleProcess, Locked
<1>2. WorkingOn(call[c].plan)' = {c}
  BY <1>1 DEF WorkingOn, Busy
<1>3. QED
  BY <1>2 DEF Worker

(* A plan no call works on has no worker.                                  *)
LEMMA NoWorker ==
  ASSUME NEW p, \A c \in Calls : call[c].at \in Busy => call[c].plan # p
  PROVE  Worker(p) = "none"
<1>1. WorkingOn(p) = {}
  BY DEF WorkingOn, Busy
<1>2. QED
  BY <1>1 DEF Worker

(* A call that works on another plan, before and after, is not the worker. *)
LEMMA WorkerSame ==
  ASSUME TypeOK, NEW c \in Calls, NEW q \in Plans, \A d \in Calls \ {c} : call'[d] = call[d],
         ~(call[c].at \in Busy /\ call[c].plan = q),
         ~(call'[c].at \in Busy /\ call'[c].plan = q)
  PROVE  Worker(q)' = Worker(q)
<1>1. WorkingOn(q)' = WorkingOn(q) /\ c \notin WorkingOn(q)
  BY DEF WorkingOn, Busy
<1>2. CASE WorkingOn(q) = {}
  BY <1>1, <1>2 DEF Worker
<1>3. CASE WorkingOn(q) # {}
  <2> DEFINE d == CHOOSE x \in WorkingOn(q) : TRUE
  <2>1. d \in WorkingOn(q)
    BY <1>3
  <2>2. d \in Calls \ {c}
    BY <1>1, <2>1 DEF WorkingOn
  <2>3. call'[d] = call[d]
    BY <2>2
  <2>4. Worker(q) = Doing(call[d].at)
    BY <1>3 DEF Worker
  <2>5. Worker(q)' = Doing(call'[d].at)
    BY <1>1, <1>3 DEF Worker
  <2>6. QED
    BY <2>3, <2>4, <2>5
<1>4. QED
  BY <1>2, <1>3

(* A change of one plan's status and worker, seen from PlanLifecycle.       *)
LEMMA BecomesFlow ==
  ASSUME NEW p \in Plans, NEW s, NEW w, UNCHANGED created,
         \A q \in Plans : file'[q].status = IF q = p THEN s ELSE file[q].status,
         \A q \in Plans : Worker(q)' = IF q = p THEN w ELSE Worker(q)
  PROVE  Lifecycle!Become(p, s, w)
BY DEF Lifecycle!Become

(* A step that changes neither is no step of the flow.                      *)
LEMMA Silent ==
  ASSUME UNCHANGED created, \A q \in Plans : file'[q].status = file[q].status,
         \A q \in Plans : Worker(q)' = Worker(q)
  PROVE  Flows
BY DEF Flows, Lifecycle!vars

(* A step of the call that works on p.                                     *)
LEMMA MovesFlow ==
  ASSUME SingleProcess, TypeOK, Placed, Locked, Locked', NEW c \in Calls, NEW new,
         Proceed(c, new), call[c].at \in Busy, NEW p \in Plans, call[c].plan = p,
         new.at = "idle" \/ (new.at \in Busy /\ new.plan = p),
         UNCHANGED created, \A q \in Plans : q # p => file'[q] = file[q],
         NEW s, file'[p].status = s,
         NEW w, w = IF new.at = "idle" THEN "none" ELSE Doing(new.at)
  PROVE  Lifecycle!Become(p, s, w)
<1>1. \A q \in Plans : file'[q].status = IF q = p THEN s ELSE file[q].status
  OBVIOUS
<1>2. call'[c] = new /\ \A d \in Calls \ {c} : call'[d] = call[d]
  BY Proceeds
<1>3. ASSUME NEW q \in Plans, q # p PROVE Worker(q)' = Worker(q)
  <2>1. ~(new.at \in Busy /\ new.plan = q)
    BY <1>3 DEF Busy, Applying, RollingBack
  <2>2. QED
    BY <1>2, <1>3, <2>1, WorkerSame
<1>4. Worker(p)' = w
  <2>1. CASE new.at = "idle"
    <3>1. \A d \in Calls : call'[d].at \in Busy => call'[d].plan # p
      BY <1>2, <2>1, Alone DEF Busy, Applying, RollingBack
    <3>2. QED
      BY <2>1, <3>1 DEF Worker, WorkingOn, Busy
  <2>2. CASE new.at \in Busy /\ new.plan = p
    <3>1. Worker(call[c].plan)' = Doing(new.at)
      BY <1>2, <2>2, WorkerBecomes
    <3>2. new.at # "idle" /\ call'[c].plan = p
      BY <1>2, <2>2 DEF Busy, Applying, RollingBack
    <3>3. QED
      BY <3>1, <3>2
  <2>3. QED
    BY <2>1, <2>2
<1>5. \A q \in Plans : Worker(q)' = IF q = p THEN w ELSE Worker(q)
  BY <1>3, <1>4
<1>6. QED
  BY <1>1, <1>5, BecomesFlow

(* What PlanLifecycle sees of the places of a call.                         *)
LEMMA Doings ==
  /\ Doing("apply") = "apply" /\ Doing("mark") = "apply"
  /\ Doing("run") = "steps" /\ Doing("record") = "steps" /\ Doing("settle") = "steps"
  /\ Doing("discard") = "done" /\ Doing("rollback") = "rollback"
  /\ Doing("undo") = "undo" /\ Doing("destroy") = "undo"
BY DEF Doing

(* A step of the call that works on p which writes nothing and goes on in   *)
(* the same part of its work.                                              *)
LEMMA StaysSilent ==
  ASSUME SingleProcess, TypeOK, Placed, Locked, Locked', NEW c \in Calls, NEW new,
         Proceed(c, new), call[c].at \in Busy, new.at \in Busy, new.plan = call[c].plan,
         Doing(new.at) = Doing(call[c].at), UNCHANGED <<file, created>>
  PROVE  Flows
<1>1. call'[c] = new /\ \A d \in Calls \ {c} : call'[d] = call[d]
  BY Proceeds
<1>2. ASSUME NEW q \in Plans PROVE Worker(q)' = Worker(q)
  <2>1. CASE q = call[c].plan
    <3>1. Worker(call[c].plan)' = Doing(new.at) /\ Worker(call[c].plan) = Doing(call[c].at)
      BY <1>1, WorkerBecomes, WorkerIs
    <3>2. QED
      BY <1>1, <2>1, <3>1
  <2>2. CASE q # call[c].plan
    BY <1>1, <2>2, WorkerSame
  <2>3. QED
    BY <2>1, <2>2
<1>3. QED
  BY <1>2, Silent

(* A step of the flow is a step.                                           *)
LEMMA FlowSteps ==
  ASSUME NEW p \in Plans,
         \/ Lifecycle!Create(p) \/ Lifecycle!Release(p) \/ Lifecycle!StartSteps(p)
         \/ Lifecycle!Complete(p) \/ Lifecycle!Fail(p) \/ Lifecycle!Discard(p)
         \/ Lifecycle!StartUndo(p) \/ Lifecycle!Sweep(p)
         \/ \E w \in Lifecycle!Worker : Lifecycle!Claim(p, w)
         \/ \E s \in Lifecycle!Status : Lifecycle!EndUndo(p, s)
  PROVE  Flows
BY DEF Flows, Lifecycle!Next

(* A call that finds the plan missing or in another status, or that a file  *)
(* error ends, lets go of it.                                              *)
LEMMA LeavesFlow ==
  ASSUME SingleProcess, TypeOK, Placed, Locked, Locked', NEW c \in Calls, Proceed(c, Idle),
         call[c].at \in Busy, UNCHANGED <<file, created>>
  PROVE  Flows
<1>1. Idle.at = "idle"
  BY DEF Idle
<1>2. PICK p \in Plans : call[c].plan = p
  BY <1>1 DEF Placed
<1>3. PICK s : file[p].status = s
  OBVIOUS
<1>4. Lifecycle!Become(p, s, "none")
  BY <1>1, <1>2, <1>3, MovesFlow
<1>5. Worker(p) # "none"
  BY <1>1, <1>2, WorkerIs, Doings DEF Busy, Applying, RollingBack
<1>6. Lifecycle!Release(p)
  BY <1>3, <1>4, <1>5 DEF Lifecycle!Release
<1>7. QED
  BY <1>6, FlowSteps

(* The file a busy call writes is its own plan's.                           *)
LEMMA WritesOwn ==
  ASSUME TypeOK, NEW p \in Plans, NEW plan, file' = [file EXCEPT ![p] = plan]
  PROVE  file'[p] = plan /\ \A q \in Plans : q # p => file'[q] = file[q]
BY DEF TypeOK

(* apply_plan moves the plan along the flow.                                *)
LEMMA ApplyFlow ==
  ASSUME SingleProcess, Agreed, Locked', NEW c \in Calls, ApplyStep(c)
  PROVE  Flows
<1> USE DEF Agreed
<1> DEFINE mem == call[c].mem
<1>0. PICK p \in Plans : call[c].plan = p
  BY CallTyped DEF ApplyStep, ApplyLoad, ApplyMark, StepRaises, RunCreate, RunPowerOn,
     RunPowerOff, RunReconfigure, RecordUuid, ApplyComplete, ApplyDiscard, ApplySettle, At,
     Busy, Applying
<1>1. /\ call[c] \in Call /\ mem \in Plan /\ call[c].plan = p /\ call[c].at \in Busy
      /\ CallOnce(call[c]) /\ CallFile(call[c]) /\ Idle.at = "idle"
  BY <1>0, CallTyped DEF ApplyStep, ApplyLoad, ApplyMark, StepRaises, RunCreate, RunPowerOn,
     RunPowerOff, RunReconfigure, RecordUuid, ApplyComplete, ApplyDiscard, ApplySettle, At,
     Busy, Applying, Once, Followed, Idle
<1>2. CASE ApplyLoad(c)
  <2> DEFINE new == [call[c] EXCEPT !.at = "mark", !.mem = [file[p] EXCEPT !.status = "executing"]]
  <2>1. new.at = "mark" /\ new.plan = p
    BY <1>1 DEF Call
  <2>2. CASE Proceed(c, new)
    BY <1>1, <1>2, <2>1, <2>2, StaysSilent, Doings DEF ApplyLoad, At, store, Busy, Applying
  <2>3. CASE Proceed(c, Idle)
    BY <1>1, <1>2, <2>3, LeavesFlow DEF ApplyLoad, store
  <2>4. QED
    BY <1>1, <1>2, <2>2, <2>3 DEF ApplyLoad, Leave
<1>3. CASE ApplyMark(c)
  <2> DEFINE new == [call[c] EXCEPT !.at = "run", !.pos = 1]
  <2>1. new.at = "run" /\ new.plan = p /\ new.at \in Busy
    BY <1>1 DEF Call, Busy, Applying
  <2>2. /\ file'[p] = mem /\ \A q \in Plans : q # p => file'[q] = file[q]
        /\ UNCHANGED created
    BY <1>1, <1>3, WritesOwn DEF ApplyMark, Save
  <2>3. /\ mem.status = "executing" /\ p \in created
        /\ file[p].status \in {"pending", "absent"} /\ call[c].at = "mark"
    BY <1>1, <1>3 DEF CallOnce, CallFile, ApplyMark, At
  <2>4. Worker(p) = "apply" /\ Lifecycle!Become(p, "executing", "steps")
    <3>1. Worker(p) = "apply"
      BY <1>1, <2>3, WorkerIs, Doings
    <3>2. file'[p].status = "executing" /\ Doing(new.at) = "steps" /\ new.at # "idle"
      BY <2>1, <2>2, <2>3, Doings
    <3>3. Proceed(c, new)
      BY <1>3 DEF ApplyMark
    <3> HIDE DEF new
    <3>4. Lifecycle!Become(p, "executing", "steps")
      BY <1>1, <2>1, <2>2, <3>2, <3>3, MovesFlow
    <3>5. QED
      BY <3>1, <3>4
  <2>5. Lifecycle!StartSteps(p)
    BY <1>1, <2>3, <2>4 DEF Lifecycle!StartSteps, Lifecycle!OnFile
  <2>6. QED
    BY <2>5, FlowSteps
<1>4. CASE StepRaises(c) \/ RunCreate(c) \/ RunPowerOn(c) \/ RunPowerOff(c) \/ RunReconfigure(c)
  <2>1. call[c].at = "run" /\ UNCHANGED <<file, created>>
    BY <1>4 DEF StepRaises, RunCreate, RunPowerOn, RunPowerOff, RunReconfigure, At, Ran, store
  <2>2. Proceed(c, Succeeded(c)) \/ Proceed(c, StepFailed(c))
    BY <1>4 DEF StepRaises, RunCreate, RunPowerOn, RunPowerOff, RunReconfigure, Ran
  <2>3. Succeeded(c).at \in {"run", "record"} /\ Succeeded(c).plan = p
    BY <1>1 DEF Succeeded, Call
  <2>4. StepFailed(c).at = "settle" /\ StepFailed(c).plan = p
    BY <1>1 DEF StepFailed, Call
  <2>5. {"run", "record", "settle"} \subseteq Busy
    BY DEF Busy, Applying
  <2>6. QED
    BY <1>1, <2>1, <2>2, <2>3, <2>4, <2>5, StaysSilent, Doings
<1>5. CASE RecordUuid(c)
  <2> DEFINE new(u) == [call[c] EXCEPT !.mem = Recorded(@, call[c].pos, u),
                                       !.pos = @ + 1, !.at = "run"]
  <2>1. PICK u \in Uuids \cup {NoUuid} : Proceed(c, new(u))
    BY <1>5 DEF RecordUuid
  <2>2. new(u).at = "run" /\ new(u).plan = p
    BY <1>1 DEF Call
  <2>3. call[c].at = "record" /\ "run" \in Busy /\ UNCHANGED <<file, created>>
    BY <1>5 DEF RecordUuid, At, Busy, Applying, store
  <2>4. QED
    BY <1>1, <2>1, <2>2, <2>3, StaysSilent, Doings
<1>6. CASE ApplyComplete(c)
  <2> DEFINE new  == [call[c] EXCEPT !.at = "discard"]
             done == [mem EXCEPT !.status = "completed"]
  <2>1. new.at = "discard" /\ new.plan = p /\ new.at \in Busy /\ done.status = "completed"
    BY <1>1 DEF Call, Busy, Applying, Plan
  <2>2. /\ file'[p] = done /\ \A q \in Plans : q # p => file'[q] = file[q]
        /\ UNCHANGED created
    BY <1>1, <1>6, WritesOwn DEF ApplyComplete, Save
  <2>3. p \in created /\ file[p].status \in {"executing", "absent"} /\ call[c].at = "run"
    BY <1>1, <1>6 DEF CallOnce, CallFile, ApplyComplete, At
  <2>4. Worker(p) = "steps" /\ Lifecycle!Become(p, "completed", "done")
    <3>1. Worker(p) = "steps"
      BY <1>1, <2>3, WorkerIs, Doings
    <3>2. file'[p].status = "completed" /\ Doing(new.at) = "done" /\ new.at # "idle"
      BY <2>1, <2>2, Doings
    <3>3. Proceed(c, new)
      BY <1>6 DEF ApplyComplete
    <3> HIDE DEF new
    <3>4. Lifecycle!Become(p, "completed", "done")
      BY <1>1, <2>1, <2>2, <3>2, <3>3, MovesFlow
    <3>5. QED
      BY <3>1, <3>4
  <2>5. Lifecycle!Complete(p)
    BY <1>1, <2>3, <2>4 DEF Lifecycle!Complete, Lifecycle!OnFile
  <2>6. QED
    BY <2>5, FlowSteps
<1>7. CASE ApplyDiscard(c)
  <2>1. /\ file'[p] = Absent /\ Absent.status = "absent" /\ UNCHANGED created
        /\ \A q \in Plans : q # p => file'[q] = file[q]
    BY <1>1, <1>7, WritesOwn DEF ApplyDiscard, Unlink, Absent
  <2>2. p \in created /\ file[p].status \in {"completed", "absent"} /\ call[c].at = "discard"
    BY <1>1, <1>7 DEF CallFile, ApplyDiscard, At
  <2>3. Worker(p) = "done" /\ Lifecycle!Become(p, "absent", "none")
    BY <1>1, <1>7, <2>1, <2>2, WorkerIs, MovesFlow, Doings DEF ApplyDiscard, Leave
  <2>4. Lifecycle!Discard(p)
    BY <1>1, <2>2, <2>3 DEF Lifecycle!Discard, Lifecycle!OnFile
  <2>5. QED
    BY <2>4, FlowSteps
<1>8. CASE ApplySettle(c)
  <2> DEFINE end == Settled(mem, call[c].pos)
  <2>1. end.status = "failed"
    BY <1>1 DEF Settled, Plan
  <2>2. /\ file'[p] = end /\ UNCHANGED created
        /\ \A q \in Plans : q # p => file'[q] = file[q]
    BY <1>1, <1>8, WritesOwn DEF ApplySettle, Save
  <2>3. p \in created /\ file[p].status \in {"executing", "absent"} /\ call[c].at = "settle"
    BY <1>1, <1>8 DEF CallOnce, CallFile, ApplySettle, At
  <2>4. Worker(p) = "steps" /\ Lifecycle!Become(p, "failed", "none")
    BY <1>1, <1>8, <2>1, <2>2, <2>3, WorkerIs, MovesFlow, Doings DEF ApplySettle, Leave
  <2>5. Lifecycle!Fail(p)
    BY <1>1, <2>3, <2>4 DEF Lifecycle!Fail, Lifecycle!OnFile
  <2>6. QED
    BY <2>5, FlowSteps
<1>9. QED
  BY <1>2, <1>3, <1>4, <1>5, <1>6, <1>7, <1>8 DEF ApplyStep

(* rollback_plan takes it from failed to rolled back, or leaves it failed.  *)
LEMMA RollbackFlow ==
  ASSUME SingleProcess, Agreed, Locked', NEW c \in Calls, RollbackStep(c)
  PROVE  Flows
<1> USE DEF Agreed
<1> DEFINE mem == call[c].mem
<1>0. PICK p \in Plans : call[c].plan = p
  BY CallTyped DEF RollbackStep, RollbackLoad, UndoPass, UndoRefused, UndoRaises, UndoPowerOn,
     UndoPowerOff, UndoIdentify, UndoMismatch, UndoDestroy, UndoPowerOffRefused,
     RollbackFinish, At, Busy, RollingBack
<1>1. /\ call[c] \in Call /\ mem \in Plan /\ call[c].plan = p /\ call[c].at \in Busy
      /\ CallOnce(call[c]) /\ CallFile(call[c]) /\ Idle.at = "idle"
      /\ {"undo", "destroy"} \subseteq Busy
  BY <1>0, CallTyped DEF RollbackStep, RollbackLoad, UndoPass, UndoRefused, UndoRaises, UndoPowerOn,
         UndoPowerOff, UndoIdentify, UndoMismatch, UndoDestroy, UndoPowerOffRefused,
         RollbackFinish, At, Busy, RollingBack, Once, Followed, Idle
<1>2. CASE RollbackLoad(c)
  <2> DEFINE new == [call[c] EXCEPT !.at = "undo", !.mem = file[p], !.pos = N]
  <2>1. new.at = "undo" /\ new.plan = p /\ call[c].at = "rollback"
    BY <1>1, <1>2 DEF Call, RollbackLoad, At
  <2>2. CASE file[p].status = "failed" /\ Proceed(c, new)
    <3>1. UNCHANGED <<file, created>>
      BY <1>2 DEF RollbackLoad, store
    <3>2. Worker(p) = "rollback" /\ Lifecycle!Become(p, "failed", "undo")
      <4>1. Worker(p) = "rollback"
        BY <1>1, <2>1, WorkerIs, Doings
      <4>2. file'[p].status = "failed" /\ Doing(new.at) = "undo" /\ new.at # "idle"
            /\ new.at \in Busy
        BY <1>1, <2>1, <2>2, <3>1, Doings
      <4> HIDE DEF new
      <4>3. Lifecycle!Become(p, "failed", "undo")
        BY <1>1, <2>1, <2>2, <3>1, <4>2, MovesFlow
      <4>4. QED
        BY <4>1, <4>3
    <3>3. Lifecycle!StartUndo(p)
      BY <1>1, <2>2, <3>2 DEF Lifecycle!StartUndo
    <3>4. QED
      BY <3>3, FlowSteps
  <2>3. CASE Proceed(c, Idle)
    BY <1>1, <1>2, <2>3, LeavesFlow DEF RollbackLoad, store
  <2>4. QED
    BY <1>1, <1>2, <2>2, <2>3 DEF RollbackLoad, Leave
<1>3. CASE UndoPass(c) \/ UndoIdentify(c) \/ UndoRaises(c) \/ UndoPowerOn(c) \/ UndoPowerOff(c)
           \/ UndoDestroy(c)
  <2>1. call[c].at \in {"undo", "destroy"} /\ UNCHANGED <<file, created>>
    BY <1>3 DEF UndoPass, UndoIdentify, UndoRaises, UndoPowerOn, UndoPowerOff, UndoDestroy, At,
                Undone, store
  <2>2. PICK new : /\ Proceed(c, new) /\ new.plan = p
                   /\ new.at \in {"undo", "destroy"}
    <3>1. CASE UndoPass(c)
      <4> DEFINE new == [call[c] EXCEPT !.pos = @ - 1]
      <4>1. new.plan = p /\ new.at = "undo"
        BY <1>1, <3>1 DEF Call, UndoPass, At
      <4>2. QED
        BY <3>1, <4>1 DEF UndoPass
    <3>2. CASE UndoIdentify(c)
      <4> DEFINE new(u) == [call[c] EXCEPT !.at = "destroy", !.vm = u]
      <4>1. PICK u \in Uuids : Proceed(c, new(u))
        BY <3>2 DEF UndoIdentify
      <4>2. new(u).plan = p /\ new(u).at = "destroy"
        BY <1>1 DEF Call
      <4>3. QED
        BY <4>1, <4>2
    <3>3. CASE UndoRaises(c) \/ UndoPowerOn(c) \/ UndoPowerOff(c) \/ UndoDestroy(c)
      <4>1. Proceed(c, UndoDone(c)) \/ Proceed(c, UndoFailed(c))
        BY <3>3 DEF UndoRaises, UndoPowerOn, UndoPowerOff, UndoDestroy, Undone
      <4>2. UndoDone(c).at = "undo" /\ UndoDone(c).plan = p
        BY <1>1 DEF UndoDone, Call
      <4>3. UndoFailed(c).at = "undo" /\ UndoFailed(c).plan = p
        BY <1>1 DEF UndoFailed, Call
      <4>4. QED
        BY <4>1, <4>2, <4>3
    <3>4. QED
      BY <1>3, <3>1, <3>2, <3>3
  <2>3. QED
    BY <1>1, <2>1, <2>2, StaysSilent, Doings
<1>4. CASE UndoRefused(c) \/ UndoMismatch(c) \/ UndoPowerOffRefused(c) \/ RollbackFinish(c)
  <2> DEFINE done == [mem EXCEPT !.status = "rolled_back"]
  <2>1. /\ call[c].at \in {"undo", "destroy"} /\ Proceed(c, Idle)
        /\ Save(p, mem) \/ Save(p, done)
    BY <1>1, <1>4 DEF UndoRefused, UndoMismatch, UndoPowerOffRefused, RollbackFinish, StopRefused,
                Leave, At
  <2>2. /\ file'[p] = mem \/ file'[p] = done
        /\ \A q \in Plans : q # p => file'[q] = file[q]
        /\ UNCHANGED created
    BY <1>1, <2>1, WritesOwn DEF Save
  <2>3. mem.status = "failed" /\ p \in created /\ file[p].status \in {"failed", "absent"}
    BY <1>1, <2>1 DEF CallOnce, CallFile
  <2>4. file'[p].status \in {"failed", "rolled_back"}
    BY <1>1, <2>2, <2>3 DEF Plan
  <2>5. Worker(p) = "undo" /\ Lifecycle!Become(p, file'[p].status, "none")
    BY <1>1, <2>1, <2>2, WorkerIs, MovesFlow, Doings
  <2>6. Lifecycle!EndUndo(p, file'[p].status) /\ file'[p].status \in Lifecycle!Status
    BY <1>1, <2>3, <2>4, <2>5 DEF Lifecycle!EndUndo, Lifecycle!OnFile, Lifecycle!Status
  <2>7. QED
    BY <2>6, FlowSteps
<1>5. QED
  BY <1>2, <1>3, <1>4 DEF RollbackStep

(* create_plan makes a plan pending or sweeps one, whoever works on it.     *)
LEMMA CreateFlow ==
  ASSUME Agreed, NEW c \in Calls, CreateStep(c) \/ BeginCreate(c)
  PROVE  Flows
<1> USE DEF Agreed
<1>1. call[c].at \notin Busy /\ call[c] \in Call
  BY DEF CreateStep, BeginCreate, SweepUnlink, CreateRefused, SweepStat, WritePlan, At,
         Busy, Applying, RollingBack, TypeOK
<1>2. ASSUME NEW new, Proceed(c, new), new.at \notin Busy
      PROVE  \A q \in Plans : Worker(q)' = Worker(q)
  BY <1>1, <1>2, Proceeds, WorkerSame
<1>3. Idle.at \notin Busy
  BY DEF Idle, Busy, Applying, RollingBack
<1>4. CASE \E p \in Plans : WritePlan(c, p)
  <2>1. PICK p \in Plans : WritePlan(c, p)
    BY <1>4
  <2>2. \A q \in Plans : Worker(q)' = Worker(q)
    BY <1>2, <1>3, <2>1 DEF WritePlan
  <2>3. \A q \in Plans : file'[q].status = IF q = p THEN "pending" ELSE file[q].status
    BY <2>1 DEF WritePlan, TypeOK, Pending, Absent
  <2>4. Lifecycle!Create(p)
    BY <2>1, <2>2, <2>3 DEF Lifecycle!Create, WritePlan
  <2>5. QED
    BY <2>4, FlowSteps
<1>5. CASE SweepUnlink(c)
  <2> DEFINE new == [call[c] EXCEPT !.at = "glob", !.plan = NoPlan]
  <2>1. new.at = "glob"
    BY <1>1 DEF Call
  <2>2. \A q \in Plans : Worker(q)' = Worker(q)
    BY <1>2, <1>5, <2>1 DEF SweepUnlink, Busy, Applying, RollingBack
  <2>3. PICK p \in Plans : call[c].plan = p
    BY <1>5 DEF SweepUnlink, At, Placed
  <2>4. \A q \in Plans : file'[q].status = IF q = p THEN "absent" ELSE file[q].status
    BY <1>5, <2>3 DEF SweepUnlink, Unlink, TypeOK, Absent
  <2>5. UNCHANGED created
    BY <1>5 DEF SweepUnlink, Unlink
  <2>6. Lifecycle!Sweep(p)
    BY <2>2, <2>4, <2>5 DEF Lifecycle!Sweep, Lifecycle!Become
  <2>7. QED
    BY <2>6, FlowSteps
<1>6. CASE BeginCreate(c)
  <2> DEFINE new == [Idle EXCEPT !.at = "glob", !.todo = {p \in Plans : file[p].status # "absent"}]
  <2>1. new.at = "glob"
    BY DEF Idle
  <2>2. \A q \in Plans : Worker(q)' = Worker(q)
    BY <1>2, <1>6, <2>1 DEF BeginCreate, Busy, Applying, RollingBack
  <2>3. QED
    BY <1>6, <2>2, Silent DEF BeginCreate, store
<1>7. CASE CreateRefused(c)
  BY <1>2, <1>3, <1>7, Silent DEF CreateRefused, store
<1>8. ASSUME NEW p \in Plans, SweepStat(c, p) PROVE Flows
  <2> DEFINE young == [call[c] EXCEPT !.todo = @ \ {p}]
             old   == [call[c] EXCEPT !.todo = @ \ {p}, !.at = "unlink", !.plan = p]
  <2>1. young.at = "glob" /\ old.at = "unlink"
    BY <1>1, <1>8 DEF Call, SweepStat, At
  <2>2. young.at \notin Busy /\ old.at \notin Busy
    BY <2>1 DEF Busy, Applying, RollingBack
  <2>3. Proceed(c, young) \/ Proceed(c, old) \/ Proceed(c, Idle)
    BY <1>8 DEF SweepStat
  <2>4. \A q \in Plans : Worker(q)' = Worker(q)
    BY <1>2, <1>3, <2>2, <2>3
  <2>5. QED
    BY <1>8, <2>4, Silent DEF SweepStat, store
<1>9. QED
  BY <1>4, <1>5, <1>6, <1>7, <1>8 DEF CreateStep

(* A claim makes its call the worker of a plan that had none.               *)
LEMMA ClaimFlow ==
  ASSUME SingleProcess, Agreed, Locked', NEW c \in Calls, NEW p \in Plans,
         NEW label \in {"apply", "rollback"}, Claim(c, p, label)
  PROVE  Flows
<1> USE DEF Agreed
<1> DEFINE new == [Idle EXCEPT !.at = label, !.plan = p]
<1>1. /\ call'[c].at = label /\ call'[c].plan = p /\ call[c].at = "idle"
      /\ \A d \in Calls \ {c} : call'[d] = call[d]
  <2>1. new.at = label /\ new.plan = p
    BY DEF Idle
  <2>2. QED
    BY <2>1, Proceeds DEF Claim, At
<1>2. label \in Busy /\ "idle" \notin Busy
  BY DEF Busy, Applying, RollingBack
<1>3. Worker(p) = "none"
  <2>1. \A d \in Calls : call[d].at \in Busy => call[d].plan # p
    BY PlanAssumption DEF Claim, Locked, SingleProcess
  <2>2. QED
    BY <2>1, NoWorker
<1>4. Worker(p)' = label
  <2>1. Worker(call[c].plan)' = Doing(label)
    BY <1>1, <1>2, WorkerBecomes
  <2>2. Doing(label) = label
    BY Doings
  <2>3. call'[c].plan = p
    BY <1>1
  <2>4. QED
    BY <2>1, <2>2, <2>3
<1>5. ASSUME NEW q \in Plans, q # p PROVE Worker(q)' = Worker(q)
  BY <1>1, <1>2, <1>5, WorkerSame
<1>6. UNCHANGED <<file, created>>
  BY DEF Claim, store
<1>7. Lifecycle!Claim(p, label) /\ label \in Lifecycle!Worker
  BY <1>3, <1>4, <1>5, <1>6 DEF Lifecycle!Claim, Lifecycle!Become, Lifecycle!Worker
<1>8. QED
  BY <1>7, FlowSteps

(* A crash of the server takes all the workers, one of another takes none.  *)
LEMMA CrashFlow ==
  ASSUME SingleProcess, Agreed, NEW r \in Procs, Crash(r)
  PROVE  Flows
<1>1. UNCHANGED <<file, created>> /\ \A d \in Calls : call'[d] = IF ProcOf[d] = r THEN Idle ELSE call[d]
  BY DEF Crash, store
<1>2. CASE \E d \in Calls : ProcOf[d] = r
  <2>1. \A d \in Calls : call'[d] = Idle
    BY <1>1, <1>2 DEF SingleProcess
  <2>2. ASSUME NEW q \in Plans PROVE Worker(q)' = "none"
    <3>1. WorkingOn(q)' = {}
      BY <2>1 DEF WorkingOn, Idle, Applying, RollingBack
    <3>2. QED
      BY <3>1 DEF Worker
  <2>3. Lifecycle!Crash
    BY <1>1, <2>2 DEF Lifecycle!Crash
  <2>4. QED
    BY <2>3 DEF Flows, Lifecycle!Next
<1>3. CASE \A d \in Calls : ProcOf[d] # r
  <2>1. \A d \in Calls : call'[d] = call[d]
    BY <1>1, <1>3
  <2>2. call' = call
    BY <2>1 DEF Crash, Agreed, TypeOK
  <2>3. QED
    BY <1>1, <2>2, Silent DEF Worker, WorkingOn
<1>4. QED
  BY <1>2, <1>3

(* One server implements the status flow of PlanLifecycle: at most one call *)
(* works on a plan, a plan is applied from pending only and undone from     *)
(* failed only, and every step of every call, sweep and crash moves a plan  *)
(* along that flow or leaves it where it is.                               *)
THEOREM ImplementsFlow ==
  ASSUME SingleProcess
  PROVE  Spec => ImplementsLifecycle
<1>1. Init => Lifecycle!Init
  <2> SUFFICES ASSUME Init PROVE Lifecycle!Init
    OBVIOUS
  <2>1. ASSUME NEW p \in Plans PROVE Worker(p) = "none" /\ file[p].status = "absent"
    <3>1. \A c \in Calls : call[c].at \notin Busy
      BY DEF Init, Idle, Busy, Applying, RollingBack
    <3>2. QED
      BY <3>1, NoWorker DEF Init, Absent
  <2>2. QED
    BY <2>1 DEF Init, Lifecycle!Init
<1>2. Agreed /\ Agreed' /\ [Next]_vars => [Lifecycle!Next]_(Lifecycle!vars)
  <2> SUFFICES ASSUME Agreed, Locked', [Next]_vars PROVE Flows
    BY DEF Flows, Agreed
  <2>1. ASSUME NEW c \in Calls, CallStep(c) \/ BeginCreate(c) PROVE Flows
    <3>1. ASSUME FileFails(c) \/ SaveFails(c) PROVE Flows
      BY <3>1, FailsLeaves, LeavesFlow DEF Agreed
    <3>2. QED
      BY <2>1, <3>1, CreateFlow, ApplyFlow, RollbackFlow DEF CallStep
  <2>2. ASSUME NEW c \in Calls, NEW p \in Plans, Claim(c, p, "apply") \/ Claim(c, p, "rollback")
        PROVE  Flows
    BY <2>2, ClaimFlow
  <2>3. CASE (\E p \in Plans : Age(p)) \/ Outside \/ UNCHANGED vars
    <3>1. UNCHANGED <<file, created>> /\ call' = call
      BY <2>3 DEF Age, Outside, vars, store
    <3>2. \A q \in Plans : Worker(q)' = Worker(q)
      BY <3>1 DEF Worker, WorkingOn
    <3>3. QED
      BY <3>1, <3>2, Silent
  <2>4. QED
    BY <2>1, <2>2, <2>3, CrashFlow DEF Next
<1>3. QED
  BY <1>1, <1>2, Agreement, PTL DEF Spec, ImplementsLifecycle, Lifecycle!Spec
=============================================================================
