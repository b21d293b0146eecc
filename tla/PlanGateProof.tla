---------------------------- MODULE PlanGateProof ----------------------------
(***************************************************************************)
(* The gate of the plans, for any plans, rules, VMs and changes of others: *)
(* it keeps its types, a doomed plan runs nothing, what is denied is not   *)
(* done, a check surprises nobody, and what is blocked stays blocked.      *)
(*                                                                         *)
(* The last two rest on a frame: what a step leaves of the vCenter is      *)
(* what it found, apart from what _changes says it changes, and a measure  *)
(* depends on nothing but what _depends_on says it reads, the file of an   *)
(* upload and the host of a migrate.  From one step to all steps of a call *)
(* the argument goes by the least step that would fail.                    *)
(***************************************************************************)
EXTENDS PlanGate, FiniteSetTheorems, WellFoundedInduction, TLAPS

-----------------------------------------------------------------------------
(* What a step does to the vCenter                                         *)

\* A UUID that no VM has, or one of a VM of that name.
Bears(v, n) == v \in {Unborn, Gone} \/ v.name = n

\* From x to y only VMs of the name n changed, and perhaps a file arrived.
VmWork(x, y, n) ==
  /\ y \in World
  /\ y.cluster = x.cluster /\ y.member = x.member /\ y.closed = x.closed
  /\ x.file => y.file
  /\ \A i \in Ids : y.vm[i] = x.vm[i] \/ (Bears(x.vm[i], n) /\ Bears(y.vm[i], n))

\* From x to y only the cluster and its member changed.
ClusterWork(x, y) ==
  /\ y \in World
  /\ y.vm = x.vm /\ y.closed = x.closed /\ y.file = x.file

(* A name that is found is the name of one VM that is there.               *)
LEMMA OneIsFound ==
  ASSUME NEW x \in World, NEW n, One(x, n)
  PROVE  /\ The(x, n) \in Ids /\ Named(x, n) = {The(x, n)}
         /\ The(x, n) \in Alive(x) /\ x.vm[The(x, n)] \in Vm /\ x.vm[The(x, n)].name = n
<1>1. IsFiniteSet(Named(x, n)) /\ Named(x, n) \subseteq Ids
  <2>1. Named(x, n) \subseteq Ids
      BY DEF Named, Alive
  <2> QED BY <2>1, FS_Subset, GateAssumption
<1>2. PICK i : Named(x, n) = {i}
    BY <1>1, FS_Singleton DEF One
<1>3. The(x, n) \in Ids /\ Named(x, n) = {The(x, n)}
    BY <1>1, <1>2 DEF The
<1> QED BY <1>3 DEF Named, Alive, World

(* A step on one VM that is there, or to be, is work on VMs of its name.   *)
LEMMA SetIsWork ==
  ASSUME NEW x \in World, NEW i \in Ids, NEW v \in Vm \cup {Gone}, NEW n,
         Bears(x.vm[i], n), Bears(v, n)
  PROVE  VmWork(x, Set(x, i, v), n)
<1>1. x.vm \in [Ids -> Vm \cup {Unborn, Gone}]
    BY DEF World
<1>2. [x.vm EXCEPT ![i] = v] \in [Ids -> Vm \cup {Unborn, Gone}]
    BY <1>1
<1>3. Set(x, i, v) = [x EXCEPT !.vm = [x.vm EXCEPT ![i] = v]]
    BY DEF Set
<1>4. /\ Set(x, i, v) \in World /\ Set(x, i, v).vm = [x.vm EXCEPT ![i] = v]
      /\ Set(x, i, v).cluster = x.cluster /\ Set(x, i, v).member = x.member
      /\ Set(x, i, v).closed = x.closed /\ Set(x, i, v).file = x.file
    BY <1>2, <1>3 DEF World
<1> QED BY <1>1, <1>4 DEF VmWork

(* A step that leaves everything alone is, too.                            *)
LEMMA NoWork == ASSUME NEW x \in World, NEW n PROVE VmWork(x, x, n)
BY DEF VmWork

(* What the steps on one VM do.  (ops/vm_lifecycle, ops/guest_ops)         *)
LEMMA RunsAreWork ==
  ASSUME NEW x \in World, NEW n, One(x, n), NEW y,
         \/ y \in RunPowerOn(x, The(x, n)) \/ y \in RunPowerOff(x, The(x, n))
         \/ y \in HardPowerOff(x, The(x, n)) \/ y \in RunReset(x, The(x, n))
         \/ y \in RunDownload(x, The(x, n)) \/ y \in RunGuest(x, The(x, n))
         \/ y \in RunSnapshot(x, The(x, n)) \/ y \in RunDropSnapshot(x, The(x, n))
         \/ y \in RunMigrate(x, The(x, n))
  PROVE  VmWork(x, y, n)
<1> DEFINE i == The(x, n)
<1>1. i \in Ids /\ x.vm[i] \in Vm /\ x.vm[i].name = n
    BY OneIsFound
<1> HIDE DEF i
<1>2. ASSUME NEW b \in BOOLEAN, y = [x EXCEPT !.vm[i].on = b] PROVE VmWork(x, y, n)
  <2>1. [x.vm[i] EXCEPT !.on = b] \in Vm /\ [x.vm[i] EXCEPT !.on = b].name = n
      BY <1>1 DEF Vm
  <2>2. y = Set(x, i, [x.vm[i] EXCEPT !.on = b])
      BY <1>2 DEF Set
  <2> QED BY <1>1, <2>1, <2>2, SetIsWork DEF Bears
<1>3. ASSUME NEW k \in 0..MaxSnaps, y = [x EXCEPT !.vm[i].snaps = k] PROVE VmWork(x, y, n)
  <2>1. [x.vm[i] EXCEPT !.snaps = k] \in Vm /\ [x.vm[i] EXCEPT !.snaps = k].name = n
      BY <1>1, <1>3 DEF Vm
  <2>2. y = Set(x, i, [x.vm[i] EXCEPT !.snaps = k])
      BY <1>3 DEF Set
  <2> QED BY <1>1, <2>1, <2>2, SetIsWork DEF Bears
<1>4. CASE y = [x EXCEPT !.file = TRUE]
    BY <1>4 DEF VmWork, World
<1>5. CASE y = x
    BY <1>5, NoWork
<1>6. CASE y \in RunSnapshot(x, i)
  <2>1. x.vm[i].snaps \in 0..MaxSnaps /\ x.vm[i].snaps < MaxSnaps
        /\ y = [x EXCEPT !.vm[i].snaps = x.vm[i].snaps + 1]
      BY <1>1, <1>6 DEF RunSnapshot, Vm
  <2>2. x.vm[i].snaps + 1 \in 0..MaxSnaps
      BY <2>1, GateAssumption
  <2> QED BY <2>1, <2>2, <1>3
<1>7. CASE y \in RunDropSnapshot(x, i)
  <2>1. y = [x EXCEPT !.vm[i].snaps = 0] /\ 0 \in 0..MaxSnaps
      BY <1>7, GateAssumption DEF RunDropSnapshot
  <2> QED BY <2>1, <1>3
<1>8. CASE y \in RunMigrate(x, i)
  <2>1. y = [x EXCEPT !.vm[i].away = FALSE]
      BY <1>8 DEF RunMigrate
  <2>2. [x.vm[i] EXCEPT !.away = FALSE] \in Vm /\ [x.vm[i] EXCEPT !.away = FALSE].name = n
      BY <1>1 DEF Vm
  <2>3. y = Set(x, i, [x.vm[i] EXCEPT !.away = FALSE])
      BY <2>1 DEF Set
  <2> QED BY <1>1, <2>2, <2>3, SetIsWork DEF Bears
<1> QED BY <1>2, <1>4, <1>5, <1>6, <1>7, <1>8
        DEF i, RunPowerOn, RunPowerOff, HardPowerOff, RunReset, RunDownload, RunGuest

(* What creating and deleting a VM do.                                     *)
LEMMA CreateDeleteAreWork ==
  ASSUME NEW x \in World, NEW s \in Step, NEW y,
         y \in RunCreate(x, s) \/ y \in RunDelete(x, s) \/ y \in UndoCreate(x, s)
  PROVE  VmWork(x, y, s.name)
<1>1. CASE y \in RunCreate(x, s)
  <2>1. PICK i \in Ids : /\ x.vm[i] = Unborn
                         /\ y = Set(x, i, [name |-> s.name, on |-> s.action = "deploy", snaps |-> 0,
                                        away |-> FALSE])
      BY <1>1 DEF RunCreate
  <2>2. [name |-> s.name, on |-> s.action = "deploy", snaps |-> 0, away |-> FALSE] \in Vm
      BY GateAssumption DEF Vm, Step
  <2> QED BY <2>1, <2>2, SetIsWork DEF Bears
<1>2. CASE y \in RunDelete(x, s) \/ y \in UndoCreate(x, s)
  <2>1. One(x, s.name) /\ y = Set(x, The(x, s.name), Gone)
      BY <1>2 DEF RunDelete, UndoCreate, Own
  <2> QED BY <2>1, OneIsFound, SetIsWork DEF Bears
<1> QED BY <1>1, <1>2

(* What the cluster steps do.  (ops/cluster_mgmt)                          *)
LEMMA ClusterRunsAreWork ==
  ASSUME NEW x \in World, NEW y,
         \/ y \in RunCreateCluster(x) \/ y \in RunDeleteCluster(x)
         \/ y \in RunAddHost(x) \/ y \in RunRemoveHost(x)
  PROVE  ClusterWork(x, y)
BY DEF RunCreateCluster, RunDeleteCluster, RunAddHost, RunRemoveHost, ClusterWork, World

(* What any step does: its work, whole or half.  (plan_executor._dispatch) *)
LEMMA StepIsWork ==
  ASSUME NEW x \in World, NEW s \in Step, NEW y, y \in Leaves(x, s) \cup LeavesHalf(x, s)
  PROVE  IF s.action \in OfCluster THEN ClusterWork(x, y) ELSE VmWork(x, y, s.name)
<1> DEFINE n == s.name
           Goal == IF s.action \in OfCluster THEN ClusterWork(x, y) ELSE VmWork(x, y, n)
<1> SUFFICES Goal
    OBVIOUS
<1>a. s.action \in Actions
    BY DEF Step
<1>w. ASSUME s.action \notin OfCluster, VmWork(x, y, n) PROVE Goal
    BY <1>w
<1>1. CASE y \in Leaves(x, s) /\ s.action \in OfCluster
  <2>1. \/ y \in RunCreateCluster(x) \/ y \in RunDeleteCluster(x)
        \/ y \in RunAddHost(x) \/ y \in RunRemoveHost(x)
      BY <1>1 DEF Leaves, OnVm, OfCluster
  <2> QED BY <1>1, <2>1, ClusterRunsAreWork
<1>2. CASE y \in Leaves(x, s) /\ s.action \in {"create", "deploy", "delete"}
  <2>1. y \in RunCreate(x, s) \/ y \in RunDelete(x, s) \/ y \in UndoCreate(x, s)
      BY <1>2 DEF Leaves, OnVm
  <2> QED BY <1>2, <2>1, <1>w, CreateDeleteAreWork DEF OfCluster
<1>3. CASE y \in Leaves(x, s) /\ s.action \notin OfCluster \cup {"create", "deploy", "delete"}
  <2>1. /\ One(x, n)
        /\ \/ y \in RunPowerOn(x, The(x, n)) \/ y \in RunPowerOff(x, The(x, n))
           \/ y \in HardPowerOff(x, The(x, n)) \/ y \in RunReset(x, The(x, n))
           \/ y \in RunDownload(x, The(x, n)) \/ y \in RunGuest(x, The(x, n))
           \/ y \in RunSnapshot(x, The(x, n)) \/ y \in RunDropSnapshot(x, The(x, n))
           \/ y \in RunMigrate(x, The(x, n))
      BY <1>3, <1>a DEF Leaves, OnVm, OfCluster, Actions, Measured, Unchecked, Refused
  <2> QED BY <1>3, <2>1, <1>w, RunsAreWork
<1>4. CASE y \in LeavesHalf(x, s)
  <2>1. CASE s.action = "deploy"
    <3>1. [s EXCEPT !.action = "create"] \in Step /\ [s EXCEPT !.action = "create"].name = n
        BY DEF Step, Actions, Unchecked
    <3>2. y \in RunCreate(x, [s EXCEPT !.action = "create"])
        BY <1>4, <2>1 DEF LeavesHalf, OnVm, Deletes
    <3> QED BY <2>1, <3>1, <3>2, <1>w, CreateDeleteAreWork DEF OfCluster
  <2>2. CASE Deletes(s)
    <3>1. One(x, n) /\ y \in HardPowerOff(x, The(x, n))
        BY <1>4, <2>2 DEF LeavesHalf, OnVm, Deletes
    <3> QED BY <2>2, <3>1, <1>w, RunsAreWork DEF OfCluster, Deletes
  <2>3. CASE s.action # "deploy" /\ ~Deletes(s)
    <3>1. y = x
        BY <1>4, <2>3 DEF LeavesHalf, OnVm
    <3> QED BY <3>1, NoWork DEF ClusterWork
  <2> QED BY <2>1, <2>2, <2>3
<1> QED BY <1>1, <1>2, <1>3, <1>4

(* What others do to the vCenter leaves a vCenter.                         *)
LEMMA ElsewhereTyped ==
  ASSUME NEW x \in World, NEW y, y \in Elsewhere(x)
  PROVE  y \in World
<1>1. ASSUME NEW i \in Alive(x), NEW v \in Vm \cup {Gone}, y = Set(x, i, v) PROVE y \in World
  <2>1. i \in Ids /\ Bears(x.vm[i], x.vm[i].name)
      BY DEF Alive, Bears
  <2>2. y = [x EXCEPT !.vm = [x.vm EXCEPT ![i] = v]]
      BY <1>1 DEF Set
  <2>3. [x.vm EXCEPT ![i] = v] \in [Ids -> Vm \cup {Unborn, Gone}]
      BY <2>1 DEF World
  <2> QED BY <2>2, <2>3 DEF World
<1>2. ASSUME NEW i \in Alive(x) PROVE x.vm[i] \in Vm
    BY DEF Alive, World
<1>3. ASSUME NEW i \in Alive(x), y = Switched(x, i) PROVE y \in World
  <2>1. [x.vm[i] EXCEPT !.on = ~@ /\ ~Shut(x, i)] \in Vm
      BY <1>2 DEF Vm, Shut
  <2>2. y = Set(x, i, [x.vm[i] EXCEPT !.on = ~@ /\ ~Shut(x, i)])
      BY <1>3 DEF Set, Switched
  <2> QED BY <1>1, <2>1, <2>2
<1>4. ASSUME NEW i \in Alive(x), y \in RunSnapshot(x, i) PROVE y \in World
  <2>1. /\ x.vm[i].snaps + 1 \in 0..MaxSnaps
        /\ y = [x EXCEPT !.vm[i].snaps = x.vm[i].snaps + 1]
      BY <1>2, <1>4, GateAssumption DEF RunSnapshot, Vm
  <2>2. [x.vm[i] EXCEPT !.snaps = x.vm[i].snaps + 1] \in Vm
      BY <1>2, <2>1 DEF Vm
  <2>3. y = Set(x, i, [x.vm[i] EXCEPT !.snaps = x.vm[i].snaps + 1])
      BY <2>1 DEF Set
  <2> QED BY <1>1, <2>2, <2>3
<1>5. CASE y = Maintained(x)
    BY <1>5 DEF Maintained, World
<1> QED BY <1>1, <1>3, <1>4, <1>5 DEF Elsewhere

-----------------------------------------------------------------------------
(* Types                                                                   *)

(* A measure passes, is a noop or blocks.                                  *)
LEMMA MeasureTyped ==
  ASSUME NEW x, NEW s, s.action \in Measured
  PROVE  Measure(x, s) \in {"pass", "noop", "blocked"}
BY DEF Measured, Measure, OfVm, MeasurePowerOff, MeasureState, MeasureDropSnapshot, MeasureGuest,
       MeasureUpload, MeasureMigrate, MeasureClusterDelete, MeasureHostRemoval, MeasureDelete, Verdict

(* What the preview says of a step.                                        *)
LEMMA GateTyped ==
  ASSUME NEW runs, NEW i, runs[i] \in Step
  PROVE  Gate(runs, i) \in Verdicts /\ Entry(runs, i) \in Verdicts
<1>1. runs[i].action \in Measured \cup Unchecked \cup Refused
    BY DEF Step, Actions
<1>2. runs[i].action \in Measured => Measure(w, runs[i]) \in {"pass", "noop", "blocked"}
    BY MeasureTyped
<1> QED BY <1>1, <1>2 DEF Gate, Entry, Verdicts

States == {"pending", "executing", "failed", "completed", "rolled_back"}

(* A call that begins is well-typed, whatever the preview said.            *)
LEMMA BeginTyped ==
  ASSUME TypeOK, NEW kind \in {"apply", "rollback"}, NEW runs \in Seq(Step),
         NEW verdict \in Seq(Verdicts), Len(verdict) = Len(runs), NEW busy \in States,
         \A i \in 1..Len(runs) : /\ runs[i].of \in 1..Len(plan)
                                 /\ runs[i].undo = (kind = "rollback"),
         Begin(kind, runs, verdict, busy)
  PROVE  TypeOK'
<1>1. UNCHANGED <<w, denied, plan, changes>> /\ state' \in States
    BY DEF Begin, TypeOK, States
<1>2. PICK refused \in BOOLEAN :
        call' = [kind |-> kind, at |-> IF refused THEN "refused" ELSE "check",
                 runs |-> runs, pos |-> 1, verdict |-> verdict, stopped |-> FALSE,
                 then |-> w, rules |-> denied, free |-> Actions \ denied, did |-> {},
                 calm |-> TRUE]
    BY DEF Begin
<1>3. w \in World /\ denied \subseteq Actions
    BY DEF TypeOK
<1>4. call' \in Call
    BY <1>2, <1>3 DEF Call
<1>5. /\ call'.runs = runs /\ call'.verdict = verdict /\ call'.pos = 1 /\ call'.kind = kind
      /\ call'.at \in {"refused", "check"}
    BY <1>2
<1>6. Len(runs) \in Nat
    OBVIOUS
<1> QED BY <1>1, <1>4, <1>5, <1>6 DEF TypeOK, States

(* The steps of an apply are those of the plan, in its order.              *)
LEMMA ApplyRuns ==
  ASSUME TypeOK, NEW runs, runs = [i \in 1..Len(plan) |-> [plan[i].step EXCEPT !.of = i]]
  PROVE  /\ runs \in Seq(Step) /\ Len(runs) = Len(plan) /\ Len(runs) \in Nat
         /\ \A i \in 1..Len(runs) : runs[i].of = i /\ runs[i].undo = FALSE /\ runs[i] \in Step
<1>1. Len(plan) \in Nat /\ \A i \in 1..Len(plan) : plan[i].step \in Step /\ ~plan[i].step.undo
  <2>1. plan \in Seq(Planned)
      BY DEF TypeOK
  <2>2. \A i \in 1..Len(plan) : plan[i] \in Planned
      BY <2>1
  <2> QED BY <2>1, <2>2 DEF TypeOK, Planned
<1>2. \A i \in 1..Len(plan) : /\ [plan[i].step EXCEPT !.of = i] \in Step
                              /\ [plan[i].step EXCEPT !.of = i].of = i
                              /\ [plan[i].step EXCEPT !.of = i].undo = FALSE
    BY <1>1 DEF Step
<1>3. runs \in Seq(Step) /\ Len(runs) = Len(plan)
    BY <1>1, <1>2
<1>4. \A i \in 1..Len(runs) : runs[i].of = i /\ runs[i].undo = FALSE /\ runs[i] \in Step
  <2> SUFFICES ASSUME NEW i \in 1..Len(runs)
               PROVE  runs[i].of = i /\ runs[i].undo = FALSE /\ runs[i] \in Step
      OBVIOUS
  <2>1. i \in 1..Len(plan) /\ runs[i] = [plan[i].step EXCEPT !.of = i]
      BY <1>3
  <2> QED BY <1>2, <2>1
<1> QED BY <1>1, <1>3, <1>4

(* apply_vm_plan                                                           *)
LEMMA ApplyTyped == ASSUME TypeOK, Apply PROVE TypeOK'
<1> DEFINE runs == [i \in 1..Len(plan) |-> [plan[i].step EXCEPT !.of = i]]
           verdict == [i \in 1..Len(runs) |-> Entry(runs, i)]
<1>1. /\ runs \in Seq(Step) /\ Len(runs) = Len(plan) /\ Len(runs) \in Nat
      /\ \A i \in 1..Len(runs) : runs[i].of = i /\ runs[i].undo = FALSE /\ runs[i] \in Step
    BY ApplyRuns
<1>2. Begin("apply", runs, verdict, "executing")
    BY DEF Apply
<1> HIDE DEF runs
<1>3. verdict \in Seq(Verdicts) /\ Len(verdict) = Len(runs)
    BY <1>1, GateTyped
<1> HIDE DEF verdict
<1> QED BY <1>1, <1>2, <1>3, BeginTyped DEF States

(* The step that undoes one that can be undone.  (_build_rollback)         *)
LEMMA UndoTyped ==
  ASSUME TypeOK, NEW i \in Undone
  PROVE  Undo(i) \in Step /\ Undo(i).of = i /\ Undo(i).undo = TRUE /\ i \in 1..Len(plan)
<1>1. i \in 1..Len(plan) /\ plan[i] \in Planned /\ plan[i].step.action \in DOMAIN UndoneBy
    BY DEF Undone, TypeOK
<1>2. UndoneBy[plan[i].step.action] \in Actions
    BY <1>1 DEF UndoneBy, Actions, Measured, Unchecked
<1>3. plan[i].step.name \in Names /\ plan[i].id \in Ids \cup {NoId} /\ i \in Nat
    BY <1>1 DEF Planned, Step
<1> QED BY <1>1, <1>2, <1>3 DEF Undo, Step

(* The steps of a rollback undo steps of the plan.                         *)
LEMMA RollbackRuns ==
  ASSUME TypeOK, NEW order \in LastFirst,
         NEW runs, runs = [k \in DOMAIN order |-> Undo(order[k])]
  PROVE  /\ runs \in Seq(Step) /\ DOMAIN order = 1..Len(runs)
         /\ \A k \in 1..Len(runs) : runs[k].of \in 1..Len(plan) /\ runs[k].undo = TRUE
<1> DEFINE n == Cardinality(Undone)
<1>1. n \in Nat
  <2>1. Len(plan) \in Nat /\ Undone \subseteq 1..Len(plan)
      BY DEF Undone, TypeOK
  <2>2. IsFiniteSet(1..Len(plan))
      BY <2>1, FS_Interval
  <2> QED BY <2>1, <2>2, FS_Subset, FS_CardinalityType
<1>2. order \in [1..n -> Undone]
    BY DEF LastFirst
<1> HIDE DEF n
<1>3. \A k \in 1..n : /\ runs[k] \in Step /\ runs[k].undo = TRUE
                      /\ runs[k].of \in 1..Len(plan)
    BY <1>2, UndoTyped
<1> QED BY <1>1, <1>2, <1>3

(* rollback_vm_plan                                                        *)
LEMMA RollbackTyped == ASSUME TypeOK, Rollback PROVE TypeOK'
<1>1. PICK order \in LastFirst :
        Begin("rollback", [k \in DOMAIN order |-> Undo(order[k])],
              [i \in DOMAIN order |-> Gate([k \in DOMAIN order |-> Undo(order[k])], i)], "failed")
    BY DEF Rollback
<1> DEFINE runs == [k \in DOMAIN order |-> Undo(order[k])]
           verdict == [i \in DOMAIN order |-> Gate(runs, i)]
<1>2. /\ runs \in Seq(Step) /\ DOMAIN order = 1..Len(runs)
      /\ \A k \in 1..Len(runs) : runs[k].of \in 1..Len(plan) /\ runs[k].undo = TRUE
    BY RollbackRuns
<1>3. Begin("rollback", runs, verdict, "failed")
    BY <1>1
<1> HIDE DEF runs
<1>4. verdict \in Seq(Verdicts) /\ Len(verdict) = Len(runs)
  <2>1. Len(runs) \in Nat /\ \A k \in 1..Len(runs) : runs[k] \in Step
      BY <1>2
  <2> QED BY <1>2, <2>1, GateTyped
<1> HIDE DEF verdict
<1> QED BY <1>2, <1>3, <1>4, BeginTyped DEF States

(* A call for another target, or one that could not read.                  *)
LEMMA RefusedUnreadTyped == ASSUME TypeOK, RefusedUnread PROVE TypeOK'
<1>1. call' = [kind |-> "none", at |-> "refused", runs |-> <<>>, pos |-> 0, verdict |-> <<>>,
               stopped |-> FALSE, then |-> w, rules |-> {}, free |-> {}, did |-> {},
               calm |-> TRUE]
    BY DEF RefusedUnread, NoSuchCall
<1>2. call' \in Call
    BY <1>1 DEF TypeOK, Call
<1> QED BY <1>1, <1>2 DEF TypeOK, RefusedUnread

\* What may change of a call between its steps.
Goes(c, at, pos) ==
  /\ c \in Call
  /\ c.kind = call.kind /\ c.runs = call.runs /\ c.verdict = call.verdict
  /\ c.at = at /\ c.pos = pos

(* The type of the step in hand.                                           *)
LEMMA CurrentTyped ==
  ASSUME TypeOK, call.at \in {"check", "act"}, More
  PROVE  /\ call.pos \in 1..Len(call.runs) /\ Current \in Step
         /\ Current.of \in 1..Len(plan)
         /\ Current.undo = (call.kind = "rollback")
<1>1. call.pos \in 1..Len(call.runs) /\ call.runs \in Seq(Step)
    BY DEF TypeOK, Call, More
<1> QED BY <1>1 DEF Current, TypeOK

(* A step of the plan that ended, and perhaps created a VM.                *)
LEMMA EndedTyped ==
  ASSUME TypeOK, NEW i \in 1..Len(plan), NEW end \in Ends, NEW id \in Ids \cup {NoId},
         NEW p, p = [plan EXCEPT ![i] = [@ EXCEPT !.end = end, !.id = id]]
  PROVE  /\ p \in Seq(Planned) /\ Len(p) = Len(plan)
         /\ \A k \in 1..Len(p) : ~p[k].step.undo
<1>1. plan \in Seq(Planned) /\ Len(plan) \in Nat /\ plan[i] \in Planned
    BY DEF TypeOK
<1>2. [plan[i] EXCEPT !.end = end, !.id = id] \in Planned
      /\ [plan[i] EXCEPT !.end = end, !.id = id].step = plan[i].step
    BY <1>1 DEF Planned
<1>3. p \in Seq(Planned) /\ Len(p) = Len(plan)
    BY <1>1, <1>2
<1>4. \A k \in 1..Len(plan) : p[k].step = plan[k].step
    BY <1>1, <1>2
<1> QED BY <1>3, <1>4 DEF TypeOK

(* A call that goes on, with the plan as long as it was, keeps its type.   *)
LEMMA GoesTyped ==
  ASSUME TypeOK, NEW at \in {"idle", "check", "act"}, NEW pos \in Nat, Goes(call', at, pos),
         at = "check" => pos \in 1..Len(call.runs) + 1,
         at = "act"   => pos \in 1..Len(call.runs),
         w' \in World, denied' \subseteq Actions, state' \in States,
         plan' \in Seq(Planned), Len(plan') = Len(plan),
         \A k \in 1..Len(plan') : ~plan'[k].step.undo,
         changes' \in 0..MaxChanges
  PROVE  TypeOK'
BY DEF TypeOK, Goes, States

(* The fields of a call.                                                   *)
LEMMA CallTyped ==
  ASSUME TypeOK
  PROVE  /\ call \in Call /\ call.runs \in Seq(Step) /\ Len(call.runs) \in Nat /\ call.pos \in Nat
         /\ w \in World /\ denied \subseteq Actions /\ state \in States
         /\ plan \in Seq(Planned) /\ Len(plan) \in Nat
         /\ \A k \in 1..Len(plan) : ~plan[k].step.undo
         /\ changes \in 0..MaxChanges
BY DEF TypeOK, Call, States

(* The call is left before its end.  (_StepFailed, _stop_rollback)         *)
LEMMA StopTyped ==
  ASSUME TypeOK, call.at \in {"check", "act"}, More, NEW c \in BOOLEAN,
         call' = [call EXCEPT !.at = "idle", !.stopped = TRUE, !.calm = c],
         IF call.kind = "apply" THEN Ended(Current.of, "failed") ELSE UNCHANGED plan,
         state' = "failed", UNCHANGED <<w, denied, changes>>
  PROVE  TypeOK'
<1>1. Goes(call', "idle", call.pos)
    BY CallTyped DEF Goes, Call
<1>2. /\ plan' \in Seq(Planned) /\ Len(plan') = Len(plan)
      /\ \A k \in 1..Len(plan') : ~plan'[k].step.undo
  <2>1. CASE call.kind = "apply"
    <3>1. Current.of \in 1..Len(plan)
        BY CurrentTyped
    <3>2. plan[Current.of] \in Planned
        BY <3>1, CallTyped
    <3>3. /\ plan[Current.of].id \in Ids \cup {NoId}
          /\ [plan[Current.of] EXCEPT !.end = "failed"]
               = [plan[Current.of] EXCEPT !.end = "failed", !.id = plan[Current.of].id]
        BY <3>2 DEF Planned
    <3>4. plan' = [plan EXCEPT ![Current.of] =
                    [@ EXCEPT !.end = "failed", !.id = plan[Current.of].id]]
        BY <2>1, <3>3 DEF Ended
    <3> QED BY <3>1, <3>3, <3>4, EndedTyped DEF Ends
  <2>2. CASE call.kind # "apply"
      BY <2>2, CallTyped
  <2> QED BY <2>1, <2>2
<1> QED BY <1>1, <1>2, GoesTyped, CallTyped DEF States

(* check_step and what comes of it.                                        *)
LEMMA CheckTyped == ASSUME TypeOK, Check PROVE TypeOK'
<1>1. call.at = "check" /\ More /\ UNCHANGED <<w, denied, changes>> /\ call.calm \in BOOLEAN
    BY CallTyped DEF Check, Call
<1>2. CASE CheckVerdict(Current) \in Refusing
  <2>1. call' = [call EXCEPT !.at = "idle", !.stopped = TRUE, !.calm = call.calm]
      BY <1>2, CallTyped DEF Check, Stop, Call
  <2> QED BY <1>1, <1>2, <2>1, StopTyped DEF Check, Stop
<1>3. CASE CheckVerdict(Current) \notin Refusing
  <2>1. call' = [call EXCEPT !.at = "act"] /\ UNCHANGED <<plan, state>>
      BY <1>3 DEF Check
  <2>2. call.pos \in 1..Len(call.runs) /\ Goes(call', "act", call.pos)
      BY <1>1, <2>1, CurrentTyped, CallTyped DEF Goes, Call
  <2> QED BY <1>1, <2>1, <2>2, GoesTyped, CallTyped
<1> QED BY <1>2, <1>3

(* A check that cannot read.                                               *)
LEMMA CheckUnreadTyped == ASSUME TypeOK, CheckUnread PROVE TypeOK'
BY StopTyped DEF CheckUnread

(* The delete of a rollback that is refused.                               *)
LEMMA ActRefusedTyped == ASSUME TypeOK, ActRefused PROVE TypeOK'
<1>1. call.at = "act" /\ More /\ UNCHANGED <<w, denied, changes>> /\ call.calm \in BOOLEAN
    BY CallTyped DEF ActRefused, TypeOK, Call, More
<1>2. call' = [call EXCEPT !.at = "idle", !.stopped = TRUE, !.calm = call.calm]
    BY CallTyped DEF ActRefused, Stop, Call
<1> QED BY <1>1, <1>2, StopTyped DEF ActRefused, Stop

(* The tools whose work a step is are names of tools.                      *)
LEMMA WorkTyped ==
  ASSUME NEW x, NEW s \in Step
  PROVE  WorkOf(x, s) \subseteq Actions /\ Tools(s) \subseteq WorkOf(x, s)
BY DEF WorkOf, Tools, Tool, Step, Actions, Measured, Unchecked

(* A step that ran, whole or half, leaves a vCenter.                       *)
LEMMA LeavesTyped ==
  ASSUME NEW x \in World, NEW s \in Step, NEW y, y \in Leaves(x, s) \cup LeavesHalf(x, s)
  PROVE  y \in World
BY StepIsWork DEF VmWork, ClusterWork

(* A step that ran.                                                        *)
LEMMA ActTyped == ASSUME TypeOK, Act PROVE TypeOK'
<1>1. call.at = "act" /\ More /\ UNCHANGED <<denied, state, changes>>
    BY DEF Act, TypeOK, More, Call
<1>2. Current \in Step /\ Current.of \in 1..Len(plan) /\ call.pos \in 1..Len(call.runs)
    BY <1>1, CurrentTyped
<1>3. w' \in World
    BY <1>2, LeavesTyped, CallTyped DEF Act
<1>4. Goes(call', "check", call.pos + 1)
  <2>1. call' = [call EXCEPT !.at = "check", !.pos = call.pos + 1,
                             !.did = call.did \cup WorkOf(w, Current)]
      BY DEF Act
  <2>2. WorkOf(w, Current) \subseteq Actions
      BY <1>2, WorkTyped
  <2>3. call' = [kind |-> call.kind, at |-> "check", runs |-> call.runs, pos |-> call.pos + 1,
                 verdict |-> call.verdict, stopped |-> call.stopped, then |-> call.then,
                 rules |-> call.rules, free |-> call.free,
                 did |-> call.did \cup WorkOf(w, Current), calm |-> call.calm]
      BY <2>1, CallTyped DEF Call
  <2> QED BY <2>2, <2>3, CallTyped DEF Goes, Call
<1>5. /\ plan' \in Seq(Planned) /\ Len(plan') = Len(plan)
      /\ \A k \in 1..Len(plan') : ~plan'[k].step.undo
  <2>1. PICK end \in Ends, id \in Ids \cup {NoId} :
          plan' = [plan EXCEPT ![Current.of] = [@ EXCEPT !.end = end, !.id = id]]
    <3>1. plan[Current.of].id \in Ids \cup {NoId}
      <4>1. plan[Current.of] \in Planned
          BY <1>2, CallTyped
      <4> QED BY <4>1 DEF Planned
    <3>2. Created(w', Current) \in Ids \cup {NoId}
        BY <1>3, OneIsFound DEF Created
    <3> DEFINE end == IF Current.undo THEN "rolled_back" ELSE "success"
               id  == IF Current.action \in {"create", "deploy"} THEN Created(w', Current)
                      ELSE plan[Current.of].id
    <3>3. end \in Ends /\ id \in Ids \cup {NoId}
        BY <3>1, <3>2 DEF Ends
    <3>4. plan' = [plan EXCEPT ![Current.of] = [@ EXCEPT !.end = end, !.id = id]]
        BY DEF Act
    <3> QED BY <3>3, <3>4
  <2> QED BY <1>2, <2>1, EndedTyped
<1>6. call.pos + 1 \in 1..Len(call.runs) + 1 /\ call.pos + 1 \in Nat
    BY <1>2, CallTyped
<1> QED BY <1>1, <1>3, <1>4, <1>5, <1>6, GoesTyped, CallTyped

(* A step that raised.                                                     *)
LEMMA ActFailsTyped == ASSUME TypeOK, ActFails PROVE TypeOK'
<1>1. call.at = "act" /\ More /\ UNCHANGED <<denied, changes>>
    BY DEF ActFails, TypeOK, More, Call
<1>2. Current \in Step /\ Current.of \in 1..Len(plan) /\ call.pos \in 1..Len(call.runs)
    BY <1>1, CurrentTyped
<1>3. PICK did \in {{}, WorkOf(w, Current)} :
        /\ w' \in IF did = {} THEN {w} ELSE LeavesHalf(w, Current) \cup Leaves(w, Current)
        /\ IF call.kind = "apply"
           THEN /\ Ended(Current.of, "failed") /\ state' = "failed"
                /\ call' = [call EXCEPT !.at = "idle", !.did = @ \cup did]
           ELSE /\ call' = [call EXCEPT !.at = "check", !.pos = @ + 1, !.did = @ \cup did]
                /\ UNCHANGED <<plan, state>>
    BY DEF ActFails
<1>4. w' \in World
    BY <1>2, <1>3, LeavesTyped, CallTyped
<1>5. did \subseteq Actions
    BY <1>2, <1>3, WorkTyped
<1>6. CASE call.kind = "apply"
  <2>1. call' = [kind |-> call.kind, at |-> "idle", runs |-> call.runs, pos |-> call.pos,
                 verdict |-> call.verdict, stopped |-> call.stopped, then |-> call.then,
                 rules |-> call.rules, free |-> call.free,
                 did |-> call.did \cup did, calm |-> call.calm]
      BY <1>3, <1>6, CallTyped DEF Call
  <2>2. Goes(call', "idle", call.pos)
      BY <2>1, <1>5, CallTyped DEF Goes, Call
  <2>3. plan[Current.of] \in Planned
      BY <1>2, CallTyped
  <2>4. /\ plan[Current.of].id \in Ids \cup {NoId}
        /\ [plan[Current.of] EXCEPT !.end = "failed"]
             = [plan[Current.of] EXCEPT !.end = "failed", !.id = plan[Current.of].id]
      BY <2>3 DEF Planned
  <2>5. plan' = [plan EXCEPT ![Current.of] =
                  [@ EXCEPT !.end = "failed", !.id = plan[Current.of].id]]
      BY <1>3, <1>6, <2>4 DEF Ended
  <2>6. /\ plan' \in Seq(Planned) /\ Len(plan') = Len(plan)
        /\ \A k \in 1..Len(plan') : ~plan'[k].step.undo
      BY <1>2, <2>4, <2>5, EndedTyped DEF Ends
  <2> QED BY <1>1, <1>3, <1>4, <1>6, <2>2, <2>6, GoesTyped, CallTyped DEF States
<1>7. CASE call.kind # "apply"
  <2>1. call' = [kind |-> call.kind, at |-> "check", runs |-> call.runs, pos |-> call.pos + 1,
                 verdict |-> call.verdict, stopped |-> call.stopped, then |-> call.then,
                 rules |-> call.rules, free |-> call.free,
                 did |-> call.did \cup did, calm |-> call.calm]
      BY <1>3, <1>7, CallTyped DEF Call
  <2>2. Goes(call', "check", call.pos + 1)
      BY <2>1, <1>5, CallTyped DEF Goes, Call
  <2>3. call.pos + 1 \in 1..Len(call.runs) + 1 /\ call.pos + 1 \in Nat
      BY <1>2, CallTyped
  <2> QED BY <1>1, <1>3, <1>4, <1>7, <2>2, <2>3, GoesTyped, CallTyped
<1> QED BY <1>6, <1>7

(* What the run of a step, whole or not, leaves alone.                     *)
LEMMA Worked ==
  ASSUME TypeOK, Act \/ ActFails
  PROVE  /\ call.at = "act" /\ ~DeleteRefused(w, Current) /\ UNCHANGED denied
         /\ call'.kind = call.kind /\ call'.runs = call.runs /\ call'.verdict = call.verdict
         /\ call'.stopped = call.stopped /\ call'.then = call.then /\ call'.rules = call.rules
         /\ call'.free = call.free /\ call'.calm = call.calm
         /\ call'.did \subseteq call.did \cup WorkOf(w, Current)
         /\ call'.at = "idle" \/ (call'.at = "check" /\ call'.pos = call.pos + 1)
         /\ w' = w \/ w' \in LeavesHalf(w, Current) \cup Leaves(w, Current)
<1>1. call \in Call
    BY DEF TypeOK
<1>2. CASE Act
  <2>1. call' = [call EXCEPT !.at = "check", !.pos = @ + 1, !.did = @ \cup WorkOf(w, Current)]
      BY <1>2 DEF Act
  <2> QED BY <1>1, <1>2, <2>1 DEF Act, Call
<1>3. CASE ActFails
  <2>1. PICK did \in {{}, WorkOf(w, Current)} :
          /\ w' \in IF did = {} THEN {w} ELSE LeavesHalf(w, Current) \cup Leaves(w, Current)
          /\ IF call.kind = "apply"
             THEN call' = [call EXCEPT !.at = "idle", !.did = @ \cup did]
             ELSE call' = [call EXCEPT !.at = "check", !.pos = @ + 1, !.did = @ \cup did]
      BY <1>3 DEF ActFails
  <2>2. w' = w \/ w' \in LeavesHalf(w, Current) \cup Leaves(w, Current)
      BY <2>1
  <2>3. CASE call.kind = "apply"
    <3>1. call' = [call EXCEPT !.at = "idle", !.did = @ \cup did]
        BY <2>1, <2>3
    <3> QED BY <1>1, <1>3, <2>2, <3>1 DEF ActFails, Call
  <2>4. CASE call.kind # "apply"
    <3>1. call' = [call EXCEPT !.at = "check", !.pos = @ + 1, !.did = @ \cup did]
        BY <2>1, <2>4
    <3> QED BY <1>1, <1>3, <2>2, <3>1 DEF ActFails, Call
  <2> QED BY <2>3, <2>4
<1> QED BY <1>2, <1>3

(* The end of the list.                                                    *)
LEMMA FinishTyped == ASSUME TypeOK, Finish PROVE TypeOK'
<1>1. Goes(call', "idle", call.pos)
    BY CallTyped DEF Finish, Goes, Call
<1>2. state' \in States /\ UNCHANGED <<w, denied, plan, changes>>
    BY DEF Finish, States
<1> QED BY <1>1, <1>2, GoesTyped, CallTyped

(* What others do touches nothing of a call but its history.               *)
LEMMA OthersTyped == ASSUME TypeOK, OthersAct \/ RulesTurn PROVE TypeOK'
<1>1. changes' \in 0..MaxChanges /\ UNCHANGED <<plan, state>>
    BY GateAssumption, CallTyped DEF OthersAct, RulesTurn, Meanwhile
<1>2. w' \in World /\ denied' \subseteq Actions
    BY ElsewhereTyped, GateAssumption, CallTyped DEF OthersAct, RulesTurn
<1>3. Goes(call', call.at, call.pos)
  <2>1. CASE OthersAct
      BY <2>1, CallTyped DEF OthersAct, Goes, Call
  <2>2. CASE RulesTurn
      BY <2>2, CallTyped DEF RulesTurn, Goes, Call
  <2> QED BY <2>1, <2>2
<1> QED BY <1>1, <1>2, <1>3, CallTyped DEF TypeOK, Goes

(* The gate starts well-typed, with any plan of the instance.              *)
LEMMA TypeInit == Init => TypeOK
<1> SUFFICES ASSUME Init PROVE TypeOK
    OBVIOUS
<1>1. PICK steps \in Plans :
        plan = [i \in 1..Len(steps) |-> [step |-> steps[i], end |-> "pending", id |-> NoId]]
    BY DEF Init
<1>2. steps \in Seq(Step) /\ \A i \in 1..Len(steps) : ~steps[i].undo
    BY GateAssumption
<1>3. plan \in Seq(Planned) /\ \A i \in 1..Len(plan) : ~plan[i].step.undo
  <2>1. \A i \in 1..Len(steps) :
          [step |-> steps[i], end |-> "pending", id |-> NoId] \in Planned
      BY <1>2 DEF Planned, Ends
  <2>2. plan \in Seq(Planned) /\ Len(plan) = Len(steps)
      BY <1>1, <1>2, <2>1
  <2> QED BY <1>1, <1>2, <2>2
<1>4. call = [kind |-> "none", at |-> "idle", runs |-> <<>>, pos |-> 0, verdict |-> <<>>,
              stopped |-> FALSE, then |-> w, rules |-> {}, free |-> {}, did |-> {},
              calm |-> TRUE]
    BY DEF Init, NoSuchCall
<1>5. call \in Call
    BY <1>4 DEF Init, Call
<1> QED BY <1>3, <1>4, <1>5, GateAssumption DEF Init, TypeOK

(* Every step keeps the types.                                             *)
LEMMA TypeNext == TypeOK /\ [Next]_vars => TypeOK'
<1> SUFFICES ASSUME TypeOK, [Next]_vars PROVE TypeOK'
    OBVIOUS
<1>1. CASE UNCHANGED vars
    BY <1>1 DEF vars, TypeOK
<1> QED BY <1>1, ApplyTyped, RollbackTyped, RefusedUnreadTyped, CheckTyped, CheckUnreadTyped, ActTyped,
           ActRefusedTyped, ActFailsTyped, FinishTyped, OthersTyped DEF Next

(* Type correctness of the gate.  In particular a call works on steps of   *)
(* its plan, forward ones to apply it and undoing ones to roll it back,    *)
(* and acts on none but them.                                              *)
THEOREM GateTypeCorrect == Spec => []TypeOK
BY TypeInit, TypeNext, PTL DEF Spec

-----------------------------------------------------------------------------
(* What the preview settled.                                               *)

\* Nothing that rules.yaml denied at the preview is asked for by a step.
Authorized(s) == s.action \notin Refused /\ Tools(s) \cap call.rules = {}

\* A call that was not refused: every step was authorized, and the steps of a
\* plan that is applied can be run at all.
Reviewed ==
  call.at # "refused" =>
    \A i \in 1..Len(call.runs) :
      /\ Authorized(call.runs[i])
      /\ call.kind = "apply" => ~Unrunnable(call.runs[i])

\* A refused call did nothing.
Idled == call.at = "refused" => call.did = {}

(* The steps of a preview that refuses nothing.                            *)
LEMMA BeginReviewed ==
  ASSUME TypeOK, NEW kind \in {"apply", "rollback"}, NEW runs \in Seq(Step), NEW verdict, NEW busy,
         Begin(kind, runs, verdict, busy),
         \A i \in 1..Len(runs) :
           verdict[i] = IF kind = "apply" THEN Entry(runs, i) ELSE Gate(runs, i)
  PROVE  Reviewed' /\ Idled'
<1>1. PICK refused \in BOOLEAN :
        /\ refused = (\E i \in 1..Len(runs) : verdict[i] \in Refusing)
        /\ call' = [kind |-> kind, at |-> IF refused THEN "refused" ELSE "check",
                    runs |-> runs, pos |-> 1, verdict |-> verdict, stopped |-> FALSE,
                    then |-> w, rules |-> denied, free |-> Actions \ denied, did |-> {},
                    calm |-> TRUE]
    BY DEF Begin
<1>2. Idled'
    BY <1>1 DEF Idled
<1>3. ASSUME call'.at # "refused", NEW i \in 1..Len(runs)
      PROVE  /\ runs[i].action \notin Refused /\ Tools(runs[i]) \cap denied = {}
             /\ kind = "apply" => ~Unrunnable(runs[i])
  <2>1. verdict[i] \notin {"blocked", "refused", "denied"}
      BY <1>1, <1>3 DEF Refusing
  <2>2. kind = "apply" => ~Unrunnable(runs[i])
      BY <2>1 DEF Entry
  <2>3. Gate(runs, i) \notin {"blocked", "refused", "denied"}
      BY <2>1 DEF Entry
  <2>4. ~PolicyRefuses(runs[i]) /\ (~Deletes(runs[i]) => runs[i].action \notin Refused)
      BY <2>3 DEF Gate, Unchecked, Refused
  <2>5. runs[i].action \notin Refused
      BY <2>4 DEF Deletes, Refused
  <2> QED BY <2>2, <2>4, <2>5 DEF PolicyRefuses
<1>4. call'.runs = runs /\ call'.kind = kind /\ call'.rules = denied
    BY <1>1
<1>5. Reviewed'
    BY <1>3, <1>4 DEF Reviewed, Authorized
<1> QED BY <1>2, <1>5

(* What was settled stays so for as long as the call works.                *)
LEMMA ReviewedStays ==
  ASSUME Reviewed, Idled, call'.runs = call.runs, call'.kind = call.kind, call'.rules = call.rules,
         call'.at = "refused" <=> call.at = "refused", call'.at = "refused" => call'.did = call.did
  PROVE  Reviewed' /\ Idled'
BY DEF Reviewed, Idled, Authorized

(* Every step keeps it.                                                    *)
LEMMA ReviewedNext == TypeOK /\ Reviewed /\ Idled /\ [Next]_vars => Reviewed' /\ Idled'
<1> SUFFICES ASSUME TypeOK, Reviewed, Idled, [Next]_vars PROVE Reviewed' /\ Idled'
    OBVIOUS
<1>1. CASE Apply
  <2> DEFINE runs == [i \in 1..Len(plan) |-> [plan[i].step EXCEPT !.of = i]]
  <2>1. runs \in Seq(Step)
      BY ApplyRuns
  <2>2. Begin("apply", runs, [i \in 1..Len(runs) |-> Entry(runs, i)], "executing")
      BY <1>1 DEF Apply
  <2> HIDE DEF runs
  <2> QED BY <2>1, <2>2, BeginReviewed
<1>2. CASE Rollback
  <2>1. PICK order \in LastFirst :
          Begin("rollback", [k \in DOMAIN order |-> Undo(order[k])],
                [i \in DOMAIN order |-> Gate([k \in DOMAIN order |-> Undo(order[k])], i)], "failed")
      BY <1>2 DEF Rollback
  <2> DEFINE runs == [k \in DOMAIN order |-> Undo(order[k])]
  <2>2. runs \in Seq(Step) /\ DOMAIN order = 1..Len(runs)
      BY RollbackRuns
  <2>3. Begin("rollback", runs, [i \in DOMAIN order |-> Gate(runs, i)], "failed")
      BY <2>1
  <2> HIDE DEF runs
  <2> QED BY <2>2, <2>3, BeginReviewed
<1>3. CASE RefusedUnread
    BY <1>3 DEF RefusedUnread, NoSuchCall, Reviewed, Idled
<1>4. ASSUME call.at # "refused", call'.at # "refused",
             call'.runs = call.runs, call'.kind = call.kind, call'.rules = call.rules
      PROVE  Reviewed' /\ Idled'
    BY <1>4, ReviewedStays
<1>5. CASE Check \/ CheckUnread \/ ActRefused \/ Finish
    BY <1>5, <1>4, CallTyped DEF Check, CheckUnread, ActRefused, Finish, Stop, Call
<1>6. CASE Act \/ ActFails
    BY <1>6, <1>4, Worked
<1>7. CASE OthersAct \/ RulesTurn
    BY <1>7, ReviewedStays, CallTyped DEF OthersAct, RulesTurn, Call
<1>8. CASE UNCHANGED vars
    BY <1>8, ReviewedStays DEF vars
<1> QED BY <1>1, <1>2, <1>3, <1>5, <1>6, <1>7, <1>8 DEF Next

(* Of a reviewed plan that is applied, no step is doomed.                  *)
LEMMA ReviewedIsNotDoomed == TypeOK /\ Reviewed /\ Idled => DoomedRunsNothing
<1> SUFFICES ASSUME TypeOK, Reviewed, Idled, call.kind = "apply", call.did # {},
                    NEW i \in 1..Len(call.runs)
             PROVE  LET s == call.runs[i]
                    IN  /\ ~Unrunnable(s) /\ s.action \notin Refused
                        /\ WorkOf(w, s) \cap call.rules = {}
    BY DEF DoomedRunsNothing
<1>1. call.at # "refused" /\ Authorized(call.runs[i]) /\ ~Unrunnable(call.runs[i])
    BY DEF Reviewed, Idled
<1>2. ~call.runs[i].undo
    BY DEF TypeOK
<1>3. WorkOf(w, call.runs[i]) = Tools(call.runs[i])
    BY <1>2 DEF WorkOf, Tools, Deletes
<1> QED BY <1>1, <1>3 DEF Authorized

(* A plan with a step that cannot run - denied, refused, not to be read in *)
(* full, or a delete nobody acknowledged - runs none of its steps.         *)
THEOREM DoomedPlansRunNothing == Spec => []DoomedRunsNothing
<1>1. Init => Reviewed /\ Idled
    BY DEF Init, NoSuchCall, Reviewed, Idled
<1> QED BY <1>1, TypeInit, TypeNext, ReviewedNext, ReviewedIsNotDoomed, PTL DEF Spec

-----------------------------------------------------------------------------
(* What the policy allowed.                                                *)

\* What was done was allowed at some time of the call, so is what is allowed
\* now, and so is what the step in hand is about to do.
Allowed ==
  /\ DeniedIsNotDone
  /\ call.at \in {"check", "act"} => Actions \ denied \subseteq call.free
  /\ call.at = "act" => Tools(Current) \subseteq call.free

(* A step that passes the check, and the delete that is not refused, do    *)
(* nothing but what is allowed.                                            *)
LEMMA WorkIsAllowed ==
  ASSUME TypeOK, Allowed, call.at = "act", ~DeleteRefused(w, Current)
  PROVE  WorkOf(w, Current) \subseteq call.free
<1>1. "power_off" \in Actions
    BY DEF Actions, Measured
<1>2. Deletes(Current) /\ Running(w, Current) => "power_off" \in call.free
    BY <1>1 DEF Allowed, DeleteRefused, PowerOffRefused
<1> QED BY <1>2 DEF Allowed, WorkOf, Tools

(* Every step keeps to what is allowed.                                    *)
LEMMA AllowedNext == TypeOK /\ Allowed /\ [Next]_vars => Allowed'
<1> SUFFICES ASSUME TypeOK, Allowed, [Next]_vars PROVE Allowed'
    OBVIOUS
<1>1. ASSUME NEW kind, NEW runs, NEW verdict, NEW busy, Begin(kind, runs, verdict, busy)
      PROVE  Allowed'
  <2>1. call'.did = {} /\ call'.at \in {"refused", "check"} /\ call'.free = Actions \ denied
        /\ UNCHANGED denied
      BY <1>1 DEF Begin
  <2> QED BY <2>1 DEF Allowed, DeniedIsNotDone
<1>2. CASE Apply \/ Rollback
    BY <1>1, <1>2 DEF Apply, Rollback
<1>3. CASE RefusedUnread
    BY <1>3 DEF RefusedUnread, NoSuchCall, Allowed, DeniedIsNotDone
<1>4. ASSUME call'.at = "idle", call'.did \subseteq call'.free PROVE Allowed'
    BY <1>4 DEF Allowed, DeniedIsNotDone
<1>5. CASE CheckUnread \/ ActRefused \/ Finish
    BY <1>5, <1>4, CallTyped DEF CheckUnread, ActRefused, Finish, Stop, Call, Allowed, DeniedIsNotDone
<1>6. CASE Check
  <2>1. CASE CheckVerdict(Current) \in Refusing
      BY <1>6, <2>1, <1>4, CallTyped DEF Check, Stop, Call, Allowed, DeniedIsNotDone
  <2>2. CASE CheckVerdict(Current) \notin Refusing
    <3>1. /\ call'.at = "act" /\ call'.did = call.did /\ call'.free = call.free
          /\ call'.runs = call.runs /\ call'.pos = call.pos /\ UNCHANGED denied
        BY <1>6, <2>2, CallTyped DEF Check, Call
    <3>2. Current \in Step /\ call.at = "check"
        BY <1>6, CurrentTyped DEF Check
    <3>3. ~PolicyRefuses(Current) /\ Current.action \notin Refused
        BY <2>2 DEF CheckVerdict, Refusing, Deletes, Refused, Unchecked
    <3>4. Tools(Current) \subseteq Actions \ denied
        BY <3>2, <3>3, WorkTyped DEF PolicyRefuses
    <3> QED BY <3>1, <3>2, <3>4 DEF Allowed, DeniedIsNotDone, Current
  <2> QED BY <2>1, <2>2
<1>7. ASSUME call.at = "act", call'.at \in {"idle", "check"}, call'.free = call.free, UNCHANGED denied,
             call'.did \subseteq call.did \cup WorkOf(w, Current), ~DeleteRefused(w, Current)
      PROVE  Allowed'
  <2>1. WorkOf(w, Current) \subseteq call.free
      BY <1>7, WorkIsAllowed
  <2> QED BY <1>7, <2>1 DEF Allowed, DeniedIsNotDone
<1>8. CASE Act \/ ActFails
    BY <1>8, <1>7, Worked
<1>9. CASE OthersAct \/ RulesTurn \/ UNCHANGED vars
  <2>1. /\ call'.at = call.at /\ call'.did = call.did
        /\ call'.runs = call.runs /\ call'.pos = call.pos
        /\ \/ call'.free = call.free /\ denied' = denied
           \/ call'.free = call.free \cup (Actions \ denied')
      BY <1>9, CallTyped DEF OthersAct, RulesTurn, vars, Call
  <2> QED BY <2>1 DEF Allowed, DeniedIsNotDone, Current
<1> QED BY <1>2, <1>3, <1>5, <1>6, <1>8, <1>9 DEF Next

(* A tool that rules.yaml denies throughout a call does none of its work:  *)
(* not as a step, not as a deploy's last part, not before a delete.        *)
THEOREM DeniedThroughout == Spec => []DeniedIsNotDone
<1>1. Init => Allowed
    BY DEF Init, NoSuchCall, Allowed, DeniedIsNotDone
<1>2. Allowed => DeniedIsNotDone
    BY DEF Allowed
<1> QED BY <1>1, <1>2, TypeInit, TypeNext, AllowedNext, PTL DEF Spec

-----------------------------------------------------------------------------
(* What the preview foresaw.                                               *)

\* From x to y only what is touched changed: the cluster, the host in it, VMs of these
\* names.  A file arrived perhaps.
Kept(x, y, touched) ==
  /\ y \in World
  /\ y.closed = x.closed /\ (x.file => y.file)
  /\ "cluster" \notin touched => y.cluster = x.cluster
  /\ ~({"cluster", "host"} \subseteq touched) => y.member = x.member
  /\ \A i \in Ids : \/ y.vm[i] = x.vm[i]
                    \/ /\ \E n \in touched : Bears(x.vm[i], n)
                       /\ \E n \in touched : Bears(y.vm[i], n)

(* The frame of a step: what it leaves is what it found, apart from what   *)
(* _changes says.                                                          *)
LEMMA StepKeeps ==
  ASSUME NEW x \in World, NEW s \in Step, NEW y, y = x \/ y \in LeavesHalf(x, s) \cup Leaves(x, s)
  PROVE  Kept(x, y, Changed(s))
<1>1. CASE y = x
    BY <1>1 DEF Kept
<1>2. CASE y # x /\ s.action \in OfCluster
  <2>1. ClusterWork(x, y)
      BY <1>2, StepIsWork
  <2>2. "cluster" \in Changed(s)
      BY <1>2 DEF Changed, OfCluster, Refused
  <2>3. "host" \notin Changed(s) => y.member = x.member
    <3> SUFFICES ASSUME "host" \notin Changed(s) PROVE y.member = x.member
        OBVIOUS
    <3>1. s.action \in {"create_cluster", "delete_cluster"}
        BY <1>2 DEF Changed, OfCluster
    <3>2. y \in RunCreateCluster(x) \/ y \in RunDeleteCluster(x)
        BY <1>2, <3>1 DEF Leaves, LeavesHalf, Deletes, OnVm
    <3> QED BY <3>2 DEF RunCreateCluster, RunDeleteCluster, World
  <2> QED BY <2>1, <2>2, <2>3 DEF ClusterWork, Kept
<1>3. CASE y # x /\ s.action \notin OfCluster
  <2>1. VmWork(x, y, s.name)
      BY <1>3, StepIsWork
  <2>2. s.action \notin Refused
      BY <1>3 DEF Leaves, LeavesHalf, Deletes, Refused
  <2>3. s.name \in Changed(s)
      BY <1>3, <2>2 DEF Changed, OfCluster
  <2> QED BY <2>1, <2>3 DEF VmWork, Kept
<1> QED BY <1>1, <1>2, <1>3

(* Frames add up.                                                          *)
LEMMA KeptOnAndOn ==
  ASSUME NEW x, NEW y, NEW z, NEW first, NEW second, Kept(x, y, first), Kept(y, z, second)
  PROVE  Kept(x, z, first \cup second)
BY DEF Kept

\* What the steps of a call up to its position may have changed.
Touched(c) == UNION {Changed(c.runs[j]) : j \in 1..c.pos - 1}

(* What the call has touched grows by what its step changes.               *)
LEMMA TouchedGrows ==
  ASSUME TypeOK, call.at = "act", call'.runs = call.runs, call'.pos = call.pos + 1
  PROVE  Touched(call') = Touched(call) \cup Changed(Current)
<1>1. call.pos \in Nat /\ call.pos >= 1
    BY DEF TypeOK
<1>2. 1..call'.pos - 1 = (1..call.pos - 1) \cup {call.pos}
    BY <1>1
<1> QED BY <1>2 DEF Touched, Current

(* A measure that reads nothing that was touched says what it said, unless *)
(* it says that a file is there now; a migrate reads its target host, too. *)
(* (_depends_on)                                                           *)
LEMMA MeasureKeeps ==
  ASSUME NEW x \in World, NEW y, NEW touched, Kept(x, y, touched),
         NEW s \in Step, s.action \in Measured, touched \cap Reads(s) = {},
         s.action = "migrate" => "host" \notin touched
  PROVE  /\ s.action # "upload" => Measure(y, s) = Measure(x, s)
         /\ Measure(x, s) # "blocked" => Measure(y, s) # "blocked"
<1>1. CASE s.action = "remove_host"
  <2>1. y.member = x.member /\ y.closed = x.closed
      BY <1>1 DEF Reads, Kept
  <2> QED BY <1>1, <2>1 DEF Measure, MeasureHostRemoval
<1>c. CASE s.action = "delete_cluster"
  <2>1. y.cluster = x.cluster /\ y.member = x.member
      BY <1>c DEF Reads, Kept
  <2> QED BY <1>c, <2>1 DEF Measure, MeasureClusterDelete
<1>2. CASE s.action \notin {"delete_cluster", "remove_host"}
  <2>1. s.name \notin touched
      BY <1>2 DEF Reads
  <2>2. ASSUME NEW i \in Ids, y.vm[i] # x.vm[i]
        PROVE  i \notin Named(x, s.name) /\ i \notin Named(y, s.name)
    <3>1. PICK n \in touched, m \in touched : Bears(x.vm[i], n) /\ Bears(y.vm[i], m)
        BY <2>2 DEF Kept
    <3> QED BY <2>1, <3>1 DEF Bears, Named, Alive
  <2>3. Named(y, s.name) = Named(x, s.name)
      BY <2>2 DEF Named, Alive
  <2>4. One(y, s.name) = One(x, s.name) /\ The(y, s.name) = The(x, s.name)
      BY <2>3 DEF One, The
  <2>5. One(x, s.name) => y.vm[The(x, s.name)] = x.vm[The(x, s.name)]
      BY <2>2, OneIsFound
  <2>6. (x.file => y.file) /\ y.closed = x.closed
        /\ (s.action = "migrate" => y.member = x.member)
      BY DEF Kept
  <2>7. CASE s.action = "delete"
      BY <2>4, <2>5, <2>7 DEF Measure, MeasureDelete, DeleteStands, Verdict
  <2>8. CASE s.action # "delete" /\ ~One(x, s.name)
      BY <1>2, <2>4, <2>8 DEF Measure, OfVm, Measured
  <2>9. CASE s.action # "delete" /\ One(x, s.name)
    <3> DEFINE i == The(x, s.name)
    <3>1. One(y, s.name) /\ The(y, s.name) = i /\ y.vm[i] = x.vm[i]
        BY <2>4, <2>5, <2>9
    <3> HIDE DEF i
    <3> QED BY <1>2, <2>6, <2>9, <3>1 DEF i, Measure, OfVm, Measured, MeasurePowerOff, MeasureState,
              MeasureDropSnapshot, MeasureGuest, MeasureUpload, MeasureMigrate, Takes, Verdict
  <2> QED BY <2>7, <2>8, <2>9
<1> QED BY <1>1, <1>c, <1>2

\* A step that the preview measures, at once or at its turn.
Looked(s) == s.action \in Measured /\ ~Deletes(s)

\* What it measured at once passed, and reads nothing that an earlier step changes.
Passed(c) ==
  \A i \in 1..Len(c.runs) :
    Looked(c.runs[i]) /\ c.verdict[i] # "deferred" =>
      ~Deferred(c.runs, i) /\ Measure(c.then, c.runs[i]) # "blocked"

\* While only the call changes anything, the rest is as the preview found it.
Foreseen ==
  /\ call.then \in World
  /\ call.at # "refused" => Passed(call)
  /\ call.at \in {"check", "act"} /\ call.calm =>
       denied = call.rules /\ Kept(call.then, w, Touched(call))
  /\ call.stopped => call.at \in {"idle", "refused"}
  /\ SurprisesWereDeferred

(* The preview that lets a call begin: what it did not defer passed.       *)
LEMMA BeginForeseen ==
  ASSUME TypeOK, NEW kind \in {"apply", "rollback"}, NEW runs \in Seq(Step), NEW verdict, NEW busy,
         Begin(kind, runs, verdict, busy),
         \A i \in 1..Len(runs) :
           verdict[i] = IF kind = "apply" THEN Entry(runs, i) ELSE Gate(runs, i)
  PROVE  Foreseen'
<1>1. PICK refused \in BOOLEAN :
        /\ refused = (\E i \in 1..Len(runs) : verdict[i] \in Refusing)
        /\ call' = [kind |-> kind, at |-> IF refused THEN "refused" ELSE "check",
                    runs |-> runs, pos |-> 1, verdict |-> verdict, stopped |-> FALSE,
                    then |-> w, rules |-> denied, free |-> Actions \ denied, did |-> {},
                    calm |-> TRUE]
        /\ UNCHANGED <<w, denied>>
    BY DEF Begin
<1>2. w \in World
    BY DEF TypeOK
<1>3. ASSUME ~refused, NEW i \in 1..Len(runs), Looked(runs[i]), verdict[i] # "deferred"
      PROVE  ~Deferred(runs, i) /\ Measure(w, runs[i]) # "blocked"
  <2>1. verdict[i] \notin {"blocked", "refused", "denied"}
      BY <1>1, <1>3 DEF Refusing
  <2>2. Gate(runs, i) \notin {"blocked", "refused", "denied", "deferred"}
      BY <1>3, <2>1 DEF Entry
  <2>3. runs[i].action \notin Unchecked \cup Refused /\ ~Deletes(runs[i])
      BY <1>3 DEF Looked, Measured, Unchecked, Refused
  <2> QED BY <2>2, <2>3 DEF Gate
<1>4. call'.at # "refused" => Passed(call')
    BY <1>1, <1>3 DEF Passed
<1>5. Kept(call'.then, w', Touched(call'))
    BY <1>1, <1>2 DEF Kept
<1> QED BY <1>1, <1>2, <1>4, <1>5 DEF Foreseen, SurprisesWereDeferred

(* A check stops a calm call only where the preview had deferred it, or the*)
(* call moved the host that a migrate goes to.                             *)
LEMMA StopWasDeferred ==
  ASSUME TypeOK, Reviewed, Foreseen, call.at = "check", More, call.calm,
         CheckVerdict(Current) \in Refusing, ~Deletes(Current),
         ~TargetMoves(call.runs, call.pos)
  PROVE  call.verdict[call.pos] = "deferred"
<1>1. call.pos \in 1..Len(call.runs) /\ Current \in Step
    BY CurrentTyped
<1>2. Authorized(Current) /\ denied = call.rules /\ Kept(call.then, w, Touched(call))
    BY <1>1 DEF Reviewed, Foreseen, Current
<1>3. ~PolicyRefuses(Current) /\ Current.action \notin Refused
    BY <1>2 DEF Authorized, PolicyRefuses
<1>4. Current.action \notin Unchecked /\ Measure(w, Current) \in Refusing
    BY <1>3 DEF CheckVerdict, Refusing
<1>5. Looked(Current)
    BY <1>1, <1>3, <1>4 DEF Step, Actions, Looked
<1>6. Measure(w, Current) = "blocked"
    BY <1>4, <1>5, MeasureTyped DEF Looked, Refusing
<1>7. SUFFICES ASSUME call.verdict[call.pos] # "deferred" PROVE FALSE
    OBVIOUS
<1>8. ~Deferred(call.runs, call.pos) /\ Measure(call.then, Current) # "blocked"
    BY <1>1, <1>5, <1>7 DEF Foreseen, Passed, Current
<1>9. Touched(call) \cap Reads(Current) = {}
    BY <1>8 DEF Deferred, Touched, Current
<1>10. Current.action = "migrate" => "host" \notin Touched(call)
    BY DEF TargetMoves, Touched, Current
<1> QED BY <1>1, <1>2, <1>5, <1>6, <1>8, <1>9, <1>10, MeasureKeeps DEF Foreseen, Looked

(* Every step keeps what was foreseen.                                     *)
LEMMA ForeseenNext == TypeOK /\ Reviewed /\ Foreseen /\ [Next]_vars => Foreseen'
<1> SUFFICES ASSUME TypeOK, Reviewed, Foreseen, [Next]_vars PROVE Foreseen'
    OBVIOUS
<1>1. CASE Apply
  <2> DEFINE runs == [i \in 1..Len(plan) |-> [plan[i].step EXCEPT !.of = i]]
  <2>1. runs \in Seq(Step)
      BY ApplyRuns
  <2>2. Begin("apply", runs, [i \in 1..Len(runs) |-> Entry(runs, i)], "executing")
      BY <1>1 DEF Apply
  <2> HIDE DEF runs
  <2> QED BY <2>1, <2>2, BeginForeseen
<1>2. CASE Rollback
  <2>1. PICK order \in LastFirst :
          Begin("rollback", [k \in DOMAIN order |-> Undo(order[k])],
                [i \in DOMAIN order |-> Gate([k \in DOMAIN order |-> Undo(order[k])], i)], "failed")
      BY <1>2 DEF Rollback
  <2> DEFINE runs == [k \in DOMAIN order |-> Undo(order[k])]
  <2>2. runs \in Seq(Step) /\ DOMAIN order = 1..Len(runs)
      BY RollbackRuns
  <2>3. Begin("rollback", runs, [i \in DOMAIN order |-> Gate(runs, i)], "failed")
      BY <2>1
  <2> HIDE DEF runs
  <2> QED BY <2>2, <2>3, BeginForeseen
<1>3. CASE RefusedUnread
    BY <1>3, CallTyped DEF RefusedUnread, NoSuchCall, Foreseen, SurprisesWereDeferred
<1>4. ASSUME call'.runs = call.runs, call'.verdict = call.verdict, call'.then = call.then,
             call'.at # "refused", call.at # "refused"
      PROVE  call'.then \in World /\ Passed(call')
    BY <1>4 DEF Foreseen, Passed
<1>5. CASE Check
  <2>1. CASE CheckVerdict(Current) \in Refusing
    <3>1. /\ call'.at = "idle" /\ call'.runs = call.runs /\ call'.verdict = call.verdict
          /\ call'.then = call.then /\ call'.pos = call.pos /\ call'.calm = call.calm
        BY <1>5, <2>1, CallTyped DEF Check, Stop, Call
    <3>2. call.calm /\ ~Deletes(Current) /\ ~TargetMoves(call.runs, call.pos) =>
            call.verdict[call.pos] = "deferred"
        BY <1>5, <2>1, StopWasDeferred DEF Check
    <3> QED BY <1>4, <1>5, <3>1, <3>2 DEF Check, Foreseen, SurprisesWereDeferred, Current
  <2>2. CASE CheckVerdict(Current) \notin Refusing
    <3>1. call' = [call EXCEPT !.at = "act"] /\ UNCHANGED <<w, denied>> /\ call.at = "check"
        BY <1>5, <2>2 DEF Check
    <3>2. /\ call'.at = "act" /\ call'.runs = call.runs /\ call'.verdict = call.verdict
          /\ call'.then = call.then /\ call'.pos = call.pos /\ call'.calm = call.calm
          /\ call'.rules = call.rules /\ call'.stopped = call.stopped
        BY <3>1, CallTyped DEF Call
    <3> QED BY <1>4, <3>1, <3>2 DEF Foreseen, SurprisesWereDeferred, Touched
  <2> QED BY <2>1, <2>2
<1>6. CASE CheckUnread
  <2>1. /\ call'.at = "idle" /\ call'.runs = call.runs /\ call'.verdict = call.verdict
        /\ call'.then = call.then /\ ~call'.calm /\ call.at = "check"
      BY <1>6, CallTyped DEF CheckUnread, Call
  <2> QED BY <1>4, <2>1 DEF Foreseen, SurprisesWereDeferred
<1>7. CASE ActRefused
  <2>1. /\ call'.at = "idle" /\ call'.runs = call.runs /\ call'.verdict = call.verdict
        /\ call'.then = call.then /\ call'.pos = call.pos /\ call.at = "act"
      BY <1>7, CallTyped DEF ActRefused, Stop, Call
  <2>2. Deletes(Current)
      BY <1>7 DEF ActRefused, DeleteRefused
  <2> QED BY <1>4, <2>1, <2>2 DEF Foreseen, SurprisesWereDeferred, Current
<1>8. CASE Act \/ ActFails
  <2>1. Kept(w, w', Changed(Current))
    <3>1. w \in World /\ Current \in Step
        BY <1>8, Worked, CallTyped, CurrentTyped DEF TypeOK, More
    <3> QED BY <1>8, <3>1, Worked, StepKeeps
  <2>2. call'.at = "check" /\ call.calm => Kept(call.then, w', Touched(call'))
    <3> SUFFICES ASSUME call'.at = "check", call.calm PROVE Kept(call.then, w', Touched(call'))
        OBVIOUS
    <3>1. Kept(call.then, w', Touched(call) \cup Changed(Current))
        BY <1>8, <2>1, Worked, KeptOnAndOn DEF Foreseen
    <3>2. Touched(call') = Touched(call) \cup Changed(Current)
        BY <1>8, Worked, TouchedGrows
    <3> QED BY <3>1, <3>2
  <2> QED BY <1>4, <1>8, <2>2, Worked DEF Foreseen, SurprisesWereDeferred
<1>9. CASE Finish
  <2>1. /\ call'.at = "idle" /\ call'.runs = call.runs /\ call'.verdict = call.verdict
        /\ call'.then = call.then /\ call'.stopped = call.stopped /\ call.at = "check"
      BY <1>9, CallTyped DEF Finish, Call
  <2> QED BY <1>4, <2>1 DEF Foreseen, SurprisesWereDeferred
<1>10. CASE OthersAct \/ RulesTurn
  <2>1. /\ call'.at = call.at /\ call'.runs = call.runs /\ call'.verdict = call.verdict
        /\ call'.then = call.then /\ call'.stopped = call.stopped /\ ~call'.calm
      BY <1>10, CallTyped DEF OthersAct, RulesTurn, Call
  <2> QED BY <1>4, <2>1 DEF Foreseen, SurprisesWereDeferred
<1>11. CASE UNCHANGED vars
    BY <1>11 DEF vars, Foreseen, SurprisesWereDeferred, Passed, Touched, Current
<1> QED BY <1>1, <1>2, <1>3, <1>5, <1>6, <1>7, <1>8, <1>9, <1>10, <1>11 DEF Next

(* A step that the preview measured passes its check, unless someone else  *)
(* changed the vCenter or the rules, or a read failed: a plan stops by     *)
(* surprise only at a step the preview called deferred, or at a migrate to *)
(* a host that an earlier step moved.                                      *)
THEOREM NoSurpriseButTheDeferred == Spec => []SurprisesWereDeferred
<1>1. Init => Reviewed /\ Idled
    BY DEF Init, NoSuchCall, Reviewed, Idled
<1>2. Init => Foreseen
    BY DEF Init, NoSuchCall, Foreseen, SurprisesWereDeferred, Passed
<1>3. Foreseen => SurprisesWereDeferred
    BY DEF Foreseen
<1> QED BY <1>1, <1>2, <1>3, TypeInit, TypeNext, ReviewedNext, ForeseenNext, PTL DEF Spec

-----------------------------------------------------------------------------
(* What the preview refused.                                               *)

(* A set of numbers that is not empty has a least one: numbers are ordered *)
(* like the intervals up to them.                                          *)
LEMMA Least ==
  ASSUME NEW T, T \subseteq Nat, T # {}
  PROVE  \E m \in T : \A k \in T : m <= k
<1> DEFINE R == StrictSubsetOrdering(Nat)
           U == {1..m : m \in T}
<1>1. IsWellFoundedOn(R, FiniteSubsetsOf(Nat))
    BY FS_StrictSubsetOrderingWellFounded
<1>2. U \subseteq FiniteSubsetsOf(Nat) /\ U # {}
  <2>1. ASSUME NEW m \in T PROVE 1..m \in FiniteSubsetsOf(Nat)
    <3>1. 1 \in Int /\ m \in Int /\ 1..m \subseteq Nat
        OBVIOUS
    <3> QED BY <3>1, FS_Interval DEF FiniteSubsetsOf
  <2> QED BY <2>1
<1>3. PICK u \in U : \A v \in U : ~(<<v, u>> \in R)
  <2> HIDE DEF R, U
  <2> QED BY <1>1, <1>2, WFMin
<1>4. PICK m \in T : u = 1..m
    OBVIOUS
<1>5. \A k \in T : m <= k
  <2> SUFFICES ASSUME NEW k \in T, k < m PROVE FALSE
      OBVIOUS
  <2>1. 1..k \in U /\ 1..m \in U
      OBVIOUS
  <2>2. ~(<<1..k, 1..m>> \in R)
      BY <1>3, <1>4, <2>1
  <2>3. m \in 1..m /\ m \notin 1..k
      OBVIOUS
  <2> QED BY <2>2, <2>3 DEF StrictSubsetOrdering
<1> QED BY <1>5

\* The vCenters that the first k steps pass through, from x.
Courses(x, runs, k) ==
  {p \in [0..k -> World] : p[0] = x /\ \A j \in 1..k : p[j] \in Leaves(p[j - 1], runs[j])}

(* The vCenters before a step are what the steps before it leave, one      *)
(* after the other.                                                        *)
LEMMA BeforeUnfolds ==
  ASSUME NEW x \in World, NEW runs \in Seq(Step), NEW i \in 1..Len(runs)
  PROVE  \E f : /\ f = [k \in 0..i - 1 |-> IF k = 0 THEN {x}
                                         ELSE UNION {Leaves(y, runs[k]) : y \in f[k - 1]}]
               /\ Before(x, runs, i) = f[i - 1]
<1> DEFINE g == [k \in 0..i - 1 |-> {p[k] : p \in Courses(x, runs, k)}]
<1>1. \A k \in 1..i - 1 : runs[k] \in Step /\ k \in Nat /\ k - 1 \in 0..i - 1
    OBVIOUS
<1>2. i - 1 \in Nat /\ g[0] = {x}
  <2>1. [j \in 0..0 |-> x] \in Courses(x, runs, 0)
      BY DEF Courses
  <2> QED BY <2>1 DEF Courses
<1>3. ASSUME NEW k \in 1..i - 1
      PROVE  g[k] = UNION {Leaves(y, runs[k]) : y \in g[k - 1]}
  <2>1. ASSUME NEW p \in Courses(x, runs, k)
        PROVE  p[k] \in UNION {Leaves(y, runs[k]) : y \in g[k - 1]}
    <3> DEFINE q == [j \in 0..k - 1 |-> p[j]]
    <3>1. q \in Courses(x, runs, k - 1)
        BY <1>1 DEF Courses
    <3>2. q[k - 1] = p[k - 1] /\ p[k] \in Leaves(p[k - 1], runs[k])
        BY <1>1 DEF Courses
    <3>3. p[k - 1] \in g[k - 1]
        BY <1>1, <3>1, <3>2
    <3> QED BY <3>2, <3>3
  <2>2. ASSUME NEW p \in Courses(x, runs, k - 1), NEW z \in Leaves(p[k - 1], runs[k])
        PROVE  z \in g[k]
    <3> DEFINE q == [j \in 0..k |-> IF j = k THEN z ELSE p[j]]
    <3>1. p \in [0..k - 1 -> World] /\ p[k - 1] \in World
        BY <1>1 DEF Courses
    <3>2. z \in World
        BY <1>1, <3>1, LeavesTyped
    <3>3. q \in [0..k -> World]
        BY <1>1, <3>1, <3>2
    <3>4. q[0] = x
        BY <1>1 DEF Courses
    <3>5. ASSUME NEW j \in 1..k PROVE q[j] \in Leaves(q[j - 1], runs[j])
      <4>1. CASE j = k
          BY <1>1, <4>1
      <4>2. CASE j # k
        <5>1. j \in 1..k - 1 /\ j - 1 \in 0..k - 1
            BY <1>1, <4>2
        <5> QED BY <1>1, <4>2, <5>1 DEF Courses
      <4> QED BY <4>1, <4>2
    <3>6. q \in Courses(x, runs, k) /\ q[k] = z
        BY <1>1, <3>3, <3>4, <3>5 DEF Courses
    <3> QED BY <1>1, <3>6
  <2>3. g[k - 1] = {p[k - 1] : p \in Courses(x, runs, k - 1)}
        /\ g[k] = {p[k] : p \in Courses(x, runs, k)}
      BY <1>1
  <2>4. ASSUME NEW z \in UNION {Leaves(y, runs[k]) : y \in g[k - 1]} PROVE z \in g[k]
    <3>1. PICK y \in g[k - 1] : z \in Leaves(y, runs[k])
        OBVIOUS
    <3>2. PICK p \in Courses(x, runs, k - 1) : y = p[k - 1]
        BY <2>3
    <3> QED BY <2>2, <3>1, <3>2
  <2> HIDE DEF g
  <2>5. ASSUME NEW z \in g[k] PROVE z \in UNION {Leaves(y, runs[k]) : y \in g[k - 1]}
    <3>1. PICK p \in Courses(x, runs, k) : z = p[k]
        BY <2>3
    <3> QED BY <2>1, <3>1
  <2> QED BY <2>4, <2>5
<1>4. g = [k \in 0..i - 1 |-> IF k = 0 THEN {x}
                             ELSE UNION {Leaves(y, runs[k]) : y \in g[k - 1]}]
  <2> DEFINE h == [k \in 0..i - 1 |-> IF k = 0 THEN {x}
                                      ELSE UNION {Leaves(y, runs[k]) : y \in g[k - 1]}]
  <2>1. \A k \in 0..i - 1 : k = 0 \/ k \in 1..i - 1
      BY <1>2
  <2>2. \A k \in 0..i - 1 : g[k] = h[k]
      BY <1>2, <1>3, <2>1
  <2>3. g = [k \in 0..i - 1 |-> g[k]] /\ h = [k \in 0..i - 1 |-> h[k]]
      OBVIOUS
  <2> HIDE DEF g, h
  <2>4. g = h
      BY <2>2, <2>3
  <2> QED BY <2>4 DEF h
<1> HIDE DEF g
<1> QED BY <1>4 DEF Before

(* What the steps before a step leave is what they found, apart from what  *)
(* _changes says of them all: by induction over the steps.                 *)
LEMMA BeforeKeeps ==
  ASSUME NEW x \in World, NEW runs \in Seq(Step), NEW i \in 1..Len(runs), NEW y \in Before(x, runs, i)
  PROVE  Kept(x, y, UNION {Changed(runs[j]) : j \in 1..i - 1})
<1>1. PICK f : /\ f = [k \in 0..i - 1 |-> IF k = 0 THEN {x}
                                         ELSE UNION {Leaves(z, runs[k]) : z \in f[k - 1]}]
               /\ Before(x, runs, i) = f[i - 1]
    BY BeforeUnfolds
<1> DEFINE T(k) == UNION {Changed(runs[j]) : j \in 1..k}
           Astray == {k \in 0..i - 1 : \E z \in f[k] : ~Kept(x, z, T(k))}
<1>2. i - 1 \in Nat
    OBVIOUS
<1>3. Astray = {}
  <2> SUFFICES ASSUME Astray # {} PROVE FALSE
      OBVIOUS
  <2>1. PICK m \in Astray : \A k \in Astray : m <= k
    <3>1. Astray \subseteq Nat
        OBVIOUS
    <3> QED BY <3>1, Least
  <2>2. PICK z \in f[m] : ~Kept(x, z, T(m))
      OBVIOUS
  <2>3. m \in 0..i - 1
      OBVIOUS
  <2>4. CASE m = 0
    <3>1. z = x
        BY <1>1, <1>2, <2>4
    <3> QED BY <2>2, <3>1 DEF Kept
  <2>5. CASE m # 0
    <3>1. m - 1 \in 0..i - 1 /\ m \in 1..i - 1 /\ m - 1 \in Nat /\ ~(m <= m - 1)
        BY <2>3, <2>5
    <3>2. PICK y0 \in f[m - 1] : z \in Leaves(y0, runs[m])
      <4>1. f[m] = UNION {Leaves(u, runs[m]) : u \in f[m - 1]}
          BY <1>1, <2>3, <2>5
      <4> QED BY <4>1
    <3>3. Kept(x, y0, T(m - 1))
        BY <2>1, <3>1, <3>2
    <3>4. Kept(y0, z, Changed(runs[m]))
      <4>1. y0 \in World /\ runs[m] \in Step
          BY <3>1, <3>3 DEF Kept
      <4> QED BY <3>2, <4>1, StepKeeps
    <3>5. T(m) = T(m - 1) \cup Changed(runs[m])
      <4>1. 1..m = (1..m - 1) \cup {m}
          BY <3>1
      <4> QED BY <4>1
    <3> HIDE DEF T
    <3> QED BY <2>2, <3>3, <3>4, <3>5, KeptOnAndOn
  <2> QED BY <2>4, <2>5
<1>4. y \in f[i - 1] /\ i - 1 \in 0..i - 1
    BY <1>1, <1>2
<1> QED BY <1>3, <1>4

\* What a refused preview blocks, it measured, and no earlier step changes it.
Blocked ==
  call.at = "refused" =>
    \A i \in 1..Len(call.runs) :
      call.verdict[i] = "blocked" =>
        /\ call.runs[i].action \in Measured /\ ~Deferred(call.runs, i)
        /\ Measure(call.then, call.runs[i]) = "blocked"

(* The preview of a call that begins, or is refused.                       *)
LEMMA BeginBlocked ==
  ASSUME TypeOK, NEW kind \in {"apply", "rollback"}, NEW runs \in Seq(Step), NEW verdict, NEW busy,
         Begin(kind, runs, verdict, busy),
         \A i \in 1..Len(runs) :
           verdict[i] = IF kind = "apply" THEN Entry(runs, i) ELSE Gate(runs, i)
  PROVE  Blocked'
<1>1. call'.runs = runs /\ call'.verdict = verdict /\ call'.then = w
    BY DEF Begin
<1>2. ASSUME NEW i \in 1..Len(runs), verdict[i] = "blocked"
      PROVE  /\ runs[i].action \in Measured /\ ~Deferred(runs, i)
             /\ Measure(w, runs[i]) = "blocked"
  <2>1. Gate(runs, i) = "blocked"
      BY <1>2 DEF Entry
  <2>2. runs[i] \in Step
      OBVIOUS
  <2> QED BY <2>1, <2>2 DEF Gate, Step, Actions
<1> QED BY <1>1, <1>2 DEF Blocked

(* Every step keeps it: a refused call is over.                            *)
LEMMA BlockedNext == TypeOK /\ Blocked /\ [Next]_vars => Blocked'
<1> SUFFICES ASSUME TypeOK, Blocked, [Next]_vars PROVE Blocked'
    OBVIOUS
<1>1. CASE Apply
  <2> DEFINE runs == [i \in 1..Len(plan) |-> [plan[i].step EXCEPT !.of = i]]
  <2>1. runs \in Seq(Step)
      BY ApplyRuns
  <2>2. Begin("apply", runs, [i \in 1..Len(runs) |-> Entry(runs, i)], "executing")
      BY <1>1 DEF Apply
  <2> HIDE DEF runs
  <2> QED BY <2>1, <2>2, BeginBlocked
<1>2. CASE Rollback
  <2>1. PICK order \in LastFirst :
          Begin("rollback", [k \in DOMAIN order |-> Undo(order[k])],
                [i \in DOMAIN order |-> Gate([k \in DOMAIN order |-> Undo(order[k])], i)], "failed")
      BY <1>2 DEF Rollback
  <2> DEFINE runs == [k \in DOMAIN order |-> Undo(order[k])]
  <2>2. runs \in Seq(Step) /\ DOMAIN order = 1..Len(runs)
      BY RollbackRuns
  <2>3. Begin("rollback", runs, [i \in DOMAIN order |-> Gate(runs, i)], "failed")
      BY <2>1
  <2> HIDE DEF runs
  <2> QED BY <2>2, <2>3, BeginBlocked
<1>3. CASE RefusedUnread
    BY <1>3 DEF RefusedUnread, NoSuchCall, Blocked
<1>4. CASE Check \/ CheckUnread \/ ActRefused \/ Finish
  <2>1. call'.at \in {"idle", "act"}
      BY <1>4, CallTyped DEF Check, CheckUnread, ActRefused, Finish, Stop, Call
  <2> QED BY <2>1 DEF Blocked
<1>5. CASE Act \/ ActFails
    BY <1>5, Worked DEF Blocked
<1>6. CASE OthersAct \/ RulesTurn \/ UNCHANGED vars
  <2>1. /\ call'.at = call.at /\ call'.runs = call.runs /\ call'.verdict = call.verdict
        /\ call'.then = call.then
      BY <1>6, CallTyped DEF OthersAct, RulesTurn, vars, Call
  <2> QED BY <2>1 DEF Blocked
<1> QED BY <1>1, <1>2, <1>3, <1>4, <1>5, <1>6 DEF Next

(* A step that the preview blocked is blocked in every vCenter the steps   *)
(* before it may leave, but for an upload, whose file may come meanwhile,  *)
(* and a migrate to a host that they move.                                 *)
THEOREM BlockedStaysBlocked == Spec => []BlockedForGood
<1>1. Init => Blocked
    BY DEF Init, NoSuchCall, Blocked
<1>2. TypeOK /\ Blocked => BlockedForGood
  <2> SUFFICES ASSUME TypeOK, Blocked, call.at = "refused", NEW i \in 1..Len(call.runs),
                      call.verdict[i] = "blocked", call.runs[i].action # "upload",
                      ~TargetMoves(call.runs, i),
                      NEW x \in Before(call.then, call.runs, i)
               PROVE  Measure(x, call.runs[i]) = "blocked"
      BY DEF BlockedForGood
  <2>1. call.then \in World /\ call.runs \in Seq(Step) /\ call.runs[i] \in Step
      BY DEF TypeOK, Call
  <2>2. /\ call.runs[i].action \in Measured /\ ~Deferred(call.runs, i)
        /\ Measure(call.then, call.runs[i]) = "blocked"
      BY DEF Blocked
  <2> DEFINE touched == UNION {Changed(call.runs[j]) : j \in 1..i - 1}
  <2>3. Kept(call.then, x, touched)
      BY <2>1, BeforeKeeps
  <2>4. touched \cap Reads(call.runs[i]) = {}
      BY <2>2 DEF Deferred
  <2>5. call.runs[i].action = "migrate" => "host" \notin touched
      BY DEF TargetMoves
  <2> HIDE DEF touched
  <2> QED BY <2>1, <2>2, <2>3, <2>4, <2>5, MeasureKeeps
<1> QED BY <1>1, <1>2, TypeInit, TypeNext, BlockedNext, PTL DEF Spec

(* Both together: a preview refuses no step that would run, and misses none*)
(* that would not, but for those it defers, uploads and migrates to a host *)
(* that the plan moves.  (_deferred_after, check_step)                     *)
THEOREM PreviewIsTrue == Spec => []PreviewTellsTheTruth
BY NoSurpriseButTheDeferred, BlockedStaysBlocked, PTL DEF PreviewTellsTheTruth
=============================================================================
