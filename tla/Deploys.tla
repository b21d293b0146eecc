------------------------------ MODULE Deploys -------------------------------
(***************************************************************************)
(* Deploying VMs, one or a batch: ops/vm_deploy, ops/ova_deploy, and       *)
(* mcp_server/tools/deploy and cli/deploy.                                 *)
(*                                                                         *)
(* A call works through its items.  Each one becomes a VM, by a vCenter    *)
(* task or by an import under an NFC lease, and then gets what the item    *)
(* asks for: each such step looks the VM up by its name.  A batch goes on  *)
(* after an item that failed.  Others create and destroy VMs, and change   *)
(* what is cloned from.                                                    *)
(***************************************************************************)
EXTENDS Naturals, Sequences, FiniteSets

CONSTANTS
  Vms,         \* instance UUIDs
  Names, NoName, NoVm,
  Calls,       \* the calls: [tool, items]
  Rules,       \* what rules.yaml may deny
  MaxChanges   \* bound: what others do while the call works

Parts == {"reconfigure", "iso", "snapshot", "power_on"}
Ways  == {"ova", "linked", "template", "clone", "create"}
Item  == [name : Names \cup {NoName}, way : Ways, wants : SUBSET Parts]
Tools == {"single", "clones", "linked", "spec"}

\* One item or more (a call of none does nothing); if they are not entries of a spec,
\* they have one set of options.
ASSUME DeployAssumption ==
  /\ NoVm \notin Vms /\ NoName \notin Names /\ MaxChanges \in Nat
  /\ Calls \subseteq [tool : Tools, items : Seq(Item) \ {<<>>}]
  /\ \A c \in Calls : c.tool # "spec" =>
       \A k \in 1..Len(c.items) : c.items[k].way = c.items[1].way /\ c.items[k].wants = c.items[1].wants

VARIABLES
  vm,       \* the VMs
  source,   \* what is cloned from: a VM, a template, or nothing of the name
  base,     \* ... has the snapshot that linked clones start from
  lease,    \* the NFC lease of the item
  left,     \* history: the VMs whose lease was left open, by a refused Abort or unread
  denied,   \* the tools rules.yaml denies
  call,
  changes

vars == <<vm, source, base, lease, left, denied, call, changes>>

\* A VM that is "coming" is still being cloned, one that is "importing" is under
\* a lease.  home: it is in the folder that deploys write to.
Vm == [is : {"unborn", "coming", "importing", "here", "gone"}, name : Names \cup {NoName},
       home : BOOLEAN, has : SUBSET Parts]
NoLease == "none"
Open    == {"initializing", "ready"}

\* of: what the row is about, an item or what was to be cloned.
Row == [ok : BOOLEAN, vm : Vms \cup {NoVm}, of : {"item", "source"}]

Call == [tool : Tools, items : Seq(Item), pos : Nat,
         at : {"begin", "item", "task", "lease", "upload", "follow", "over"},
         made : Vms \cup {NoVm}, todo : SUBSET Parts, rows : Seq(Row),
         answer : {"none", "refused", "rows", "raised"}]

TypeOK ==
  /\ vm \in [Vms -> Vm] /\ source \in {"none", "vm", "template"} /\ base \in BOOLEAN
  /\ lease \in Open \cup {NoLease, "error", "done", "aborted", "left"}
  /\ left \in [refused : SUBSET Vms, unread : SUBSET Vms]
  /\ denied \in Rules /\ changes \in 0..MaxChanges /\ call \in Call
  /\ call.at # "over" => call.pos \in 1..Len(call.items) /\ Len(call.rows) = call.pos - 1

-----------------------------------------------------------------------------
(* What a call finds                                                       *)

Here(n) == {v \in Vms : vm[v].is = "here" /\ vm[v].name = n}

\* Fault: with several VMs of the name, one of them is taken.
FoundFirst(n) == Here(n)

\* find_vm_by_name, _require_vm: none of the name, or several, is an error.
Found(n) == {v \in Here(n) : Here(n) = {v}}

\* vCenter has one VM of a name in a folder.
Free(n) == \A v \in Vms : vm[v].is \in {"coming", "importing", "here"} /\ vm[v].home => vm[v].name # n

\* The VM or template that the way clones, and the snapshot: linked_clone,
\* deploy_from_template, clone_vm.
SourceFits(way) ==
  CASE way = "linked"   -> source # "none" /\ base
    [] way = "template" -> source = "template"
    [] way = "clone"    -> source # "none"
    [] OTHER            -> TRUE

\* deploy_ova reports a follow-up that failed in its text, and goes on.
BestEffort(tool, item) == tool = "single" /\ item.way = "ova"

\* The steps after the VM is there, and those that come before each of them.
\* deploy_ova, alone, powers on first.
Todo(tool, item) ==
  item.wants \cap (IF BestEffort(tool, item) THEN {"power_on", "snapshot"} ELSE Parts)

Earlier(tool, item, part) ==
  CASE part = "reconfigure" -> {}
    [] part = "iso"         -> {"reconfigure"}
    [] part = "snapshot"    -> IF BestEffort(tool, item) THEN {"power_on"} ELSE {"reconfigure", "iso"}
    [] part = "power_on"    -> IF BestEffort(tool, item) THEN {} ELSE Parts \ {"power_on"}

-----------------------------------------------------------------------------
(* The call and its items                                                  *)

Init ==
  /\ vm = [v \in Vms |-> [is |-> "unborn", name |-> NoName, home |-> TRUE, has |-> {}]]
  /\ source \in {"none", "vm", "template"} /\ base \in BOOLEAN
  /\ lease = NoLease /\ left = [refused |-> {}, unread |-> {}]
  /\ denied \in Rules /\ changes = 0
  /\ \E c \in Calls :
       call = [tool |-> c.tool, items |-> c.items, pos |-> 1, at |-> "begin", made |-> NoVm,
               todo |-> {}, rows |-> <<>>, answer |-> "none"]

This == call.items[call.pos]

Over(c, answer) == [c EXCEPT !.at = "over", !.answer = answer]

\* Fault: the loop does not end with the list.
NextItemOnly(c, ok) ==
  [c EXCEPT !.rows = Append(@, [ok |-> ok, vm |-> c.made, of |-> "item"]), !.pos = @ + 1, !.at = "item",
            !.made = NoVm, !.todo = {}]

\* One row for the item, whatever became of it, and on to the next one.
NextItem(c, ok) ==
  LET rows == Append(c.rows, [ok |-> ok, vm |-> c.made, of |-> "item"])
  IN  IF c.pos = Len(c.items) THEN Over([c EXCEPT !.rows = rows], "rows")
      ELSE [c EXCEPT !.rows = rows, !.pos = @ + 1, !.at = "item", !.made = NoVm, !.todo = {}]

\* An item raised: its row says so.  A call of one item raises itself.
ItemRaised(c) == NextItem(c, FALSE)

Stays == UNCHANGED <<source, base, denied, changes>>

\* batch_clone without its source answers with one row, for the source.
Sourceless(c) ==
  Over([c EXCEPT !.rows = <<[ok |-> FALSE, vm |-> NoVm, of |-> "source"]>>], "rows")

\* authorize_reached, with used_by_options or, for a spec, with all it reaches;
\* before it the guard of the tool itself.
Used ==
  CASE call.tool = "spec" -> Ways \cup Parts
    [] OTHER              -> {This.way} \cup This.wants

Authorize ==
  /\ call.at = "begin"
  /\ call' = IF Used \cap denied # {} THEN Over(call, "refused")
             ELSE IF call.tool = "clones" /\ source = "none" THEN Sourceless(call)
             ELSE [call EXCEPT !.at = "item"]
  /\ UNCHANGED <<vm, lease, left>> /\ Stays

\* batch_clone looks its source up outside the loop: several of the name, or a read
\* that fails, raise.
SourceUnread ==
  /\ call.at = "begin" /\ call.tool = "clones" /\ Used \cap denied = {}
  /\ call' = Over(call, "raised")
  /\ UNCHANGED <<vm, lease, left>> /\ Stays

\* An entry without a name ends batch_deploy, and the rows so far are lost.
Unnamed ==
  /\ call.at = "item" /\ This.name = NoName
  /\ call' = Over(call, "raised")
  /\ UNCHANGED <<vm, lease, left>> /\ Stays

\* What is cloned from does not fit, or anything before the task raises.
CannotStart ==
  /\ call.at = "item" /\ This.name # NoName
  /\ call' = ItemRaised(call)
  /\ UNCHANGED <<vm, lease, left>> /\ Stays

Born(v, is) == vm' = [vm EXCEPT ![v] = [@ EXCEPT !.is = is, !.name = This.name]]

Unborn == {v \in Vms : vm[v].is = "unborn"}

\* Clone, CreateVM_Task.
StartTask ==
  /\ call.at = "item" /\ This.name # NoName /\ This.way # "ova"
  /\ SourceFits(This.way) /\ Free(This.name)
  /\ \E v \in Unborn :
       /\ Born(v, "coming")
       /\ call' = [call EXCEPT !.at = "task", !.made = v]
  /\ UNCHANGED <<lease, left>> /\ Stays

Turns(v, is) == vm' = [vm EXCEPT ![v].is = is]

Follow(c) == [c EXCEPT !.at = "follow", !.todo = Todo(c.tool, This)]

TaskEnds ==
  /\ call.at = "task" /\ vm[call.made].is = "coming"
  /\ Turns(call.made, "here") /\ call' = Follow(call)
  /\ UNCHANGED <<lease, left>> /\ Stays

TaskFails ==
  /\ call.at = "task"
  /\ Turns(call.made, "gone") /\ call' = ItemRaised(call)
  /\ UNCHANGED <<lease, left>> /\ Stays

\* TaskStillRunning: vCenter goes on cloning.  It also drops a lease in time.
TaskOutlivesWait ==
  /\ call.at = "task" /\ call' = ItemRaised(call)
  /\ UNCHANGED <<vm, lease, left>> /\ Stays

LateTaskEnds ==
  /\ \E v \in Vms \ {call.made} :
       \/ vm[v].is = "coming" /\ Turns(v, "here")
       \/ vm[v].is \in {"coming", "importing"} /\ Turns(v, "gone")
  /\ UNCHANGED <<lease, left, call>> /\ Stays

-----------------------------------------------------------------------------
(* The import of an OVA                                                    *)

StartImport ==
  /\ call.at = "item" /\ This.name # NoName /\ This.way = "ova"
  /\ \E v \in Unborn :
       /\ Turns(v, "importing")
       /\ call' = [call EXCEPT !.at = "lease", !.made = v]
  /\ lease' = "initializing"
  /\ UNCHANGED left /\ Stays

LeaseTurns ==
  /\ \/ lease = "initializing" /\ Free(This.name)
        /\ lease' = "ready" /\ Born(call.made, "importing")
     \/ lease \in Open /\ lease' = "error" /\ Turns(call.made, "gone")
  /\ UNCHANGED <<left, call>> /\ Stays

\* What the call knows no more of.
Forgotten == IF lease \in Open THEN "left" ELSE lease

\* Abort removes what was imported; it may itself fail.
Abort ==
  \/ /\ lease' = IF lease \in Open THEN "aborted" ELSE lease
     /\ Turns(call.made, "gone") /\ UNCHANGED left
  \/ /\ lease' = Forgotten
     /\ left' = [left EXCEPT !.refused = @ \cup {call.made}] /\ UNCHANGED vm

\* Fault: the wait for the lease ends without an abort.
LeaveLease == UNCHANGED <<lease, left, vm>>

\* The lease is not ready in time; it may yet turn before the abort.
StopWaiting == Abort

LeaseTimesOut ==
  /\ call.at = "lease"
  /\ StopWaiting
  /\ call' = ItemRaised(call)
  /\ Stays

LeaseFails ==
  /\ call.at = "lease" /\ lease = "error"
  /\ call' = ItemRaised(call)
  /\ UNCHANGED <<vm, lease, left>> /\ Stays

\* Reading lease.state raises, or what lies between the last read and the try: no Abort.
LeaseUnread ==
  /\ call.at = "lease"
  /\ lease' = Forgotten /\ left' = [left EXCEPT !.unread = @ \cup {call.made}]
  /\ call' = ItemRaised(call)
  /\ UNCHANGED vm /\ Stays

Upload ==
  /\ call.at = "lease" /\ lease = "ready"
  /\ call' = [call EXCEPT !.at = "upload"]
  /\ UNCHANGED <<vm, lease, left>> /\ Stays

\* The disks that the OVA has are up, and the lease is completed.
Complete ==
  /\ call.at = "upload" /\ lease = "ready"
  /\ lease' = "done" /\ Turns(call.made, "here") /\ call' = Follow(call)
  /\ UNCHANGED left /\ Stays

\* A disk, or Complete, raises: before or after it took effect.
UploadFails ==
  /\ call.at = "upload"
  /\ \/ Abort
     \/ lease = "ready" /\ lease' = "done" /\ Turns(call.made, "here") /\ UNCHANGED left
  /\ call' = ItemRaised(call)
  /\ Stays

-----------------------------------------------------------------------------
(* The steps after                                                         *)

Gets(v, part) == vm' = [vm EXCEPT ![v].has = @ \cup {part}]

\* The step whose turn it is.
Due == {part \in call.todo : Earlier(call.tool, This, part) \cap call.todo = {}}

FollowUp ==
  /\ call.at = "follow"
  /\ \E part \in Due :
       /\ \E v \in Found(This.name) : Gets(v, part)
       /\ call' = [call EXCEPT !.todo = @ \ {part}]
  /\ UNCHANGED <<lease, left>> /\ Stays

\* The name finds no VM or several, or the step fails; a task may end after all.
FollowUpFails ==
  /\ call.at = "follow"
  /\ \E part \in Due :
       /\ UNCHANGED vm \/ \E v \in Found(This.name) : Gets(v, part)
       /\ call' = IF BestEffort(call.tool, This) THEN [call EXCEPT !.todo = @ \ {part}]
                  ELSE ItemRaised(call)
  /\ UNCHANGED <<lease, left>> /\ Stays

ItemDone ==
  /\ call.at = "follow" /\ call.todo = {}
  /\ call' = NextItem(call, TRUE)
  /\ UNCHANGED <<vm, lease, left>> /\ Stays

-----------------------------------------------------------------------------
(* Everyone else                                                           *)

Others ==
  /\ call.at # "over" /\ changes < MaxChanges /\ changes' = changes + 1
  /\ UNCHANGED <<lease, left, denied, call>>

OthersCreate ==
  /\ Others
  /\ \E v \in Unborn \ {call.made}, n \in Names, home \in BOOLEAN :
       /\ home => Free(n)
       /\ vm' = [vm EXCEPT ![v] = [is |-> "here", name |-> n, home |-> home, has |-> {}]]
  /\ UNCHANGED <<source, base>>

OthersDestroy ==
  /\ Others
  /\ \E v \in Vms : vm[v].is = "here" /\ Turns(v, "gone")
  /\ UNCHANGED <<source, base>>

\* convert_to_template wants the VM off, convert_to_vm a template.
Convert ==
  /\ Others
  /\ \/ source = "vm" /\ source' = "template"
     \/ source = "template" /\ source' = "vm"
  /\ UNCHANGED <<vm, base>>

SourceTurns ==
  /\ Others
  /\ \/ source' = "none" /\ source # "none" /\ base' = FALSE
     \/ source # "none" /\ base' = ~base /\ UNCHANGED source
  /\ UNCHANGED vm

Next ==
  \/ Authorize \/ SourceUnread \/ Unnamed \/ CannotStart \/ StartTask \/ TaskEnds \/ TaskFails
  \/ TaskOutlivesWait \/ LateTaskEnds
  \/ StartImport \/ LeaseTurns \/ LeaseTimesOut \/ LeaseFails \/ LeaseUnread
  \/ Upload \/ Complete \/ UploadFails \/ FollowUp \/ FollowUpFails \/ ItemDone
  \/ OthersCreate \/ OthersDestroy \/ Convert \/ SourceTurns

Spec == Init /\ [][Next]_vars

-----------------------------------------------------------------------------
\* The VMs the call created, and the items whose VM others destroyed.
Created == ({call.rows[k].vm : k \in 1..Len(call.rows)} \cup {call.made}) \ {NoVm}
MadeFor(k) == IF k <= Len(call.rows) THEN call.rows[k].vm ELSE call.made
Bereft  == {k \in 1..Len(call.items) : /\ k <= Len(call.rows) \/ (k = call.pos /\ call.at = "follow")
                                       /\ MadeFor(k) # NoVm /\ vm[MadeFor(k)].is = "gone"}

(* batch_deploy, batch_clone, batch_linked_clone: an item whose row says   *)
(* "ok" has the VM it created, with all it asked for, unless others        *)
(* destroyed that VM since; no created VM runs before it has its snapshot, *)
(* and none gets what the rules deny.  A VM that the call did not create   *)
(* gets a part only if it bears the name of an item whose own VM is gone,  *)
(* and then one that this item asked for: the steps after look the name up *)
(* again, and the row says "ok" (FollowUpsStayOnTheirVm is what fails).    *)
(* An answer has one row for each item, or, of batch_clone, the one row of *)
(* a missing source, and then the call did nothing.                        *)
RowsTellTheTruth ==
  /\ call.answer = "rows" =>
       \/ /\ Len(call.rows) = Len(call.items)
          /\ \A k \in 1..Len(call.rows) : call.rows[k].of = "item"
       \/ /\ call.tool = "clones" /\ Len(call.rows) = 1 /\ Created = {}
          /\ call.rows[1].of = "source" /\ ~call.rows[1].ok
  /\ \A k \in 1..Len(call.rows) :
       LET row == call.rows[k]  item == call.items[k] IN
       /\ row.ok => row.vm # NoVm
       /\ row.vm # NoVm /\ vm[row.vm].is = "here" =>
            LET has == vm[row.vm].has IN
            /\ has \subseteq item.wants \ denied
            /\ row.ok /\ ~BestEffort(call.tool, item) => has = item.wants
            /\ "power_on" \in has /\ ~BestEffort(call.tool, item) => has = item.wants
  /\ \A v \in Vms \ Created : \A part \in vm[v].has :
       \E k \in Bereft : /\ call.items[k].name = vm[v].name
                         /\ part \in call.items[k].wants \ denied

(* vm_deploy.py:160: the snapshot and the power-on of batch_clone are "for *)
(* each clone", of the VMs that the call created and no other.             *)
FollowUpsStayOnTheirVm == \A v \in Vms : vm[v].has # {} => v \in Created

Importing == call.at \in {"lease", "upload"}

(* deploy_ova: no half-imported VM is left holding an open lease, but one  *)
(* whose Abort vCenter refused, or whose lease.state could not be read:    *)
(* that is outside the try, and has no Abort.                              *)
LeaseIsSettled ==
  \A v \in Vms : vm[v].is = "importing" =>
    (Importing /\ v = call.made) \/ v \in left.refused \cup left.unread

(* ova_deploy.py:408: "Abort, or the half-created VM shell stays behind    *)
(* holding the lease": whatever ends an import, the lease is aborted.      *)
ShellsAreAborted ==
  \A v \in Vms : vm[v].is = "importing" => (Importing /\ v = call.made) \/ v \in left.refused
=============================================================================
