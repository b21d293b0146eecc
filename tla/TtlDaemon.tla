------------------------------ MODULE TtlDaemon ------------------------------
(***************************************************************************)
(* The TTL check of the daemon: scanner/scheduler.py over ops/ttl.py.      *)
(*                                                                         *)
(* Once a minute the daemon reads the expired entries and, one by one,     *)
(* asks the policy, checks that the VM of that name is the one the TTL was *)
(* set on, deletes it, audits the outcome and removes the entry.  Users    *)
(* set and cancel TTLs, rules change and other people change the vCenter   *)
(* between any two of those steps.  An update of the store is one step     *)
(* here: that is what TtlStore shows of it.                                *)
(***************************************************************************)
EXTENDS Inventory, Naturals

CONSTANTS
  Grants,      \* the TTLs ever set
  NoEntry, NoUuid, NoName,
  MaxFaults,   \* bound: failures of vCenter, policy or store, and daemon crashes
  MaxMeddling  \* bound: changes others make to the vCenter

ASSUME TtlAssumption ==
  /\ NoUuid \notin Uuids /\ NoName \notin Names
  /\ MaxFaults \in Nat /\ MaxMeddling \in Nat
  /\ NoEntry \notin [grant : Grants, uuid : Uuids \cup {NoUuid}, due : BOOLEAN]

VARIABLES
  book,      \* [Names -> Entry or NoEntry]: the store
  denied,    \* the tools a deny rule refuses
  daemon,    \* [at, batch, cur, vm]
  last,      \* [Names -> Outcomes]: _last_ttl_outcome
  faults, meddling,
  hist       \* what happened; the program does not have it

vars == <<book, denied, daemon, last, faults, meddling, hist, inventory>>

Tools == {"delete_vm", "power_off_vm"}

Entry == [grant : Grants, uuid : Uuids \cup {NoUuid}, due : BOOLEAN]
Book  == [Names -> Entry \cup {NoEntry}]
None  == [n \in Names |-> NoEntry]

Refusals == {"denied delete", "denied power off", "policy error", "failed"}
Drops    == {"identity", "gone", "ambiguous"}
Outcomes == {"none", "ok"} \cup Refusals \cup Drops

Daemon == [at    : {"idle", "next", "verify", "find", "stop", "power off", "destroy", "remove"},
           batch : Book,                     \* the expired entries it still has to handle
           cur   : Names \cup {NoName},
           vm    : Uuids \cup {NoUuid}]      \* the VM object delete_vm holds

Resting == [at |-> "idle", batch |-> None, cur |-> NoName, vm |-> NoUuid]

\* The entry the daemon is dealing with.
InHand == daemon.batch[daemon.cur]

\* What came of one try of an entry.
Attempt == [grant : Grants, uuid : Uuids \cup {NoUuid}, outcome : Outcomes]

History == [used       : SUBSET Grants,
            withdrawn  : SUBSET Grants,   \* cancelled or replaced
            early      : SUBSET Grants,   \* withdrawn while no check was running
            ignored    : SUBSET Grants,   \* their VM was deleted although they were withdrawn
            swapped    : SUBSET Grants,   \* others changed the vCenter between the two look-ups
            destroyed  : SUBSET (Grants \X (Uuids \cup {NoUuid}) \X Uuids),  \* grant, its UUID, the VM
            orphaned   : SUBSET Grants,   \* dropped while the VM was there under its name
            unreadable : SUBSET Grants,   \* its VM's UUID could not be read
            \* Under a name, since the daemon started or removed an entry of that name:
            tried      : [Names -> SUBSET Attempt],   \* the newest attempt, if any,
            row        : [Names -> SUBSET Attempt]]   \* and the newest audit row

\* delete_vm acts on a VM that was found, for an entry in the batch.
Placed ==
  /\ daemon.at \notin {"idle", "next"} => daemon.cur \in Names /\ InHand # NoEntry
  /\ daemon.at \in {"stop", "power off", "destroy"} => daemon.vm \in Uuids

TypeOK ==
  /\ InventoryTypeOK
  /\ book \in Book
  /\ denied \subseteq Tools
  /\ daemon \in Daemon /\ Placed
  /\ last \in [Names -> Outcomes]
  /\ faults \in 0 .. MaxFaults /\ meddling \in 0 .. MaxMeddling
  /\ hist \in History

NoRows == [n \in Names |-> {}]

Past(used) ==
  [used |-> used, withdrawn |-> {}, early |-> {}, ignored |-> {}, swapped |-> {}, destroyed |-> {},
   orphaned |-> {}, unreadable |-> {},
   tried |-> NoRows, row |-> NoRows]

\* An entry of an earlier version has no UUID.
Init ==
  /\ named \in [Uuids -> Names \cup {Unborn}] /\ on = {}
  /\ \/ book = None /\ hist = Past({})
     \/ \E n \in Names, g \in Grants :
          /\ book = [None EXCEPT ![n] = [grant |-> g, uuid |-> NoUuid, due |-> FALSE]]
          /\ hist = Past({g})
  /\ denied = {}
  /\ daemon = Resting
  /\ last = [n \in Names |-> "none"]
  /\ faults = 0 /\ meddling = 0

-----------------------------------------------------------------------------
(* set_vm_ttl, cancel_vm_ttl, and the clock                                *)

GrantAt(n) == IF book[n] = NoEntry THEN {} ELSE {book[n].grant}

Withdrawn(n) ==
  [hist EXCEPT !.withdrawn = @ \cup GrantAt(n),
               !.early     = IF daemon.at = "idle" THEN @ \cup GrantAt(n) ELSE @]

\* The measurement finds the VM and reads its UUID; an entry that is there is replaced.
\* A rule that is a maintenance window denies the delete and not the setting of a TTL.
SetTtl(n, g) ==
  /\ g \notin hist.used
  /\ \E u \in Uuids :
       /\ Finds(n, u)
       /\ book' = [book EXCEPT ![n] = [grant |-> g, uuid |-> u, due |-> FALSE]]
  /\ hist' = [Withdrawn(n) EXCEPT !.used = @ \cup {g}]
  /\ UNCHANGED <<denied, daemon, last, faults, meddling, inventory>>

CancelTtl(n) ==
  /\ book[n] # NoEntry
  /\ book' = [book EXCEPT ![n] = NoEntry]
  /\ hist' = Withdrawn(n)
  /\ UNCHANGED <<denied, daemon, last, faults, meddling, inventory>>

Expire(n) ==
  /\ book[n] # NoEntry /\ ~book[n].due
  /\ book' = [book EXCEPT ![n].due = TRUE]
  /\ UNCHANGED <<denied, daemon, last, faults, meddling, hist, inventory>>

-----------------------------------------------------------------------------
(* The daemon                                                              *)

Fault(happens) ==
  /\ happens => faults < MaxFaults
  /\ faults' = IF happens THEN faults + 1 ELSE faults

\* _audit_ttl: a row for every success, and for every outcome that is not the last one.
Audited(n, outcome) ==
  last' = [last EXCEPT ![n] = IF outcome = "ok" THEN "none" ELSE outcome]

Tried(entry, outcome) == [grant |-> entry.grant, uuid |-> entry.uuid, outcome |-> outcome]

Rows(h, n, entry, outcome) ==
  [h EXCEPT !.tried[n] = {Tried(entry, outcome)},
            !.row[n]   = IF outcome = "ok" \/ last[n] # outcome THEN {Tried(entry, outcome)} ELSE @]

\* Fault: entries to retry are remembered instead of read again.
KeepInMemory(n, h, outcome) ==
  /\ Audited(n, outcome)
  /\ hist' = Rows(h, n, daemon.batch[n], outcome)
  /\ daemon' = [Resting EXCEPT !.batch = daemon.batch]
  /\ UNCHANGED <<book, denied, meddling>>

\* The entry stays in the store; a later check reads it again.
Keep(n, h, outcome) ==
  /\ Audited(n, outcome)
  /\ hist' = Rows(h, n, daemon.batch[n], outcome)
  /\ daemon' = [Resting EXCEPT !.at = "next", !.batch = [daemon.batch EXCEPT ![n] = NoEntry]]
  /\ UNCHANGED <<book, denied, meddling>>

\* The entry goes: what it stood for is done or can no longer be done.
Conclude(h, outcome) ==
  /\ Audited(daemon.cur, outcome)
  /\ hist' = Rows(h, daemon.cur, InHand, outcome)
  /\ daemon' = [daemon EXCEPT !.at = "remove", !.vm = NoUuid]
  /\ UNCHANGED <<book, denied, meddling>>

Drop(outcome) ==
  Conclude([hist EXCEPT !.orphaned =
              IF Finds(daemon.cur, InHand.uuid) THEN @ \cup {InHand.grant} ELSE @], outcome)

Goto(label) ==
  /\ daemon' = [daemon EXCEPT !.at = label]
  /\ UNCHANGED <<book, denied, last, meddling, hist>>

\* get_expired_entries: one look at the store.
Expired == [n \in Names |-> IF book[n] # NoEntry /\ book[n].due THEN book[n] ELSE NoEntry]

\* Entries kept from the last check are there only under the fault KeepInMemory.
Check ==
  /\ daemon.at = "idle" /\ Expired # None
  /\ daemon' = [daemon EXCEPT
       !.at = "next",
       !.batch = [n \in Names |-> IF daemon.batch[n] # NoEntry THEN daemon.batch[n] ELSE Expired[n]]]
  /\ UNCHANGED <<book, denied, last, faults, meddling, hist, inventory>>

\* guard(delete_vm)
Guard(n) ==
  /\ daemon.at = "next" /\ daemon.batch[n] # NoEntry
  /\ \/ "delete_vm" \in denied /\ Fault(FALSE) /\ Keep(n, hist, "denied delete")
     \/ Fault(TRUE) /\ Keep(n, hist, "policy error")
     \/ /\ "delete_vm" \notin denied /\ Fault(FALSE)
        /\ daemon' = [daemon EXCEPT !.at = "verify", !.cur = n]
        /\ UNCHANGED <<book, denied, last, meddling, hist>>
  /\ UNCHANGED inventory

CheckDone ==
  /\ daemon.at = "next" /\ daemon.batch = None
  /\ daemon' = Resting
  /\ UNCHANGED <<book, denied, last, faults, meddling, hist, inventory>>

\* Fault: a look-up that finds no VM, or two, leaves the entry to be tried again.
MissingKept ==
  /\ Fault(FALSE)
  /\ FindsNoOne(daemon.cur)
  /\ Keep(daemon.cur, hist, "failed")

\* VMNotFoundError and AmbiguousVMError
Missing ==
  /\ Fault(FALSE)
  /\ FindsNoOne(daemon.cur)
  /\ Drop(IF Holders(daemon.cur) = {} THEN "gone" ELSE "ambiguous")

\* Fault: an entry goes whatever the exception was.
FailedDropping == Fault(TRUE) /\ Drop("failed")

\* Any other exception: the connection, a task.
Failed == Fault(TRUE) /\ Keep(daemon.cur, hist, "failed")

\* Fault: the name is taken for identity.
SameName(u) == TRUE

SameVm(u) == u = InHand.uuid

\* conn_mgr.connect and verify_ttl_identity.  A UUID that cannot be read is not a match.
Verify ==
  /\ daemon.at = "verify"
  /\ \/ Failed
     \/ InHand.uuid = NoUuid /\ Fault(FALSE) /\ Goto("find")
     \/ /\ InHand.uuid # NoUuid
        /\ \/ Missing
           \/ \E u \in Uuids : Finds(daemon.cur, u) /\ SameVm(u) /\ Fault(FALSE) /\ Goto("find")
           \/ \E u \in Uuids : Finds(daemon.cur, u) /\ ~SameVm(u) /\ Fault(FALSE) /\ Drop("identity")
  /\ UNCHANGED inventory

VerifyUnreadable ==
  /\ daemon.at = "verify" /\ InHand.uuid # NoUuid /\ ~FindsNoOne(daemon.cur)
  /\ Fault(TRUE)
  /\ Conclude([hist EXCEPT
                 !.unreadable = @ \cup {InHand.grant},
                 !.orphaned = IF Finds(daemon.cur, InHand.uuid) THEN @ \cup {InHand.grant} ELSE @],
              "identity")
  /\ UNCHANGED inventory

\* Fault: nothing is found and nothing is raised.
FindUnchecked ==
  /\ daemon.at = "find"
  /\ \E u \in Uuids \cup {NoUuid} :
       /\ IF u = NoUuid THEN FindsNoOne(daemon.cur) ELSE Finds(daemon.cur, u)
       /\ daemon' = [daemon EXCEPT !.at = "stop", !.vm = u]
  /\ UNCHANGED <<book, denied, last, faults, meddling, hist, inventory>>

\* delete_vm looks the VM up by its name again.
Find ==
  /\ daemon.at = "find"
  /\ \/ Failed
     \/ Missing
     \/ \E u \in Uuids :
          /\ Finds(daemon.cur, u) /\ Fault(FALSE)
          /\ daemon' = [daemon EXCEPT !.at = "stop", !.vm = u]
          /\ UNCHANGED <<book, denied, last, meddling, hist>>
  /\ UNCHANGED inventory

\* The object is gone, or not in the state the call needs: vCenter raises.
Raises == Fault(FALSE) /\ Keep(daemon.cur, hist, "failed") /\ UNCHANGED inventory

\* A running VM is powered off first, if power_off_vm is allowed.
Stop ==
  /\ daemon.at = "stop"
  /\ \/ Failed
     \/ ~Alive(daemon.vm) /\ Raises
     \/ Alive(daemon.vm) /\ daemon.vm \notin on /\ Fault(FALSE) /\ Goto("destroy")
     \/ /\ daemon.vm \in on
        /\ \/ /\ "power_off_vm" \in denied /\ Fault(FALSE)
              /\ Keep(daemon.cur, hist, "denied power off")
           \/ Fault(TRUE) /\ Keep(daemon.cur, hist, "policy error")
           \/ "power_off_vm" \notin denied /\ Fault(FALSE) /\ Goto("power off")
  /\ UNCHANGED inventory

StopRunning ==
  /\ daemon.at = "power off"
  /\ \/ daemon.vm \notin on /\ Raises
     \/ /\ daemon.vm \in on /\ PowerOff(daemon.vm)
        /\ \/ Failed
           \/ Fault(FALSE) /\ Goto("destroy")
     \/ Failed /\ UNCHANGED inventory

Deleted ==
  [hist EXCEPT
     !.destroyed = @ \cup {<<InHand.grant, InHand.uuid, daemon.vm>>},
     !.ignored   = IF InHand.grant \in GrantAt(daemon.cur) THEN @ ELSE @ \cup {InHand.grant}]

\* Destroy_Task may do its work and outlive the wait.
DestroyVm ==
  /\ daemon.at = "destroy"
  /\ \/ (~Alive(daemon.vm) \/ daemon.vm \in on) /\ Raises
     \/ Failed /\ UNCHANGED inventory
     \/ /\ Alive(daemon.vm) /\ daemon.vm \notin on
        /\ Destroy(daemon.vm)
        /\ \/ Fault(FALSE) /\ Conclude(Deleted, "ok")
           \/ Fault(TRUE) /\ Keep(daemon.cur, Deleted, "failed")

\* Fault: the last outcome is not forgotten with the entry.
RemoveAlone ==
  /\ daemon.at = "remove"
  /\ daemon' = [Resting EXCEPT !.at = "next",
                               !.batch = [daemon.batch EXCEPT ![daemon.cur] = NoEntry]]
  /\ book' = [book EXCEPT ![daemon.cur] = NoEntry]
  /\ hist' = [hist EXCEPT !.tried[daemon.cur] = {}, !.row[daemon.cur] = {}]
  /\ UNCHANGED <<last, denied, faults, meddling, inventory>>

\* remove_entry takes away whatever entry has that name now.
Remove ==
  /\ daemon.at = "remove"
  /\ daemon' = [Resting EXCEPT !.at = "next",
                               !.batch = [daemon.batch EXCEPT ![daemon.cur] = NoEntry]]
  /\ \/ /\ Fault(FALSE)
        /\ book' = [book EXCEPT ![daemon.cur] = NoEntry]
        /\ last' = [last EXCEPT ![daemon.cur] = "none"]
        /\ hist' = [hist EXCEPT !.tried[daemon.cur] = {}, !.row[daemon.cur] = {}]
     \/ Fault(TRUE) /\ UNCHANGED <<book, last, hist>>
  /\ UNCHANGED <<denied, meddling, inventory>>

DaemonStep ==
  \/ Check \/ CheckDone \/ Verify \/ VerifyUnreadable \/ Find \/ Stop \/ StopRunning
  \/ DestroyVm \/ Remove
  \/ \E n \in Names : Guard(n)

-----------------------------------------------------------------------------
(* The environment                                                         *)

\* The daemon is killed and started again.
Crash ==
  /\ Fault(TRUE)
  /\ daemon' = Resting /\ last' = [n \in Names |-> "none"]
  /\ hist' = [hist EXCEPT !.tried = NoRows, !.row = NoRows]
  /\ UNCHANGED <<book, denied, meddling, inventory>>

\* Rules are edited, and windows open and close.
Policy ==
  /\ denied' \in SUBSET Tools \ {denied}
  /\ UNCHANGED <<book, daemon, last, faults, meddling, hist, inventory>>

Meddle ==
  /\ meddling < MaxMeddling /\ meddling' = meddling + 1
  /\ \E u \in Uuids : \/ OutsideDestroy(u) \/ OutsidePower(u)
                       \/ \E n \in Names : OutsideCreate(u, n) \/ OutsideRename(u, n)
  /\ hist' = [hist EXCEPT !.swapped =
                IF daemon.at = "find" THEN @ \cup {InHand.grant} ELSE @]
  /\ UNCHANGED <<book, denied, daemon, last, faults>>

Next ==
  \/ DaemonStep \/ Crash \/ Policy \/ Meddle
  \/ \E n \in Names : CancelTtl(n) \/ Expire(n) \/ \E g \in Grants : SetTtl(n, g)

Spec == Init /\ [][Next]_vars

\* The job runs every minute for as long as the daemon is up; every wait in it is bounded.
FairSpec == Spec /\ WF_vars(DaemonStep)

-----------------------------------------------------------------------------
(* Properties                                                              *)

\* The daemon deletes the VM the TTL was set on and no other, if nobody else
\* changes the vCenter between its two look-ups by name (scheduler.py:352-353).
\* Entries without a UUID go by the name.
DeletesItsVmUnlessSwapped ==
  \A d \in hist.destroyed : d[2] \in {d[3], NoUuid} \/ d[1] \in hist.swapped

\* A TTL cancelled or replaced while no check is running never deletes its VM,
\* whatever failed, was denied or kept in the checks before (ttl.py:191-205).
WithdrawnInTimeIsSafe == hist.ignored \cap hist.early = {}

\* An entry whose VM still has its name is dropped undone only if the VM's UUID
\* could not be read: failures of vCenter and policy, and refusals, keep it
\* (scheduler.py:385-394).
FailuresKeepTheEntry == hist.orphaned \subseteq hist.unreadable

\* An expired entry does not stay: its VM is deleted, or the entry is dropped,
\* cancelled or replaced, unless a rule denies the tools (scheduler.py:319-404).
ExpiredIsHandled ==
  \A n \in Names :
    (book[n] # NoEntry /\ book[n].due) ~> (Expired[n] = NoEntry \/ denied # {})

\* What came of the newest attempt under a name is what the newest audit row under
\* that name says, one written since the daemon started or last removed an entry of
\* the name; and that row is of the same TTL, or of one that was under the name
\* before and was withdrawn (scheduler.py:157-177, 404).
OutcomesAreRecorded ==
  \A n \in Names : \A t \in hist.tried[n] : \E r \in hist.row[n] :
    /\ r.outcome = t.outcome
    /\ r.grant = t.grant \/ r.grant \in hist.withdrawn

\* scheduler.py:149: the last outcome is recorded per VM.  The newest row under a name
\* is of the VM whose TTL was tried last under it.
RowIsOfTheVm ==
  \A n \in Names : \A t \in hist.tried[n], r \in hist.row[n] :
    r.uuid = t.uuid \/ NoUuid \in {r.uuid, t.uuid}

\* ops/ttl.py:132: a TTL that is set is acted upon when it expires.  Here: the daemon
\* does not remove it in place of the one it has just dealt with.
NoTtlIsLost ==
  [][daemon.at = "remove" /\ daemon'.at = "next" /\ book' # book => GrantAt(daemon.cur) = {InHand.grant}]_vars

\* scheduler.py:386: a failing connection or task does not orphan the VM.
NoVmIsOrphaned == hist.orphaned = {}
=============================================================================
