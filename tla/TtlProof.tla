------------------------------- MODULE TtlProof -------------------------------
(***************************************************************************)
(* The TTLs: the check that acts on them, and the file that keeps them.    *)
(*                                                                         *)
(* The TTL check keeps its types, deletes the VM a TTL was set on unless   *)
(* the vCenter changed between its two look-ups, and never acts on a TTL   *)
(* withdrawn before the check, for any number of VMs, names, TTLs,         *)
(* failures and changes.                                                   *)
(*                                                                         *)
(* The store of the TTLs, in the last part, implements TtlBook for any     *)
(* number of callers, processes and names: the read-modify-write of        *)
(* ops/ttl.py is atomic.  The argument is one invariant: only the caller   *)
(* that has the lock file is between Load and Return, and what it is about *)
(* to write is its update applied to what the file holds now.              *)
(***************************************************************************)
EXTENDS TtlDaemon, TtlStore, TLAPS

Acting == {"stop", "power off", "destroy"}
Busy   == {"verify", "find", "stop", "power off", "destroy", "remove"}

-----------------------------------------------------------------------------
(* Types                                                                   *)

(* Counting a failure stays within the bound.                              *)
LEMMA FaultTyped ==
  ASSUME faults \in 0 .. MaxFaults, NEW b \in BOOLEAN, Fault(b)
  PROVE  faults' \in 0 .. MaxFaults
  BY TtlAssumption DEF Fault

(* An audited attempt leaves a history and a table of last outcomes.       *)
LEMMA RowsTyped ==
  ASSUME NEW h \in History, NEW n \in Names, NEW entry \in Entry, NEW o \in Outcomes
  PROVE  Rows(h, n, entry, o) \in History
<1>1. Tried(entry, o) \in Attempt
    BY DEF Tried, Entry, Attempt
<1> QED BY <1>1 DEF Rows, History

(* The table of last outcomes keeps its type.                              *)
LEMMA AuditedTyped ==
  ASSUME last \in [Names -> Outcomes], NEW n \in Names, NEW o \in Outcomes, Audited(n, o)
  PROVE  last' \in [Names -> Outcomes]
  BY DEF Audited, Outcomes

(* What the entry in hand says.                                            *)
LEMMA InHandTyped ==
  ASSUME TypeOK, daemon.at \in Busy
  PROVE  /\ daemon.cur \in Names /\ InHand \in Entry
         /\ InHand.grant \in Grants /\ InHand.uuid \in Uuids \cup {NoUuid}
<1>1. daemon.cur \in Names /\ InHand # NoEntry /\ daemon.batch \in Book
    BY DEF TypeOK, Placed, Daemon, Busy
<1>2. InHand \in Entry
    BY <1>1 DEF InHand, Book
<1> QED BY <1>1, <1>2 DEF Entry

(* The daemon puts an entry aside for a later check.  (continue)           *)
LEMMA KeepTyped ==
  ASSUME TypeOK, NEW n \in Names, daemon.batch[n] # NoEntry,
         NEW h \in History, NEW o \in Outcomes, Keep(n, h, o),
         InventoryTypeOK', faults' \in 0 .. MaxFaults
  PROVE  TypeOK'
<1>1. daemon.batch \in Book
    BY DEF TypeOK, Daemon
<1>2. daemon.batch[n] \in Entry
    BY <1>1 DEF Book
<1>3. hist' \in History /\ last' \in [Names -> Outcomes]
    BY <1>2, RowsTyped, AuditedTyped DEF TypeOK, Keep
<1>4. [daemon.batch EXCEPT ![n] = NoEntry] \in Book
    BY <1>1 DEF Book
<1>5. /\ daemon' = [at |-> "next", batch |-> [daemon.batch EXCEPT ![n] = NoEntry],
                    cur |-> NoName, vm |-> NoUuid]
      /\ UNCHANGED <<book, denied, meddling>>
    BY DEF Keep, Resting
<1>6. daemon' \in Daemon /\ Placed'
    BY <1>4, <1>5 DEF Daemon, Placed
<1> QED BY <1>3, <1>5, <1>6 DEF TypeOK

(* The daemon goes on to remove the entry in hand.                         *)
LEMMA ConcludeTyped ==
  ASSUME TypeOK, daemon.at \in Busy,
         NEW h \in History, NEW o \in Outcomes, Conclude(h, o),
         InventoryTypeOK', faults' \in 0 .. MaxFaults
  PROVE  TypeOK'
<1>1. daemon.cur \in Names /\ InHand \in Entry /\ daemon \in Daemon
    BY InHandTyped DEF TypeOK
<1>2. hist' \in History /\ last' \in [Names -> Outcomes]
    BY <1>1, RowsTyped, AuditedTyped DEF TypeOK, Conclude
<1>3. /\ daemon' = [daemon EXCEPT !.at = "remove", !.vm = NoUuid]
      /\ UNCHANGED <<book, denied, meddling>>
    BY DEF Conclude
<1>4. InHand # NoEntry
    BY DEF TypeOK, Placed, Busy
<1>5. daemon' \in Daemon /\ Placed'
    BY <1>1, <1>3, <1>4 DEF Daemon, Placed, InHand
<1> QED BY <1>2, <1>3, <1>5 DEF TypeOK

(* An entry dropped undone.  (TTLIdentityError, VMNotFoundError, ...)      *)
LEMMA DropTyped ==
  ASSUME TypeOK, daemon.at \in Busy, NEW o \in Outcomes, Drop(o),
         InventoryTypeOK', faults' \in 0 .. MaxFaults
  PROVE  TypeOK'
<1> DEFINE h == [hist EXCEPT !.orphaned =
                   IF Finds(daemon.cur, InHand.uuid) THEN @ \cup {InHand.grant} ELSE @]
<1>1. h \in History
    BY InHandTyped DEF TypeOK, History
<1>2. Conclude(h, o)
    BY DEF Drop
<1> HIDE DEF h
<1> QED BY <1>1, <1>2, ConcludeTyped

(* The daemon takes the next step with the entry in hand.                  *)
LEMMA GotoTyped ==
  ASSUME TypeOK, daemon.at \in Busy, NEW l \in {"find", "power off", "destroy"}, Goto(l),
         l \in Acting => daemon.at \in Acting,
         InventoryTypeOK', faults' \in 0 .. MaxFaults
  PROVE  TypeOK'
<1>1. daemon' = [daemon EXCEPT !.at = l] /\ UNCHANGED <<book, denied, last, meddling, hist>>
    BY DEF Goto
<1>2. daemon' \in Daemon /\ Placed'
    BY <1>1 DEF TypeOK, Daemon, Placed, InHand, Busy, Acting
<1> QED BY <1>1, <1>2 DEF TypeOK

(* Failures and exceptions keep the entry.                                 *)
LEMMA FailedTyped ==
  ASSUME TypeOK, daemon.at \in Busy, NEW h \in History, Keep(daemon.cur, h, "failed"),
         InventoryTypeOK', faults' \in 0 .. MaxFaults
  PROVE  TypeOK'
<1>1. daemon.cur \in Names /\ daemon.batch[daemon.cur] # NoEntry
    BY DEF TypeOK, Placed, Busy, InHand
<1> QED BY <1>1, KeepTyped DEF Outcomes, Refusals
(* A TTL withdrawn leaves a history.                                       *)
LEMMA WithdrawnTyped ==
  ASSUME TypeOK, NEW n \in Names
  PROVE  GrantAt(n) \subseteq Grants /\ Withdrawn(n) \in History
<1>1. book[n] \in Entry \cup {NoEntry} /\ hist \in History
    BY DEF TypeOK, Book
<1>2. GrantAt(n) \subseteq Grants
    BY <1>1 DEF GrantAt, Entry
<1> QED BY <1>1, <1>2 DEF Withdrawn, History

(* The history after a VM was deleted.                                     *)
LEMMA DeletedTyped ==
  ASSUME TypeOK, daemon.at \in Acting
  PROVE  Deleted \in History
<1>1. InHand.grant \in Grants /\ InHand.uuid \in Uuids \cup {NoUuid}
    BY InHandTyped DEF Acting, Busy
<1>2. daemon.vm \in Uuids /\ hist \in History
    BY DEF TypeOK, Placed, Acting
<1>3. <<InHand.grant, InHand.uuid, daemon.vm>> \in Grants \X (Uuids \cup {NoUuid}) \X Uuids
    BY <1>1, <1>2
<1> QED BY <1>1, <1>2, <1>3 DEF Deleted, History

(* Powering off and destroying keep the inventory's type.                  *)
LEMMA InventoryStep ==
  ASSUME InventoryTypeOK, NEW u \in Uuids, PowerOff(u) \/ Destroy(u)
  PROVE  InventoryTypeOK'
  BY NamesAssumption DEF InventoryTypeOK, PowerOff, Destroy

(* So does a step that leaves the inventory alone.                         *)
LEMMA InventoryStays ==
  ASSUME InventoryTypeOK, UNCHANGED inventory
  PROVE  InventoryTypeOK'
  BY DEF InventoryTypeOK, inventory

(* And whatever others do to it.                                           *)
LEMMA InventoryMeddled ==
  ASSUME InventoryTypeOK, NEW u \in Uuids,
         \/ OutsideDestroy(u) \/ OutsidePower(u)
         \/ \E n \in Names : OutsideCreate(u, n) \/ OutsideRename(u, n)
  PROVE  InventoryTypeOK'
<1>1. CASE OutsideDestroy(u)
    BY <1>1, InventoryStep DEF OutsideDestroy
<1>2. CASE OutsidePower(u)
    BY <1>2 DEF OutsidePower, PowerOn, PowerOff, Alive, InventoryTypeOK
<1>3. ASSUME NEW n \in Names, OutsideCreate(u, n) PROVE InventoryTypeOK'
    BY <1>3, NamesAssumption DEF OutsideCreate, Born, InventoryTypeOK
<1>4. ASSUME NEW n \in Names, OutsideRename(u, n) PROVE InventoryTypeOK'
    BY <1>4 DEF OutsideRename, Alive, InventoryTypeOK
<1> QED BY <1>1, <1>2, <1>3, <1>4

(* The daemon starts well-typed, with an old entry in the store or none.   *)
LEMMA TypeInit == Init => TypeOK
<1> SUFFICES ASSUME Init PROVE TypeOK
    OBVIOUS
<1>1. \A g \in SUBSET Grants : Past(g) \in History
    BY DEF Past, History, NoRows
<1>2. book \in Book /\ hist \in History
  <2>1. CASE book = None /\ hist = Past({})
      BY <2>1, <1>1 DEF None, Book
  <2>2. ASSUME NEW n \in Names, NEW g \in Grants,
               book = [None EXCEPT ![n] = [grant |-> g, uuid |-> NoUuid, due |-> FALSE]],
               hist = Past({g})
        PROVE  book \in Book /\ hist \in History
      BY <2>2, <1>1 DEF None, Book, Entry
  <2> QED BY <2>1, <2>2 DEF Init
<1>3. daemon \in Daemon /\ Placed
    BY DEF Init, Resting, None, Daemon, Book, Placed
<1>4. InventoryTypeOK
    BY DEF Init, InventoryTypeOK
<1> QED BY <1>2, <1>3, <1>4, TtlAssumption DEF Init, TypeOK, Outcomes

-----------------------------------------------------------------------------
(* One lemma per action, in the order of the module.                       *)

(* cancel_vm_ttl, the clock and set_vm_ttl.                                *)
LEMMA UsersTyped ==
  ASSUME TypeOK, NEW n \in Names,
         CancelTtl(n) \/ Expire(n) \/ \E g \in Grants : SetTtl(n, g)
  PROVE  TypeOK'
<1>i. InventoryTypeOK' /\ daemon' = daemon /\ (Placed => Placed')
    BY InventoryStays DEF TypeOK, CancelTtl, Expire, SetTtl, Placed, InHand
<1>b. book \in Book
    BY DEF TypeOK
<1>1. CASE CancelTtl(n)
  <2>1. book' \in Book
      BY <1>1, <1>b DEF CancelTtl, Book
  <2> QED BY <2>1, <1>1, <1>i, WithdrawnTyped DEF CancelTtl, TypeOK
<1>2. CASE Expire(n)
  <2>1. book' \in Book
    <3>1. book[n] \in Entry
        BY <1>2, <1>b DEF Expire, Book
    <3>2. [book[n] EXCEPT !.due = TRUE] \in Entry
        BY <3>1 DEF Entry
    <3> QED BY <3>2, <1>2, <1>b DEF Expire, Book
  <2> QED BY <2>1, <1>2, <1>i DEF Expire, TypeOK
<1>3. ASSUME NEW g \in Grants, SetTtl(n, g) PROVE TypeOK'
  <2>1. book' \in Book
      BY <1>3, <1>b DEF SetTtl, Book, Entry
  <2>2. hist' \in History
    <3>1. Withdrawn(n) \in History /\ hist' = [Withdrawn(n) EXCEPT !.used = @ \cup {g}]
        BY <1>3, WithdrawnTyped DEF SetTtl
    <3> QED BY <3>1 DEF History
  <2> QED BY <2>1, <2>2, <1>3, <1>i DEF SetTtl, TypeOK
<1> QED BY <1>1, <1>2, <1>3

(* get_expired_entries: the batch is a part of the store.                  *)
LEMMA CheckTyped == ASSUME TypeOK, Check PROVE TypeOK'
<1>1. InventoryTypeOK'
    BY InventoryStays DEF TypeOK, Check
<1>2. Expired \in Book /\ daemon \in Daemon
    BY DEF Expired, Book, TypeOK
<1>3. daemon' \in Daemon /\ daemon'.at = "next"
    BY <1>2 DEF Check, Daemon, Book
<1>4. Placed'
    BY <1>3 DEF Placed
<1> QED BY <1>1, <1>3, <1>4 DEF Check, TypeOK

(* The end of the loop.                                                    *)
LEMMA CheckDoneTyped == ASSUME TypeOK, CheckDone PROVE TypeOK'
<1>1. InventoryTypeOK'
    BY InventoryStays DEF TypeOK, CheckDone
<1>2. daemon' \in Daemon /\ Placed'
    BY DEF CheckDone, Resting, Daemon, None, Book, Placed
<1> QED BY <1>1, <1>2 DEF CheckDone, TypeOK

(* guard(delete_vm): refused, failed or passed.                            *)
LEMMA GuardTyped == ASSUME TypeOK, NEW n \in Names, Guard(n) PROVE TypeOK'
<1>1. InventoryTypeOK' /\ faults' \in 0 .. MaxFaults /\ daemon.batch[n] # NoEntry /\ hist \in History
    BY InventoryStays, FaultTyped DEF TypeOK, Guard
<1>2. ASSUME NEW o \in {"denied delete", "policy error"}, Keep(n, hist, o) PROVE TypeOK'
    BY <1>1, <1>2, KeepTyped DEF Outcomes, Refusals
<1>3. ASSUME daemon' = [daemon EXCEPT !.at = "verify", !.cur = n],
             UNCHANGED <<book, denied, last, meddling, hist>>
      PROVE  TypeOK'
  <2>1. daemon' \in Daemon /\ Placed'
      BY <1>1, <1>3 DEF TypeOK, Daemon, Placed, InHand
  <2> QED BY <1>1, <1>3, <2>1 DEF TypeOK
<1> QED BY <1>2, <1>3 DEF Guard

(* verify_ttl_identity.                                                    *)
LEMMA VerifyTyped == ASSUME TypeOK, Verify PROVE TypeOK'
<1>1. /\ InventoryTypeOK' /\ faults' \in 0 .. MaxFaults
      /\ daemon.at \in Busy /\ hist \in History
    BY InventoryStays, FaultTyped DEF TypeOK, Verify, Failed, Missing, Busy
<1>2. CASE Failed
    BY <1>1, <1>2, FailedTyped DEF Failed
<1>3. CASE Goto("find")
    BY <1>1, <1>3, GotoTyped DEF Acting
<1>4. ASSUME NEW o \in Drops, Drop(o) PROVE TypeOK'
    BY <1>1, <1>4, DropTyped DEF Outcomes
<1> QED BY <1>2, <1>3, <1>4 DEF Verify, Missing, Drops

(* verify_ttl_identity when the UUID cannot be read.                       *)
LEMMA VerifyUnreadableTyped == ASSUME TypeOK, VerifyUnreadable PROVE TypeOK'
<1>1. /\ InventoryTypeOK' /\ faults' \in 0 .. MaxFaults
      /\ daemon.at \in Busy /\ hist \in History
    BY InventoryStays, FaultTyped DEF TypeOK, VerifyUnreadable, Busy
<1> DEFINE h == [hist EXCEPT
       !.unreadable = @ \cup {InHand.grant},
       !.orphaned = IF Finds(daemon.cur, InHand.uuid) THEN @ \cup {InHand.grant} ELSE @]
<1>2. h \in History
    BY <1>1, InHandTyped DEF History
<1>3. Conclude(h, "identity")
    BY DEF VerifyUnreadable
<1> HIDE DEF h
<1> QED BY <1>1, <1>2, <1>3, ConcludeTyped DEF Outcomes, Drops

(* delete_vm looks the VM up.                                              *)
LEMMA FindTyped == ASSUME TypeOK, Find PROVE TypeOK'
<1>1. /\ InventoryTypeOK' /\ faults' \in 0 .. MaxFaults
      /\ daemon.at \in Busy /\ hist \in History
    BY InventoryStays, FaultTyped DEF TypeOK, Find, Failed, Missing, Busy
<1>2. CASE Failed
    BY <1>1, <1>2, FailedTyped DEF Failed
<1>3. CASE Missing
    BY <1>1, <1>3, DropTyped DEF Missing, Outcomes, Drops
<1>4. ASSUME NEW u \in Uuids, daemon' = [daemon EXCEPT !.at = "stop", !.vm = u],
             UNCHANGED <<book, denied, last, meddling, hist>>
      PROVE  TypeOK'
  <2>1. daemon' \in Daemon /\ Placed'
      BY <1>1, <1>4 DEF TypeOK, Daemon, Placed, InHand, Busy
  <2> QED BY <1>1, <1>4, <2>1 DEF TypeOK
<1> QED BY <1>2, <1>3, <1>4 DEF Find

(* delete_vm asks whether the VM runs and may be powered off.              *)
LEMMA StopTyped == ASSUME TypeOK, Stop PROVE TypeOK'
<1>1. /\ InventoryTypeOK' /\ faults' \in 0 .. MaxFaults
      /\ daemon.at \in Acting /\ daemon.at \in Busy /\ hist \in History
    BY InventoryStays, FaultTyped DEF TypeOK, Stop, Failed, Raises, Busy, Acting
<1>2. ASSUME NEW o \in Refusals, Keep(daemon.cur, hist, o) PROVE TypeOK'
  <2>1. daemon.cur \in Names /\ daemon.batch[daemon.cur] # NoEntry
      BY <1>1 DEF TypeOK, Placed, Busy, InHand
  <2> QED BY <1>1, <1>2, <2>1, KeepTyped DEF Outcomes
<1>3. ASSUME NEW l \in {"power off", "destroy"}, Goto(l) PROVE TypeOK'
    BY <1>1, <1>3, GotoTyped DEF Acting
<1> QED BY <1>2, <1>3 DEF Stop, Failed, Raises, Refusals

(* delete_vm powers the VM off.                                            *)
LEMMA StopRunningTyped == ASSUME TypeOK, StopRunning PROVE TypeOK'
<1>1. /\ daemon.at \in Acting /\ daemon.at \in Busy /\ hist \in History /\ daemon.vm \in Uuids
    BY DEF TypeOK, StopRunning, Busy, Acting, Placed
<1>2. InventoryTypeOK' /\ faults' \in 0 .. MaxFaults
    BY <1>1, InventoryStays, InventoryStep, FaultTyped DEF TypeOK, StopRunning, Failed, Raises
<1>3. CASE Keep(daemon.cur, hist, "failed")
    BY <1>1, <1>2, <1>3, FailedTyped
<1>4. CASE Goto("destroy")
    BY <1>1, <1>2, <1>4, GotoTyped
<1> QED BY <1>3, <1>4 DEF StopRunning, Failed, Raises

(* delete_vm destroys the VM.                                              *)
LEMMA DestroyVmTyped == ASSUME TypeOK, DestroyVm PROVE TypeOK'
<1>1. /\ daemon.at \in Acting /\ daemon.at \in Busy /\ hist \in History /\ daemon.vm \in Uuids
    BY DEF TypeOK, DestroyVm, Busy, Acting, Placed
<1>2. InventoryTypeOK' /\ faults' \in 0 .. MaxFaults
    BY <1>1, InventoryStays, InventoryStep, FaultTyped DEF TypeOK, DestroyVm, Failed, Raises
<1>3. CASE Keep(daemon.cur, hist, "failed")
    BY <1>1, <1>2, <1>3, FailedTyped
<1>4. CASE Keep(daemon.cur, Deleted, "failed")
    BY <1>1, <1>2, <1>4, FailedTyped, DeletedTyped
<1>5. CASE Conclude(Deleted, "ok")
    BY <1>1, <1>2, <1>5, ConcludeTyped, DeletedTyped DEF Outcomes
<1> QED BY <1>3, <1>4, <1>5 DEF DestroyVm, Failed, Raises

(* remove_entry.                                                           *)
LEMMA RemoveTyped == ASSUME TypeOK, Remove PROVE TypeOK'
<1>1. daemon.cur \in Names /\ daemon.batch \in Book /\ hist \in History /\ book \in Book
    BY InHandTyped DEF Remove, TypeOK, Daemon, Busy
<1>2. InventoryTypeOK' /\ faults' \in 0 .. MaxFaults
    BY InventoryStays, FaultTyped DEF TypeOK, Remove
<1>3. daemon' \in Daemon /\ Placed'
  <2>1. [daemon.batch EXCEPT ![daemon.cur] = NoEntry] \in Book
      BY <1>1 DEF Book
  <2>2. daemon' = [at |-> "next", batch |-> [daemon.batch EXCEPT ![daemon.cur] = NoEntry],
                   cur |-> NoName, vm |-> NoUuid]
      BY DEF Remove, Resting
  <2> QED BY <2>1, <2>2 DEF Daemon, Placed
<1>4. book' \in Book /\ last' \in [Names -> Outcomes]
    BY <1>1 DEF Remove, TypeOK, Book, Outcomes
<1>5. hist' \in History
  <2> DEFINE Forgotten(rows) == [rows EXCEPT ![daemon.cur] = {}]
  <2>1. /\ Forgotten(hist.tried) \in [Names -> SUBSET Attempt]
        /\ Forgotten(hist.row) \in [Names -> SUBSET Attempt]
      BY <1>1 DEF History
  <2>2. \/ hist' = hist
        \/ hist' = [hist EXCEPT !.tried = Forgotten(hist.tried), !.row = Forgotten(hist.row)]
      BY <1>1 DEF Remove, History
  <2> HIDE DEF Forgotten
  <2> QED BY <1>1, <2>1, <2>2 DEF History
<1> QED BY <1>2, <1>3, <1>4, <1>5 DEF Remove, TypeOK

(* The daemon restarts, rules change, others change the vCenter.           *)
LEMMA WorldTyped == ASSUME TypeOK, Crash \/ Policy \/ Meddle PROVE TypeOK'
<1>1. CASE Crash
  <2>1. InventoryTypeOK' /\ faults' \in 0 .. MaxFaults
      BY <1>1, InventoryStays, FaultTyped DEF TypeOK, Crash
  <2>2. daemon' \in Daemon /\ Placed'
      BY <1>1 DEF Crash, Resting, Daemon, None, Book, Placed
  <2>3. hist' \in History
      BY <1>1 DEF Crash, TypeOK, History, NoRows
  <2> QED BY <1>1, <2>1, <2>2, <2>3 DEF Crash, TypeOK, Outcomes
<1>2. CASE Policy
  <2>1. InventoryTypeOK' /\ Placed'
      BY <1>2, InventoryStays DEF TypeOK, Policy, Placed, InHand
  <2> QED BY <1>2, <2>1 DEF Policy, TypeOK
<1>3. CASE Meddle
  <2>1. InventoryTypeOK' /\ Placed'
      BY <1>3, InventoryMeddled DEF TypeOK, Meddle, Placed, InHand
  <2>2. meddling' \in 0 .. MaxMeddling
      BY <1>3, TtlAssumption DEF Meddle, TypeOK
  <2>3. hist' \in History
      BY <1>3, InHandTyped DEF Meddle, TypeOK, History, Busy
  <2> QED BY <1>3, <2>1, <2>2, <2>3 DEF Meddle, TypeOK
<1> QED BY <1>1, <1>2, <1>3

(* Every step keeps the types.                                             *)
LEMMA TypeNext == TypeOK /\ [Next]_vars => TypeOK'
<1> SUFFICES ASSUME TypeOK, [Next]_vars PROVE TypeOK'
    OBVIOUS
<1>1. CASE DaemonStep
    BY <1>1, CheckTyped, CheckDoneTyped, GuardTyped, VerifyTyped, VerifyUnreadableTyped, FindTyped,
       StopTyped, StopRunningTyped, DestroyVmTyped, RemoveTyped DEF DaemonStep
<1>2. CASE UNCHANGED vars
    BY <1>2, InventoryStays DEF vars, TypeOK, Placed, InHand
<1> QED BY <1>1, <1>2, UsersTyped, WorldTyped DEF Next

(* Type correctness of the TTL check.  In particular the daemon acts only  *)
(* on a VM a look-up found, for an entry of its batch.                     *)
THEOREM DaemonTypeCorrect == Spec => []TypeOK
BY TypeInit, TypeNext, PTL DEF Spec

-----------------------------------------------------------------------------
(* What the daemon knows of the VM at each place.                          *)

\* The entry has no UUID, or others changed the vCenter between the look-ups.
Excused == InHand.uuid = NoUuid \/ InHand.grant \in hist.swapped

Verified == daemon.at = "find" => Excused \/ Finds(daemon.cur, InHand.uuid)
Matching == daemon.at \in Acting => Excused \/ daemon.vm = InHand.uuid

Right == Verified /\ Matching /\ DeletesItsVmUnlessSwapped

\* Each grant is under one name, in the store and in the batch.
OneName ==
  \A n, m \in Names :
    /\ book[n] # NoEntry /\ book[m] # NoEntry /\ book[n].grant = book[m].grant => n = m
    /\ daemon.batch[n] # NoEntry /\ book[m] # NoEntry
         /\ daemon.batch[n].grant = book[m].grant => n = m

\* A grant in the store was never withdrawn; one in the batch was not withdrawn in time.
Live ==
  \A n \in Names :
    /\ book[n] # NoEntry => book[n].grant \in hist.used \ (hist.early \cup hist.ignored)
    /\ daemon.batch[n] # NoEntry => daemon.batch[n].grant \in hist.used \ hist.early

Apart ==
  /\ OneName /\ Live
  /\ hist.early \subseteq hist.used /\ hist.ignored \subseteq hist.used
  /\ daemon.at = "idle" => daemon.batch = None
  /\ WithdrawnInTimeIsSafe

\* A history in which nothing happened that Right and Apart speak of.
Bare(h) ==
  /\ h \in History
  /\ h.used = hist.used /\ h.early = hist.early /\ h.ignored = hist.ignored
  /\ h.destroyed = hist.destroyed /\ h.swapped = hist.swapped

(* An audit row is no such happening.                                      *)
LEMMA RowsBare ==
  ASSUME NEW h \in History, NEW n, NEW entry, NEW o
  PROVE  /\ Rows(h, n, entry, o).used = h.used /\ Rows(h, n, entry, o).early = h.early
         /\ Rows(h, n, entry, o).ignored = h.ignored /\ Rows(h, n, entry, o).swapped = h.swapped
         /\ Rows(h, n, entry, o).destroyed = h.destroyed
  BY DEF Rows, History

(* Nor is no happening at all.                                             *)
LEMMA SelfBare == ASSUME TypeOK PROVE Bare(hist)
  BY DEF TypeOK, Bare

(* Away from the delete there is nothing to match.                         *)
LEMMA RightRests ==
  ASSUME Right, daemon'.at \notin Acting \cup {"find"},
         hist'.destroyed = hist.destroyed, hist'.swapped = hist.swapped
  PROVE  Right'
  BY DEF Right, Verified, Matching, DeletesItsVmUnlessSwapped

(* Entries may go, from the store and from the batch.                      *)
LEMMA ApartShrinks ==
  ASSUME Apart,
         hist'.used = hist.used, hist'.early = hist.early, hist'.ignored = hist.ignored,
         \A n \in Names : book'[n] # NoEntry => book[n] # NoEntry /\ book'[n].grant = book[n].grant,
         \A n \in Names : daemon'.batch[n] # NoEntry => daemon'.batch[n] = daemon.batch[n],
         daemon'.at = "idle" => daemon'.batch = None
  PROVE  Apart'
<1>1. OneName'
    BY DEF Apart, OneName
<1>2. Live'
    BY DEF Apart, Live
<1> QED BY <1>1, <1>2 DEF Apart, WithdrawnInTimeIsSafe

(* An entry kept for a later check changes neither Right nor Apart.        *)
LEMMA KeepSafe ==
  ASSUME TypeOK, Right, Apart, NEW n \in Names, NEW h, Bare(h), NEW o, Keep(n, h, o)
  PROVE  Right' /\ Apart'
<1>1. /\ daemon' = [at |-> "next", batch |-> [daemon.batch EXCEPT ![n] = NoEntry],
                    cur |-> NoName, vm |-> NoUuid]
      /\ book' = book
    BY DEF Keep, Resting
<1>2. Bare(h) /\ hist' = Rows(h, n, daemon.batch[n], o)
    BY DEF Keep
<1>3. /\ hist'.used = hist.used /\ hist'.early = hist.early /\ hist'.ignored = hist.ignored
      /\ hist'.destroyed = hist.destroyed /\ hist'.swapped = hist.swapped
    BY <1>2, RowsBare DEF Bare
<1>4. Right'
    BY <1>1, <1>3, RightRests DEF Acting
<1>5. daemon.batch \in Book
    BY DEF TypeOK, Daemon
<1>6. \A m \in Names : daemon'.batch[m] # NoEntry => daemon'.batch[m] = daemon.batch[m]
    BY <1>1, <1>5 DEF Book
<1> QED BY <1>1, <1>3, <1>4, <1>6, ApartShrinks

(* Nor does one that is to be removed ...                                  *)
LEMMA ConcludeSafe ==
  ASSUME TypeOK, Right, Apart, NEW h, Bare(h), NEW o, Conclude(h, o)
  PROVE  Right' /\ Apart'
<1>1. /\ daemon' = [daemon EXCEPT !.at = "remove", !.vm = NoUuid]
      /\ book' = book
    BY DEF Conclude
<1>2. daemon'.at = "remove" /\ daemon'.batch = daemon.batch
    BY <1>1 DEF TypeOK, Daemon
<1>3. /\ hist'.used = hist.used /\ hist'.early = hist.early /\ hist'.ignored = hist.ignored
      /\ hist'.destroyed = hist.destroyed /\ hist'.swapped = hist.swapped
    BY RowsBare DEF Bare, Conclude
<1>4. Right'
    BY <1>2, <1>3, RightRests DEF Acting
<1> QED BY <1>1, <1>2, <1>3, <1>4, ApartShrinks

(* ... whether or not its VM is still there.                               *)
LEMMA DropSafe ==
  ASSUME TypeOK, Right, Apart, daemon.at \in Busy, NEW o, Drop(o)
  PROVE  Right' /\ Apart'
<1> DEFINE h == [hist EXCEPT !.orphaned =
                   IF Finds(daemon.cur, InHand.uuid) THEN @ \cup {InHand.grant} ELSE @]
<1>1. Bare(h)
    BY InHandTyped DEF TypeOK, History, Bare
<1>2. Conclude(h, o)
    BY DEF Drop
<1> HIDE DEF h
<1> QED BY <1>1, <1>2, ConcludeSafe

(* A step that only moves the daemon on keeps grants apart.                *)
LEMMA ApartMoves ==
  ASSUME TypeOK, Apart, UNCHANGED <<book, hist>>,
         daemon'.batch = daemon.batch, daemon'.at # "idle"
  PROVE  Apart'
  BY ApartShrinks

-----------------------------------------------------------------------------
(* A TTL withdrawn leaves the store; a new one is not one withdrawn before. *)
LEMMA UsersSafe ==
  ASSUME TypeOK, Right, Apart, NEW n \in Names,
         CancelTtl(n) \/ Expire(n) \/ \E g \in Grants : SetTtl(n, g)
  PROVE  Right' /\ Apart'
<1>b. book \in Book /\ hist \in History /\ daemon \in Daemon
    BY DEF TypeOK
<1>d. daemon' = daemon /\ UNCHANGED inventory
    BY DEF CancelTtl, Expire, SetTtl
<1>w. /\ Withdrawn(n).used = hist.used /\ Withdrawn(n).ignored = hist.ignored
      /\ Withdrawn(n).destroyed = hist.destroyed /\ Withdrawn(n).swapped = hist.swapped
      /\ Withdrawn(n).early = IF daemon.at = "idle" THEN hist.early \cup GrantAt(n) ELSE hist.early
    BY <1>b DEF Withdrawn, History
<1>r. ASSUME hist'.destroyed = hist.destroyed, hist'.swapped = hist.swapped PROVE Right'
    BY <1>r, <1>d DEF Right, Verified, Matching, DeletesItsVmUnlessSwapped, Excused, InHand,
       Finds, Holders, inventory
\* The grant that was at n goes: nothing else in the store has it.
<1>g. \A m \in Names \ {n} : book[m] # NoEntry => book[m].grant \notin GrantAt(n)
    BY DEF Apart, OneName, GrantAt
<1>e. GrantAt(n) \subseteq hist.used \ (hist.early \cup hist.ignored)
    BY DEF Apart, Live, GrantAt
<1>n. daemon.at = "idle" => \A m \in Names : daemon.batch[m] = NoEntry
    BY DEF Apart, None
<1>1. CASE CancelTtl(n)
  <2>1. /\ hist' = Withdrawn(n)
        /\ \A m \in Names : book'[m] = IF m = n THEN NoEntry ELSE book[m]
      BY <1>1, <1>b DEF CancelTtl, Book
  <2>2. OneName'
      BY <2>1, <1>d DEF Apart, OneName
  <2>3. Live'
      BY <2>1, <1>d, <1>w, <1>g, <1>n DEF Apart, Live
  <2> QED BY <2>1, <2>2, <2>3, <1>d, <1>w, <1>r, <1>e DEF Apart, WithdrawnInTimeIsSafe
<1>2. CASE Expire(n)
  <2>1. hist' = hist /\ book' = [book EXCEPT ![n].due = TRUE] /\ book[n] \in Entry
      BY <1>2, <1>b DEF Expire, Book
  <2>2. \A m \in Names : book'[m] # NoEntry => book[m] # NoEntry /\ book'[m].grant = book[m].grant
      BY <2>1, <1>2, <1>b DEF Expire, Book, Entry
  <2>3. daemon.at = "idle" => daemon.batch = None
      BY DEF Apart
  <2> QED BY <2>1, <2>2, <2>3, <1>d, <1>r, ApartShrinks
<1>3. ASSUME NEW g \in Grants, SetTtl(n, g) PROVE Right' /\ Apart'
  <2>1. /\ g \notin hist.used
        /\ \A m \in Names \ {n} : book'[m] = book[m]
        /\ book'[n].grant = g
      BY <1>3, <1>b DEF SetTtl, Book
  <2>2. /\ hist'.used = hist.used \cup {g} /\ hist'.ignored = hist.ignored
        /\ hist'.destroyed = hist.destroyed /\ hist'.swapped = hist.swapped
        /\ hist'.early = IF daemon.at = "idle" THEN hist.early \cup GrantAt(n) ELSE hist.early
    <3>1. Withdrawn(n) \in History /\ hist' = [Withdrawn(n) EXCEPT !.used = @ \cup {g}]
        BY <1>3, WithdrawnTyped DEF SetTtl
    <3> QED BY <3>1, <1>w DEF History
  <2>3. \A m \in Names : /\ m # n /\ book[m] # NoEntry => book[m].grant # g
                         /\ daemon.batch[m] # NoEntry => daemon.batch[m].grant # g
      BY <2>1 DEF Apart, Live
  <2>4. OneName'
      BY <2>1, <2>3, <1>d DEF Apart, OneName
  <2>5. Live'
      BY <2>1, <2>2, <1>d, <1>g, <1>n, <1>e DEF Apart, Live
  <2> QED BY <2>1, <2>2, <2>4, <2>5, <1>d, <1>r, <1>e DEF Apart, WithdrawnInTimeIsSafe
<1> QED BY <1>1, <1>2, <1>3

(* The batch is what the store holds, and is empty when the check is done. *)
LEMMA CheckSafe == ASSUME TypeOK, Right, Apart, Check \/ CheckDone PROVE Right' /\ Apart'
<1>b. book \in Book /\ daemon \in Daemon
    BY DEF TypeOK
<1>1. CASE Check
  <2>1. daemon.batch = None
      BY <1>1 DEF Apart, Check
  <2>2. daemon'.at = "next" /\ \A n \in Names : daemon'.batch[n] = Expired[n]
      BY <1>1, <1>b, <2>1 DEF Check, Daemon, None
  <2>3. \A n \in Names : Expired[n] # NoEntry => Expired[n] = book[n]
      BY DEF Expired
  <2>4. UNCHANGED <<book, hist>>
      BY <1>1 DEF Check
  <2>5. OneName' /\ Live'
      BY <2>2, <2>3, <2>4 DEF Apart, OneName, Live
  <2> QED BY <2>2, <2>4, <2>5, RightRests DEF Apart, WithdrawnInTimeIsSafe, Acting
<1>2. CASE CheckDone
  <2>1. daemon'.at = "idle" /\ daemon'.batch = None /\ UNCHANGED <<book, hist>>
      BY <1>2 DEF CheckDone, Resting
  <2> QED BY <2>1, RightRests, ApartShrinks DEF None, Acting
<1> QED BY <1>1, <1>2

(* The policy check touches neither store nor VM.                          *)
LEMMA GuardSafe == ASSUME TypeOK, Right, Apart, NEW n \in Names, Guard(n) PROVE Right' /\ Apart'
<1>1. ASSUME NEW o, Keep(n, hist, o) PROVE Right' /\ Apart'
    BY <1>1, SelfBare, KeepSafe
<1>2. ASSUME daemon' = [daemon EXCEPT !.at = "verify", !.cur = n], UNCHANGED <<book, hist>>
      PROVE  Right' /\ Apart'
  <2>1. daemon'.at = "verify" /\ daemon'.batch = daemon.batch
      BY <1>2 DEF TypeOK, Daemon
  <2> QED BY <2>1, <1>2, RightRests, ApartMoves DEF Acting
<1> QED BY <1>1, <1>2 DEF Guard

(* Only a VM with the recorded UUID passes the check.                      *)
LEMMA VerifySafe == ASSUME TypeOK, Right, Apart, Verify \/ VerifyUnreadable PROVE Right' /\ Apart'
<1>1. daemon.at = "verify" /\ daemon.at \in Busy /\ daemon.cur \in Names
    BY InHandTyped DEF Verify, VerifyUnreadable, Busy
<1>2. CASE Failed
    BY <1>1, <1>2, SelfBare, KeepSafe DEF Failed
<1>3. ASSUME NEW o, Drop(o) PROVE Right' /\ Apart'
    BY <1>1, <1>3, DropSafe
<1>4. ASSUME Goto("find"), UNCHANGED inventory,
             InHand.uuid = NoUuid \/ Finds(daemon.cur, InHand.uuid)
      PROVE  Right' /\ Apart'
  <2>1. /\ daemon'.at = "find" /\ daemon'.batch = daemon.batch /\ daemon'.cur = daemon.cur
        /\ UNCHANGED <<book, hist>>
      BY <1>4 DEF Goto, TypeOK, Daemon
  <2>2. InHand' = InHand
      BY <2>1 DEF InHand
  <2>3. Right'
      BY <1>4, <2>1, <2>2 DEF Right, Verified, Matching, DeletesItsVmUnlessSwapped, Excused, Acting,
         Finds, Holders, inventory
  <2> QED BY <2>1, <2>3, ApartMoves
<1>5. CASE VerifyUnreadable
  <2> DEFINE h == [hist EXCEPT
       !.unreadable = @ \cup {InHand.grant},
       !.orphaned = IF Finds(daemon.cur, InHand.uuid) THEN @ \cup {InHand.grant} ELSE @]
  <2>1. Bare(h)
      BY <1>1, InHandTyped DEF TypeOK, History, Bare
  <2>2. Conclude(h, "identity")
      BY <1>5 DEF VerifyUnreadable
  <2> HIDE DEF h
  <2> QED BY <2>1, <2>2, ConcludeSafe
<1>6. CASE Verify
    BY <1>2, <1>3, <1>4, <1>6 DEF Verify, Missing, SameVm
<1> QED BY <1>5, <1>6

(* The second look-up finds the VM of the first, or the entry is excused.  *)
LEMMA FindSafe == ASSUME TypeOK, Right, Apart, Find PROVE Right' /\ Apart'
<1>1. daemon.at = "find" /\ daemon.at \in Busy /\ daemon.cur \in Names
    BY InHandTyped DEF Find, Busy
<1>2. CASE Failed
    BY <1>1, <1>2, SelfBare, KeepSafe DEF Failed
<1>3. CASE Missing
    BY <1>1, <1>3, DropSafe DEF Missing
<1>4. ASSUME NEW u \in Uuids, Finds(daemon.cur, u),
             daemon' = [daemon EXCEPT !.at = "stop", !.vm = u], UNCHANGED <<book, hist>>
      PROVE  Right' /\ Apart'
  <2>1. /\ daemon'.at = "stop" /\ daemon'.vm = u
        /\ daemon'.batch = daemon.batch /\ daemon'.cur = daemon.cur
      BY <1>4 DEF TypeOK, Daemon
  <2>2. InHand' = InHand
      BY <2>1 DEF InHand
  <2>3. Excused \/ u = InHand.uuid
      BY <1>1, <1>4 DEF Right, Verified, Finds
  <2>4. Right'
      BY <1>4, <2>1, <2>2, <2>3 DEF Right, Verified, Matching, DeletesItsVmUnlessSwapped, Excused
  <2> QED BY <1>4, <2>1, <2>4, ApartMoves
<1> QED BY <1>2, <1>3, <1>4 DEF Find

(* The power-off is of the VM the daemon holds.                            *)
LEMMA StopSafe == ASSUME TypeOK, Right, Apart, Stop \/ StopRunning PROVE Right' /\ Apart'
<1>1. daemon.at \in Acting /\ daemon.cur \in Names
    BY InHandTyped DEF Stop, StopRunning, Acting, Busy
<1>2. ASSUME NEW o, Keep(daemon.cur, hist, o) PROVE Right' /\ Apart'
    BY <1>1, <1>2, SelfBare, KeepSafe
<1>3. ASSUME NEW l \in {"power off", "destroy"}, Goto(l) PROVE Right' /\ Apart'
  <2>1. /\ daemon'.at = l /\ daemon'.vm = daemon.vm
        /\ daemon'.batch = daemon.batch /\ daemon'.cur = daemon.cur
        /\ UNCHANGED <<book, hist>>
      BY <1>3 DEF Goto, TypeOK, Daemon
  <2>2. InHand' = InHand
      BY <2>1 DEF InHand
  <2>3. Right'
      BY <1>1, <2>1, <2>2 DEF Right, Verified, Matching, DeletesItsVmUnlessSwapped, Excused, Acting
  <2> QED BY <2>1, <2>3, ApartMoves
<1> QED BY <1>2, <1>3 DEF Stop, StopRunning, Failed, Raises

(* A delete is of the VM the entry names, and of no TTL withdrawn in time. *)
LEMMA DestroyVmSafe == ASSUME TypeOK, Right, Apart, DestroyVm PROVE Right' /\ Apart'
<1>1. /\ daemon.at \in Acting /\ daemon.at = "destroy" /\ daemon.cur \in Names /\ InHand # NoEntry
      /\ daemon.batch \in Book /\ hist \in History
    BY InHandTyped DEF DestroyVm, Acting, Busy, TypeOK, Placed, Daemon
<1>2. CASE Keep(daemon.cur, hist, "failed")
    BY <1>1, <1>2, SelfBare, KeepSafe
<1>d. /\ Deleted \in History
      /\ Deleted.used = hist.used /\ Deleted.early = hist.early /\ Deleted.swapped = hist.swapped
      /\ Deleted.destroyed = hist.destroyed \cup {<<InHand.grant, InHand.uuid, daemon.vm>>}
      /\ Deleted.ignored = IF InHand.grant \in GrantAt(daemon.cur) THEN hist.ignored
                           ELSE hist.ignored \cup {InHand.grant}
    BY <1>1, DeletedTyped DEF Deleted, History
<1>3. ASSUME hist'.used = hist.used, hist'.early = hist.early, hist'.swapped = hist.swapped,
             hist'.destroyed = Deleted.destroyed, hist'.ignored = Deleted.ignored,
             daemon'.at \in {"next", "remove"}, book' = book,
             \A n \in Names : daemon'.batch[n] # NoEntry => daemon'.batch[n] = daemon.batch[n]
      PROVE  Right' /\ Apart'
  <2>1. InHand.uuid \in {daemon.vm, NoUuid} \/ InHand.grant \in hist.swapped
      BY <1>1 DEF Right, Matching, Excused
  <2>2. Right'
    <3>1. ASSUME NEW d \in hist'.destroyed
          PROVE  d[2] \in {d[3], NoUuid} \/ d[1] \in hist.swapped
      <4>1. CASE d \in hist.destroyed
          BY <4>1 DEF Right, DeletesItsVmUnlessSwapped
      <4>2. CASE d = <<InHand.grant, InHand.uuid, daemon.vm>>
          BY <4>2, <2>1
      <4> QED BY <3>1, <4>1, <4>2, <1>3, <1>d
    <3>2. Verified' /\ Matching'
        BY <1>3 DEF Verified, Matching, Acting
    <3> QED BY <3>1, <3>2, <1>3 DEF Right, DeletesItsVmUnlessSwapped
  <2>3. InHand.grant \in hist.used \ hist.early
      BY <1>1 DEF Apart, Live, InHand
  <2>4. InHand.grant \notin GrantAt(daemon.cur) =>
          \A n \in Names : book[n] # NoEntry => book[n].grant # InHand.grant
      BY <1>1 DEF Apart, OneName, InHand, GrantAt
  <2>5. OneName'
      BY <1>3 DEF Apart, OneName
  <2>6. Live'
      BY <1>3, <1>d, <2>4 DEF Apart, Live
  <2> QED BY <1>3, <1>d, <2>2, <2>3, <2>5, <2>6 DEF Apart, WithdrawnInTimeIsSafe
<1>4. CASE Keep(daemon.cur, Deleted, "failed")
  <2>1. /\ daemon' = [at |-> "next", batch |-> [daemon.batch EXCEPT ![daemon.cur] = NoEntry],
                      cur |-> NoName, vm |-> NoUuid]
        /\ book' = book /\ hist' = Rows(Deleted, daemon.cur, daemon.batch[daemon.cur], "failed")
      BY <1>4 DEF Keep, Resting
  <2>2. \A n \in Names : daemon'.batch[n] # NoEntry => daemon'.batch[n] = daemon.batch[n]
      BY <1>1, <2>1 DEF Book
  <2> QED BY <2>1, <2>2, <1>3, <1>d, RowsBare
<1>5. CASE Conclude(Deleted, "ok")
  <2>1. /\ daemon' = [daemon EXCEPT !.at = "remove", !.vm = NoUuid]
        /\ book' = book /\ hist' = Rows(Deleted, daemon.cur, InHand, "ok")
      BY <1>5 DEF Conclude
  <2>2. daemon'.at = "remove" /\ daemon'.batch = daemon.batch
      BY <2>1 DEF TypeOK, Daemon
  <2> QED BY <2>1, <2>2, <1>3, <1>d, RowsBare
<1> QED BY <1>2, <1>4, <1>5 DEF DestroyVm, Failed, Raises

(* remove_entry only takes entries away.                                   *)
LEMMA RemoveSafe == ASSUME TypeOK, Right, Apart, Remove PROVE Right' /\ Apart'
<1>1. /\ daemon.cur \in Names /\ daemon.batch \in Book /\ book \in Book /\ hist \in History
    BY InHandTyped DEF Remove, TypeOK, Daemon, Busy
<1>2. daemon' = [at |-> "next", batch |-> [daemon.batch EXCEPT ![daemon.cur] = NoEntry],
                 cur |-> NoName, vm |-> NoUuid]
    BY DEF Remove, Resting
<1>3. /\ hist'.used = hist.used /\ hist'.early = hist.early /\ hist'.ignored = hist.ignored
      /\ hist'.destroyed = hist.destroyed /\ hist'.swapped = hist.swapped
    BY <1>1 DEF Remove, History
<1>4. \A n \in Names : book'[n] # NoEntry => book[n] # NoEntry /\ book'[n].grant = book[n].grant
    BY <1>1 DEF Remove, Book
<1>5. \A n \in Names : daemon'.batch[n] # NoEntry => daemon'.batch[n] = daemon.batch[n]
    BY <1>1, <1>2 DEF Book
<1> QED BY <1>2, <1>3, <1>4, <1>5, RightRests, ApartShrinks DEF Acting

(* Others change the vCenter: before the second look-up that excuses the   *)
(* entry, after it the daemon holds the VM itself.                         *)
LEMMA WorldSafe == ASSUME TypeOK, Right, Apart, Crash \/ Policy \/ Meddle PROVE Right' /\ Apart'
<1>1. CASE Crash
  <2>1. daemon'.at = "idle" /\ daemon'.batch = None /\ UNCHANGED book
      BY <1>1 DEF Crash, Resting
  <2>2. /\ hist'.used = hist.used /\ hist'.early = hist.early /\ hist'.ignored = hist.ignored
        /\ hist'.destroyed = hist.destroyed /\ hist'.swapped = hist.swapped
      BY <1>1 DEF Crash, TypeOK, History
  <2> QED BY <2>1, <2>2, RightRests, ApartShrinks DEF None, Acting
<1>2. CASE Policy
  <2>1. UNCHANGED <<book, hist, daemon, inventory>>
      BY <1>2 DEF Policy
  <2>2. Right'
      BY <2>1 DEF Right, Verified, Matching, DeletesItsVmUnlessSwapped, Excused, InHand, Finds, Holders, inventory
  <2> QED BY <2>1, <2>2 DEF Apart, OneName, Live, WithdrawnInTimeIsSafe
<1>3. CASE Meddle
  <2>1. UNCHANGED <<book, daemon>> /\ hist \in History
      BY <1>3 DEF Meddle, TypeOK
  <2>2. /\ hist'.used = hist.used /\ hist'.early = hist.early /\ hist'.ignored = hist.ignored
        /\ hist'.destroyed = hist.destroyed
        /\ hist'.swapped = IF daemon.at = "find" THEN hist.swapped \cup {InHand.grant} ELSE hist.swapped
      BY <1>3, <2>1 DEF Meddle, History
  <2>3. Right'
      BY <2>1, <2>2 DEF Right, Verified, Matching, DeletesItsVmUnlessSwapped, Excused, InHand
  <2> QED BY <2>1, <2>2, <2>3 DEF Apart, OneName, Live, WithdrawnInTimeIsSafe
<1> QED BY <1>1, <1>2, <1>3

(* Right and Apart hold at the start.                                      *)
LEMMA SafeInit == Init => Right /\ Apart
<1> SUFFICES ASSUME Init PROVE Right /\ Apart
    OBVIOUS
<1>1. /\ daemon.at = "idle" /\ daemon.batch = None
      /\ hist.destroyed = {} /\ hist.early = {} /\ hist.ignored = {}
    BY DEF Init, Resting, Past
<1>2. Right
    BY <1>1 DEF Right, Verified, Matching, DeletesItsVmUnlessSwapped, Acting
<1>3. OneName /\ Live
  <2>1. CASE book = None
      BY <2>1, <1>1 DEF OneName, Live, None
  <2>2. ASSUME NEW n \in Names, NEW g \in Grants,
               book = [None EXCEPT ![n] = [grant |-> g, uuid |-> NoUuid, due |-> FALSE]],
               hist = Past({g})
        PROVE  OneName /\ Live
    <3>1. \A m \in Names : book[m] # NoEntry => m = n /\ book[m].grant = g
        BY <2>2 DEF None
    <3>2. hist.used = {g}
        BY <2>2 DEF Past
    <3> QED BY <3>1, <3>2, <1>1 DEF OneName, Live, None
  <2> QED BY <2>1, <2>2 DEF Init
<1> QED BY <1>1, <1>2, <1>3 DEF Apart, WithdrawnInTimeIsSafe

(* Every step keeps them.                                                  *)
LEMMA SafeNext == TypeOK /\ Right /\ Apart /\ [Next]_vars => Right' /\ Apart'
<1> SUFFICES ASSUME TypeOK, Right, Apart, [Next]_vars PROVE Right' /\ Apart'
    OBVIOUS
<1>1. CASE DaemonStep
    BY <1>1, CheckSafe, GuardSafe, VerifySafe, FindSafe, StopSafe, DestroyVmSafe, RemoveSafe DEF DaemonStep
<1>2. CASE UNCHANGED vars
  <2>1. UNCHANGED <<book, hist, daemon, inventory>>
      BY <1>2 DEF vars
  <2>2. Right'
      BY <2>1 DEF Right, Verified, Matching, DeletesItsVmUnlessSwapped, Excused, InHand, Finds, Holders, inventory
  <2> QED BY <2>1, <2>2 DEF Apart, OneName, Live, WithdrawnInTimeIsSafe
<1> QED BY <1>1, <1>2, UsersSafe, WorldSafe DEF Next

(* The daemon deletes the VM the TTL was set on, unless someone changed    *)
(* the vCenter between its two look-ups by name.                           *)
THEOREM DeletesItsVm == Spec => []DeletesItsVmUnlessSwapped
<1>1. Right => DeletesItsVmUnlessSwapped
    BY DEF Right
<1> QED BY <1>1, TypeInit, TypeNext, SafeInit, SafeNext, PTL DEF Spec

(* No VM is deleted for a TTL that was cancelled or replaced while no      *)
(* check was running, whatever earlier checks kept, failed at or lost.     *)
THEOREM WithdrawnInTime == Spec => []WithdrawnInTimeIsSafe
<1>1. Apart => WithdrawnInTimeIsSafe
    BY DEF Apart
<1> QED BY <1>1, TypeInit, TypeNext, SafeInit, SafeNext, PTL DEF Spec

-----------------------------------------------------------------------------
(* A look-up that does not find the entry's VM orphans nothing.            *)
LEMMA DropHarmless ==
  ASSUME TypeOK, daemon.at \in Busy, NEW o, Drop(o),
         FindsNoOne(daemon.cur) \/ \E u \in Uuids : Finds(daemon.cur, u) /\ u # InHand.uuid
  PROVE  hist'.orphaned = hist.orphaned /\ hist'.unreadable = hist.unreadable
<1>1. ~Finds(daemon.cur, InHand.uuid)
    BY InHandTyped, TtlAssumption DEF Finds, FindsNoOne, Holders
<1>2. hist' = Rows([hist EXCEPT !.orphaned = hist.orphaned], daemon.cur, InHand, o)
    BY <1>1 DEF Drop, Conclude
<1> QED BY <1>2 DEF Rows, TypeOK, History

(* Only a UUID that could not be read adds to the orphaned, and it adds to *)
(* the unreadable as well.                                                 *)
LEMMA FailuresKeepNext ==
  TypeOK /\ FailuresKeepTheEntry /\ [Next]_vars => FailuresKeepTheEntry'
<1> SUFFICES ASSUME TypeOK, FailuresKeepTheEntry, [Next]_vars PROVE FailuresKeepTheEntry'
    OBVIOUS
<1>h. hist \in History
    BY DEF TypeOK
<1>s. ASSUME hist'.orphaned = hist.orphaned, hist'.unreadable = hist.unreadable
      PROVE  FailuresKeepTheEntry'
    BY <1>s DEF FailuresKeepTheEntry
<1>k. ASSUME NEW n, NEW o, Keep(n, hist, o) PROVE FailuresKeepTheEntry'
    BY <1>k, <1>h, <1>s DEF Keep, Rows, History
<1>g. ASSUME hist' = hist PROVE FailuresKeepTheEntry'
    BY <1>g, <1>s
<1>1. CASE \/ Check \/ CheckDone \/ Policy \/ UNCHANGED vars
           \/ \E n \in Names : Expire(n)
    BY <1>1, <1>g DEF Check, CheckDone, Policy, vars, Expire
<1>2. ASSUME NEW n \in Names, CancelTtl(n) \/ \E g \in Grants : SetTtl(n, g)
      PROVE  FailuresKeepTheEntry'
    BY <1>2, <1>h, <1>s DEF CancelTtl, SetTtl, Withdrawn, History
<1>3. CASE Meddle \/ Remove \/ Crash
    BY <1>3, <1>h, <1>s DEF Meddle, Remove, Crash, History
<1>4. ASSUME NEW n \in Names, Guard(n) PROVE FailuresKeepTheEntry'
    BY <1>4, <1>k, <1>g DEF Guard
<1>5. CASE Stop \/ StopRunning
    BY <1>5, <1>k, <1>g DEF Stop, StopRunning, Failed, Raises, Goto
<1>6. CASE Verify
  <2>1. daemon.at \in Busy
      BY <1>6 DEF Verify, Busy
  <2> QED BY <1>6, <2>1, <1>k, <1>g, <1>s, DropHarmless DEF Verify, Failed, Missing, Goto, SameVm
<1>7. CASE Find
  <2>1. daemon.at \in Busy
      BY <1>7 DEF Find, Busy
  <2> QED BY <1>7, <2>1, <1>k, <1>g, <1>s, DropHarmless DEF Find, Failed, Missing
<1>8. CASE DestroyVm
  <2>1. ASSUME NEW o, \/ Keep(daemon.cur, Deleted, o) \/ Conclude(Deleted, o)
        PROVE  FailuresKeepTheEntry'
      BY <2>1, <1>h, <1>s DEF Keep, Conclude, Deleted, Rows, History
  <2> QED BY <1>8, <2>1, <1>k DEF DestroyVm, Failed, Raises
<1>9. CASE VerifyUnreadable
  <2>1. InHand.grant \in Grants
      BY <1>9, InHandTyped DEF VerifyUnreadable, Busy
  <2>2. /\ hist'.unreadable = hist.unreadable \cup {InHand.grant}
        /\ hist'.orphaned \subseteq hist.orphaned \cup {InHand.grant}
      BY <1>9, <2>1, <1>h DEF VerifyUnreadable, Conclude, Rows, History
  <2> QED BY <2>2 DEF FailuresKeepTheEntry
<1> QED BY <1>1, <1>2, <1>3, <1>4, <1>5, <1>6, <1>7, <1>8, <1>9 DEF Next, DaemonStep

(* Nothing that fails, and no rule, makes the daemon drop an entry whose   *)
(* VM is there under its name, but a UUID it cannot read.                  *)
THEOREM FailuresKeep == Spec => []FailuresKeepTheEntry
<1>1. Init => FailuresKeepTheEntry
    BY DEF Init, Past, FailuresKeepTheEntry
<1> QED BY <1>1, TypeInit, TypeNext, FailuresKeepNext, PTL DEF Spec

-----------------------------------------------------------------------------
(* What the daemon remembers of the names it tried.                        *)

\* An entry of the batch is in the store; or it was withdrawn, and the entry
\* that took its place has not been tried.
Stands ==
  \A n \in Names :
    daemon.batch[n] # NoEntry =>
      \/ daemon.batch[n].grant \in GrantAt(n)
      \/ /\ daemon.batch[n].grant \in hist.withdrawn
         /\ \A r \in hist.row[n] : r.grant \notin GrantAt(n)

\* The last outcome under a name has its row, of the entry that is there or of
\* one that was withdrawn.
Remembered ==
  \A n \in Names :
    last[n] # "none" =>
      \E r \in hist.row[n] : r.outcome = last[n] /\ r.grant \in GrantAt(n) \cup hist.withdrawn

\* Rows are of TTLs that were set.
RowsAreOfSet == \A n \in Names : \A r \in hist.row[n] : r.grant \in hist.used

Noted == Stands /\ Remembered /\ RowsAreOfSet /\ OutcomesAreRecorded

\* A history in which nothing was tried, recorded, set or withdrawn.
Still(h) ==
  /\ h \in History
  /\ h.tried = hist.tried /\ h.row = hist.row
  /\ h.used = hist.used /\ h.withdrawn = hist.withdrawn

(* An entry that is tried gets a row; or the memory has the same outcome,  *)
(* and the newest row under the name has it too, of this entry or of one   *)
(* that was withdrawn.                                                     *)
LEMMA RowNoted ==
  ASSUME TypeOK, Apart, Noted, NEW n \in Names, daemon.batch[n] # NoEntry,
         NEW h, Still(h), NEW o \in Outcomes \ {"none"},
         Audited(n, o), hist' = Rows(h, n, daemon.batch[n], o), book' = book,
         \A m \in Names : daemon'.batch[m] # NoEntry => daemon'.batch[m] = daemon.batch[m]
  PROVE  Noted'
<1> DEFINE g == daemon.batch[n].grant
           t == Tried(daemon.batch[n], o)
<1>1. /\ hist'.withdrawn = hist.withdrawn /\ hist'.used = hist.used
      /\ \A m \in Names \ {n} : hist'.tried[m] = hist.tried[m] /\ hist'.row[m] = hist.row[m]
      /\ hist'.tried[n] = {t}
      /\ hist'.row[n] = IF o = "ok" \/ last[n] # o THEN {t} ELSE hist.row[n]
    BY DEF Still, Rows, History
<1>2. \A m \in Names : last'[m] = IF m # n THEN last[m] ELSE IF o = "ok" THEN "none" ELSE o
    BY DEF Audited, TypeOK
<1>3. t.grant = g /\ t.outcome = o
    BY DEF Tried
<1>4. \A m \in Names : GrantAt(m)' = GrantAt(m)
    BY DEF GrantAt
<1>5. g \in GrantAt(n) \cup hist.withdrawn /\ g \in hist.used
    BY DEF Noted, Stands, Apart, Live
<1> HIDE DEF t, g
<1>6. Stands'
  <2> SUFFICES ASSUME NEW m \in Names, daemon.batch[m] # NoEntry,
                      daemon.batch[m].grant \notin GrantAt(m)
               PROVE  /\ daemon.batch[m].grant \in hist.withdrawn
                      /\ \A r \in hist'.row[m] : r.grant \notin GrantAt(m)
      BY <1>1, <1>4 DEF Stands
  <2>1. /\ daemon.batch[m].grant \in hist.withdrawn
        /\ \A r \in hist.row[m] : r.grant \notin GrantAt(m)
      BY DEF Noted, Stands
  <2> QED BY <1>1, <1>3, <2>1 DEF g
<1>7. RowsAreOfSet'
    BY <1>1, <1>3, <1>5 DEF Noted, RowsAreOfSet
<1>8. \A m \in Names \ {n} :
        /\ last'[m] # "none" =>
             \E r \in hist'.row[m] : r.outcome = last'[m] /\ r.grant \in GrantAt(m) \cup hist.withdrawn
        /\ \A x \in hist'.tried[m] : \E r \in hist'.row[m] :
             r.outcome = x.outcome /\ (r.grant = x.grant \/ r.grant \in hist.withdrawn)
    BY <1>1, <1>2 DEF Noted, Remembered, OutcomesAreRecorded
<1>9. CASE o = "ok" \/ last[n] # o
    BY <1>1, <1>2, <1>3, <1>4, <1>5, <1>6, <1>7, <1>8, <1>9
       DEF Noted, Remembered, OutcomesAreRecorded
<1>10. CASE o # "ok" /\ last[n] = o
  <2>1. hist'.row[n] = hist.row[n] /\ last'[n] = o
      BY <1>1, <1>2, <1>10
  <2>2. PICK r \in hist.row[n] : r.outcome = o /\ r.grant \in GrantAt(n) \cup hist.withdrawn
      BY <1>10 DEF Noted, Remembered
  <2>3. r.grant = g \/ r.grant \in hist.withdrawn
      BY <2>2 DEF Noted, Stands, GrantAt, g
  <2>4. Remembered'
      BY <1>1, <1>4, <1>8, <2>1, <2>2 DEF Remembered
  <2>5. OutcomesAreRecorded'
      BY <1>1, <1>3, <1>8, <2>1, <2>2, <2>3 DEF OutcomesAreRecorded
  <2> QED BY <1>6, <1>7, <2>4, <2>5 DEF Noted
<1> QED BY <1>9, <1>10

(* So it is when the entry is kept for a later check ...                   *)
LEMMA KeepNoted ==
  ASSUME TypeOK, Apart, Noted, NEW n \in Names, daemon.batch[n] # NoEntry,
         NEW h, Still(h), NEW o \in Outcomes \ {"none"}, Keep(n, h, o)
  PROVE  Noted'
<1>1. daemon'.batch = [daemon.batch EXCEPT ![n] = NoEntry] /\ daemon.batch \in Book
    BY DEF Keep, Resting, TypeOK, Daemon
<1>2. \A m \in Names : daemon'.batch[m] # NoEntry => daemon'.batch[m] = daemon.batch[m]
    BY <1>1 DEF Book
<1> QED BY <1>2, RowNoted DEF Keep

(* ... and when it is to be removed, ...                                   *)
LEMMA ConcludeNoted ==
  ASSUME TypeOK, Apart, Noted, daemon.at \in Busy, NEW h, Still(h),
         NEW o \in Outcomes \ {"none"}, Conclude(h, o)
  PROVE  Noted'
<1>1. daemon.cur \in Names /\ daemon.batch[daemon.cur] # NoEntry
    BY DEF TypeOK, Placed, Busy, InHand
<1>2. daemon'.batch = daemon.batch
    BY DEF Conclude, TypeOK, Daemon
<1> QED BY <1>1, <1>2, RowNoted DEF Conclude, InHand

(* ... its VM being there or not.                                          *)
LEMMA DropNoted ==
  ASSUME TypeOK, Apart, Noted, daemon.at \in Busy, NEW o \in Outcomes \ {"none"}, Drop(o)
  PROVE  Noted'
<1> DEFINE h == [hist EXCEPT !.orphaned =
                   IF Finds(daemon.cur, InHand.uuid) THEN @ \cup {InHand.grant} ELSE @]
<1>1. Still(h)
    BY InHandTyped DEF TypeOK, History, Still
<1>2. Conclude(h, o)
    BY DEF Drop
<1> HIDE DEF h
<1> QED BY <1>1, <1>2, ConcludeNoted

(* A step that tries nothing and leaves store, batch and memory alone.     *)
LEMMA StillNoted ==
  ASSUME Noted, Still(hist'), UNCHANGED <<book, last>>,
         \A n \in Names : daemon'.batch[n] # NoEntry => daemon'.batch[n] = daemon.batch[n]
  PROVE  Noted'
<1>1. \A n \in Names : GrantAt(n)' = GrantAt(n)
    BY DEF GrantAt
<1>2. Stands'
    BY <1>1 DEF Noted, Still, Stands
<1>3. Remembered'
    BY <1>1 DEF Noted, Still, Remembered
<1> QED BY <1>2, <1>3 DEF Noted, Still, RowsAreOfSet, OutcomesAreRecorded

(* A TTL withdrawn is out of the store, and no row is of the one that      *)
(* takes its place.                                                        *)
LEMMA UsersNoted ==
  ASSUME TypeOK, Apart, Noted, NEW n \in Names,
         CancelTtl(n) \/ Expire(n) \/ \E g \in Grants : SetTtl(n, g)
  PROVE  Noted'
<1>b. book \in Book /\ hist \in History
    BY DEF TypeOK
<1>d. UNCHANGED <<daemon, last>>
    BY DEF CancelTtl, Expire, SetTtl
<1>1. CASE Expire(n)
  <2>1. book[n] \in Entry /\ book' = [book EXCEPT ![n].due = TRUE] /\ hist' = hist
      BY <1>1, <1>b DEF Expire, Book
  <2>2. \A m \in Names : /\ book'[m] = NoEntry <=> book[m] = NoEntry
                         /\ book[m] # NoEntry => book'[m].grant = book[m].grant
    <3>1. book'[n] \in Entry /\ book'[n].grant = book[n].grant
        BY <2>1, <1>b DEF Book, Entry
    <3> QED BY <1>1, <2>1, <3>1, <1>b, TtlAssumption DEF Book, Entry, Expire
  <2>3. \A m \in Names : GrantAt(m)' = GrantAt(m)
      BY <2>2 DEF GrantAt
  <2>4. Stands' /\ Remembered'
      BY <1>d, <2>1, <2>3 DEF Noted, Stands, Remembered
  <2> QED BY <2>1, <2>4 DEF Noted, RowsAreOfSet, OutcomesAreRecorded
<1>2. ASSUME \A m \in Names \ {n} : book'[m] = book[m],
             \A r \in hist.row[n] : r.grant \notin GrantAt(n)',
             hist'.withdrawn = hist.withdrawn \cup GrantAt(n),
             hist'.tried = hist.tried, hist'.row = hist.row, hist.used \subseteq hist'.used
      PROVE  Noted'
  <2>1. \A m \in Names \ {n} : GrantAt(m)' = GrantAt(m)
      BY <1>2 DEF GrantAt
  <2>2. Stands'
    <3> SUFFICES ASSUME NEW m \in Names, daemon.batch[m] # NoEntry,
                        daemon.batch[m].grant \notin GrantAt(m)'
                 PROVE  /\ daemon.batch[m].grant \in hist'.withdrawn
                        /\ \A r \in hist.row[m] : r.grant \notin GrantAt(m)'
        BY <1>d, <1>2 DEF Stands
    <3>1. \/ daemon.batch[m].grant \in GrantAt(m)
          \/ /\ daemon.batch[m].grant \in hist.withdrawn
             /\ \A r \in hist.row[m] : r.grant \notin GrantAt(m)
        BY DEF Noted, Stands
    <3> QED BY <3>1, <2>1, <1>2
  <2>3. Remembered'
    <3> SUFFICES ASSUME NEW m \in Names, last[m] # "none"
                 PROVE  \E r \in hist.row[m] :
                          r.outcome = last[m] /\ r.grant \in GrantAt(m)' \cup hist'.withdrawn
        BY <1>d, <1>2 DEF Remembered
    <3>1. PICK r \in hist.row[m] : r.outcome = last[m] /\ r.grant \in GrantAt(m) \cup hist.withdrawn
        BY DEF Noted, Remembered
    <3> QED BY <3>1, <2>1, <1>2
  <2>4. RowsAreOfSet'
      BY <1>2 DEF Noted, RowsAreOfSet
  <2>5. OutcomesAreRecorded'
      BY <1>2 DEF Noted, OutcomesAreRecorded
  <2> QED BY <2>2, <2>3, <2>4, <2>5 DEF Noted
<1>w. /\ Withdrawn(n) \in History
      /\ Withdrawn(n).withdrawn = hist.withdrawn \cup GrantAt(n)
      /\ Withdrawn(n).tried = hist.tried /\ Withdrawn(n).row = hist.row
      /\ Withdrawn(n).used = hist.used
    BY <1>b, WithdrawnTyped DEF Withdrawn, History
<1>3. CASE CancelTtl(n)
  <2>1. book' = [book EXCEPT ![n] = NoEntry] /\ hist' = Withdrawn(n)
      BY <1>3 DEF CancelTtl
  <2>2. GrantAt(n)' = {}
      BY <2>1, <1>b DEF GrantAt, Book
  <2> QED BY <2>1, <2>2, <1>b, <1>w, <1>2 DEF Book
<1>4. ASSUME NEW g \in Grants, SetTtl(n, g) PROVE Noted'
  <2>1. /\ hist' = [Withdrawn(n) EXCEPT !.used = @ \cup {g}] /\ g \notin hist.used
        /\ \E u \in Uuids : book' = [book EXCEPT ![n] = [grant |-> g, uuid |-> u, due |-> FALSE]]
      BY <1>4 DEF SetTtl
  <2>2. \A m \in Names \ {n} : book'[m] = book[m]
      BY <2>1, <1>b DEF Book
  <2>3. GrantAt(n)' \subseteq {g}
      BY <2>1, <1>b DEF Book, GrantAt
  <2>4. \A r \in hist.row[n] : r.grant \notin GrantAt(n)'
      BY <2>1, <2>3 DEF Noted, RowsAreOfSet
  <2>5. /\ hist'.withdrawn = hist.withdrawn \cup GrantAt(n)
        /\ hist'.tried = hist.tried /\ hist'.row = hist.row /\ hist.used \subseteq hist'.used
      BY <2>1, <1>w DEF History
  <2> QED BY <2>2, <2>4, <2>5, <1>2
<1> QED BY <1>1, <1>3, <1>4

(* A check starts with what is in the store, and ends with nothing.        *)
LEMMA CheckNoted == ASSUME TypeOK, Apart, Noted, Check \/ CheckDone PROVE Noted'
<1>b. book \in Book /\ daemon \in Daemon /\ hist \in History
    BY DEF TypeOK
<1>1. CASE Check
  <2>1. daemon.batch = None
      BY <1>1 DEF Apart, Check
  <2>2. \A n \in Names : daemon'.batch[n] = Expired[n]
      BY <1>1, <1>b, <2>1 DEF Check, Daemon, None
  <2>3. UNCHANGED <<book, last, hist>>
      BY <1>1 DEF Check
  <2>4. Stands'
      BY <2>2, <2>3 DEF Stands, Expired, GrantAt
  <2>5. Remembered'
      BY <2>3 DEF Noted, Remembered, GrantAt
  <2> QED BY <2>3, <2>4, <2>5 DEF Noted, RowsAreOfSet, OutcomesAreRecorded
<1>2. CASE CheckDone
    BY <1>2, <1>b, StillNoted DEF CheckDone, Resting, None, Still
<1> QED BY <1>1, <1>2

(* What is removed is forgotten.                                           *)
LEMMA RemoveNoted == ASSUME TypeOK, Noted, Remove PROVE Noted'
<1>1. /\ daemon.cur \in Names /\ daemon.batch \in Book /\ book \in Book /\ hist \in History
      /\ last \in [Names -> Outcomes]
    BY InHandTyped DEF Remove, TypeOK, Daemon, Busy
<1>2. /\ daemon'.batch[daemon.cur] = NoEntry
      /\ \A n \in Names \ {daemon.cur} : daemon'.batch[n] = daemon.batch[n]
    BY <1>1 DEF Remove, Resting, Book
<1>3. CASE UNCHANGED <<book, last, hist>>
    BY <1>1, <1>2, <1>3, StillNoted DEF Still
<1>4. CASE /\ book' = [book EXCEPT ![daemon.cur] = NoEntry]
           /\ last' = [last EXCEPT ![daemon.cur] = "none"]
           /\ hist' = [hist EXCEPT !.tried[daemon.cur] = {}, !.row[daemon.cur] = {}]
  <2>1. /\ \A n \in Names \ {daemon.cur} :
             /\ book'[n] = book[n] /\ last'[n] = last[n]
             /\ hist'.tried[n] = hist.tried[n] /\ hist'.row[n] = hist.row[n]
        /\ last'[daemon.cur] = "none" /\ hist'.tried[daemon.cur] = {} /\ hist'.row[daemon.cur] = {}
        /\ hist'.used = hist.used /\ hist'.withdrawn = hist.withdrawn
      BY <1>1, <1>4 DEF Book, History
  <2>2. \A n \in Names \ {daemon.cur} : GrantAt(n)' = GrantAt(n)
      BY <2>1 DEF GrantAt
  <2>3. Stands'
      BY <1>2, <2>1, <2>2 DEF Noted, Stands
  <2>4. Remembered'
      BY <2>1, <2>2 DEF Noted, Remembered
  <2>5. RowsAreOfSet' /\ OutcomesAreRecorded'
      BY <2>1 DEF Noted, RowsAreOfSet, OutcomesAreRecorded
  <2> QED BY <2>3, <2>4, <2>5 DEF Noted
<1> QED BY <1>3, <1>4 DEF Remove

(* The daemon's other steps either try an entry or move on.                *)
LEMMA DaemonNoted ==
  ASSUME TypeOK, Apart, Noted,
         \/ Verify \/ VerifyUnreadable \/ Find \/ Stop \/ StopRunning \/ DestroyVm
         \/ \E n \in Names : Guard(n)
  PROVE  Noted'
<1>1. Still(hist)
    BY DEF TypeOK, Still
<1>k. ASSUME daemon.at \in Busy, NEW h, Still(h), NEW o \in Outcomes \ {"none"},
             Keep(daemon.cur, h, o)
      PROVE  Noted'
  <2>1. daemon.cur \in Names /\ daemon.batch[daemon.cur] # NoEntry
      BY <1>k DEF TypeOK, Placed, Busy, InHand
  <2> QED BY <1>k, <2>1, KeepNoted
<1>g. ASSUME NEW l, Goto(l) PROVE Noted'
    BY <1>1, <1>g, StillNoted DEF Goto, TypeOK, Daemon
<1>2. ASSUME NEW n \in Names, Guard(n) PROVE Noted'
  <2>1. ASSUME NEW o \in {"denied delete", "policy error"}, Keep(n, hist, o) PROVE Noted'
      BY <1>1, <1>2, <2>1, KeepNoted DEF Guard, Outcomes, Refusals
  <2>2. ASSUME daemon' = [daemon EXCEPT !.at = "verify", !.cur = n],
               UNCHANGED <<book, last, hist>>
        PROVE  Noted'
      BY <1>1, <2>2, StillNoted DEF TypeOK, Daemon
  <2> QED BY <1>2, <2>1, <2>2 DEF Guard
<1>3. CASE Verify
  <2>1. daemon.at \in Busy
      BY <1>3 DEF Verify, Busy
  <2>2. CASE Failed
      BY <1>1, <1>k, <2>1, <2>2 DEF Failed, Outcomes, Refusals
  <2>3. ASSUME NEW o \in Drops, Drop(o) PROVE Noted'
      BY <2>1, <2>3, DropNoted DEF Outcomes, Drops
  <2> QED BY <1>3, <1>g, <2>2, <2>3 DEF Verify, Missing, Drops
<1>4. CASE VerifyUnreadable
  <2> DEFINE h == [hist EXCEPT
       !.unreadable = @ \cup {InHand.grant},
       !.orphaned = IF Finds(daemon.cur, InHand.uuid) THEN @ \cup {InHand.grant} ELSE @]
  <2>1. daemon.at \in Busy
      BY <1>4 DEF VerifyUnreadable, Busy
  <2>2. Still(h)
      BY <2>1, InHandTyped DEF TypeOK, History, Still
  <2>3. Conclude(h, "identity")
      BY <1>4 DEF VerifyUnreadable
  <2> HIDE DEF h
  <2> QED BY <2>1, <2>2, <2>3, ConcludeNoted DEF Outcomes, Drops
<1>5. CASE Find
  <2>1. daemon.at \in Busy
      BY <1>5 DEF Find, Busy
  <2>2. CASE Failed
      BY <1>1, <1>k, <2>1, <2>2 DEF Failed, Outcomes, Refusals
  <2>3. CASE Missing
      BY <2>1, <2>3, DropNoted DEF Missing, Outcomes, Drops
  <2>4. ASSUME NEW u, daemon' = [daemon EXCEPT !.at = "stop", !.vm = u], UNCHANGED <<book, last, hist>>
        PROVE  Noted'
      BY <1>1, <2>4, StillNoted DEF TypeOK, Daemon
  <2> QED BY <1>5, <2>2, <2>3, <2>4 DEF Find
<1>6. CASE Stop \/ StopRunning
  <2>1. daemon.at \in Busy
      BY <1>6 DEF Stop, StopRunning, Busy
  <2>2. ASSUME NEW o \in Refusals, Keep(daemon.cur, hist, o) PROVE Noted'
      BY <1>1, <1>k, <2>1, <2>2 DEF Outcomes, Refusals
  <2> QED BY <1>6, <1>g, <2>2 DEF Stop, StopRunning, Failed, Raises, Refusals
<1>7. CASE DestroyVm
  <2>1. daemon.at \in Busy /\ daemon.at \in Acting
      BY <1>7 DEF DestroyVm, Busy, Acting
  <2>2. Still(Deleted)
      BY <2>1, DeletedTyped DEF TypeOK, Still, Deleted, History
  <2>3. ASSUME NEW h, Still(h), Keep(daemon.cur, h, "failed") PROVE Noted'
      BY <1>k, <2>1, <2>3 DEF Outcomes, Refusals
  <2>4. CASE Conclude(Deleted, "ok")
      BY <2>1, <2>2, <2>4, ConcludeNoted DEF Outcomes
  <2> QED BY <1>1, <1>7, <2>2, <2>3, <2>4 DEF DestroyVm, Failed, Raises
<1> QED BY <1>2, <1>3, <1>4, <1>5, <1>6, <1>7

(* A restart forgets every outcome, and tries nothing.                     *)
LEMMA WorldNoted == ASSUME TypeOK, Noted, Crash \/ Policy \/ Meddle PROVE Noted'
<1>1. CASE Crash
  <2>1. /\ \A n \in Names : daemon'.batch[n] = NoEntry /\ last'[n] = "none"
        /\ \A n \in Names : hist'.tried[n] = {} /\ hist'.row[n] = {}
      BY <1>1 DEF Crash, Resting, None, TypeOK, History, NoRows
  <2> QED BY <2>1 DEF Noted, Stands, Remembered, RowsAreOfSet, OutcomesAreRecorded
<1>2. CASE Policy
    BY <1>2, StillNoted DEF Policy, TypeOK, Still
<1>3. CASE Meddle
  <2>1. Still(hist')
      BY <1>3, InHandTyped DEF Meddle, TypeOK, History, Still, Busy
  <2> QED BY <1>3, <2>1, StillNoted DEF Meddle
<1> QED BY <1>1, <1>2, <1>3

(* Every step keeps what is noted.                                         *)
LEMMA NotedNext == TypeOK /\ Apart /\ Noted /\ [Next]_vars => Noted'
<1> SUFFICES ASSUME TypeOK, Apart, Noted, [Next]_vars PROVE Noted'
    OBVIOUS
<1>1. CASE DaemonStep
    BY <1>1, CheckNoted, DaemonNoted, RemoveNoted DEF DaemonStep
<1>2. CASE UNCHANGED vars
    BY <1>2, StillNoted DEF vars, TypeOK, Still
<1> QED BY <1>1, <1>2, UsersNoted, WorldNoted DEF Next

(* The newest audit row under a name says what came of the newest attempt  *)
(* under it.  The memory that keeps the daemon from repeating itself every *)
(* minute is by name, so the row may be one of a TTL that was there before *)
(* and was withdrawn: of no TTL that still stands, and of no other outcome.*)
THEOREM OutcomesHaveRows == Spec => []OutcomesAreRecorded
<1>1. Init => Noted
    BY DEF Init, Past, NoRows, Resting, None, Noted, Stands, Remembered, RowsAreOfSet,
           OutcomesAreRecorded
<1>2. Noted => OutcomesAreRecorded
    BY DEF Noted
<1> QED BY <1>1, <1>2, TypeInit, TypeNext, SafeInit, SafeNext, NotedNext, PTL DEF Spec

-----------------------------------------------------------------------------
(* The store                                                               *)

Inside == {"load", "write", "replace", "done"}

Asked(c) == at[c] # "idle" => update[c] \in Updates
Alone(c) == at[c] \in Inside => flock = c
Fresh(c) ==
  at[c] \in {"write", "replace"} /\ ~ReadsCanFail => copy[c] = Updated(file, update[c])

Inv == StoreTypeOK /\ \A c \in Callers : Asked(c) /\ Alone(c) /\ Fresh(c)

-----------------------------------------------------------------------------
(* An update of a book is a book.  (store[vm_name] = ..., del store[...])  *)
LEMMA UpdatedIsBook ==
  ASSUME NEW b \in Books, NEW w \in Updates
  PROVE  Updated(b, w) \in Books
  BY DEF Books, Updates, Updated

(* Removing an entry that is not there changes nothing: the early return   *)
(* of cancel_ttl and remove_entry.                                         *)
LEMMA NothingToRemove ==
  ASSUME NEW b \in Books, NEW w \in Updates, w.entry = NoTtl, b[w.name] = NoTtl
  PROVE  Updated(b, w) = b
  BY DEF Books, Updates, Updated

(* Whatever the read gives, what is loaded is a book; if reads do not      *)
(* fail, it is what the file holds.                                        *)
LEMMA LoadedIsFile ==
  ASSUME file \in Books, NEW content \in Readable
  PROVE  Loaded(content) \in Books /\ (~ReadsCanFail => Loaded(content) = file)
  BY StoreAssumption DEF Loaded, Readable, Empty, Books

(* The invariant holds before the first call.                              *)
LEMMA InvInit == StoreInit => Inv
  BY LockAssumption DEF StoreInit, Inv, StoreTypeOK, LockInit, LockTypeOK, Asked, Alone, Fresh, Inside,
       Label, Empty, Books

(* A step keeps the invariant: only the holder of the lock file writes.    *)
LEMMA InvNext == Inv /\ [StoreNext]_storeVars => Inv'
<1> USE LockAssumption, StoreAssumption
<1> SUFFICES ASSUME Inv, [StoreNext]_storeVars PROVE Inv'
    OBVIOUS
<1>t. /\ at \in [Callers -> Label] /\ update \in [Callers -> Updates \cup {NoUpdate}]
      /\ copy \in [Callers -> Books] /\ file \in Books
      /\ mutex \in [Procs -> Callers \cup {Nobody}] /\ flock \in Callers \cup {Nobody}
    BY DEF Inv, StoreTypeOK, LockTypeOK
<1>i. \A c \in Callers : Asked(c) /\ Alone(c) /\ Fresh(c)
    BY DEF Inv
<1>1. ASSUME NEW c \in Callers, NEW w \in Updates, Ask(c, w) PROVE Inv'
    BY <1>1, <1>t, <1>i DEF Ask, Go, locks, Inv, StoreTypeOK, LockTypeOK, Asked, Alone, Fresh, Inside, Label
<1>2. ASSUME NEW c \in Callers, EnterProcess(c) PROVE Inv'
    BY <1>2, <1>t, <1>i DEF EnterProcess, TakeMutex, Go, Inv, StoreTypeOK, LockTypeOK, Asked, Alone, Fresh, Inside, Label
<1>3. ASSUME NEW c \in Callers, EnterFile(c) PROVE Inv'
    BY <1>3, <1>t, <1>i DEF EnterFile, TryLock, Go, Inv, StoreTypeOK, LockTypeOK, Asked, Alone, Fresh, Inside, Label
<1>4. ASSUME NEW c \in Callers, LockFails(c) PROVE Inv'
    BY <1>4, <1>t, <1>i DEF LockFails, GiveUp, Go, Inv, StoreTypeOK, LockTypeOK, Asked, Alone, Fresh, Inside, Label
<1>5. ASSUME NEW c \in Callers, Load(c) PROVE Inv'
  <2>1. update[c] \in Updates
      BY <1>5, <1>i DEF Load, Asked
  <2>2. PICK content \in Readable :
          /\ copy' = [copy EXCEPT ![c] = Updated(Loaded(content), update[c])]
          /\ \E l \in {"done", "write"} : at' = [at EXCEPT ![c] = l]
      BY <1>5 DEF Load, Go
  <2>3. /\ Updated(Loaded(content), update[c]) \in Books
        /\ ~ReadsCanFail => Loaded(content) = file
      BY <2>1, <1>t, LoadedIsFile, UpdatedIsBook
  <2>4. at[c] = "load" /\ UNCHANGED <<file, update, mutex, flock>>
      BY <1>5 DEF Load, locks
  <2> QED BY <2>1, <2>2, <2>3, <2>4, <1>t, <1>i
          DEF Inv, StoreTypeOK, LockTypeOK, Asked, Alone, Fresh, Inside, Label
<1>6. ASSUME NEW c \in Callers, WriteTemp(c) PROVE Inv'
    BY <1>6, <1>t, <1>i DEF WriteTemp, locks, Go, Inv, StoreTypeOK, LockTypeOK, Asked, Alone, Fresh, Inside, Label
<1>7. ASSUME NEW c \in Callers, Replace(c) PROVE Inv'
  <2>1. \A d \in Callers : d # c => at[d] \notin Inside
      BY <1>7, <1>i DEF Replace, Alone, Inside
  <2>2. /\ at[c] = "replace" /\ file' = copy[c] /\ at' = [at EXCEPT ![c] = "done"]
        /\ UNCHANGED <<update, copy, mutex, flock>>
      BY <1>7 DEF Replace, Go, locks
  <2> QED BY <2>1, <2>2, <1>t, <1>i
          DEF Inv, StoreTypeOK, LockTypeOK, Asked, Alone, Fresh, Inside, Label
<1>8. ASSUME NEW c \in Callers, WriteFails(c) PROVE Inv'
  <2>1. \A d \in Callers : d # c => at[d] \notin Inside
      BY <1>8, <1>i DEF WriteFails, Alone, Inside
  <2> QED BY <1>8, <2>1, <1>t, <1>i
          DEF WriteFails, Unlock, Go, Inv, StoreTypeOK, LockTypeOK, Asked, Alone, Fresh, Inside, Label
<1>9. ASSUME NEW c \in Callers, Return(c) PROVE Inv'
  <2>1. at[c] = "done" => \A d \in Callers : d # c => at[d] \notin Inside
      BY <1>i DEF Alone, Inside
  <2>2. Empty \in Books
      BY DEF Empty, Books
  <2>3. /\ at[c] \in {"done", "failed"} /\ at' = [at EXCEPT ![c] = "idle"]
        /\ update' = [update EXCEPT ![c] = NoUpdate] /\ copy' = [copy EXCEPT ![c] = Empty]
        /\ file' = file
        /\ mutex' \in [Procs -> Callers \cup {Nobody}]
        /\ flock' = IF at[c] = "done" THEN Nobody ELSE flock
      BY <1>9, <1>t DEF Return, Unlock, Go, locks
  <2> QED BY <2>1, <2>2, <2>3, <1>t, <1>i
          DEF Inv, StoreTypeOK, LockTypeOK, Asked, Alone, Fresh, Inside, Label
<1>10. ASSUME NEW r \in Procs, Killed(r) PROVE Inv'
  <2>1. Empty \in Books
      BY DEF Empty, Books
  <2>2. StoreTypeOK'
      BY <1>10, <2>1, <1>t DEF Killed, ProcessDies, StoreTypeOK, LockTypeOK, Label
  <2>3. ASSUME NEW d \in Callers PROVE Asked(d)' /\ Alone(d)' /\ Fresh(d)'
    <3>1. CASE ProcOf[d] = r
        BY <3>1, <1>10 DEF Killed, Asked, Alone, Fresh, Inside
    <3>2. CASE ProcOf[d] # r
      <4>1. at'[d] = at[d] /\ update'[d] = update[d] /\ copy'[d] = copy[d] /\ file' = file
          BY <3>2, <1>10 DEF Killed
      <4>2. at[d] \in Inside => flock' = d
          BY <3>2, <1>10, <1>i DEF Killed, ProcessDies, Alone
      <4> QED BY <4>1, <4>2, <1>i DEF Asked, Alone, Fresh
    <3> QED BY <3>1, <3>2
  <2> QED BY <2>2, <2>3 DEF Inv
<1>11. CASE UNCHANGED storeVars
    BY <1>11, <1>t, <1>i DEF storeVars, store, locks, Inv, StoreTypeOK, LockTypeOK, Asked, Alone, Fresh, Inside
<1> QED BY <1>1, <1>2, <1>3, <1>4, <1>5, <1>6, <1>7, <1>8, <1>9, <1>10, <1>11 DEF StoreNext, Step

(* Type correctness of the TTL store: its file always parses.              *)
THEOREM StoreTypeCorrect == StoreSpec => []StoreTypeOK
<1>1. Inv => StoreTypeOK
    BY DEF Inv
<1> QED BY <1>1, InvInit, InvNext, PTL DEF StoreSpec

-----------------------------------------------------------------------------
Shown == [c \in Callers |-> Stage(c)]

(* A call that moves to another place shows another stage, and no other    *)
(* call does.                                                              *)
LEMMA StageMoves ==
  ASSUME at \in [Callers -> Label], NEW c \in Callers, NEW l \in Label,
         at' = [at EXCEPT ![c] = l]
  PROVE  Shown' = [Shown EXCEPT ![c] = IF l \in {"idle", "done", "failed"} THEN l ELSE "asked"]
<1>1. ASSUME NEW d \in Callers
      PROVE  Shown'[d] = IF d = c THEN IF l \in {"idle", "done", "failed"} THEN l ELSE "asked"
                                  ELSE Shown[d]
    BY DEF Shown, Stage, Label
<1> QED BY <1>1 DEF Shown

(* The first states of the store are first states of the book.             *)
LEMMA BookInit == StoreInit => Atomic!Init
  BY DEF StoreInit, Atomic!Init, Atomic!Books, Books, Stage

(* Every step of the store is a step of the book, or no step.              *)
LEMMA BookNext ==
  ASSUME ~ReadsCanFail
  PROVE  Inv /\ [StoreNext]_storeVars => [Atomic!Next]_(Atomic!vars)
<1> USE LockAssumption, StoreAssumption
<1> SUFFICES ASSUME Inv, [StoreNext]_storeVars PROVE [Atomic!Next]_(Atomic!vars)
    OBVIOUS
<1>t. /\ at \in [Callers -> Label] /\ update \in [Callers -> Updates \cup {NoUpdate}]
      /\ copy \in [Callers -> Books] /\ file \in Books
    BY DEF Inv, StoreTypeOK
<1>i. \A c \in Callers : Asked(c) /\ Alone(c) /\ Fresh(c)
    BY DEF Inv
<1>s. Shown = [c \in Callers |-> Stage(c)]
    BY DEF Shown
<1>u. Updates = Atomic!Updates
    BY DEF Updates, Atomic!Updates
\* A step that moves a call between two places of one stage.
<1>q. ASSUME NEW c \in Callers, NEW l \in Label \ {"idle", "done", "failed"},
             at[c] \notin {"idle", "done", "failed"},
             at' = [at EXCEPT ![c] = l], UNCHANGED <<file, update>>
      PROVE  UNCHANGED Atomic!vars
  <2>1. Shown' = [Shown EXCEPT ![c] = "asked"]
      BY <1>q, <1>t, StageMoves
  <2>2. Shown[c] = "asked"
      BY <1>q, <1>t DEF Shown, Stage, Label
  <2>3. Shown' = Shown
      BY <2>1, <2>2 DEF Shown
  <2> QED BY <2>3, <1>q DEF Atomic!vars, Shown
<1>1. ASSUME NEW c \in Callers, NEW w \in Updates, Ask(c, w) PROVE Atomic!Next
  <2>1. Shown' = [Shown EXCEPT ![c] = "asked"] /\ Shown[c] = "idle"
      BY <1>1, <1>t, StageMoves DEF Ask, Go, Label, Shown, Stage
  <2>2. Atomic!Ask(c, w)
      BY <2>1, <1>1 DEF Ask, Atomic!Ask, Shown
  <2> QED BY <2>2, <1>u DEF Atomic!Next
<1>2. ASSUME NEW c \in Callers, EnterProcess(c) PROVE UNCHANGED Atomic!vars
    BY <1>2, <1>q DEF EnterProcess, Go, Label
<1>3. ASSUME NEW c \in Callers, EnterFile(c) PROVE UNCHANGED Atomic!vars
    BY <1>3, <1>q DEF EnterFile, Go, Label
<1>4. ASSUME NEW c \in Callers, LockFails(c) PROVE Atomic!Next
  <2>1. Shown' = [Shown EXCEPT ![c] = "failed"] /\ Shown[c] = "asked"
      BY <1>4, <1>t, StageMoves DEF LockFails, Go, Label, Shown, Stage
  <2>2. Atomic!Fail(c)
      BY <2>1, <1>4 DEF LockFails, Atomic!Fail, Shown
  <2> QED BY <2>2 DEF Atomic!Next
<1>5. ASSUME NEW c \in Callers, Load(c) PROVE [Atomic!Next]_(Atomic!vars)
  <2>1. /\ update[c] \in Updates
        /\ Go(c, IF update[c].entry = NoTtl /\ file[update[c].name] = NoTtl
                 THEN "done" ELSE "write")
      BY <1>5, <1>t, <1>i, LoadedIsFile DEF Load, Asked
  <2>2. CASE update[c].entry = NoTtl /\ file[update[c].name] = NoTtl
    <3>1. Updated(file, update[c]) = file
        BY <2>1, <2>2, <1>t, NothingToRemove
    <3>2. Shown' = [Shown EXCEPT ![c] = "done"] /\ Shown[c] = "asked"
        BY <1>5, <2>1, <2>2, <1>t, StageMoves DEF Load, Go, Label, Shown, Stage
    <3>3. Atomic!Perform(c)
        BY <3>1, <3>2, <1>5 DEF Load, Atomic!Perform, Atomic!Updated, Updated, Shown
    <3> QED BY <3>3 DEF Atomic!Next
  <2>3. CASE ~(update[c].entry = NoTtl /\ file[update[c].name] = NoTtl)
      BY <1>5, <2>1, <2>3, <1>q DEF Load, Go, Label
  <2> QED BY <2>2, <2>3
<1>6. ASSUME NEW c \in Callers, WriteTemp(c) PROVE UNCHANGED Atomic!vars
    BY <1>6, <1>q DEF WriteTemp, Go, Label
<1>7. ASSUME NEW c \in Callers, Replace(c) PROVE Atomic!Next
  <2>1. Shown' = [Shown EXCEPT ![c] = "done"] /\ Shown[c] = "asked"
      BY <1>7, <1>t, StageMoves DEF Replace, Go, Label, Shown, Stage
  <2>2. file' = Updated(file, update[c])
      BY <1>7, <1>i DEF Replace, Fresh
  <2>3. Atomic!Perform(c)
      BY <2>1, <2>2, <1>7 DEF Replace, Atomic!Perform, Atomic!Updated, Updated, Shown
  <2> QED BY <2>3 DEF Atomic!Next
<1>8. ASSUME NEW c \in Callers, WriteFails(c) PROVE Atomic!Next
  <2>1. Shown' = [Shown EXCEPT ![c] = "failed"] /\ Shown[c] = "asked"
      BY <1>8, <1>t, StageMoves DEF WriteFails, Go, Label, Shown, Stage
  <2>2. Atomic!Fail(c)
      BY <2>1, <1>8 DEF WriteFails, Atomic!Fail, Shown
  <2> QED BY <2>2 DEF Atomic!Next
<1>9. ASSUME NEW c \in Callers, Return(c) PROVE Atomic!Next
  <2>1. Shown' = [Shown EXCEPT ![c] = "idle"] /\ Shown[c] \in {"done", "failed"}
      BY <1>9, <1>t, StageMoves DEF Return, Go, Label, Shown, Stage
  <2>2. Atomic!Return(c)
      BY <2>1, <1>9 DEF Return, Atomic!Return, Shown
  <2> QED BY <2>2 DEF Atomic!Next
<1>10. ASSUME NEW r \in Procs, Killed(r) PROVE Atomic!Next
  <2> DEFINE S == {c \in Callers : ProcOf[c] = r}
  <2>1. ASSUME NEW c \in Callers PROVE Shown'[c] = IF c \in S THEN "idle" ELSE Shown[c]
      BY <1>10, <1>t DEF Killed, Shown, Stage
  <2>2. Shown' = [c \in Callers |-> IF c \in S THEN "idle" ELSE Shown[c]]
      BY <2>1 DEF Shown
  <2>3. update' = [c \in Callers |-> IF c \in S THEN NoUpdate ELSE update[c]] /\ file' = file
      BY <1>10 DEF Killed
  <2>4. Atomic!Die(S)
      BY <2>2, <2>3 DEF Atomic!Die, Shown
  <2> QED BY <2>4 DEF Atomic!Next
<1>11. CASE UNCHANGED storeVars
    BY <1>11 DEF storeVars, store, Atomic!vars, Stage
<1> QED BY <1>1, <1>2, <1>3, <1>4, <1>5, <1>6, <1>7, <1>8, <1>9, <1>10, <1>11 DEF StoreNext, Step

(* The TTL store implements the book of atomic updates: however many       *)
(* threads and processes call set_ttl, cancel_ttl and remove_entry, and    *)
(* whichever of them die, none drops what another wrote, as long as the    *)
(* file can be read.  (_store_locked)                                      *)
THEOREM StoreImplementsBook ==
  ASSUME ~ReadsCanFail
  PROVE  StoreSpec => ImplementsBook
<1>1. StoreSpec => []Inv
    BY InvInit, InvNext, PTL DEF StoreSpec
<1> QED BY <1>1, BookInit, BookNext, PTL DEF StoreSpec, ImplementsBook, Atomic!Spec

(* While the file can be read, an entry leaves the store only by an update *)
(* of that entry: whoever removes or sets one VM's TTL does not write      *)
(* another's away.  (cancel_ttl, remove_entry, set_ttl)                    *)
THEOREM EntriesOfOthersAreKept ==
  ASSUME ~ReadsCanFail
  PROVE  StoreSpec => OthersAreKept
<1> DEFINE ByItsUpdate ==
      \A n \in VmNames : file[n] # NoTtl /\ file'[n] = NoTtl
        => \E c \in Callers : update[c] = [name |-> n, entry |-> NoTtl]
<1>1. StoreSpec => []Inv
    BY InvInit, InvNext, PTL DEF StoreSpec
<1>2. Inv /\ [StoreNext]_storeVars => [ByItsUpdate]_file
  <2> SUFFICES ASSUME Inv, [StoreNext]_storeVars, file' # file,
                      NEW n \in VmNames, file[n] # NoTtl, file'[n] = NoTtl
               PROVE  \E c \in Callers : update[c] = [name |-> n, entry |-> NoTtl]
      OBVIOUS
  <2>1. PICK c \in Callers : Replace(c)
      BY DEF StoreNext, Step, storeVars, Ask, EnterProcess, EnterFile, LockFails,
         Load, WriteTemp, WriteFails, Return, Killed
  <2>2. file' = Updated(file, update[c]) /\ update[c] \in Updates /\ file \in Books
      BY <2>1 DEF Replace, Inv, StoreTypeOK, Fresh, Asked
  <2>3. update[c].name = n
      BY <2>2 DEF Updated, Books
  <2>4. update[c].entry = NoTtl
      BY <2>2, <2>3 DEF Updated, Books
  <2>5. update[c] = [name |-> n, entry |-> NoTtl]
      BY <2>2, <2>3, <2>4 DEF Updates
  <2> QED BY <2>5
<1> QED BY <1>1, <1>2, PTL DEF StoreSpec, OthersAreKept
=============================================================================
